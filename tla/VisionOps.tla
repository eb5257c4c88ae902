------------------------------ MODULE VisionOps ------------------------------
(***************************************************************************)
(* ops/vision.rs: sampling at positions, pools of regions, the inverses of *)
(* a pool and of a column layout, and NonMaxSuppression, which is computed *)
(* on the host.  A fractional position is an integer in a unit named where *)
(* it is used, and a weighted sum counts in that unit.                     *)
(***************************************************************************)
EXTENDS Nodes

\* round_away: of v / q, halves away from zero.
RoundAway(v, q) == IF v < 0 THEN -((2 * (-v) + q) \div (2 * q)) ELSE (2 * v + q) \div (2 * q)

\* in_range_mask.
InRange(v, lo, hi) == IF lo <= v /\ v <= hi THEN 1 ELSE 0

\* An element of a plane, its coordinates clamped to it and folded into a flat index.
Gathered(x, b, c, row, col) ==
  LET h == x.shape[3]
      w == x.shape[4]
  IN x.data[1 + (b * x.shape[2] + c) * h * w + Clamp(row, 0, h - 1) * w + Clamp(col, 0, w - 1)]

-----------------------------------------------------------------------------
(* GridSample.  A grid is in halves, a position in quarters.                  *)

\* Mutant: a position beyond the plane is only looked for along the columns.
GsSampleColumns(x, b, c, row, col, zeros) ==
  Gathered(x, b, c, row, col) * (IF zeros THEN InRange(col, 0, x.shape[4] - 1) ELSE 1)

GsSample(x, b, c, row, col, zeros) ==
  Gathered(x, b, c, row, col)
  * (IF zeros THEN InRange(col, 0, x.shape[4] - 1) * InRange(row, 0, x.shape[3] - 1) ELSE 1)

GridSampleOp(n) ==
  LET x == In(n, 1)
      area == SubSeq(n.ins[2].shape, 2, 3)
      grid == Reshape(In(n, 2), <<x.shape[1], Prod(area), 2>>)
      align == Attr(n, "align_corners", 0) # 0
      zeros == Attr(n, "padding_mode", "zeros") = "zeros"
      extent(i) == x.shape[5 - i]
      at(b, p, i) == At(grid, <<b, p, i - 1>>) * (IF align THEN extent(i) - 1 ELSE extent(i)) + 2 * (extent(i) - 1)
      nearest(b, c, p) == GsSample(x, b, c, RoundEven(at(b, p, 2), 4), RoundEven(at(b, p, 1), 4), zeros)
      linear(b, c, p) ==
        LET low == [i \in 1..2 |-> at(b, p, i) \div 4]
            high == [i \in 1..2 |-> at(b, p, i) - 4 * low[i]]
            corner(i, j) == (IF i = 1 THEN high[1] ELSE 4 - high[1]) * (IF j = 1 THEN high[2] ELSE 4 - high[2])
                            * GsSample(x, b, c, low[2] + j, low[1] + i, zeros)
        IN corner(0, 0) + corner(1, 0) + corner(0, 1) + corner(1, 1)
      flat == Tensor(<<x.shape[1], x.shape[2], Prod(area)>>, LAMBDA idx :
                IF Attr(n, "mode", "linear") = "nearest" THEN nearest(idx[1], idx[2], idx[3])
                ELSE linear(idx[1], idx[2], idx[3]))
  IN <<Reshape(flat, SubSeq(x.shape, 1, 2) \o area)>>

GridSampleClaim(n) ==
  LET x == n.ins[1]
      g == n.ins[2]
  IN /\ Arity(n, {2}, 1)
     /\ x.dtype \in Floats /\ n.outs[1].dtype = x.dtype /\ g.dtype \in Floats
     /\ Len(x.info) = 4 /\ Len(g.info) = 4 /\ g.info[4] = 2
     /\ Static(x.info) /\ Static(g.info)
     /\ Attr(n, "mode", "linear") \in {"linear", "bilinear", "nearest"}
     /\ Attr(n, "padding_mode", "zeros") \in {"zeros", "border"}

-----------------------------------------------------------------------------
(* AffineGrid.  Coordinate i of l, from -1 to 1, as a rational.               *)

GridCoord(i, l, align) ==
  IF ~align THEN <<2 * i + 1 - l, l>> ELSE IF l <= 1 THEN <<-1, 1>> ELSE <<2 * i - (l - 1), l - 1>>

\* The base [1, H * W, 3] over the common denominator of the two axes, by theta.
AffineGridOp(n) ==
  LET size == ReadInts(n, 2)
      align == Attr(n, "align_corners", 0) # 0
      h == size[3]
      w == size[4]
      base == Tensor(<<h * w, 3>>, LAMBDA idx :
                LET y == GridCoord(idx[1] \div w, h, align)
                    x == GridCoord(idx[1] % w, w, align)
                IN CASE idx[2] = 0 -> x[1] * y[2]
                     [] idx[2] = 1 -> y[1] * x[2]
                     [] OTHER -> x[2] * y[2])
      theta == Transpose(In(n, 1), <<1, 3, 2>>)
      grid(b) == MatMul(base, Reshape(Cut(theta, 1, b - 1, b), <<3, 2>>))
  IN <<Reshape(Stack([b \in 1..size[1] |-> grid(b)], 1), <<size[1], h, w, 2>>)>>

AffineGridClaim(n) ==
  LET t == n.ins[1]
      size == ReadInts(n, 2)
  IN /\ Arity(n, {2}, 1)
     /\ t.dtype \in Floats /\ n.outs[1].dtype \in Floats
     /\ IsConstIntTensor(n, 2) /\ Len(size) = 4
     /\ Len(t.info) = 3 /\ t.info[2] = 2 /\ t.info[3] = 3 /\ Static(t.info)
     /\ \A d \in 1..4 : size[d] >= 1

-----------------------------------------------------------------------------
(* Col2Im: the map from the columns to the image is computed on the host.     *)

Col2ImOp(n) ==
  LET input == In(n, 1)
      image == ReadInts(n, 2)
      block == ReadInts(n, 3)
      r == Len(image)
      dilation == Attr(n, "dilations", Repeated(1, r))
      stride == Attr(n, "strides", Repeated(1, r))
      pads == Attr(n, "pads", Repeated(0, 2 * r))
      k == Prod(block)
      l == input.shape[3]
      c == input.shape[2] \div k
      positions == [d \in 1..r |-> (image[d] + pads[d] + pads[r + d] - dilation[d] * (block[d] - 1) - 1) \div stride[d] + 1]
      target(col) ==
        LET kc == Coord(block, col \div l)
            lc == Coord(positions, col % l)
        IN [d \in 1..r |-> lc[d] * stride[d] + kc[d] * dilation[d] - pads[d]]
      kept == {col \in 0..(k * l - 1) : \A d \in 1..r : target(col)[d] \in 0..(image[d] - 1)}
      spatial == [col \in kept |-> Place(image, target(col))]
      columns == Reshape(input, <<input.shape[1], c, k * l>>)
      added(b, ch, s) == FoldSet(LAMBDA col, sum : sum + At(columns, <<b, ch, col>>), 0,
                                 {col \in kept : spatial[col] = s})
      flat == Tensor(<<input.shape[1], c, Prod(image)>>, LAMBDA idx : added(idx[1], idx[2], idx[3]))
  IN <<Reshape(flat, <<input.shape[1], c>> \o image)>>

Col2ImClaim(n) ==
  LET i == n.ins[1]
      image == ReadInts(n, 2)
      block == ReadInts(n, 3)
      r == Len(image)
      Sized(name, want) == name \in DOMAIN n.attrs => Len(n.attrs[name]) = want
  IN /\ Arity(n, {3}, 1)
     /\ i.dtype \in Floats /\ n.outs[1].dtype = i.dtype
     /\ Len(i.info) = 3 /\ Static(i.info)
     /\ IsConstIntTensor(n, 2) /\ IsConstIntTensor(n, 3)
     /\ r \in 1..3 /\ Len(block) = r
     /\ \A d \in 1..r : image[d] >= 1 /\ block[d] >= 1
     /\ i.info[2] % Prod(block) = 0 /\ i.info[2] >= Prod(block)
     /\ Sized("dilations", r) /\ Sized("strides", r) /\ Sized("pads", 2 * r)

-----------------------------------------------------------------------------
(* RoiAlign.  A position along an axis is in units of 1 / (2 * out * ratio).  *)

\* Sample s of bin p on an axis: its position, from a region's two ends.
RoiPosition(from, till, out, ratio, p, s, halfPixel) ==
  LET size == IF halfPixel THEN till - from ELSE Larger(till - from, 1)
      start == out * ratio * (2 * from - (IF halfPixel THEN 1 ELSE 0))
  IN start + (2 * ratio * p + 2 * s + 1) * size

RoiAlignOp(n) ==
  LET x == In(n, 1)
      rois == In(n, 2)
      out == <<Attr(n, "output_height", 1), Attr(n, "output_width", 1)>>
      ratio == Attr(n, "sampling_ratio", 0)
      scale == Attr(n, "spatial_scale", 1)
      half == Attr(n, "coordinate_transformation_mode", "half_pixel") = "half_pixel"
      unit == [i \in 1..2 |-> 2 * out[i] * ratio]
      \* a row of rois is x1, y1, x2, y2
      at(r, i, p, s) ==
        RoiPosition(At(rois, <<r, 2 - i>>) * scale, At(rois, <<r, 4 - i>>) * scale, out[i], ratio, p, s, half)
      corners(idx, s) ==
        LET pos == [i \in 1..2 |-> at(idx[1], i, idx[i + 2], s[i])]
            last == [i \in 1..2 |-> x.shape[i + 2] - 1]
            valid == InRange(pos[1], -unit[1], x.shape[3] * unit[1]) * InRange(pos[2], -unit[2], x.shape[4] * unit[2])
            clipped == [i \in 1..2 |-> Clamp(pos[i], 0, last[i] * unit[i])]
            low == [i \in 1..2 |-> clipped[i] \div unit[i]]
            frac == [i \in 1..2 |-> clipped[i] - low[i] * unit[i]]
            weight(i, up) == IF up = 1 THEN frac[i] ELSE unit[i] - frac[i]
        IN [k \in 1..4 |->
              LET up == <<(k - 1) \div 2, (k - 1) % 2>>
              IN valid * weight(1, up[1]) * weight(2, up[2])
                 * Gathered(x, In(n, 3).data[idx[1] + 1], idx[2], low[1] + up[1], low[2] + up[2])]
      samples(idx) == [k \in 1..(ratio * ratio) |-> corners(idx, <<(k - 1) \div ratio, (k - 1) % ratio>>)]
      pooled(idx) == IF Attr(n, "mode", "avg") = "max" THEN Max(UNION {ToSet(c) : c \in ToSet(samples(idx))})
                     ELSE Quotient(Total([k \in DOMAIN samples(idx) |-> Total(samples(idx)[k])]), ratio * ratio)
  IN <<Tensor(<<rois.shape[1], x.shape[2]>> \o out, pooled)>>

RoiAlignClaim(n) ==
  LET x == n.ins[1]
      r == n.ins[2]
      b == n.ins[3]
  IN /\ Arity(n, {3}, 1)
     /\ x.dtype \in Floats /\ n.outs[1].dtype = x.dtype /\ r.dtype \in Floats /\ IsIntIndex(b.dtype)
     /\ Len(x.info) = 4 /\ Static(x.info)
     /\ Len(r.info) = 2 /\ r.info[2] = 4 /\ Static(r.info)
     /\ Len(b.info) = 1 /\ Static(b.info)
     /\ Attr(n, "sampling_ratio", 0) > 0
     /\ Attr(n, "mode", "avg") \in {"avg", "max"}
     /\ Attr(n, "coordinate_transformation_mode", "half_pixel") \in {"half_pixel", "output_half_pixel"}

-----------------------------------------------------------------------------
(* MaxRoiPool.  A region is in halves, and is rounded.                        *)

\* Less than every element.
NegLimit == -1000000

\* The window of bin p over a region that starts there, clamped to the plane.
RoiBounds(p, size, bins, start, limit) ==
  <<Clamp((p * size) \div bins + start, 0, limit), Clamp(CeilDiv((p + 1) * size, bins) + start, 0, limit)>>

\* The maximum over the rows of a window, then over its columns; of none, zero.
MaxRoiPoolOp(n) ==
  LET x == In(n, 1)
      rois == In(n, 2)
      bins == n.attrs.pooled_shape
      scale == Attr(n, "spatial_scale", 1)
      end(r, col) == RoundAway(At(rois, <<r, col>>) * scale, 2)
      \* a row of rois is batch, x1, y1, x2, y2
      bounds(r, i, p) ==
        RoiBounds(p, Larger(end(r, 5 - i) - end(r, 3 - i) + 1, 1), bins[i], end(r, 3 - i), x.shape[i + 2])
      within(v, window) == window[1] <= v /\ v < window[2]
      batch(r) == At(rois, <<r, 0>>) \div 2
      pooled(idx) ==
        LET rows == bounds(idx[1], 1, idx[3])
            cols == bounds(idx[1], 2, idx[4])
            overRows(col) == Max({IF within(row, rows) THEN At(x, <<batch(idx[1]), idx[2], row, col>>) ELSE NegLimit :
                                    row \in 0..(x.shape[3] - 1)})
        IN IF rows[2] <= rows[1] \/ cols[2] <= cols[1] THEN 0
           ELSE Max({IF within(col, cols) THEN overRows(col) ELSE NegLimit : col \in 0..(x.shape[4] - 1)})
  IN <<Tensor(<<rois.shape[1], x.shape[2]>> \o bins, pooled)>>

MaxRoiPoolClaim(n) ==
  LET x == n.ins[1]
      r == n.ins[2]
      bins == Attr(n, "pooled_shape", <<>>)
  IN /\ Arity(n, {2}, 1)
     /\ x.dtype \in Floats /\ n.outs[1].dtype = x.dtype /\ r.dtype \in Floats
     /\ Len(x.info) = 4 /\ Static(x.info)
     /\ Len(r.info) = 2 /\ r.info[2] = 5 /\ Static(r.info)
     /\ Len(bins) = 2 /\ \A d \in 1..2 : bins[d] >= 1

-----------------------------------------------------------------------------
\* The elements are added at their indices in the flattened output.
MaxUnpoolOp(n) ==
  LET x == In(n, 1)
      r == Rank(x) - 2
      kernel == n.attrs.kernel_shape
      strides == Attr(n, "strides", Repeated(1, r))
      pads == Attr(n, "pads", Repeated(0, 2 * r))
      shape == SubSeq(x.shape, 1, 2)
               \o [d \in 1..r |-> (x.shape[d + 2] - 1) * strides[d] - (pads[d] + pads[r + d]) + kernel[d]]
      added(idx) == FoldSet(LAMBDA j, sum : sum + x.data[j], 0,
                            {j \in DOMAIN x.data : In(n, 2).data[j] = Place(shape, idx)})
  IN <<Tensor(shape, added)>>

MaxUnpoolClaim(n) ==
  LET x == n.ins[1]
      r == Len(x.info) - 2
      Sized(name, want) == name \in DOMAIN n.attrs => Len(n.attrs[name]) = want
  IN /\ Arity(n, {2}, 1)
     /\ x.dtype \in Floats /\ n.outs[1].dtype = x.dtype /\ IsIntIndex(n.ins[2].dtype)
     /\ Len(x.info) \in 3..5 /\ Static(x.info)
     /\ n.ins[2].info = x.info
     /\ "kernel_shape" \in DOMAIN n.attrs /\ Sized("kernel_shape", r)
     /\ Sized("strides", r) /\ Sized("pads", 2 * r)

-----------------------------------------------------------------------------
(* NonMaxSuppression.  Boxes are doubled, so that half a side is whole.       *)

NmsBox(raw, center) ==
  IF center
  THEN [y1 |-> 2 * raw[2] - raw[4], x1 |-> 2 * raw[1] - raw[3], y2 |-> 2 * raw[2] + raw[4], x2 |-> 2 * raw[1] + raw[3]]
  ELSE [y1 |-> 2 * Smaller(raw[1], raw[3]), x1 |-> 2 * Smaller(raw[2], raw[4]),
        y2 |-> 2 * Larger(raw[1], raw[3]), x2 |-> 2 * Larger(raw[2], raw[4])]

\* The share of two boxes that is common to them, as a rational <<numerator, denominator>>;
\* a threshold is one too.
NmsIou(a, b) ==
  LET side(lo1, hi1, lo2, hi2) == Larger(Smaller(hi1, hi2) - Larger(lo1, lo2), 0)
      area(box) == Larger(box.y2 - box.y1, 0) * Larger(box.x2 - box.x1, 0)
      intersection == side(a.y1, a.y2, b.y1, b.y2) * side(a.x1, a.x2, b.x1, b.x2)
      union == area(a) + area(b) - intersection
  IN IF union <= 0 THEN <<0, 1>> ELSE <<intersection, union>>

\* Mutant: the limit is compared before the candidate is kept.
NmsKeepBefore(candidates, overlapping, limit) ==
  FoldLeft(LAMBDA kept, c :
             IF Len(kept) > limit \/ \E i \in DOMAIN kept : <<c, kept[i]>> \in overlapping THEN kept ELSE Append(kept, c),
           <<>>, candidates)

\* Candidates in order: one that overlaps none kept is kept, until there are enough.
NmsKeep(candidates, overlapping, limit) ==
  FoldLeft(LAMBDA kept, c :
             IF Len(kept) = limit \/ \E i \in DOMAIN kept : <<c, kept[i]>> \in overlapping THEN kept ELSE Append(kept, c),
           <<>>, candidates)

\* Per batch and class, by score and then by index; no limit given is none kept.
NonMaxSuppressionOp(n) ==
  LET boxes == In(n, 1)
      scores == In(n, 2)
      optional(i, default) == IF Present(n, i) THEN ReadInts(n, i)[1] ELSE default
      limit == Larger(optional(3, 0), 0)
      iou == IF Present(n, 4) THEN ReadInts(n, 4) ELSE <<0, 1>>
      score(b, c, i) == At(scores, <<b, c, i>>)
      box(b, i) == NmsBox([k \in 1..4 |-> At(boxes, <<b, i, k - 1>>)], Attr(n, "center_point_box", 0) # 0)
      items == 0..(boxes.shape[2] - 1)
      overlap(b) == {p \in items \X items : LET share == NmsIou(box(b, p[1]), box(b, p[2]))
                                            IN share[1] * iou[2] > iou[1] * share[2]}
      candidates(b, c) ==
        SortSeq(SelectSeq([i \in 1..boxes.shape[2] |-> i - 1],
                          LAMBDA i : Present(n, 5) => score(b, c, i) > ReadInts(n, 5)[1]),
                LAMBDA i, j : score(b, c, i) > score(b, c, j) \/ (score(b, c, i) = score(b, c, j) /\ i < j))
      kept(b, c) == IF limit = 0 THEN <<>> ELSE NmsKeep(candidates(b, c), overlap(b), limit)
      classes == scores.shape[2]
      rows == FlattenSeq([k \in 1..(boxes.shape[1] * classes) |->
                LET b == (k - 1) \div classes
                    c == (k - 1) % classes
                IN [i \in DOMAIN kept(b, c) |-> <<b, c, kept(b, c)[i]>>]])
  IN <<[shape |-> <<Len(rows), 3>>, data |-> FlattenSeq(rows)]>>

NonMaxSuppressionClaim(n) ==
  LET boxes == n.ins[1]
      scores == n.ins[2]
      Scalars(i, dtype) == Present(n, i) => n.ins[i].dtype = dtype /\ n.ins[i].info = <<>>
  IN /\ Arity(n, 2..5, 1)
     /\ boxes.dtype = "fp32" /\ scores.dtype = "fp32"
     /\ Len(boxes.info) = 3 /\ boxes.info[3] = 4 /\ boxes.info[1] > 0 /\ boxes.info[2] >= 0
     /\ Len(scores.info) = 3 /\ scores.info[1] = boxes.info[1] /\ scores.info[3] = boxes.info[2]
     /\ scores.info[2] >= 0
     /\ n.outs[1].dtype = "int64"
     /\ Scalars(3, "int64") /\ Scalars(4, "fp32") /\ Scalars(5, "fp32")
     /\ Attr(n, "center_point_box", 0) \in 0..1

=============================================================================
