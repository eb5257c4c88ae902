---------------------------- MODULE VisionMeaning ----------------------------
(***************************************************************************)
(* What ONNX, and where it is silent ORT's CPU kernels, say of the         *)
(* operators of VisionOps, in the same units.                              *)
(***************************************************************************)
EXTENDS Nodes

AbsValue(v) == IF v < 0 THEN -v ELSE v

\* How near, in units, a whole position is to one in units: zero from one apart on.
Near(whole, v, unit) == Larger(0, unit - AbsValue(whole * unit - v))

\* The element where an index is inside of the plane, zero elsewhere.
OnPlane(x, b, c, row, col) ==
  IF row \in 0..(x.shape[3] - 1) /\ col \in 0..(x.shape[4] - 1) THEN At(x, <<b, c, row, col>>) ELSE 0

\* The weighted elements around a position.
Interpolated(x, b, c, row, col, unitRow, unitCol) ==
  FoldSet(LAMBDA at, sum : sum + Near(at[1], row, unitRow) * Near(at[2], col, unitCol) * OnPlane(x, b, c, at[1], at[2]),
          0, (0..(x.shape[3] - 1)) \X (0..(x.shape[4] - 1)))

\* -1 and 1 are the centres of the corner elements, or their outer edges.  The border
\* stands for whatever is beyond it.
GridSampleMeaning(n) ==
  LET x == In(n, 1)
      area == SubSeq(n.ins[2].shape, 2, 3)
      extent == <<x.shape[4], x.shape[3]>>
      real(idx, i) ==
        LET g == At(In(n, 2), <<idx[1], idx[3], idx[4], i - 1>>) + 2
        IN IF Attr(n, "align_corners", 0) = 1 THEN g * (extent[i] - 1) ELSE g * extent[i] - 2
      at(idx, i) == IF Attr(n, "padding_mode", "zeros") = "border" THEN Clamp(real(idx, i), 0, 4 * (extent[i] - 1))
                    ELSE real(idx, i)
      whole(v) == CHOOSE k \in (v \div 4)..(v \div 4 + 1) :
                    AbsValue(4 * k - v) < 2 \/ (AbsValue(4 * k - v) = 2 /\ k % 2 = 0)
  IN <<Tensor(SubSeq(x.shape, 1, 2) \o area, LAMBDA idx :
         IF Attr(n, "mode", "linear") = "nearest" THEN OnPlane(x, idx[1], idx[2], whole(at(idx, 2)), whole(at(idx, 1)))
         ELSE Interpolated(x, idx[1], idx[2], at(idx, 2), at(idx, 1), 4, 4))>>

\* The centres of l equal cells from -1 to 1, or l points from -1 to 1 themselves.
AffineGridMeaning(n) ==
  LET size == ReadInts(n, 2)
      align == Attr(n, "align_corners", 0) = 1
      parts(l) == IF align THEN Larger(l - 1, 1) ELSE l
      along(i, l) == IF align THEN 2 * i - parts(l) ELSE 2 * i - l + 1
      value(idx) ==
        LET theta(k) == At(In(n, 1), <<idx[1], idx[4], k>>)
        IN theta(0) * along(idx[3], size[4]) * parts(size[3]) + theta(1) * along(idx[2], size[3]) * parts(size[4])
           + theta(2) * parts(size[3]) * parts(size[4])
  IN <<Tensor(<<size[1], size[3], size[4], 2>>, value)>>

\* An element of the image is the sum of the columns' elements that stand for it.
Col2ImMeaning(n) ==
  LET image == ReadInts(n, 2)
      block == ReadInts(n, 3)
      r == Len(image)
      s == Attr(n, "strides", [d \in 1..r |-> 1])
      dilation == Attr(n, "dilations", [d \in 1..r |-> 1])
      pads == Attr(n, "pads", [d \in 1..(2 * r) |-> 0])
      steps == [d \in 1..r |-> CeilDiv(image[d] + pads[d] + pads[d + r] - (block[d] - 1) * dilation[d], s[d])]
      c == n.ins[1].shape[2] \div Prod(block)
      columns == [In(n, 1) EXCEPT !.shape = <<@[1], c>> \o block \o steps]
      Stands(at, p) == \A d \in 1..r : at[d] * dilation[d] + at[r + d] * s[d] = p[d] + pads[d]
      value(idx) == FoldSet(LAMBDA k, sum :
                      LET at == Coord(block \o steps, k)
                      IN sum + (IF Stands(at, SubSeq(idx, 3, r + 2)) THEN At(columns, SubSeq(idx, 1, 2) \o at) ELSE 0),
                      0, 0..(Prod(block \o steps) - 1))
  IN <<Tensor(<<n.ins[1].shape[1], c>> \o image, value)>>

\* A bin is sampled at the centres of a grid; a position more than one beyond the plane
\* is zero, another is moved onto it.  The maximum is that of the weighted corners.
RoiAlignMeaning(n) ==
  LET x == In(n, 1)
      out == <<Attr(n, "output_height", 1), Attr(n, "output_width", 1)>>
      ratio == Attr(n, "sampling_ratio", 0)
      half == Attr(n, "coordinate_transformation_mode", "half_pixel") = "half_pixel"
      unit(i) == 2 * out[i] * ratio
      edge(r, k) == At(In(n, 2), <<r, k>>) * Attr(n, "spatial_scale", 1)
      first(r, i) == edge(r, 2 - i)
      size(r, i) == IF half THEN edge(r, 4 - i) - edge(r, 2 - i) ELSE Larger(1, edge(r, 4 - i) - edge(r, 2 - i))
      \* the centre of sample s of all the samples of the axis
      at(r, i, s) == unit(i) * first(r, i) - (IF half THEN unit(i) \div 2 ELSE 0) + (2 * s + 1) * size(r, i)
      Beyond(v, i) == v < -unit(i) \/ v > x.shape[i + 2] * unit(i)
      moved(v, i) == Clamp(v, 0, (x.shape[i + 2] - 1) * unit(i))
      terms(idx, row, col) ==
        LET v == at(idx[1], 1, row)
            w == at(idx[1], 2, col)
            b == In(n, 3).data[idx[1] + 1]
        IN IF Beyond(v, 1) \/ Beyond(w, 2) THEN {0}
           ELSE {Near(p, moved(v, 1), unit(1)) * Near(q, moved(w, 2), unit(2)) * OnPlane(x, b, idx[2], p, q) :
                   p \in {moved(v, 1) \div unit(1) + i : i \in 0..1}, q \in {moved(w, 2) \div unit(2) + i : i \in 0..1}}
      mean(idx, row, col) ==
        LET v == at(idx[1], 1, row)
            w == at(idx[1], 2, col)
        IN IF Beyond(v, 1) \/ Beyond(w, 2) THEN 0
           ELSE Interpolated(x, In(n, 3).data[idx[1] + 1], idx[2], moved(v, 1), moved(w, 2), unit(1), unit(2))
      bin(idx) == {<<idx[3] * ratio + i, idx[4] * ratio + j>> : i \in 0..(ratio - 1), j \in 0..(ratio - 1)}
  IN <<Tensor(<<n.ins[2].shape[1], x.shape[2]>> \o out, LAMBDA idx :
         IF Attr(n, "mode", "avg") = "max" THEN Max(UNION {terms(idx, s[1], s[2]) : s \in bin(idx)})
         ELSE Quotient(FoldSet(LAMBDA s, sum : sum + mean(idx, s[1], s[2]), 0, bin(idx)), ratio * ratio))>>

\* The rounded region, at least one element wide, cut into bins that cover it; the
\* maximum of the elements of the plane in a bin, zero where there is none.
MaxRoiPoolMeaning(n) ==
  LET x == In(n, 1)
      bins == n.attrs.pooled_shape
      rounded(v) == IF v >= 0 THEN (v + 1) \div 2 ELSE -((1 - v) \div 2)
      edge(r, k) == rounded(At(In(n, 2), <<r, k>>) * Attr(n, "spatial_scale", 1))
      size(r, i) == Larger(1, edge(r, 5 - i) - edge(r, 3 - i) + 1)
      \* bin p overlaps the cell at v, both counted from the start of the region
      Covers(r, i, p, v) == (v + 1) * bins[i] > p * size(r, i) /\ v * bins[i] < (p + 1) * size(r, i)
      cells(idx) == {at \in (0..(x.shape[3] - 1)) \X (0..(x.shape[4] - 1)) :
                       \A i \in 1..2 : Covers(idx[1], i, idx[i + 2], at[i] - edge(idx[1], 3 - i))}
      value(idx) == LET b == At(In(n, 2), <<idx[1], 0>>) \div 2
                    IN IF cells(idx) = {} THEN 0 ELSE Max({At(x, <<b, idx[2]>> \o at) : at \in cells(idx)})
  IN <<Tensor(<<n.ins[2].shape[1], x.shape[2]>> \o bins, value)>>

\* An element whose index is named takes the value there.
MaxUnpoolMeaning(n) ==
  LET x == In(n, 1)
      r == Len(x.shape) - 2
      s == Attr(n, "strides", [d \in 1..r |-> 1])
      pads == Attr(n, "pads", [d \in 1..(2 * r) |-> 0])
      extent(d) == IF d <= 2 THEN x.shape[d]
                   ELSE (x.shape[d] - 1) * s[d - 2] + n.attrs.kernel_shape[d - 2] - pads[d - 2] - pads[d - 2 + r]
      shape == [d \in 1..(r + 2) |-> extent(d)]
      naming(k) == {j \in DOMAIN x.data : In(n, 2).data[j] = k - 1}
  IN <<[shape |-> shape, data |-> [k \in 1..Prod(shape) |-> IF naming(k) = {} THEN 0 ELSE x.data[Max(naming(k))]]]>>

\* Of the boxes above the threshold, the one set in which each is there exactly if it
\* overlaps no better one of the set; then the best of them, up to the limit.
NonMaxSuppressionMeaning(n) ==
  LET boxes == In(n, 1)
      count == boxes.shape[2]
      limit == IF Present(n, 3) THEN ReadInts(n, 3)[1] ELSE 0
      share == IF Present(n, 4) THEN ReadInts(n, 4)[1] ELSE 0
      whole == IF Present(n, 4) THEN ReadInts(n, 4)[2] ELSE 1
      score(b, c, i) == At(In(n, 2), <<b, c, i>>)
      Better(b, c, i, j) == score(b, c, i) > score(b, c, j) \/ (score(b, c, i) = score(b, c, j) /\ i < j)
      v(b, i, k) == At(boxes, <<b, i, k>>)
      \* the two ends of a side, doubled
      ends(b, i, d) == IF Attr(n, "center_point_box", 0) = 1
                       THEN {2 * v(b, i, 1 - d) - v(b, i, 3 - d), 2 * v(b, i, 1 - d) + v(b, i, 3 - d)}
                       ELSE {2 * v(b, i, d), 2 * v(b, i, d + 2)}
      \* the unit cells of a box
      cells(b, i) == (Min(ends(b, i, 0))..(Max(ends(b, i, 0)) - 1))
                     \X (Min(ends(b, i, 1))..(Max(ends(b, i, 1)) - 1))
      Overlaps(b, i, j) == Cardinality(cells(b, i) \cap cells(b, j)) * whole
                           > share * Cardinality(cells(b, i) \cup cells(b, j))
      chosen(b, c) ==
        LET able == {i \in 0..(count - 1) : Present(n, 5) => score(b, c, i) > ReadInts(n, 5)[1]}
        IN CHOOSE set \in SUBSET able : \A i \in able :
             i \in set <=> ~\E j \in set : Better(b, c, j, i) /\ Overlaps(b, i, j)
      ranked(b, c) ==
        LET set == chosen(b, c)
            rank(i) == Cardinality({j \in set : Better(b, c, j, i)})
        IN [k \in 1..Smaller(limit, Cardinality(set)) |-> CHOOSE i \in set : rank(i) = k - 1]
      classes == n.ins[2].shape[2]
      per(k) == LET b == k \div classes IN [i \in DOMAIN ranked(b, k % classes) |-> <<b, k % classes, ranked(b, k % classes)[i]>>]
      rows == FlattenSeq([k \in 1..(boxes.shape[1] * classes) |-> per(k - 1)])
  IN <<[shape |-> <<Len(rows), 3>>, data |-> FlattenSeq(rows)]>>

VisionTypes == {"GridSample", "AffineGrid", "Col2Im", "RoiAlign", "MaxRoiPool", "MaxUnpool", "NonMaxSuppression"}

VisionFamily(n) ==
  CASE n.op = "GridSample" -> GridSampleMeaning(n)
    [] n.op = "AffineGrid" -> AffineGridMeaning(n)
    [] n.op = "Col2Im" -> Col2ImMeaning(n)
    [] n.op = "RoiAlign" -> RoiAlignMeaning(n)
    [] n.op = "MaxRoiPool" -> MaxRoiPoolMeaning(n)
    [] n.op = "MaxUnpool" -> MaxUnpoolMeaning(n)
    [] n.op = "NonMaxSuppression" -> NonMaxSuppressionMeaning(n)

=============================================================================
