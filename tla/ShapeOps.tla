------------------------------ MODULE ShapeOps ------------------------------
(***************************************************************************)
(* ops/shape.rs: the operators that move data by their attributes, by      *)
(* lists of extents or of bounds, or by sampling (module IndexOps has      *)
(* those that move it by an index).  XOp is the handler of X, the sequence *)
(* of its outputs; XClaim is its claim predicate.                          *)
(***************************************************************************)
EXTENDS IndexOps

-----------------------------------------------------------------------------
(* Crops, pads and selections. *)

\* The order of the two steps and the halves they take: crop first, then pad; the
\* odd element goes to the end.
CenterCropPadOp(n) ==
  LET data == In(n, 1)
      target == ReadInts(n, 2)
      axes == Attr(n, "axes", AxesOf(data))
      named(d) == {i \in DOMAIN axes : Axis(axes[i], Rank(data)) = d}
      wanted == [d \in DOMAIN data.shape |->
                   IF named(d) = {} THEN data.shape[d] ELSE target[CHOOSE i \in named(d) : TRUE]]
      kept == [d \in DOMAIN wanted |-> Smaller(wanted[d], data.shape[d])]
      start == [d \in DOMAIN wanted |-> (data.shape[d] - kept[d]) \div 2]
      low == [d \in DOMAIN wanted |-> (wanted[d] - kept[d]) \div 2]
      high == [d \in DOMAIN wanted |-> wanted[d] - kept[d] - low[d]]
      stop == [d \in DOMAIN wanted |-> start[d] + kept[d]]
  IN <<PadWith(Slice(data, start, stop, Repeated(1, Rank(data))), low, high, 0)>>

CenterCropPadClaim(n) ==
  LET data == n.ins[1].info
      axes == Attr(n, "axes", [d \in DOMAIN data |-> d - 1])
  IN /\ Arity(n, {2}, 1)
     /\ MovesData(n)
     /\ data # <<>> /\ Static(data) /\ Static(n.outs[1].shape)
     /\ IsConstInt64(n, 2)
     /\ Len(ReadInts(n, 2)) = Len(axes)
     /\ UniqueAxes(axes, Len(data))
     /\ Static(ReadInts(n, 2))
     /\ n.outs[1].shape = FoldLeftDomain(
          LAMBDA shape, i : With(shape, Axis(axes[i], Len(data)), ReadInts(n, 2)[i]), data, axes)

\* The condition may be shorter than the axis, or longer.
CompressOp(n) ==
  LET all == In(n, 1)
      data == IF "axis" \in DOMAIN n.attrs THEN all ELSE Reshape(all, <<SizeOf(all)>>)
      axis == Axis(Attr(n, "axis", 0), Rank(data))
      taken == SelectSeq([i \in 1..Smaller(data.shape[axis], Len(ReadInts(n, 2))) |-> i - 1],
                         LAMBDA i : ReadInts(n, 2)[i + 1] # 0)
  IN <<TakeAxis(data, Vector(taken), axis)>>

CompressClaim(n) ==
  LET data == n.ins[1].info
      out == n.outs[1].shape
      axis == Attr(n, "axis", 0)
  IN /\ Arity(n, {2}, 1)
     /\ MovesData(n)
     /\ n.ins[2].dtype = "bool" /\ Len(n.ins[2].info) = 1
     /\ n.ins[2].source = "Initializer"
     /\ Static(data) /\ Static(out)
     /\ IF "axis" \in DOMAIN n.attrs
        THEN /\ AxisInRange(axis, Len(data))
             /\ Len(out) = Len(data)
             /\ \A d \in DOMAIN data : d = Axis(axis, Len(data)) \/ out[d] = data[d]
        ELSE Len(out) = 1

\* edge_pad: axis after axis, the first and the last slice repeated.
EdgePad(data, axes, low, high) ==
  LET before(t, a, k) == Concat(<<BroadcastTo(Cut(t, a, 0, 1), With(t.shape, a, k)), t>>, a)
      after(t, a, k) ==
        Concat(<<t, BroadcastTo(Cut(t, a, t.shape[a] - 1, t.shape[a]), With(t.shape, a, k))>>, a)
      step(t, i) ==
        LET first == IF low[i] > 0 THEN before(t, axes[i], low[i]) ELSE t
        IN IF high[i] > 0 THEN after(first, axes[i], high[i]) ELSE first
  IN FoldLeftDomain(step, data, axes)

\* Mutant: the indices of wrap_pad start at the first element.
WrapPadFromStart(data, axes, low, high) ==
  LET step(t, i) ==
        LET extent == t.shape[axes[i]]
            index == Arange(0, low[i] + extent + high[i], 1)
        IN TakeAxis(t, Map(LAMBDA v : v % extent, index), axes[i])
  IN FoldLeftDomain(step, data, axes)

WrapPad(data, axes, low, high) ==
  LET step(t, i) ==
        LET extent == t.shape[axes[i]]
            index == Arange(-low[i], extent + high[i], 1)
        IN TakeAxis(t, Map(LAMBDA v : v % extent, index), axes[i])
  IN FoldLeftDomain(step, data, axes)

\* MLX's own reflect, the border element not repeated.
ReflectPad(data, axes, low, high) ==
  LET step(t, i) ==
        LET extent == t.shape[axes[i]]
            mirror(v) == IF v < 0 THEN -v ELSE IF v >= extent THEN 2 * extent - 2 - v ELSE v
        IN TakeAxis(t, Map(mirror, Arange(-low[i], extent + high[i], 1)), axes[i])
  IN FoldLeftDomain(step, data, axes)

PadOp(n) ==
  LET data == In(n, 1)
      pads == ReadInts(n, 2)
      named == IF Present(n, 4) THEN ReadInts(n, 4) ELSE AxesOf(data)
      axes == [i \in DOMAIN named |-> Axis(named[i], Rank(data))]
      low == SubSeq(pads, 1, Len(axes))
      high == SubSeq(pads, Len(axes) + 1, 2 * Len(axes))
      value == IF Present(n, 3) THEN In(n, 3).data[1] ELSE 0
      spread(s) == [d \in 1..Rank(data) |->
                      IF \E i \in DOMAIN axes : axes[i] = d
                      THEN s[CHOOSE i \in DOMAIN axes : axes[i] = d] ELSE 0]
      mode == Attr(n, "mode", "constant")
  IN <<CASE mode = "constant" -> PadWith(data, spread(low), spread(high), value)
         [] mode = "reflect" -> ReflectPad(data, axes, low, high)
         [] mode = "edge" -> EdgePad(data, axes, low, high)
         [] mode = "wrap" -> WrapPad(data, axes, low, high)
         [] OTHER -> Fail>>

PadClaim(n) ==
  LET rank == Len(n.ins[1].info)
      axes == IF Present(n, 4) THEN ReadInts(n, 4) ELSE [i \in 1..rank |-> i - 1]
  IN /\ Arity(n, 2..4, 1)
     /\ MovesData(n)
     /\ Attr(n, "mode", "constant") \in {"constant", "reflect", "edge", "wrap"}
     /\ IsConstInt64(n, 2)
     /\ Static(ReadInts(n, 2))
     /\ Present(n, 4) => IsConstInt64(n, 4)
     /\ Len(ReadInts(n, 2)) = 2 * Len(axes)
     /\ UniqueAxes(axes, rank)
     /\ Present(n, 3) => n.ins[3].dtype = n.ins[1].dtype /\ n.ins[3].info = <<>>

\* Mutant: a backward slice stops at its last element's predecessor.
BoundsShort(start, end, step, extent) ==
  LET s == IF start < 0 THEN start + extent ELSE start
      e == IF end < 0 THEN end + extent ELSE end
  IN IF step > 0 THEN <<Clamp(s, 0, extent), Clamp(e, 0, extent)>>
     ELSE <<Clamp(s, 0, extent - 1), Clamp(e, 0, extent - 1)>>

\* Where a slice starts and stops on an axis, forward and backward.
Bounds(start, end, step, extent) ==
  LET s == IF start < 0 THEN start + extent ELSE start
      e == IF end < 0 THEN end + extent ELSE end
  IN IF step > 0 THEN <<Clamp(s, 0, extent), Clamp(e, 0, extent)>>
     ELSE <<Clamp(s, 0, extent - 1), Clamp(e, -1, extent - 1)>>

\* Forward axes are one view; every backward axis is gathered afterwards.
SliceOp(n) ==
  LET data == In(n, 1)
      starts == ReadInts(n, 2)
      named == IF Present(n, 4) THEN ReadInts(n, 4) ELSE [i \in DOMAIN starts |-> i - 1]
      steps == IF Present(n, 5) THEN ReadInts(n, 5) ELSE Repeated(1, Len(starts))
      axis(i) == Axis(named[i], Rank(data))
      bounds(i) == Bounds(starts[i], ReadInts(n, 3)[i], steps[i], data.shape[axis(i)])
      forward == {i \in DOMAIN starts : steps[i] > 0}
      on(d) == {i \in forward : axis(i) = d}
      of(d, F(_), default) == IF on(d) = {} THEN default ELSE F(CHOOSE i \in on(d) : TRUE)
      view == Slice(data,
                    [d \in 1..Rank(data) |-> of(d, LAMBDA i : bounds(i)[1], 0)],
                    [d \in 1..Rank(data) |-> of(d, LAMBDA i : bounds(i)[2], data.shape[d])],
                    [d \in 1..Rank(data) |-> of(d, LAMBDA i : steps[i], 1)])
      back(t, i) == IF i \in forward THEN t
                    ELSE TakeAxis(t, Arange(bounds(i)[1], bounds(i)[2], steps[i]), axis(i))
  IN IF \E i \in DOMAIN steps : steps[i] = 0 THEN <<Fail>>
     ELSE <<FoldLeftDomain(back, view, starts)>>

SliceClaim(n) ==
  /\ Arity(n, 3..5, 1)
  /\ MovesData(n)
  /\ n.ins[2].dtype = "int64" /\ n.ins[3].dtype = "int64"
  /\ Present(n, 4) => IsConstInt64(n, 4)
  /\ Present(n, 5) => IsConstInt64(n, 5) /\ \A i \in DOMAIN ReadInts(n, 5) : ReadInts(n, 5)[i] # 0

-----------------------------------------------------------------------------
(* Changes of shape. *)

\* Mutant: the channels of CRD are split as those of DCR.
DepthToSpaceOneOrder(n) ==
  LET data == In(n, 1)
      s == data.shape
      b == Attr(n, "blocksize", 0)
      c == s[2] \div (b * b)
      spread == Transpose(Reshape(data, <<s[1], b, b, c, s[3], s[4]>>), <<1, 4, 5, 2, 6, 3>>)
  IN <<Reshape(spread, <<s[1], c, s[3] * b, s[4] * b>>)>>

DepthToSpaceOp(n) ==
  LET data == In(n, 1)
      s == data.shape
      b == Attr(n, "blocksize", 0)
      c == s[2] \div (b * b)
      spread == IF Attr(n, "mode", "DCR") = "CRD"
                THEN Transpose(Reshape(data, <<s[1], c, b, b, s[3], s[4]>>), <<1, 2, 5, 3, 6, 4>>)
                ELSE Transpose(Reshape(data, <<s[1], b, b, c, s[3], s[4]>>), <<1, 4, 5, 2, 6, 3>>)
  IN <<Reshape(spread, <<s[1], c, s[3] * b, s[4] * b>>)>>

SpaceToDepthOp(n) ==
  LET data == In(n, 1)
      s == data.shape
      b == Attr(n, "blocksize", 0)
      h == s[3] \div b
      w == s[4] \div b
      order == IF Attr(n, "mode", "DCR") = "DCR" THEN <<1, 4, 6, 2, 3, 5>> ELSE <<1, 2, 4, 6, 3, 5>>
  IN <<Reshape(Transpose(Reshape(data, <<s[1], s[2], h, b, w, b>>), order),
               <<s[1], s[2] * b * b, h, w>>)>>

Blocks(n) ==
  /\ Arity(n, {1}, 1)
  /\ MovesData(n)
  /\ Len(n.ins[1].info) = 4 /\ Static(n.ins[1].info)
  /\ Attr(n, "blocksize", 0) > 0
  /\ Attr(n, "mode", "DCR") \in {"DCR", "CRD"}

DepthToSpaceClaim(n) ==
  LET s == n.ins[1].info
      b == Attr(n, "blocksize", 0)
  IN /\ Blocks(n)
     /\ s[2] % (b * b) = 0
     /\ n.outs[1].shape = <<s[1], s[2] \div (b * b), s[3] * b, s[4] * b>>

SpaceToDepthClaim(n) ==
  LET s == n.ins[1].info
      b == Attr(n, "blocksize", 0)
  IN /\ Blocks(n)
     /\ s[3] % b = 0 /\ s[4] % b = 0
     /\ n.outs[1].shape = <<s[1], s[2] * b * b, s[3] \div b, s[4] \div b>>

\* A zero extent copies the input's; -1 is left to MLX.
ReshapeOp(n) ==
  LET data == In(n, 1)
      shape == ReadInts(n, 2)
  IN <<Reshape(data, [d \in DOMAIN shape |->
                        IF shape[d] = 0 /\ d <= Rank(data) THEN data.shape[d] ELSE shape[d]])>>

ReshapeClaim(n) ==
  /\ Arity(n, {2}, 1)
  /\ MovesData(n)
  /\ n.ins[2].dtype = "int64"
  /\ Attr(n, "allowzero", 0) = 0

TransposeOp(n) ==
  LET data == In(n, 1)
      perm == Attr(n, "perm", Reverse(AxesOf(data)))
  IN <<Transpose(data, [d \in DOMAIN perm |-> Axis(perm[d], Rank(data))])>>

TransposeClaim(n) == Arity(n, {1}, 1) /\ MovesData(n)

\* The axes of Squeeze and Unsqueeze: an input, or before opset 13 an attribute.
ListInput(n, i, name) == IF Present(n, i) THEN ReadInts(n, i) ELSE Attr(n, name, <<>>)

HasList(n, i, name) == Present(n, i) \/ name \in DOMAIN n.attrs

UnsqueezeOp(n) ==
  LET data == In(n, 1)
      axes == ListInput(n, 2, "axes")
      rank == Rank(data) + Len(axes)
      new == {Axis(axes[i], rank) : i \in DOMAIN axes}
      old(d) == Cardinality((1..d) \ new)
  IN <<Reshape(data, [d \in 1..rank |-> IF d \in new THEN 1 ELSE data.shape[old(d)]])>>

SqueezeOp(n) ==
  LET data == In(n, 1)
      axes == ListInput(n, 2, "axes")
      ones == {d \in 1..Rank(data) : data.shape[d] = 1}
      gone == IF HasList(n, 2, "axes") THEN {Axis(axes[i], Rank(data)) : i \in DOMAIN axes} ELSE ones
      kept == SelectSeq([d \in 1..Rank(data) |-> d], LAMBDA d : d \notin gone)
  IN <<IF gone \subseteq ones THEN Reshape(data, [d \in DOMAIN kept |-> data.shape[kept[d]]]) ELSE Fail>>

UnsqueezeClaim(n) ==
  /\ Arity(n, {1, 2}, 1)
  /\ MovesData(n)
  /\ Len(n.ins) = 2 => IsConstInt64(n, 2)

FlattenOp(n) ==
  LET data == In(n, 1)
      axis == Attr(n, "axis", 1)
      till == IF axis < 0 THEN axis + Rank(data) ELSE axis
  IN <<Reshape(data, <<Prod(SubSeq(data.shape, 1, Smaller(till, Rank(data)))),
                       Prod(SubSeq(data.shape, till + 1, Rank(data)))>>)>>

\* Incompatible extents give zeros of the larger shape.
ExpandOp(n) ==
  LET data == In(n, 1)
      target == ReadInts(n, 2)
      rank == Larger(Rank(data), Len(target))
      ext(s, d) == IF d > rank - Len(s) THEN s[d - (rank - Len(s))] ELSE 1
      clash(d) == /\ ext(data.shape, d) # 1 /\ ext(target, d) # 1
                  /\ ext(data.shape, d) # ext(target, d)
      shape == [d \in 1..rank |->
                  IF clash(d) THEN Larger(ext(data.shape, d), ext(target, d))
                  ELSE IF ext(data.shape, d) = 1 THEN ext(target, d) ELSE ext(data.shape, d)]
  IN <<IF \E d \in 1..rank : clash(d) THEN Full(shape, 0) ELSE BroadcastTo(data, shape)>>

ExpandClaim(n) == Arity(n, {2}, 1) /\ MovesData(n) /\ n.ins[2].dtype = "int64"

ConcatOp(n) ==
  <<Concat([i \in DOMAIN n.ins |-> In(n, i)], Axis(Attr(n, "axis", 0), Len(n.ins[1].shape)))>>

ConcatClaim(n) ==
  /\ n.ins # <<>> /\ Len(n.outs) = 1
  /\ IsMovable(n.outs[1].dtype)
  /\ \A i \in DOMAIN n.ins : n.ins[i].dtype = n.outs[1].dtype

\* split_sections takes the boundaries between the parts.
SplitOp(n) ==
  LET data == In(n, 1)
      axis == Axis(Attr(n, "axis", 0), Rank(data))
      sizes == ListInput(n, 2, "split")
      count == Len(n.outs)
      ends == IF sizes # <<>> THEN [i \in 1..Len(sizes) |-> Total(SubSeq(sizes, 1, i))]
              ELSE [i \in 1..count |-> i * (data.shape[axis] \div count)]
      bound(i) == IF i = 0 THEN 0 ELSE IF i = Len(ends) THEN data.shape[axis] ELSE ends[i]
  IN IF sizes = <<>> /\ data.shape[axis] % count # 0 THEN <<Fail>>
     ELSE [i \in 1..Smaller(Len(ends), count) |-> Cut(data, axis, bound(i - 1), bound(i))]

\* Mutant: a part may be shorter than the others.
SplitClaimUneven(n) ==
  /\ Len(n.ins) \in 1..2 /\ n.outs # <<>>
  /\ IsMovable(n.ins[1].dtype) /\ n.ins[1].info # <<>>
  /\ HasList(n, 2, "split") => Static(ListInput(n, 2, "split"))

SplitClaim(n) ==
  LET data == n.ins[1].info
      axis == Attr(n, "axis", 0)
      extent == data[Axis(axis, Len(data))]
      sizes == ListInput(n, 2, "split")
  IN /\ Len(n.ins) \in 1..2 /\ n.outs # <<>>
     /\ IsMovable(n.ins[1].dtype) /\ data # <<>>
     /\ \A i \in DOMAIN n.outs : n.outs[i].dtype = n.ins[1].dtype
     /\ AxisInRange(axis, Len(data))
     /\ IF HasList(n, 2, "split")
        THEN /\ Present(n, 2) => IsConstInt64(n, 2)
             /\ Static(sizes)
             /\ Len(sizes) = Len(n.outs)
             /\ Total(sizes) = extent
        ELSE extent % Len(n.outs) = 0

\* Every axis is repeated after the last one; MLX pads a shorter list with ones.
TileOp(n) ==
  LET data == In(n, 1)
      reps == ReadInts(n, 2)
  IN <<FoldLeftDomain(LAMBDA t, d : IF reps[d] = 0 THEN Full(With(t.shape, d, 0), 0)
                                    ELSE Concat(Repeated(t, reps[d]), d), data, reps)>>

TileClaim(n) == Arity(n, {2}, 1) /\ MovesData(n) /\ IsConstInt64(n, 2)

-----------------------------------------------------------------------------
(* The rest. *)

EyeLikeOp(n) ==
  <<Tensor(n.ins[1].shape, LAMBDA idx : IF idx[2] = idx[1] + Attr(n, "k", 0) THEN 1 ELSE 0)>>

EyeLikeClaim(n) ==
  /\ Arity(n, {1}, 1)
  /\ Len(n.ins[1].info) = 2 /\ Static(n.ins[1].info)
  /\ IsMlxNumeric(n.ins[1].dtype) /\ IsMlxNumeric(n.outs[1].dtype)
  /\ n.outs[1].shape = n.ins[1].info
  /\ Attr(n, "dtype", n.ins[1].dtype) = n.outs[1].dtype

RangeOp(n) == <<Arange(In(n, 1).data[1], In(n, 2).data[1], In(n, 3).data[1])>>

RangeClaim(n) ==
  LET v(i) == ReadInts(n, i)[1]
  IN /\ Arity(n, {3}, 1)
     /\ IsRangeType(n.ins[1].dtype) /\ n.outs[1].dtype = n.ins[1].dtype
     /\ Len(n.outs[1].shape) = 1
     /\ \A i \in 1..3 : n.ins[i].source = "Initializer" /\ Len(ReadInts(n, i)) = 1
     /\ v(3) # 0
     /\ n.outs[1].shape[1] =
          Larger(0, IF v(3) > 0 THEN CeilDiv(v(2) - v(1), v(3)) ELSE CeilDiv(v(1) - v(2), -v(3)))

ShapeInterval(rank, start, end) ==
  LET s == Clamp(IF start < 0 THEN start + rank ELSE start, 0, rank)
      e == Clamp(IF end < 0 THEN end + rank ELSE end, 0, rank)
  IN <<s, Larger(s, e)>>

ShapeOp(n) ==
  LET shape == n.ins[1].shape
      part == ShapeInterval(Len(shape), Attr(n, "start", 0), Attr(n, "end", Len(shape)))
  IN <<Vector(SubSeq(shape, part[1] + 1, part[2]))>>

ShapeClaim(n) ==
  LET rank == Len(n.ins[1].info)
      part == ShapeInterval(rank, Attr(n, "start", 0), Attr(n, "end", rank))
  IN /\ Arity(n, {1}, 1)
     /\ IsMovable(n.ins[1].dtype)
     /\ n.outs[1].dtype = "int64" /\ n.outs[1].shape = <<part[2] - part[1]>>

ConstantOfShapeOp(n) ==
  <<Full(ReadInts(n, 1), Attr(n, "value", IF n.outs[1].dtype = "int64" THEN -1 ELSE 0))>>

ConstantOfShapeClaim(n) ==
  /\ Arity(n, {1}, 1)
  /\ IsMovable(n.outs[1].dtype)
  /\ IF IsConstInt64(n, 1) THEN Static(ReadInts(n, 1)) ELSE n.ins[1].dtype = "int64"

WhereHandler(n) ==
  LET cond == In(n, 1)
      shape == Broadcast(cond.shape, Broadcast(n.ins[2].shape, n.ins[3].shape))
      c == BroadcastTo(cond, shape)
      x == BroadcastTo(In(n, 2), shape)
      y == BroadcastTo(In(n, 3), shape)
  IN <<IF Fail \in {c, x, y} THEN Fail
       ELSE [c EXCEPT !.data = [k \in DOMAIN @ |-> IF @[k] # 0 THEN x.data[k] ELSE y.data[k]]]>>

WhereClaim(n) ==
  /\ Arity(n, {3}, 1)
  /\ n.ins[1].dtype = "bool"
  /\ n.ins[2].dtype = n.ins[3].dtype /\ n.outs[1].dtype = n.ins[2].dtype
  /\ IsMlxNumeric(n.ins[2].dtype) \/ n.ins[2].dtype = "bool"
  /\ \A i \in 1..3 : SuffixBroadcast(n.ins[i].info, n.outs[1].shape)

-----------------------------------------------------------------------------
(* Resize.  A scale is a rational <<p, q>>; a coordinate is one as well.     *)

Floor(r) == r[1] \div r[2]

Ceil(r) == CeilDiv(r[1], r[2])

ResizeSrcCoord(mode, i, scale, inLen, outLen) ==
  CASE mode = "align_corners" -> IF outLen = 1 THEN <<0, 1>> ELSE <<i * (inLen - 1), outLen - 1>>
    [] mode = "asymmetric" -> <<i * scale[2], scale[1]>>
    [] mode = "pytorch_half_pixel" /\ outLen = 1 -> <<0, 1>>
    [] OTHER -> <<(2 * i + 1) * scale[2] - scale[1], 2 * scale[1]>>

\* Mutant: the last element is not the bound.
ResizeNearestUnclamped(mode, r, inLen) ==
  LET half(k) == <<2 * r[1] + k * r[2], 2 * r[2]>>
  IN Larger(0, CASE mode = "floor" -> Floor(r)
                 [] mode = "ceil" -> Smaller(Ceil(r), inLen - 1)
                 [] mode = "round_prefer_ceil" -> Smaller(Floor(half(1)), inLen - 1)
                 [] OTHER -> Floor(half(1)) % inLen)

ResizeNearestIndex(mode, r, inLen) ==
  LET half(k) == <<2 * r[1] + k * r[2], 2 * r[2]>>
  IN Clamp(CASE mode = "floor" -> Floor(r)
             [] mode = "ceil" -> Ceil(r)
             [] mode = "round_prefer_ceil" -> Floor(half(1))
             [] OTHER -> Ceil(half(-1)), 0, inLen - 1)

\* Axis after axis; an axis whose length stays is skipped.  The linear mode weighs
\* two neighbours; a weight is a numerator over the coordinate's denominator, and so
\* the result carries the denominators of the axes resized.
ResizeOp(n) ==
  LET data == In(n, 1)
      legacy == n.op = "Upsample"
      coordinate == IF legacy THEN "asymmetric" ELSE Attr(n, "coordinate_transformation_mode", "half_pixel")
      nearest == IF legacy THEN "floor" ELSE Attr(n, "nearest_mode", "round_prefer_floor")
      bySizes == ~legacy /\ Present(n, 4)
      scales == IF bySizes THEN [d \in 1..Rank(data) |-> <<ReadInts(n, 4)[d], data.shape[d]>>]
                ELSE ReadInts(n, IF legacy THEN 2 ELSE 3)
      lens == IF bySizes THEN ReadInts(n, 4)
              ELSE [d \in 1..Rank(data) |-> (scales[d][1] * data.shape[d]) \div scales[d][2]]
      source(d, i) == ResizeSrcCoord(coordinate, i, scales[d], data.shape[d], lens[d])
      taken(t, d, From(_)) == TakeAxis(t, Vector([k \in 1..lens[d] |-> From(k - 1)]), d)
      weighed(t, d, W(_)) ==
        Map2(LAMBDA a, w : a * w, t,
             Reshape(Vector([k \in 1..lens[d] |-> W(k - 1)]), With(Repeated(1, Rank(t)), d, lens[d])))
      linear(t, d) ==
        LET low(i) == Floor(source(d, i))
            frac(i) == source(d, i)[1] - low(i) * source(d, i)[2]
            end == data.shape[d] - 1
        IN Map2(LAMBDA a, b : a + b,
                weighed(taken(t, d, LAMBDA i : Clamp(low(i), 0, end)), d, LAMBDA i : source(d, i)[2] - frac(i)),
                weighed(taken(t, d, LAMBDA i : Clamp(low(i) + 1, 0, end)), d, frac))
      step(t, d) ==
        IF data.shape[d] = lens[d] THEN t
        ELSE IF Attr(n, "mode", "nearest") = "nearest"
        THEN taken(t, d, LAMBDA i : ResizeNearestIndex(nearest, source(d, i), data.shape[d]))
        ELSE linear(t, d)
  IN <<FoldLeft(step, data, [d \in 1..Rank(data) |-> d])>>

ResizeClaim(n) ==
  LET x == n.ins[1].info
      out == n.outs[1].shape
      rank == Len(x)
      kept == IF rank >= 3 THEN 1..2 ELSE {}
      operand == IF Present(n, 4) THEN 4 ELSE 3
      param == ReadInts(n, operand)
  IN /\ Arity(n, 3..4, 1)
     /\ n.ins[1].dtype \in Floats /\ n.outs[1].dtype = n.ins[1].dtype
     /\ rank \in 1..4 /\ Len(out) = rank
     /\ Attr(n, "mode", "nearest") \in {"nearest", "linear"}
     /\ Attr(n, "coordinate_transformation_mode", "half_pixel") \in
          {"half_pixel", "asymmetric", "align_corners", "pytorch_half_pixel"}
     /\ Attr(n, "mode", "nearest") = "nearest" =>
          Attr(n, "nearest_mode", "round_prefer_floor") \in
            {"round_prefer_floor", "round_prefer_ceil", "floor", "ceil"}
     /\ Attr(n, "exclude_outside", 0) = 0 /\ Attr(n, "antialias", 0) = 0
     /\ "axes" \notin DOMAIN n.attrs
     /\ Attr(n, "keep_aspect_ratio_policy", "stretch") = "stretch"
     /\ ~Present(n, 2)
     /\ Present(n, 3) # Present(n, 4)
     /\ n.ins[operand].source = "Initializer" /\ Len(param) = rank
     /\ IF operand = 4
        THEN /\ \A d \in 1..rank : param[d] >= 1
             /\ \A d \in kept : x[d] > 0 /\ param[d] = x[d]
             /\ \A d \in (1..rank) \ kept : out[d] <= 0 \/ out[d] = param[d]
        ELSE /\ \A d \in 1..rank : param[d][1] > 0
             /\ \A d \in kept : param[d][1] = param[d][2]
             /\ \A d \in (1..rank) \ kept :
                  (x[d] > 0 /\ out[d] > 0) => out[d] = (param[d][1] * x[d]) \div param[d][2]

UpsampleClaim(n) ==
  LET x == n.ins[1].info
      scales == ReadInts(n, 2)
  IN /\ Arity(n, {2}, 1)
     /\ Len(x) \in 1..4
     /\ \A d \in DOMAIN x : x[d] > 0
     /\ n.outs[1].dtype = n.ins[1].dtype
     /\ IF Attr(n, "mode", "nearest") = "nearest" THEN IsMovable(n.ins[1].dtype)
        ELSE Attr(n, "mode", "nearest") = "linear" /\ n.ins[1].dtype \in Floats
     /\ n.ins[2].source = "Initializer" /\ Len(scales) = Len(x)
     /\ \A d \in DOMAIN scales : scales[d][1] > 0
     /\ n.outs[1].shape = [d \in DOMAIN x |-> (x[d] * scales[d][1]) \div scales[d][2]]

=============================================================================
