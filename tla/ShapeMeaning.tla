----------------------------- MODULE ShapeMeaning -----------------------------
(***************************************************************************)
(* What ONNX says of the operators that move data: the element at every    *)
(* index of every output, without the views, gathers and permutations the  *)
(* handlers of ShapeOps build.                                             *)
(***************************************************************************)
EXTENDS IndexMeaning

-----------------------------------------------------------------------------
\* One axis of the result for every axis of the data: an element comes from the index
\* source[d][i], or from nowhere.
Nowhere == -1

Picked(data, source, value) ==
  Tensor([d \in DOMAIN source |-> Len(source[d])], LAMBDA idx :
    LET at == [d \in DOMAIN source |-> source[d][idx[d] + 1]]
    IN IF \E d \in DOMAIN at : at[d] = Nowhere THEN value ELSE At(data, at))

\* The elements of start, start + step, ... on an axis that come before end.
Progression(start, end, step, extent) ==
  LET s == Wrapped(start, extent)
      e == Wrapped(end, extent)
      first == IF step > 0 THEN Larger(s, 0) ELSE Larger(0, Smaller(s, extent - 1))
      met == {p \in 0..(extent - 1) :
                IF step > 0 THEN first <= p /\ p < e /\ (p - first) % step = 0
                ELSE e < p /\ p <= first /\ (first - p) % (-step) = 0}
  IN SetToSortSeq(met, LAMBDA x, y : IF step > 0 THEN x < y ELSE x > y)

SliceMeaning(n) ==
  LET data == In(n, 1)
      on(d) == {i \in DOMAIN ReadInts(n, 2) :
                  IF Present(n, 4) THEN ReadInts(n, 4)[i] \in {d - 1, d - 1 - Rank(data)} ELSE i = d}
      step(i) == IF Present(n, 5) THEN ReadInts(n, 5)[i] ELSE 1
  IN <<Picked(data, [d \in 1..Rank(data) |->
                       IF on(d) = {} THEN [k \in 1..data.shape[d] |-> k - 1]
                       ELSE LET i == CHOOSE i \in on(d) : TRUE
                            IN Progression(ReadInts(n, 2)[i], ReadInts(n, 3)[i], step(i), data.shape[d])],
              0)>>

\* Where an element before the first or after the last of an axis comes from.
Beyond(mode, v, extent) ==
  IF v \in 0..(extent - 1) THEN v
  ELSE CASE mode = "edge" -> IF v < 0 THEN 0 ELSE extent - 1
         [] mode = "wrap" -> v % extent
         [] mode = "reflect" -> IF v < 0 THEN -v ELSE 2 * (extent - 1) - v
         [] OTHER -> Nowhere

PadMeaning(n) ==
  LET data == In(n, 1)
      pads == ReadInts(n, 2)
      on(d) == {i \in 1..(Len(pads) \div 2) :
                  IF Present(n, 4) THEN ReadInts(n, 4)[i] \in {d - 1, d - 1 - Rank(data)} ELSE i = d}
      ends(d) == IF on(d) = {} THEN <<0, 0>>
                 ELSE LET i == CHOOSE i \in on(d) : TRUE IN <<pads[i], pads[i + Len(pads) \div 2]>>
  IN <<Picked(data, [d \in 1..Rank(data) |->
                       [k \in 1..(ends(d)[1] + data.shape[d] + ends(d)[2]) |->
                          Beyond(Attr(n, "mode", "constant"), k - 1 - ends(d)[1], data.shape[d])]],
              IF Present(n, 3) THEN n.ins[3].data[1] ELSE 0)>>

CenterCropPadMeaning(n) ==
  LET data == In(n, 1)
      on(d) == {i \in DOMAIN ReadInts(n, 2) :
                  IF "axes" \in DOMAIN n.attrs
                  THEN n.attrs.axes[i] \in {d - 1, d - 1 - Rank(data)} ELSE i = d}
      want(d) == IF on(d) = {} THEN data.shape[d] ELSE ReadInts(n, 2)[CHOOSE i \in on(d) : TRUE]
      shift(d) == IF want(d) < data.shape[d] THEN (data.shape[d] - want(d)) \div 2
                  ELSE -((want(d) - data.shape[d]) \div 2)
  IN <<Picked(data, [d \in 1..Rank(data) |->
                       [k \in 1..want(d) |-> Beyond("constant", k - 1 + shift(d), data.shape[d])]], 0)>>

CompressMeaning(n) ==
  LET whole == ~("axis" \in DOMAIN n.attrs)
      data == IF whole THEN [shape |-> <<SizeOf(In(n, 1))>>, data |-> In(n, 1).data] ELSE In(n, 1)
      a == IF whole THEN 1 ELSE AxisAttr(n, "axis", 0, Rank(data))
      set == {i \in 0..(data.shape[a] - 1) : i < Len(ReadInts(n, 2)) /\ ReadInts(n, 2)[i + 1] = 1}
  IN <<Picked(data, [d \in 1..Rank(data) |-> IF d = a THEN SetToSortSeq(set, <)
                                             ELSE [k \in 1..data.shape[d] |-> k - 1]], 0)>>

TileMeaning(n) ==
  LET data == In(n, 1)
  IN <<Picked(data, [d \in 1..Rank(data) |->
                       [k \in 1..(data.shape[d] * ReadInts(n, 2)[d]) |-> (k - 1) % data.shape[d]]], 0)>>

-----------------------------------------------------------------------------
Blocked(n, shape, Source(_)) == <<Tensor(shape, LAMBDA idx : At(In(n, 1), Source(idx)))>>

DepthToSpaceMeaning(n) ==
  LET s == n.ins[1].shape
      b == Attr(n, "blocksize", 0)
      c == s[2] \div (b * b)
      channel(idx) ==
        LET y == idx[3] % b
            x == idx[4] % b
        IN IF Attr(n, "mode", "DCR") = "DCR" THEN (y * b + x) * c + idx[2] ELSE (idx[2] * b + y) * b + x
  IN Blocked(n, <<s[1], c, s[3] * b, s[4] * b>>,
             LAMBDA idx : <<idx[1], channel(idx), idx[3] \div b, idx[4] \div b>>)

SpaceToDepthMeaning(n) ==
  LET s == n.ins[1].shape
      b == Attr(n, "blocksize", 0)
      dcr == Attr(n, "mode", "DCR") = "DCR"
      block(idx) == IF dcr THEN idx[2] \div s[2] ELSE idx[2] % (b * b)
      channel(idx) == IF dcr THEN idx[2] % s[2] ELSE idx[2] \div (b * b)
  IN Blocked(n, <<s[1], s[2] * b * b, s[3] \div b, s[4] \div b>>,
             LAMBDA idx : <<idx[1], channel(idx), idx[3] * b + block(idx) \div b, idx[4] * b + (block(idx) % b)>>)

\* A change of shape keeps the elements in their order.
SameElements(n, shape) == <<[shape |-> shape, data |-> n.ins[1].data]>>

ReshapeMeaning(n) ==
  LET wanted == ReadInts(n, 2)
      copied == [d \in DOMAIN wanted |-> IF wanted[d] = 0 THEN n.ins[1].shape[d] ELSE wanted[d]]
      open == {d \in DOMAIN wanted : wanted[d] = -1}
      rest == -Prod(copied)
  IN SameElements(n, [d \in DOMAIN copied |->
                        IF d \in open THEN (IF rest = 0 THEN 0 ELSE Len(n.ins[1].data) \div rest)
                        ELSE copied[d]])

ListOf(n, name) == IF Present(n, 2) THEN ReadInts(n, 2) ELSE Attr(n, name, <<>>)

\* The axes a list names, in an array of a rank.
Named(list, rank) == {1 + (list[i] % rank) : i \in DOMAIN list}

KeptExtents(shape, gone) ==
  LET kept == SetToSortSeq(DOMAIN shape \ gone, <) IN [i \in DOMAIN kept |-> shape[kept[i]]]

SqueezeMeaning(n) ==
  LET shape == n.ins[1].shape
      ones == {d \in DOMAIN shape : shape[d] = 1}
  IN SameElements(n, KeptExtents(shape, IF Present(n, 2) \/ "axes" \in DOMAIN n.attrs
                                        THEN Named(ListOf(n, "axes"), Len(shape)) ELSE ones))

\* The result of Unsqueeze is the shape that squeezes back to the input's.
UnsqueezeMeaning(n) ==
  LET shape == n.ins[1].shape
      rank == Len(shape) + Len(ListOf(n, "axes"))
      new == Named(ListOf(n, "axes"), rank)
      full == CHOOSE s \in [1..rank -> {1} \cup {shape[d] : d \in DOMAIN shape}] :
                /\ \A d \in new : s[d] = 1
                /\ KeptExtents(s, new) = shape
  IN SameElements(n, full)

FlattenMeaning(n) ==
  LET shape == n.ins[1].shape
      axis == Attr(n, "axis", 1)
      a == IF axis < 0 THEN Len(shape) + axis ELSE axis
  IN SameElements(n, <<Prod([d \in 1..a |-> shape[d]]), Prod(SubSeq(shape, a + 1, Len(shape)))>>)

TransposeMeaning(n) ==
  LET data == In(n, 1)
      perm(d) == IF "perm" \in DOMAIN n.attrs THEN n.attrs.perm[d] + 1 ELSE Rank(data) + 1 - d
      place(a) == CHOOSE d \in 1..Rank(data) : perm(d) = a
  IN <<Tensor([d \in 1..Rank(data) |-> data.shape[perm(d)]],
              LAMBDA idx : At(data, [a \in 1..Rank(data) |-> idx[place(a)]]))>>

\* Aligned at the last axis, an extent of one is repeated.
Spread(t, shape) ==
  Tensor(shape, LAMBDA idx :
    At(t, [a \in 1..Rank(t) |-> IF t.shape[a] = 1 THEN 0 ELSE idx[Len(idx) - Rank(t) + a]]))

CommonShape(shapes) ==
  LET longest == CHOOSE r \in {Len(s) : s \in shapes} : \A s \in shapes : Len(s) <= r
      extents(d) == {s[d - longest + Len(s)] : s \in {s \in shapes : d > longest - Len(s)}}
      others(d) == extents(d) \ {1}
  IN [d \in 1..longest |-> IF others(d) = {} THEN 1 ELSE CHOOSE e \in others(d) : TRUE]

ExpandMeaning(n) == <<Spread(In(n, 1), CommonShape({n.ins[1].shape, ReadInts(n, 2)}))>>

WhereMeaning(n) ==
  LET shape == CommonShape({n.ins[i].shape : i \in 1..3})
      v(i, idx) == At(Spread(In(n, i), shape), idx)
  IN <<Tensor(shape, LAMBDA idx : IF v(1, idx) = 1 THEN v(2, idx) ELSE v(3, idx))>>

ConcatMeaning(n) ==
  LET rank == Len(n.ins[1].shape)
      a == AxisAttr(n, "axis", 0, rank)
      extents == [i \in DOMAIN n.ins |-> n.ins[i].shape[a]]
      holder(v) == CHOOSE i \in DOMAIN n.ins :
                     /\ Total(SubSeq(extents, 1, i - 1)) <= v
                     /\ v < Total(SubSeq(extents, 1, i))
  IN <<Tensor([n.ins[1].shape EXCEPT ![a] = Total(extents)], LAMBDA idx :
                LET i == holder(idx[a])
                IN At(In(n, i), [idx EXCEPT ![a] = @ - Total(SubSeq(extents, 1, i - 1))]))>>

\* The parts of Split: as many as outputs, of the sizes listed, or of equal
\* sizes and a shorter last one.
SplitMeaning(n) ==
  LET data == In(n, 1)
      a == AxisAttr(n, "axis", 0, Rank(data))
      listed == Present(n, 2) \/ "split" \in DOMAIN n.attrs
      even == CeilDiv(data.shape[a], Len(n.outs))
      size(i) == IF listed THEN ListOf(n, "split")[i]
                 ELSE Larger(0, Smaller(even, data.shape[a] - (i - 1) * even))
      before(i) == Total([j \in 1..(i - 1) |-> size(j)])
  IN [i \in DOMAIN n.outs |->
        Tensor([data.shape EXCEPT ![a] = size(i)],
               LAMBDA idx : At(data, [idx EXCEPT ![a] = @ + before(i)]))]

EyeLikeMeaning(n) ==
  <<Tensor(n.ins[1].shape, LAMBDA idx : IF idx[2] - idx[1] = Attr(n, "k", 0) THEN 1 ELSE 0)>>

RangeMeaning(n) ==
  LET v(i) == n.ins[i].data[1]
      before(k) == IF v(3) > 0 THEN v(1) + k * v(3) < v(2) ELSE v(1) + k * v(3) > v(2)
      count == Cardinality({k \in 0..20 : before(k)})
  IN <<[shape |-> <<count>>, data |-> [k \in 1..count |-> v(1) + (k - 1) * v(3)]]>>

ShapeMeaningOf(n) ==
  LET shape == n.ins[1].shape
      rank == Len(shape)
      bound(name, default) ==
        LET v == Wrapped(Attr(n, name, default), rank) IN IF v < 0 THEN 0 ELSE IF v > rank THEN rank ELSE v
      kept == SetToSortSeq({d \in 1..rank : bound("start", 0) < d /\ d <= bound("end", rank)}, <)
  IN <<[shape |-> <<Len(kept)>>, data |-> [i \in DOMAIN kept |-> shape[kept[i]]]]>>

\* The value is a tensor of one element; the absent one is a float zero.
ConstantOfShapeMeaning(n) ==
  <<Tensor(ReadInts(n, 1), LAMBDA idx : Attr(n, "value", 0))>>

-----------------------------------------------------------------------------
(* Resize: every output element is read at a rational coordinate of each axis. *)

ScaleOf(n, d) ==
  IF Present(n, 4) THEN <<ReadInts(n, 4)[d], n.ins[1].shape[d]>>
  ELSE ReadInts(n, IF n.op = "Upsample" THEN 2 ELSE 3)[d]

LengthOf(n, d) == (n.ins[1].shape[d] * ScaleOf(n, d)[1]) \div ScaleOf(n, d)[2]

\* The coordinate p / q of element i of a resized axis.
ReadAt(n, d, i) ==
  LET mode == IF n.op = "Upsample" THEN "asymmetric"
              ELSE Attr(n, "coordinate_transformation_mode", "half_pixel")
      s == ScaleOf(n, d)
      out == LengthOf(n, d)
  IN CASE mode = "asymmetric" -> [p |-> i * s[2], q |-> s[1]]
       [] mode = "align_corners" /\ out > 1 -> [p |-> i * (n.ins[1].shape[d] - 1), q |-> out - 1]
       [] mode = "half_pixel" \/ (mode = "pytorch_half_pixel" /\ out > 1) ->
            [p |-> (2 * i + 1) * s[2] - s[1], q |-> 2 * s[1]]
       [] OTHER -> [p |-> 0, q |-> 1]

Inside(v, extent) == IF v < 0 THEN 0 ELSE IF v >= extent THEN extent - 1 ELSE v

\* The integers next to a coordinate, and among them the one a mode prefers.
Nearest(mode, x, extent) ==
  LET near == {k \in -1..(extent + 1) : (k - 1) * x.q < x.p /\ x.p < (k + 1) * x.q}
      off(k) == IF k * x.q > x.p THEN k * x.q - x.p ELSE x.p - k * x.q
      low == CHOOSE k \in near : k * x.q <= x.p
      high == CHOOSE k \in near : k * x.q >= x.p
      tied == CASE mode = "round_prefer_ceil" -> IF off(low) < off(high) THEN low ELSE high
                [] mode = "floor" -> low
                [] mode = "ceil" -> high
                [] OTHER -> IF off(high) < off(low) THEN high ELSE low
  IN Inside(tied, extent)

\* The linear mode weighs the two neighbours of every resized axis; the result is the
\* value times the denominators of the coordinates.
ResizeMeaning(n) ==
  LET data == In(n, 1)
      axes == 1..Rank(data)
      resized == {d \in axes : LengthOf(n, d) # data.shape[d]}
      linear == Attr(n, "mode", "nearest") = "linear"
      nearest == IF n.op = "Upsample" THEN "floor" ELSE Attr(n, "nearest_mode", "round_prefer_floor")
      x(d, idx) == ReadAt(n, d, idx[d])
      low(d, idx) == x(d, idx).p \div x(d, idx).q
      weight(d, idx, c) ==
        LET above == x(d, idx).p - low(d, idx) * x(d, idx).q IN IF c = 1 THEN above ELSE x(d, idx).q - above
      corners == [resized -> {0, 1}]
      corner(idx, c) == [d \in axes |-> IF d \in resized THEN Inside(low(d, idx) + c[d], data.shape[d])
                                        ELSE idx[d]]
      weighed(idx, c) ==
        At(data, corner(idx, c)) * Prod([d \in axes |-> IF d \in resized THEN weight(d, idx, c[d]) ELSE 1])
  IN <<Tensor([d \in axes |-> LengthOf(n, d)], LAMBDA idx :
         IF linear THEN MapThenSumSet(LAMBDA c : weighed(idx, c), corners)
         ELSE At(data, [d \in axes |-> IF d \in resized THEN Nearest(nearest, x(d, idx), data.shape[d])
                                       ELSE idx[d]]))>>

=============================================================================
