------------------------------- MODULE ConvOps -------------------------------
(***************************************************************************)
(* ops/conv.rs: convolutions and pools.  ONNX puts the channels first, MLX *)
(* last; the handlers transpose to MLX's layout, run the primitive, and    *)
(* transpose back.  Roots stay terms.                                      *)
(***************************************************************************)
EXTENDS Nodes

ToChannelsLast(t) == Transpose(t, [d \in 1..Rank(t) |-> IF d = 1 THEN 1 ELSE IF d = Rank(t) THEN 2 ELSE d + 1])

FromChannelsLast(t) == Transpose(t, [d \in 1..Rank(t) |-> IF d = 1 THEN 1 ELSE IF d = 2 THEN Rank(t) ELSE d - 1])

Spatial(shape) == SubSeq(shape, 3, Len(shape))

PerAxis(n, name, size, value) == Attr(n, name, Repeated(value, size))

\* A kernel's extent with its holes, and how many windows fit a padded axis.
EffectiveKernel(k, dilation) == dilation * (k - 1) + 1

Windows(extent, kernel, stride) == (extent - kernel) \div stride + 1

-----------------------------------------------------------------------------
(* MLX's convolutions, the channels last and the weights [O, k..., I/g].     *)

ConvGeneral(x, w, strides, low, high, dilations, group) ==
  LET sr == Rank(x) - 2
      padded == PadWith(x, <<0>> \o low \o <<0>>, <<0>> \o high \o <<0>>, 0)
      kernel == SubSeq(w.shape, 2, sr + 1)
      perGroup == w.shape[1] \div group
      width == w.shape[sr + 2]
      out == [d \in 1..sr |-> Windows(padded.shape[d + 1], EffectiveKernel(kernel[d], dilations[d]), strides[d])]
      taps == kernel \o <<width>>
      tap(idx, c) ==
        LET o == idx[sr + 2]
        IN At(padded, <<idx[1]>> \o [d \in 1..sr |-> idx[d + 1] * strides[d] + c[d] * dilations[d]]
                      \o <<(o \div perGroup) * width + c[sr + 1]>>)
           * At(w, <<o>> \o c)
  IN IF x = Fail \/ w = Fail \/ x.shape[sr + 2] # width * group \/ (\E d \in 1..sr : out[d] <= 0) THEN Fail
     ELSE Tensor(<<x.shape[1]>> \o out \o <<w.shape[1]>>,
                 LAMBDA idx : Total([k \in 1..Prod(taps) |-> tap(idx, Coord(taps, k - 1))]))

\* conv_transpose2d without dilation: every input element is spread over a kernel.
ConvTranspose2d(x, w, strides, pads, outputPadding) ==
  LET out == [d \in 1..2 |-> (x.shape[d + 1] - 1) * strides[d] - 2 * pads[d] + w.shape[d + 1] + outputPadding[d]]
      taps == Tail(x.shape)
      spread(idx, c) ==
        LET k == [d \in 1..2 |-> idx[d + 1] + pads[d] - c[d] * strides[d]]
        IN IF \A d \in 1..2 : k[d] \in 0..(w.shape[d + 1] - 1)
           THEN At(x, <<idx[1]>> \o c) * At(w, <<idx[4], k[1], k[2], c[3]>>) ELSE 0
  IN IF x = Fail \/ w = Fail \/ x.shape[4] # w.shape[4] THEN Fail
     ELSE Tensor(<<x.shape[1]>> \o out \o <<w.shape[1]>>,
                 LAMBDA idx : Total([k \in 1..Prod(taps) |-> spread(idx, Coord(taps, k - 1))]))

\* as_strided: a view of the elements in memory.
AsStrided(t, shape, strides) ==
  IF t = Fail THEN Fail
  ELSE Tensor(shape, LAMBDA idx : t.data[1 + Total([d \in DOMAIN idx |-> idx[d] * strides[d]])])

-----------------------------------------------------------------------------
\* Mutant: the odd unit of SAME_LOWER goes to the end too.
AutoPadPadsUpper(mode, extent, kernel, strides, dilations) ==
  LET total(d) == Larger(0, (CeilDiv(extent[d], strides[d]) - 1) * strides[d]
                            + EffectiveKernel(kernel[d], dilations[d]) - extent[d])
      begin == [d \in DOMAIN extent |-> total(d) \div 2]
      end == [d \in DOMAIN extent |-> total(d) - begin[d]]
  IN IF mode = "VALID" THEN Repeated(0, 2 * Len(extent)) ELSE begin \o end

Modes == {"NOTSET", "VALID", "SAME_UPPER", "SAME_LOWER"}

ModeKnown(n) == Attr(n, "auto_pad", "NOTSET") \in Modes

\* The pads of an auto_pad mode: the begin of every axis, then the end.  Of any other
\* mode there are none, and the handlers fail.
AutoPadPads(mode, extent, kernel, strides, dilations) ==
  LET out(d) == CeilDiv(extent[d], strides[d])
      total(d) == Larger(0, (out(d) - 1) * strides[d] + EffectiveKernel(kernel[d], dilations[d]) - extent[d])
      less == [d \in DOMAIN extent |-> total(d) \div 2]
      more == [d \in DOMAIN extent |-> total(d) - less[d]]
  IN CASE mode = "VALID" -> Repeated(0, 2 * Len(extent))
       [] mode = "SAME_LOWER" -> more \o less
       [] mode = "SAME_UPPER" -> less \o more

\* The pads of a node whose mode is known: its attribute, or those of auto_pad.
PadsOf(n, extent, kernel, strides, dilations) ==
  LET mode == Attr(n, "auto_pad", "NOTSET")
  IN IF mode = "NOTSET" THEN PerAxis(n, "pads", 2 * Len(extent), 0)
     ELSE AutoPadPads(mode, extent, kernel, strides, dilations)

\* The bias is the last axis while the channels are last.
Biased(n, t) == IF Present(n, 3) THEN Map2(LAMBDA a, b : a + b, t, In(n, 3)) ELSE t

\* Pads of any kind are those of conv_general; conv1d and conv2d are its symmetric case.
ConvOp(n) ==
  LET x == In(n, 1)
      w == In(n, 2)
      sr == Rank(x) - 2
      strides == PerAxis(n, "strides", sr, 1)
      dilations == PerAxis(n, "dilations", sr, 1)
      pads == PadsOf(n, Spatial(x.shape), Spatial(w.shape), strides, dilations)
      out == ConvGeneral(ToChannelsLast(x), ToChannelsLast(w), strides, SubSeq(pads, 1, sr),
                         SubSeq(pads, sr + 1, 2 * sr), dilations, Attr(n, "group", 1))
  IN IF ~ModeKnown(n) \/ \E d \in 1..sr : x.shape[d + 2] <= 0 THEN <<Fail>>
     ELSE <<FromChannelsLast(Biased(n, out))>>

ConvTransposeOp(n) ==
  <<FromChannelsLast(Biased(n,
      ConvTranspose2d(ToChannelsLast(In(n, 1)), Transpose(In(n, 2), <<2, 3, 4, 1>>),
                      PerAxis(n, "strides", 2, 1), SubSeq(PerAxis(n, "pads", 4, 0), 1, 2),
                      PerAxis(n, "output_padding", 2, 0))))>>

-----------------------------------------------------------------------------
(* DeformConv.  Offsets are in halves of a position; so a sample, and with it *)
(* the result, counts in quarters, of which a bias is four.                   *)

Halves == 2

\* The element of an array flattened, at whole coordinates clamped to the plane, and
\* zero where they were not in it.
DeformTake(x, b, c, y, z) ==
  LET height == x.shape[3]
      width == x.shape[4]
      base == (b * x.shape[2] + c) * height * width
  IN IF y \in 0..(height - 1) /\ z \in 0..(width - 1)
     THEN x.data[1 + base + Clamp(y, 0, height - 1) * width + Clamp(z, 0, width - 1)] ELSE 0

\* Mutant: the weights of a sample's two columns are exchanged.
DeformSampleCrossed(x, b, c, y, z) ==
  LET y0 == y \div Halves
      z0 == z \div Halves
      wy == y - y0 * Halves
      wz == z - z0 * Halves
  IN (Halves - wy) * wz * DeformTake(x, b, c, y0, z0) + (Halves - wy) * (Halves - wz) * DeformTake(x, b, c, y0, z0 + 1)
     + wy * wz * DeformTake(x, b, c, y0 + 1, z0) + wy * (Halves - wz) * DeformTake(x, b, c, y0 + 1, z0 + 1)

DeformSample(x, b, c, y, z) ==
  LET y0 == y \div Halves
      z0 == z \div Halves
      wy == y - y0 * Halves
      wz == z - z0 * Halves
  IN (Halves - wy) * (Halves - wz) * DeformTake(x, b, c, y0, z0) + (Halves - wy) * wz * DeformTake(x, b, c, y0, z0 + 1)
     + wy * (Halves - wz) * DeformTake(x, b, c, y0 + 1, z0) + wy * wz * DeformTake(x, b, c, y0 + 1, z0 + 1)

\* The columns [N, C, K, H, W], then one product of matrices per group.
DeformConvOp(n) ==
  LET x == In(n, 1)
      w == In(n, 2)
      offset == In(n, 3)
      batch == x.shape[1]
      size == w.shape[3] * w.shape[4]
      area == SubSeq(offset.shape, 3, 4)
      group == Attr(n, "group", 1)
      perOffset == x.shape[2] \div Attr(n, "offset_group", 1)
      strides == PerAxis(n, "strides", 2, 1)
      pads == PerAxis(n, "pads", 4, 0)
      dilations == PerAxis(n, "dilations", 2, 1)
      position(idx, d) ==
        LET og == idx[2] \div perOffset
            k == <<idx[3] \div w.shape[4], idx[3] % w.shape[4]>>
        IN Halves * (idx[d + 3] * strides[d] - pads[d] + k[d] * dilations[d])
           + At(offset, <<idx[1], (og * size + idx[3]) * 2 + d - 1, idx[4], idx[5]>>)
      masked(idx) ==
        IF Present(n, 5) THEN At(In(n, 5), <<idx[1], (idx[2] \div perOffset) * size + idx[3], idx[4], idx[5]>>) ELSE 1
      columns == Tensor(<<batch, x.shape[2], size>> \o area, LAMBDA idx :
                   masked(idx) * DeformSample(x, idx[1], idx[2], position(idx, 1), position(idx, 2)))
      ins == x.shape[2] \div group
      outs == w.shape[1] \div group
      output(g) ==
        LET rows == Reshape(Transpose(Cut(columns, 2, (g - 1) * ins, g * ins), <<1, 4, 5, 2, 3>>),
                            <<batch * Prod(area), ins * size>>)
            weight == Transpose(Reshape(Cut(w, 1, (g - 1) * outs, g * outs), <<outs, ins * size>>), <<2, 1>>)
        IN Transpose(Reshape(MatMul(rows, weight), <<batch>> \o area \o <<outs>>), <<1, 4, 2, 3>>)
      whole == Concat([g \in 1..group |-> output(g)], 2)
      bias == Reshape(In(n, 4), <<1, w.shape[1], 1, 1>>)
  IN <<IF Present(n, 4) THEN Map2(LAMBDA a, b : a + Halves * Halves * b, whole, bias) ELSE whole>>

-----------------------------------------------------------------------------
(* Pools over two spatial axes, the channels last.                            *)

PadSpatial(t, pads, v) == PadWith(t, <<0, pads[1], pads[2], 0>>, <<0, pads[3], pads[4], 0>>, v)

\* Mutant: a row of windows starts where a row of elements does.
SlidingWindowsUnit(t, kernel, strides) ==
  LET h == t.shape[2]
      w == t.shape[3]
      c == t.shape[4]
  IN AsStrided(t, <<t.shape[1], Windows(h, kernel[1], strides[1]), Windows(w, kernel[2], strides[2]), kernel[1], kernel[2], c>>,
               <<h * w * c, w * c, strides[2] * c, w * c, c, 1>>)

\* [N, rows, columns, kH, kW, C], a view of the padded array.
SlidingWindows(t, kernel, strides) ==
  LET h == t.shape[2]
      w == t.shape[3]
      c == t.shape[4]
      row == w * c
  IN AsStrided(t, <<t.shape[1], Windows(h, kernel[1], strides[1]), Windows(w, kernel[2], strides[2]), kernel[1], kernel[2], c>>,
               <<h * row, strides[1] * row, strides[2] * c, row, c, 1>>)

\* The axes 4 and 5 folded.
ReduceWindows(Combine(_), t) ==
  LET s == t.shape
  IN ReduceAxis(Combine, Reshape(t, <<s[1], s[2], s[3], s[4] * s[5], s[6]>>), 4)

Mean(s) == Quotient(Total(s), Len(s))

Greatest(s) == Max(ToSet(s))

\* Less than every element.
NegInfinity == -1000000

\* The mean of a window with pads divides by the elements it has, which a padded array
\* of ones counts.
PoolOp(n) ==
  LET average == n.op = "AveragePool"
      x == In(n, 1)
      kernel == n.attrs.kernel_shape
      strides == PerAxis(n, "strides", 2, 1)
      pads == PadsOf(n, Spatial(x.shape), kernel, strides, <<1, 1>>)
      last == ToChannelsLast(x)
      windows(t, v) == SlidingWindows(PadSpatial(t, pads, v), kernel, strides)
      ones == Full([last.shape EXCEPT ![4] = 1], 1)
      plain == ~average \/ Attr(n, "count_include_pad", 0) # 0 \/ \A i \in DOMAIN pads : pads[i] = 0
  IN IF Len(x.shape) # 4 \/ x.shape[3] <= 0 \/ x.shape[4] <= 0 \/ ~ModeKnown(n) THEN <<Fail>>
     ELSE <<FromChannelsLast(
              IF ~average THEN ReduceWindows(Greatest, windows(last, NegInfinity))
              ELSE IF plain THEN ReduceWindows(Mean, windows(last, 0))
              ELSE Map2(Quotient, ReduceWindows(Total, windows(last, 0)), ReduceWindows(Total, windows(ones, 0))))>>

GlobalPoolOp(n) ==
  LET x == In(n, 1)
      flat == Reshape(x, <<x.shape[1], x.shape[2], x.shape[3] * x.shape[4]>>)
      fold(s) == IF n.op = "GlobalAveragePool" THEN Mean(s) ELSE Greatest(s)
  IN <<Reshape(ReduceAxis(fold, flat, 3), <<x.shape[1], x.shape[2], 1, 1>>)>>

\* |v| to the power of p, and a root.
Powered(v, p) == Prod(Repeated(Larger(v, -v), p))

Root(v, p) == IF p = 1 THEN v ELSE <<"root", p, v>>

LpPoolOp(n) ==
  LET p == Attr(n, "p", 2)
      padded == PadSpatial(ToChannelsLast(In(n, 1)), PerAxis(n, "pads", 4, 0), 0)
      windows == SlidingWindows(Map(LAMBDA v : Powered(v, p), padded), n.attrs.kernel_shape, PerAxis(n, "strides", 2, 1))
  IN <<FromChannelsLast(Map(LAMBDA v : Root(v, p), ReduceWindows(Total, windows)))>>

GlobalLpPoolOp(n) ==
  LET x == In(n, 1)
      p == Attr(n, "p", 2)
      flat == Reshape(Map(LAMBDA v : Powered(v, p), x), <<x.shape[1], x.shape[2], x.shape[3] * x.shape[4]>>)
  IN <<Map(LAMBDA v : Root(v, p), Reshape(ReduceAxis(Total, flat, 3), <<x.shape[1], x.shape[2], 1, 1>>))>>

-----------------------------------------------------------------------------
(* What the claims ask.  An extent not above zero is an unknown one.          *)

Positive(shape, rank) == Len(shape) = rank /\ \A d \in DOMAIN shape : shape[d] > 0

\* All but the batch known; all but the batch and the spatial extents known.
PositiveDynBatch(shape, rank) == Len(shape) = rank /\ \A d \in 2..rank : shape[d] > 0

ChannelsKnown(shape, rank) == Len(shape) = rank /\ shape[2] > 0

SameKnownShape(actual, expected) ==
  /\ Len(actual) = Len(expected)
  /\ \A d \in DOMAIN actual : actual[d] <= 0 \/ expected[d] <= 0 \/ actual[d] = expected[d]

OneFloat(n, ins) == n.ins[1].dtype \in Floats /\ n.outs[1].dtype = n.ins[1].dtype
                    /\ \A i \in ins : n.ins[i].dtype = n.ins[1].dtype

SpatialAttribute(n, name, sr) == Positive(PerAxis(n, name, sr, 1), sr)

ReadPads(n, sr) ==
  LET pads == PerAxis(n, "pads", 2 * sr, 0)
  IN Len(pads) = 2 * sr /\ \A i \in DOMAIN pads : pads[i] >= 0

BiasIsValid(n, channels) ==
  Present(n, 3) => n.ins[3].dtype = n.ins[1].dtype /\ n.ins[3].info = <<channels>>

\* Pads and auto_pad exclude each other; the mode is looked at only if it is resolved.
PadsResolve(n, sr, dynamic) ==
  LET mode == Attr(n, "auto_pad", "NOTSET")
  IN IF mode = "NOTSET" THEN ReadPads(n, sr) ELSE "pads" \notin DOMAIN n.attrs /\ (dynamic \/ ModeKnown(n))

KernelMatches(n, w) == "kernel_shape" \in DOMAIN n.attrs => n.attrs.kernel_shape = Spatial(w)

GroupsDivide(n, x, w) ==
  LET group == Attr(n, "group", 1)
  IN group > 0 /\ x[2] % group = 0 /\ w[1] % group = 0 /\ w[2] = x[2] \div group

\* An output extent is known where the input's is and the pads do not depend on another's.
ConvClaim(n) ==
  LET x == n.ins[1].info
      w == n.ins[2].info
      sr == Len(x) - 2
      strides == PerAxis(n, "strides", sr, 1)
      dilations == PerAxis(n, "dilations", sr, 1)
      dynamic == \E d \in 1..sr : x[d + 2] <= 0
      explicit == Attr(n, "auto_pad", "NOTSET") = "NOTSET"
      pads == PadsOf(n, Spatial(x), Spatial(w), strides, dilations)
      known(d) == x[d + 2] > 0 /\ (explicit \/ ~dynamic)
      padded(d) == x[d + 2] + pads[d] + pads[d + sr]
      kernel(d) == EffectiveKernel(w[d + 2], dilations[d])
  IN /\ Arity(n, 2..3, 1)
     /\ OneFloat(n, {2})
     /\ Len(x) \in 3..4 /\ ChannelsKnown(x, Len(x)) /\ Positive(w, Len(x))
     /\ SpatialAttribute(n, "strides", sr) /\ SpatialAttribute(n, "dilations", sr)
     /\ PadsResolve(n, sr, dynamic)
     /\ KernelMatches(n, w)
     /\ GroupsDivide(n, x, w)
     /\ BiasIsValid(n, w[1])
     /\ \A d \in 1..sr : known(d) => padded(d) >= kernel(d)
     /\ SameKnownShape(n.outs[1].shape,
          <<x[1], w[1]>> \o [d \in 1..sr |-> IF known(d) THEN Windows(padded(d), kernel(d), strides[d]) ELSE -1])

DeformConvClaim(n) ==
  LET x == n.ins[1].info
      w == n.ins[2].info
      strides == PerAxis(n, "strides", 2, 1)
      dilations == PerAxis(n, "dilations", 2, 1)
      pads == PerAxis(n, "pads", 4, 0)
      groups == Attr(n, "offset_group", 1)
      padded(d) == x[d + 2] + pads[d] + pads[d + 2]
      kernel(d) == EffectiveKernel(w[d + 2], dilations[d])
      area == [d \in 1..2 |-> Windows(padded(d), kernel(d), strides[d])]
  IN /\ Arity(n, 3..5, 1)
     /\ OneFloat(n, 2..3)
     /\ Positive(x, 4) /\ Positive(w, 4)
     /\ KernelMatches(n, w)
     /\ SpatialAttribute(n, "strides", 2) /\ SpatialAttribute(n, "dilations", 2) /\ ReadPads(n, 2)
     /\ GroupsDivide(n, x, w)
     /\ groups > 0 /\ x[2] % groups = 0
     /\ \A d \in 1..2 : padded(d) >= kernel(d)
     /\ n.ins[3].info = <<x[1], groups * w[3] * w[4] * 2>> \o area
     /\ n.outs[1].shape = <<x[1], w[1]>> \o area
     /\ Present(n, 4) => n.ins[4].dtype = n.ins[1].dtype /\ n.ins[4].info = <<w[1]>>
     /\ Present(n, 5) => n.ins[5].dtype = n.ins[1].dtype /\ n.ins[5].info = <<x[1], groups * w[3] * w[4]>> \o area

ConvTransposeClaim(n) ==
  LET x == n.ins[1].info
      w == n.ins[2].info
      strides == PerAxis(n, "strides", 2, 1)
      pads == PerAxis(n, "pads", 4, 0)
      extra == PerAxis(n, "output_padding", 2, 0)
      area == [d \in 1..2 |-> strides[d] * (x[d + 2] - 1) + extra[d] + w[d + 2] - pads[d] - pads[d + 2]]
  IN /\ Arity(n, 2..3, 1)
     /\ OneFloat(n, {2})
     /\ PositiveDynBatch(x, 4) /\ Positive(w, 4)
     /\ Attr(n, "auto_pad", "NOTSET") = "NOTSET"
     /\ Attr(n, "group", 1) = 1
     /\ w[1] = x[2]
     /\ SpatialAttribute(n, "strides", 2)
     /\ PerAxis(n, "dilations", 2, 1) = <<1, 1>>
     /\ ReadPads(n, 2) /\ pads[1] = pads[3] /\ pads[2] = pads[4]
     /\ Len(extra) = 2 /\ \A d \in 1..2 : extra[d] \in 0..(strides[d] - 1)
     /\ "output_shape" \notin DOMAIN n.attrs
     /\ KernelMatches(n, w)
     /\ BiasIsValid(n, w[2])
     /\ area[1] > 0 /\ area[2] > 0
     /\ SameKnownShape(n.outs[1].shape, <<x[1], w[2]>> \o area)

\* What the three pools with a kernel share.
KernelPool(n) ==
  /\ Arity(n, {1}, 1)
  /\ OneFloat(n, {})
  /\ Len(n.ins[1].info) = 4
  /\ Attr(n, "ceil_mode", 0) = 0
  /\ "kernel_shape" \in DOMAIN n.attrs /\ Positive(n.attrs.kernel_shape, 2)
  /\ SpatialAttribute(n, "strides", 2)
  /\ PerAxis(n, "dilations", 2, 1) = <<1, 1>>

\* The windows of a padded input fit it and are as many as the output has.
WindowsFit(n, pads) ==
  LET x == n.ins[1].info
      kernel == n.attrs.kernel_shape
      padded == [d \in 1..2 |-> x[d + 2] + pads[d] + pads[d + 2]]
  IN /\ \A d \in 1..2 : padded[d] >= kernel[d]
     /\ SameKnownShape(n.outs[1].shape,
          <<x[1], x[2]>> \o [d \in 1..2 |-> Windows(padded[d], kernel[d], PerAxis(n, "strides", 2, 1)[d])])

PoolClaim(n) ==
  LET x == n.ins[1].info
      strides == PerAxis(n, "strides", 2, 1)
      dynamic == x[3] <= 0 \/ x[4] <= 0
  IN /\ KernelPool(n)
     /\ ChannelsKnown(x, 4)
     /\ PadsResolve(n, 2, dynamic)
     /\ IF n.op = "AveragePool" THEN Attr(n, "count_include_pad", 0) \in 0..1 ELSE Attr(n, "storage_order", 0) = 0
     /\ IF dynamic THEN SameKnownShape(n.outs[1].shape, <<x[1], x[2], -1, -1>>)
        ELSE WindowsFit(n, PadsOf(n, Spatial(x), n.attrs.kernel_shape, strides, <<1, 1>>))

LpPoolClaim(n) ==
  /\ KernelPool(n)
  /\ PositiveDynBatch(n.ins[1].info, 4)
  /\ Attr(n, "auto_pad", "NOTSET") = "NOTSET"
  /\ Attr(n, "p", 2) > 0
  /\ ReadPads(n, 2)
  /\ WindowsFit(n, PerAxis(n, "pads", 4, 0))

GlobalPoolClaim(n) ==
  LET x == n.ins[1].info
  IN /\ Arity(n, {1}, 1)
     /\ OneFloat(n, {})
     /\ PositiveDynBatch(x, 4)
     /\ SameKnownShape(n.outs[1].shape, <<x[1], x[2], 1, 1>>)

GlobalLpPoolClaim(n) == GlobalPoolClaim(n) /\ Attr(n, "p", 2) > 0

=============================================================================
