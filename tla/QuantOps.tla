------------------------------- MODULE QuantOps -------------------------------
(***************************************************************************)
(* ops/quant.rs: quantization and the products of quantized operands.      *)
(* Scales are integers here; a quotient is rounded once, as the handlers   *)
(* do, and a float of a few bits counts in the unit of its format.         *)
(***************************************************************************)
EXTENDS ConvOps

Subtracted(s, t) == Map2(LAMBDA a, b : a - b, s, t)

Added(s, t) == Map2(LAMBDA a, b : a + b, s, t)

Multiplied(s, t) == Map2(LAMBDA a, b : a * b, s, t)

RangeFor == [int8 |-> <<-128, 127>>, uint8 |-> <<0, 255>>, int16 |-> <<-32768, 32767>>, uint16 |-> <<0, 65535>>]

\* clip, then the conversion to the output's type.
Requantized(n, q) ==
  LET range == RangeFor[n.outs[1].dtype]
  IN Map(LAMBDA v : Clamp(v, range[1], range[2]), q)

\* A parameter of one value broadcasts; one per element of an axis is laid along it.
AlignPerAxis(param, rank, axis) ==
  IF SizeOf(param) <= 1 THEN param ELSE Reshape(param, With(Repeated(1, rank), axis, SizeOf(param)))

\* A parameter per row of A, per column of B.
Column(param) == IF SizeOf(param) <= 1 THEN param ELSE Reshape(param, <<SizeOf(param), 1>>)

Row(param) == IF SizeOf(param) <= 1 THEN param ELSE Reshape(param, <<1, SizeOf(param)>>)

-----------------------------------------------------------------------------
(* QuantizeLinear, DequantizeLinear, DynamicQuantizeLinear.                   *)

NodeQuantAxis(n, rank) == IF rank = 1 THEN 1 ELSE Axis(Attr(n, "axis", 1), rank)

\* Mutant: the blocks of a parameter follow each other instead of each being repeated.
AlignQuantParamTiled(param, shape, axis, block) ==
  LET expanded == With(shape, axis, param.shape[axis] * block)
      grouped == BroadcastTo(Reshape(param, Splice(param.shape, axis, <<1, param.shape[axis]>>)),
                             Splice(param.shape, axis, <<block, param.shape[axis]>>))
  IN IF block = 0 THEN AlignPerAxis(param, Len(shape), axis)
     ELSE Slice(Reshape(grouped, expanded), Repeated(0, Len(shape)), shape, Repeated(1, Len(shape)))

\* A parameter per block is repeated over its block; the last block may overhang.
AlignQuantParam(param, shape, axis, block) ==
  LET expanded == With(shape, axis, param.shape[axis] * block)
      grouped == BroadcastTo(Reshape(param, Splice(param.shape, axis, <<param.shape[axis], 1>>)),
                             Splice(param.shape, axis, <<param.shape[axis], block>>))
  IN IF block = 0 THEN AlignPerAxis(param, Len(shape), axis)
     ELSE Slice(Reshape(grouped, expanded), Repeated(0, Len(shape)), shape, Repeated(1, Len(shape)))

Aligned(n, i) ==
  LET shape == n.ins[1].shape
  IN AlignQuantParam(In(n, i), shape, NodeQuantAxis(n, Len(shape)), Attr(n, "block_size", 0))

QuantPrecision(n) == Attr(n, "precision", n.ins[2].dtype)

QuantizeLinearOp(n) ==
  LET q == Map2(RoundEven, In(n, 1), Aligned(n, 2))
  IN IF QuantPrecision(n) \notin Floats THEN <<Fail>>
     ELSE <<Requantized(n, IF Present(n, 3) THEN Added(q, Aligned(n, 3)) ELSE q)>>

DequantizeLinearOp(n) ==
  LET centered == IF Present(n, 3) THEN Subtracted(In(n, 1), Aligned(n, 3)) ELSE In(n, 1)
  IN IF n.outs[1].dtype \notin Floats THEN <<Fail>> ELSE <<Multiplied(centered, Aligned(n, 2))>>

\* The scale is a 255th of the span, which always holds zero.
DynamicQuantizeLinearOp(n) ==
  LET x == In(n, 1)
      high == Larger(0, Greatest(x.data))
      low == Smaller(0, Min({x.data[k] : k \in DOMAIN x.data}))
      span == high - low
      zero == Clamp(RoundEven(-low * 255, span), 0, 255)
  IN <<Map(LAMBDA v : Clamp(RoundEven(v * 255, span) + zero, 0, 255), x), Scalar(Quotient(span, 255)), Scalar(zero)>>

-----------------------------------------------------------------------------
(* Products of integers, their zero points taken off first.                   *)

Centered(n, i, zero, Lay(_)) == IF Present(n, zero) THEN Subtracted(In(n, i), Lay(In(n, zero))) ELSE In(n, i)

MatMulIntegerOp(n) == <<MatMul(Centered(n, 1, 3, Column), Centered(n, 2, 4, Row))>>

QLinearMatMulOp(n) ==
  LET sum == MatMul(Centered(n, 1, 3, Column), Centered(n, 4, 6, Row))
      q == Map2(RoundEven, Multiplied(Multiplied(sum, Column(In(n, 2))), Row(In(n, 5))), Row(In(n, 7)))
  IN <<Requantized(n, IF Present(n, 8) THEN Added(q, Row(In(n, 8))) ELSE q)>>

\* A zero point of the weights may be one per output channel.
CenteredConv(n, x, xZero, w, wZero) ==
  LET sr == Rank(In(n, x)) - 2
      pads == SubSeq(PerAxis(n, "pads", 2 * sr, 0), 1, sr)
  IN FromChannelsLast(ConvGeneral(ToChannelsLast(Centered(n, x, xZero, LAMBDA z : z)),
                                  ToChannelsLast(Centered(n, w, wZero, LAMBDA z : AlignPerAxis(z, sr + 2, 1))),
                                  PerAxis(n, "strides", sr, 1), pads, pads, PerAxis(n, "dilations", sr, 1),
                                  Attr(n, "group", 1)))

ConvIntegerOp(n) == <<CenteredConv(n, 1, 3, 2, 4)>>

QLinearConvOp(n) ==
  LET rank == Rank(In(n, 1))
      channels(t) == AlignPerAxis(t, rank, 2)
      sum == CenteredConv(n, 1, 3, 4, 6)
      biased == IF Present(n, 9) THEN Added(sum, channels(In(n, 9))) ELSE sum
      q == Map2(RoundEven, Multiplied(biased, channels(Multiplied(In(n, 2), In(n, 5)))), channels(In(n, 7)))
  IN <<Requantized(n, IF Present(n, 8) THEN Added(q, channels(In(n, 8))) ELSE q)>>

-----------------------------------------------------------------------------
(* Weights of four or eight bits, packed in bytes, a scale for every block.   *)

Low(byte) == byte % 16

High(byte) == byte \div 16

\* [rows, bytes] to [rows, 2 * bytes], the low half of a byte first.
UnpackNibbles(t) ==
  Reshape(Stack(<<Map(Low, t), Map(High, t)>>, 3), <<t.shape[1], 2 * t.shape[2]>>)

\* [rows, blocks] to [rows, blocks * block].
BroadcastBlocks(t, rows, blocks, block) ==
  Reshape(BroadcastTo(Reshape(t, <<rows, blocks, 1>>), <<rows, blocks, block>>), <<rows, blocks * block>>)

TrimBlockValues(t, columns) == IF t.shape[2] = columns THEN t ELSE Cut(t, 2, 0, columns)

GatherBlockQuantizedOp(n) ==
  LET block == Attr(n, "block_size", 32)
      index == In(n, 2)
      picked(i) == TakeAxis(In(n, i), Map(LAMBDA v : v % n.ins[1].shape[1], Reshape(index, <<SizeOf(index)>>)), 1)
      rows == SizeOf(index)
      columns == 2 * n.ins[1].shape[2]
      blocks == columns \div block
      whole(t) == BroadcastBlocks(t, rows, blocks, block)
      zero == IF Present(n, 4) THEN whole(TrimBlockValues(UnpackNibbles(picked(4)), blocks)) ELSE Scalar(8)
  IN <<Reshape(Multiplied(Subtracted(UnpackNibbles(picked(1)), zero), whole(picked(3))), index.shape \o <<columns>>)>>

\* The dimensions of MatMulNBits.
BlockCount(n) == CeilDiv(n.attrs.K, Attr(n, "block_size", 32))

WeightBits(n) == Attr(n, "bits", 4)

PaddedK(n) == BlockCount(n) * Attr(n, "block_size", 32)

\* A word of 32 bits is the sequence of its values, the least significant first.  The bytes
\* of a constant weight of the right count are words as they lie; others are packed one by one.
Repack(n) ==
  LET bytes == ReadInts(n, 2)
      block == Attr(n, "block_size", 32)
      perWord == 32 \div WeightBits(n)
      perByte == 8 \div WeightBits(n)
      words == PaddedK(n) \div perWord
      value(byte, lane) == IF WeightBits(n) = 8 THEN byte ELSE (byte \div (16 ^ lane)) % 16
      asTheyLie(w) == [lane \in 1..perWord |->
                         value(bytes[1 + 4 * w + (lane - 1) \div perByte], (lane - 1) % perByte)]
      packed(row, word) ==
        [lane \in 1..perWord |->
           LET k == word * perWord + lane - 1
               within == k % block
           IN value(bytes[1 + (row * BlockCount(n) + k \div block) * (block \div perByte) + within \div perByte],
                    within % perByte)]
      borrowed == n.ins[2].source = "Initializer" /\ Len(bytes) = n.attrs.N * words * 4
  IN Tensor(<<n.attrs.N, words>>, LAMBDA idx :
       IF borrowed THEN asTheyLie(idx[1] * words + idx[2]) ELSE packed(idx[1], idx[2]))

\* mlx_quantized_matmul: the weights are value * scale + bias of their group, transposed.
QuantizedMatMul(x, words, scales, biases, group, bits) ==
  LET perWord == 32 \div bits
      weight(row, k) == At(words, <<row, k \div perWord>>)[1 + (k % perWord)] * At(scales, <<row, k \div group>>)
                        + At(biases, <<row, k \div group>>)
  IN MatMul(x, Tensor(<<x.shape[2], words.shape[1]>>, LAMBDA idx : weight(idx[2], idx[1])))

\* Zero points [N, blocks]; those of four bits fill whole bytes in each row.
ZeroPoints(n) ==
  IF WeightBits(n) = 8 THEN Reshape(In(n, 4), <<n.attrs.N, BlockCount(n)>>)
  ELSE TrimBlockValues(UnpackNibbles(Reshape(In(n, 4), <<n.attrs.N, (BlockCount(n) + 1) \div 2>>)), BlockCount(n))

\* The zero point of a block read on the host.
ZpAt(n, row, col) ==
  LET byte == ReadInts(n, 4)[1 + row * ((BlockCount(n) + 1) \div 2) + col \div 2]
  IN IF WeightBits(n) = 8 THEN ReadInts(n, 4)[1 + row * BlockCount(n) + col] ELSE IF col % 2 = 0 THEN Low(byte) ELSE High(byte)

SymmetricBiases(n, scales) == Map(LAMBDA s : -(2 ^ (WeightBits(n) - 1)) * s, scales)

\* Read on the host, scales and zero points must have the counts the blocks ask for.
AsymmetricBiases(n, scales) ==
  LET columns == IF WeightBits(n) = 4 THEN (BlockCount(n) + 1) \div 2 ELSE BlockCount(n)
  IN IF \A i \in 3..4 : n.ins[i].source = "Initializer"
  THEN IF Len(ReadInts(n, 4)) # n.attrs.N * columns THEN Fail
       ELSE Tensor(scales.shape, LAMBDA idx : -ZpAt(n, idx[1], idx[2]) * At(scales, idx))
  ELSE Multiplied(Map(LAMBDA z : -z, ZeroPoints(n)), scales)

\* Scales [N, blocks].  Of an initializer the handler compares the count, of any other
\* operand MLX does when it is reshaped: either way another count is an error.
BlockScales(n) ==
  IF SizeOf(In(n, 3)) # n.attrs.N * BlockCount(n) THEN Fail
  ELSE Reshape(In(n, 3), <<n.attrs.N, BlockCount(n)>>)

\* Blocks of a size MLX does not know are dequantized first.
MatMulNBitsOp(n) ==
  LET a == In(n, 1)
      block == Attr(n, "block_size", 32)
      rows == Prod(SubSeq(a.shape, 1, Rank(a) - 1))
      x == PadWith(Reshape(a, <<rows, n.attrs.K>>), <<0, 0>>, <<0, PaddedK(n) - n.attrs.K>>, 0)
      scales == BlockScales(n)
      biases == IF Present(n, 4) THEN AsymmetricBiases(n, scales) ELSE SymmetricBiases(n, scales)
      whole(t) == BroadcastBlocks(t, n.attrs.N, BlockCount(n), block)
      packed == In(n, 2)
      values == IF WeightBits(n) = 4 THEN UnpackNibbles(Reshape(packed, <<n.attrs.N, PaddedK(n) \div 2>>))
                ELSE Reshape(packed, <<n.attrs.N, PaddedK(n)>>)
      zero == IF Present(n, 4) THEN whole(ZeroPoints(n)) ELSE Scalar(2 ^ (WeightBits(n) - 1))
      dense == Multiplied(Subtracted(values, zero), whole(scales))
      native == block \in {32, 64, 128}
      y == IF native THEN QuantizedMatMul(x, Repack(n), scales, biases, block, WeightBits(n))
           ELSE MatMul(x, Transpose(dense, <<2, 1>>))
  IN IF x = Fail \/ scales = Fail \/ (native /\ biases = Fail) THEN <<Fail>> ELSE <<Reshape(y, With(a.shape, Rank(a), n.attrs.N))>>

-----------------------------------------------------------------------------
(* Floats of four and eight bits.  Magnitudes of e2m1 are in halves, those of *)
(* e4m3fn in 512ths, and activations in 1024ths.                              *)

E2M1(bits) == (IF bits >= 8 THEN -1 ELSE 1) * <<0, 1, 2, 3, 4, 6, 8, 12>>[1 + (bits % 8)]

E4M3(bits) ==
  LET exponent == (bits \div 8) % 16
      mantissa == bits % 8
      sign == IF bits >= 128 THEN -1 ELSE 1
  IN IF exponent = 0 THEN sign * mantissa ELSE sign * (8 + mantissa) * 2 ^ (exponent - 1)

\* A block-quantized weight times its scales, and the product with its bias in its unit.
BlockScaled(n, base, scales, block) ==
  LET rows == base.shape[1]
      blocks == CeilDiv(base.shape[2], block)
  IN Multiplied(base, TrimBlockValues(BroadcastBlocks(scales, rows, blocks, block), base.shape[2]))

BlockQuantMatMul(n, a, weight, bias, unit) ==
  LET y == MatMul(a, Transpose(weight, <<2, 1>>))
  IN <<IF Present(n, bias) THEN Added(y, Map(LAMBDA b : unit * b, In(n, bias))) ELSE y>>

MatMulFp4Op(n) ==
  LET k == n.ins[1].shape[Rank(In(n, 1))]
      rows == n.ins[2].shape[1]
      bytes == ReadInts(n, 2)
      decoded == [i \in 1..(2 * Len(bytes)) |->
                    E2M1(IF i % 2 = 1 THEN Low(bytes[(i + 1) \div 2]) ELSE High(bytes[(i + 1) \div 2]))]
      base == [shape |-> <<rows, k>>, data |-> SubSeq(decoded, 1, rows * k)]
      scaled == BlockScaled(n, base, Map(E4M3, In(n, 3)), Attr(n, "block_size", 16))
  IN BlockQuantMatMul(n, In(n, 1), Multiplied(scaled, In(n, 4)), 6, 2 * 512)

\* Mutant: the step of a binade is one exponent too coarse.
Fp8RoundedCoarse(v) ==
  LET exponent == Max({e \in 0..20 : 2 ^ e <= v})
      step == IF v < 16 THEN 2 ELSE 2 ^ (exponent - 2)
  IN Clamp(RoundEven(v, step) * step, 0, 448 * 1024)

\* A magnitude to the grid of e4m3fn: the step of the subnormals below 2^-6, elsewhere
\* an eighth of the power of two below it.
Fp8Rounded(v) ==
  LET exponent == Max({e \in 0..20 : 2 ^ e <= v})
      step == IF v < 16 THEN 2 ELSE 2 ^ (exponent - 3)
  IN Clamp(RoundEven(v, step) * step, 0, 448 * 1024)

Fp8QuantizeDequantize(a, scale) ==
  LET inverse(v) == IF scale = 0 THEN 0 ELSE v \div scale
      rounded(q) == IF q < 0 THEN -Fp8Rounded(-q) ELSE Fp8Rounded(q)
  IN Map(LAMBDA v : rounded(inverse(v)) * scale, a)

MatMulFp8Op(n) ==
  LET a == In(n, 1)
      base == Map(E4M3, In(n, 2))
      block == Attr(n, "block_size", 128)
      scales == Reshape(In(n, 3), <<base.shape[1], CeilDiv(base.shape[2], block)>>)
      rounded == IF Present(n, 4) THEN Fp8QuantizeDequantize(a, In(n, 4).data[1]) ELSE a
  IN BlockQuantMatMul(n, rounded, BlockScaled(n, base, scales, block), 5, 1024 * 512)

-----------------------------------------------------------------------------
(* What the claims ask.                                                       *)

IsInt8Or(t) == t \in {"int8", "uint8"}

IsQuantOutput(t) == t \in DOMAIN RangeFor

\* As many blocks as cover the axis, the last one used.
BlockShapeOk(data, param, axis, block) ==
  /\ block > 0
  /\ Len(data) = Len(param)
  /\ \A d \in DOMAIN data : data[d] > 0 /\ param[d] > 0 /\ (d # axis => param[d] = data[d])
  /\ data[axis] <= param[axis] * block
  /\ (param[axis] - 1) * block < data[axis]

QuantParamShapeOk(data, param, axis, block) ==
  IF block = 0 THEN param \in {<<>>, <<1>>} \/ (Len(data) > 1 /\ param = <<data[axis]>>)
  ELSE BlockShapeOk(data, param, axis, block)

\* The axis of a claim, 0 if there is none.
ClaimQuantAxis(n) ==
  LET rank == Len(n.ins[1].info)
      axis == Attr(n, "axis", 1)
  IN IF rank = 1 /\ n.ins[2].info \in {<<>>, <<1>>} THEN 1
     ELSE IF AxisInRange(axis, rank) THEN Axis(axis, rank) ELSE 0

OutputDtypeMatches(n) == Attr(n, "output_dtype", n.outs[1].dtype) = n.outs[1].dtype

\* The shapes of the scale and of the zero point, the type of the latter.
ParamsFit(n, dtype) ==
  LET x == n.ins[1].info
      scale == n.ins[2].info
      block == Attr(n, "block_size", 0)
  IN /\ ClaimQuantAxis(n) # 0
     /\ QuantParamShapeOk(x, scale, ClaimQuantAxis(n), block)
     /\ Present(n, 3) => n.ins[3].dtype = dtype /\ n.ins[3].info = scale

QuantizeLinearClaim(n) ==
  /\ Len(n.ins) \in 2..3 /\ Len(n.outs) >= 1
  /\ \A i \in 1..2 : n.ins[i].dtype \in Floats \cup {"int32"}
  /\ IsQuantOutput(n.outs[1].dtype)
  /\ ParamsFit(n, n.outs[1].dtype)
  /\ QuantPrecision(n) \in Floats
  /\ OutputDtypeMatches(n)
  /\ Present(n, 3) \/ "output_dtype" \in DOMAIN n.attrs \/ n.outs[1].dtype = "uint8"

DequantizeLinearClaim(n) ==
  /\ Len(n.ins) \in 2..3 /\ Len(n.outs) >= 1
  /\ IsQuantOutput(n.ins[1].dtype) \/ n.ins[1].dtype = "int32"
  /\ n.ins[2].dtype \in Floats /\ n.outs[1].dtype \in Floats
  /\ ParamsFit(n, n.ins[1].dtype)
  /\ OutputDtypeMatches(n)
  /\ "output_dtype" \in DOMAIN n.attrs \/ n.outs[1].dtype = n.ins[2].dtype

DynamicQuantizeLinearClaim(n) ==
  /\ Arity(n, {1}, 3)
  /\ n.ins[1].dtype \in Floats /\ n.outs[2].dtype \in Floats
  /\ n.outs[1].dtype = "uint8" /\ n.outs[3].dtype = "uint8"

\* Products of 8-bit values, summed this often, are exact in a 32-bit float.
MaxExactAccum == 256

MatricesMeet(a, b) == Len(a) = 2 /\ Len(b) = 2 /\ a[2] \in 1..MaxExactAccum /\ a[2] = b[1]

MatMulIntegerClaim(n) ==
  LET vector(zero, i) == Present(n, zero) => n.ins[zero].dtype = n.ins[i].dtype /\ Len(n.ins[zero].info) <= 1
  IN /\ Len(n.ins) \in 2..4 /\ Len(n.outs) >= 1
     /\ \A i \in 1..2 : IsInt8Or(n.ins[i].dtype)
     /\ n.outs[1].dtype = "int32"
     /\ MatricesMeet(n.ins[1].info, n.ins[2].info)
     /\ vector(3, 1) /\ vector(4, 2)

\* A parameter of one value or, if that is allowed, one per element of an axis.
ParamOk(n, i, want, extent) ==
  Present(n, i) => n.ins[i].dtype = want /\ (n.ins[i].info \in {<<>>, <<1>>} \/ (extent >= 0 /\ n.ins[i].info = <<extent>>))

Alone == -1

ConvAttrsOk(n, x, w) ==
  LET sr == Len(x) - 2
      pads == PerAxis(n, "pads", 2 * sr, 0)
  IN /\ Attr(n, "auto_pad", "NOTSET") = "NOTSET"
     /\ GroupsDivide(n, x, w)
     /\ SpatialAttribute(n, "strides", sr) /\ SpatialAttribute(n, "dilations", sr) /\ ReadPads(n, sr)
     /\ \A d \in 1..sr : pads[d] = pads[sr + d]
     /\ KernelMatches(n, w)

ConvAccumExact(w) == Prod(Tail(w)) \in 1..MaxExactAccum

ConvShapesOk(n, x, w) ==
  /\ Len(x) \in 3..4 /\ Positive(x, Len(x)) /\ Positive(w, Len(x))
  /\ ConvAttrsOk(n, x, w) /\ ConvAccumExact(w)

ConvIntegerClaim(n) ==
  LET w == n.ins[2].info
  IN /\ Arity(n, 2..4, 1)
     /\ \A i \in 1..2 : IsInt8Or(n.ins[i].dtype)
     /\ n.outs[1].dtype = "int32"
     /\ ConvShapesOk(n, n.ins[1].info, w)
     /\ ParamOk(n, 3, n.ins[1].dtype, Alone) /\ ParamOk(n, 4, n.ins[2].dtype, w[1])

QLinearMatMulClaim(n) ==
  LET a == n.ins[1].info
      b == n.ins[4].info
  IN /\ Arity(n, {8}, 1)
     /\ IsInt8Or(n.ins[1].dtype) /\ IsInt8Or(n.ins[4].dtype) /\ IsInt8Or(n.outs[1].dtype)
     /\ MatricesMeet(a, b) /\ a[1] > 0 /\ b[2] > 0
     /\ ParamOk(n, 2, "fp32", a[1]) /\ ParamOk(n, 3, n.ins[1].dtype, a[1])
     /\ ParamOk(n, 5, "fp32", b[2]) /\ ParamOk(n, 6, n.ins[4].dtype, b[2])
     /\ ParamOk(n, 7, "fp32", b[2]) /\ ParamOk(n, 8, n.outs[1].dtype, b[2])

QLinearConvClaim(n) ==
  LET w == n.ins[4].info
  IN /\ Arity(n, 8..9, 1)
     /\ IsInt8Or(n.ins[1].dtype) /\ IsInt8Or(n.ins[4].dtype) /\ IsInt8Or(n.outs[1].dtype)
     /\ ConvShapesOk(n, n.ins[1].info, w)
     /\ ParamOk(n, 2, "fp32", Alone) /\ ParamOk(n, 3, n.ins[1].dtype, Alone)
     /\ ParamOk(n, 5, "fp32", w[1]) /\ ParamOk(n, 6, n.ins[4].dtype, w[1])
     /\ ParamOk(n, 7, "fp32", Alone) /\ ParamOk(n, 8, n.outs[1].dtype, Alone)
     /\ Present(n, 9) => n.ins[9].dtype = "int32" /\ n.ins[9].info = <<w[1]>>

GatherBlockQuantizedClaim(n) ==
  /\ Len(n.outs) >= 1
  /\ n.ins[1].dtype = "uint8" /\ IsIntIndex(n.ins[2].dtype)
  /\ n.ins[3].dtype \in Floats /\ n.ins[3].dtype = n.outs[1].dtype
  /\ Present(n, 4) => n.ins[4].dtype = "uint8"
  /\ Attr(n, "bits", 4) = 4 /\ Attr(n, "gather_axis", 0) = 0 /\ Attr(n, "quantize_axis", 1) = 1
  /\ Attr(n, "block_size", 128) >= 16

MatMulNBitsClaim(n) ==
  /\ Len(n.outs) >= 1
  /\ n.outs[1].dtype \in Floats /\ n.ins[1].dtype = n.outs[1].dtype /\ n.ins[3].dtype = n.outs[1].dtype
  /\ n.ins[2].dtype = "uint8"
  /\ Present(n, 4) => n.ins[4].dtype = "uint8"
  /\ \A i \in 5..Len(n.ins) : ~Present(n, i)
  /\ Attr(n, "bits", 4) \in {4, 8}
  /\ Attr(n, "block_size", 32) \in {16, 32, 64, 128}

BlockQuantMatMulClaim(n) ==
  LET fp4 == n.op = "MatMulBlockQuantizedFp4Weight"
      a == n.ins[1].info
      b == n.ins[2].info
      block == Attr(n, "block_size", IF fp4 THEN 16 ELSE 128)
      alone(i) == Present(n, i) => n.ins[i].dtype = "fp32" /\ Prod(n.ins[i].info) = 1
      bias(i) == Present(n, i) => n.ins[i].dtype = n.ins[1].dtype /\ n.ins[i].info = <<b[1]>>
  IN /\ Len(n.ins) <= (IF fp4 THEN 6 ELSE 5) /\ Len(n.outs) = 1
     /\ n.ins[1].dtype \in {"fp16", "bf16"} /\ n.outs[1].dtype = n.ins[1].dtype
     /\ Len(a) >= 1 /\ Positive(a, Len(a)) /\ Positive(b, 2)
     /\ block > 0
     /\ a[Len(a)] = IF fp4 THEN 2 * b[2] ELSE b[2]
     /\ n.ins[3].info = <<b[1], CeilDiv(a[Len(a)], block)>>
     /\ n.ins[2].source = "Initializer"
     /\ IF fp4
        THEN /\ n.ins[2].dtype = "uint8" /\ n.ins[3].dtype = "uint8" /\ n.ins[3].source = "Initializer"
             /\ Len(n.ins) >= 4 /\ Present(n, 4) /\ alone(4) /\ alone(5) /\ bias(6)
        ELSE n.ins[2].dtype = "fp8" /\ n.ins[3].dtype = "fp32" /\ alone(4) /\ bias(5)

=============================================================================
