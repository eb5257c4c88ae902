----------------------------- MODULE QuantMeaning -----------------------------
(***************************************************************************)
(* What ONNX, and ONNX Runtime for its own operators, say of the operators *)
(* of QuantOps: every output from the inputs it depends on.                *)
(***************************************************************************)
EXTENDS ConvMeaning

QuantTypes == {"QuantizeLinear", "DequantizeLinear", "DynamicQuantizeLinear", "MatMulInteger", "QLinearMatMul",
               "ConvInteger", "QLinearConv", "GatherBlockQuantized", "MatMulNBits",
               "MatMulBlockQuantizedFp4Weight", "MatMulBlockQuantizedFp8Weight"}

\* The nearest integer to v / q, the even one of two.
NearestInteger(v, q) ==
  LET off(k) == IF v > k * q THEN v - k * q ELSE k * q - v
      near == {k \in (v \div q)..(v \div q + 1) : 2 * off(k) <= q}
  IN IF Cardinality(near) = 1 THEN CHOOSE k \in near : TRUE ELSE CHOOSE k \in near : k % 2 = 0

Saturate(n, v) ==
  LET least == [int8 |-> -128, uint8 |-> 0, int16 |-> -32768, uint16 |-> 0]
      count == IF n.outs[1].dtype \in {"int8", "uint8"} THEN 256 ELSE 65536
      low == least[n.outs[1].dtype]
  IN IF v < low THEN low ELSE IF v >= low + count THEN low + count - 1 ELSE v

\* The value of an optional parameter for an element that has position p on the axis the
\* parameter may have.
ParamAt(n, i, p, default) ==
  IF ~Present(n, i) THEN default
  ELSE IF Len(n.ins[i].data) = 1 THEN n.ins[i].data[1] ELSE n.ins[i].data[p + 1]

\* The value for an element at an index, a parameter per tensor, axis or block.
QuantParamAt(n, i, idx) ==
  LET rank == Len(n.ins[1].shape)
      axis == IF rank = 1 THEN 1 ELSE 1 + (Attr(n, "axis", 1) % rank)
  IN IF Attr(n, "block_size", 0) = 0 THEN ParamAt(n, i, idx[axis], 0)
     ELSE IF Present(n, i) THEN At(In(n, i), [idx EXCEPT ![axis] = @ \div n.attrs.block_size]) ELSE 0

LinearMeaning(n) ==
  LET x == In(n, 1)
      scale(idx) == QuantParamAt(n, 2, idx)
      zero(idx) == QuantParamAt(n, 3, idx)
  IN <<Tensor(x.shape, LAMBDA idx :
         IF n.op = "QuantizeLinear" THEN Saturate(n, NearestInteger(At(x, idx), scale(idx)) + zero(idx))
         ELSE (At(x, idx) - zero(idx)) * scale(idx))>>

\* The interval of the elements, zero with them, on 0..255.
DynamicQuantizeLinearMeaning(n) ==
  LET x == n.ins[1]
      met == {0} \cup {x.data[k] : k \in DOMAIN x.data}
      width == Max(met) - Min(met)
      zero == NearestInteger(-255 * Min(met), width)
  IN <<[shape |-> x.shape, data |-> [k \in DOMAIN x.data |-> Saturate(n, NearestInteger(255 * x.data[k], width) + zero)]],
       Scalar(Quotient(width, 255)), Scalar(zero)>>

\* A product of matrices whose zero points are per row of A and per column of B.
IntegerProduct(n, i, k, a, aZero, b, bZero) ==
  Total([j \in 1..n.ins[a].shape[2] |->
           (At(In(n, a), <<i, j - 1>>) - ParamAt(n, aZero, i, 0)) * (At(In(n, b), <<j - 1, k>>) - ParamAt(n, bZero, k, 0))])

MatMulIntegerMeaning(n) ==
  <<Tensor(<<n.ins[1].shape[1], n.ins[2].shape[2]>>, LAMBDA idx : IntegerProduct(n, idx[1], idx[2], 1, 3, 2, 4))>>

QLinearMatMulMeaning(n) ==
  <<Tensor(<<n.ins[1].shape[1], n.ins[4].shape[2]>>, LAMBDA idx :
      LET exact == IntegerProduct(n, idx[1], idx[2], 1, 3, 4, 6) * ParamAt(n, 2, idx[1], 1) * ParamAt(n, 5, idx[2], 1)
      IN Saturate(n, NearestInteger(exact, ParamAt(n, 7, idx[2], 1)) + ParamAt(n, 8, idx[2], 0)))>>

\* The sum over a window; elements outside of the input count as its zero point.
IntegerConv(n, idx, x, xZero, w, wZero) ==
  LET data == In(n, x)
      kernel == SubSeq(n.ins[w].shape, 3, Rank(data))
      perGroup == n.ins[w].shape[1] \div Attr(n, "group", 1)
      under(c) == <<idx[1], (idx[2] \div perGroup) * n.ins[w].shape[2] + c[1]>>
                  \o [d \in DOMAIN kernel |-> Under(n, data, kernel, d, idx[d + 2], c[d + 1])]
      inside(p) == \A d \in DOMAIN p : 0 <= p[d] /\ p[d] < data.shape[d]
      tap(c) == IF inside(under(c))
                THEN (At(data, under(c)) - ParamAt(n, xZero, 0, 0))
                     * (At(In(n, w), <<idx[2]>> \o c) - ParamAt(n, wZero, idx[2], 0))
                ELSE 0
  IN SumOver(Tail(n.ins[w].shape), tap)

ConvOut(n, w) ==
  <<n.ins[1].shape[1], n.ins[w].shape[1]>> \o OutArea(n, In(n, 1), SubSeq(n.ins[w].shape, 3, Len(n.ins[w].shape)))

ConvIntegerMeaning(n) == <<Tensor(ConvOut(n, 2), LAMBDA idx : IntegerConv(n, idx, 1, 3, 2, 4))>>

QLinearConvMeaning(n) ==
  <<Tensor(ConvOut(n, 4), LAMBDA idx :
      LET exact == (IntegerConv(n, idx, 1, 3, 4, 6) + ParamAt(n, 9, idx[2], 0))
                   * ParamAt(n, 2, 0, 1) * ParamAt(n, 5, idx[2], 1)
      IN Saturate(n, NearestInteger(exact, ParamAt(n, 7, 0, 1)) + ParamAt(n, 8, 0, 0)))>>

\* Value k of a row of bytes that hold one or two values each.
ValueOf(byte, k, bits) == IF bits = 8 THEN byte ELSE IF k % 2 = 0 THEN byte % 16 ELSE byte \div 16

GatherBlockQuantizedMeaning(n) ==
  LET table == In(n, 1)
      index == In(n, 2)
      block == Attr(n, "block_size", 128)
      packed(i, row, k) == ValueOf(At(In(n, i), <<row, k \div 2>>), k, 4)
      dequantized(row, k) ==
        (packed(1, row, k) - (IF Present(n, 4) THEN packed(4, row, k \div block) ELSE 8)) * At(In(n, 3), <<row, k \div block>>)
  IN <<Tensor(Append(index.shape, 2 * table.shape[2]), LAMBDA idx :
         dequantized(At(index, Front(idx)) % table.shape[1], Last(idx)))>>

\* B is [N, blocks, bytes of a block]; a row of zero points fills whole bytes.
MatMulNBitsMeaning(n) ==
  LET a == In(n, 1)
      bits == Attr(n, "bits", 4)
      block == Attr(n, "block_size", 32)
      blocks == CeilDiv(n.attrs.K, block)
      perByte == 8 \div bits
      value(j, k) == ValueOf(At(In(n, 2), <<j, k \div block, (k % block) \div perByte>>), k, bits)
      zero(j, b) == IF Present(n, 4) THEN ValueOf(n.ins[4].data[1 + j * CeilDiv(blocks, perByte) + b \div perByte], b, bits)
                    ELSE 2 ^ (bits - 1)
      weight(j, k) == (value(j, k) - zero(j, k \div block)) * n.ins[3].data[1 + j * blocks + k \div block]
  IN <<Tensor(Append(Front(a.shape), n.attrs.N), LAMBDA idx :
         Total([k \in 1..n.attrs.K |-> At(a, Append(Front(idx), k - 1)) * weight(Last(idx), k - 1)]))>>

-----------------------------------------------------------------------------
\* The magnitudes of e4m3fn in 512ths, in the order of their codes: each is a step above
\* the one before, and the step doubles every eight codes but the first.
Magnitudes == [code \in 0..126 |-> Total([c \in 1..code |-> 2 ^ Larger(0, (c - 1) \div 8 - 1)])]

Fp8(byte) == IF byte < 128 THEN Magnitudes[byte] ELSE -Magnitudes[byte - 128]

\* Of the floats nearest to v (in 1024ths) the one of even code, in 1024ths.
NearestFp8(v) ==
  LET off == [code \in 0..126 |-> Larger(v - 2 * Magnitudes[code], 2 * Magnitudes[code] - v)]
      least == Min({off[code] : code \in 0..126})
      near == {code \in 0..126 : off[code] = least}
  IN 2 * Magnitudes[CHOOSE code \in near : Cardinality(near) = 1 \/ code % 2 = 0]

Fp4(half) == <<0, 1, 2, 3, 4, 6, 8, 12, 0, -1, -2, -3, -4, -6, -8, -12>>[half + 1]

FpMatMulMeaning(n) ==
  LET fp4 == n.op = "MatMulBlockQuantizedFp4Weight"
      a == In(n, 1)
      block == Attr(n, "block_size", IF fp4 THEN 16 ELSE 128)
      scale(j, k) == At(In(n, 3), <<j, k \div block>>)
      weight(j, k) == IF fp4 THEN Fp4(ValueOf(At(In(n, 2), <<j, k \div 2>>), k, 4)) * Fp8(scale(j, k)) * n.ins[4].data[1]
                      ELSE Fp8(At(In(n, 2), <<j, k>>)) * scale(j, k)
      s == IF fp4 \/ ~Present(n, 4) THEN 0 ELSE n.ins[4].data[1]
      activation(v) == IF fp4 \/ ~Present(n, 4) THEN v
                       ELSE IF s = 0 THEN 0
                       ELSE IF v < 0 THEN -s * NearestFp8((-v) \div s) ELSE s * NearestFp8(v \div s)
      bias(j) == IF fp4 THEN 1024 * ParamAt(n, 6, j, 0) ELSE 512 * 1024 * ParamAt(n, 5, j, 0)
  IN <<Tensor(Append(Front(a.shape), n.ins[2].shape[1]), LAMBDA idx :
         bias(Last(idx)) + Total([k \in 1..Last(a.shape) |->
                                    activation(At(a, Append(Front(idx), k - 1))) * weight(Last(idx), k - 1)]))>>

QuantFamily(n) ==
  CASE n.op \in {"QuantizeLinear", "DequantizeLinear"} -> LinearMeaning(n)
    [] n.op = "DynamicQuantizeLinear" -> DynamicQuantizeLinearMeaning(n)
    [] n.op = "MatMulInteger" -> MatMulIntegerMeaning(n)
    [] n.op = "QLinearMatMul" -> QLinearMatMulMeaning(n)
    [] n.op = "ConvInteger" -> ConvIntegerMeaning(n)
    [] n.op = "QLinearConv" -> QLinearConvMeaning(n)
    [] n.op = "GatherBlockQuantized" -> GatherBlockQuantizedMeaning(n)
    [] n.op = "MatMulNBits" -> MatMulNBitsMeaning(n)
    [] OTHER -> FpMatMulMeaning(n)

=============================================================================
