----------------------------- MODULE ConvMeaning -----------------------------
(***************************************************************************)
(* What ONNX says of the operators of ConvOps, the channels first: every   *)
(* element of the output from the positions of the input under its window. *)
(***************************************************************************)
EXTENDS Nodes

\* The element at an index that may lie outside of the array.
PaddedAt(t, idx) == IF \A d \in DOMAIN idx : 0 <= idx[d] /\ idx[d] < t.shape[d] THEN At(t, idx) ELSE 0

\* The sum of F over all indices of an array of this shape.
SumOver(shape, F(_)) == Total([k \in 1..Prod(shape) |-> F(Coord(shape, k - 1))])

PerDim(n, name, default, rank) == Attr(n, name, [d \in 1..rank |-> default])

\* SAME keeps one window per stride begun; what they need beyond the input is split, the
\* odd one at the end of it or at its begin.
PadBegin(n, d, extent, kernel, stride, dilation, rank) ==
  LET missing == (CeilDiv(extent, stride) - 1) * stride + (kernel - 1) * dilation + 1 - extent
      mode == Attr(n, "auto_pad", "NOTSET")
  IN IF mode = "NOTSET" THEN PerDim(n, "pads", 0, 2 * rank)[d]
     ELSE IF mode = "VALID" \/ missing <= 0 THEN 0
     ELSE IF mode = "SAME_UPPER" THEN missing \div 2 ELSE CeilDiv(missing, 2)

\* How many windows an axis has.
OutExtent(n, d, extent, kernel, stride, dilation, rank) ==
  LET mode == Attr(n, "auto_pad", "NOTSET")
      pads == PerDim(n, "pads", 0, 2 * rank)
      room == extent + (IF mode = "NOTSET" THEN pads[d] + pads[rank + d] ELSE 0) - (kernel - 1) * dilation
  IN IF mode \in {"SAME_UPPER", "SAME_LOWER"} THEN CeilDiv(extent, stride) ELSE CeilDiv(room, stride)

\* Where an axis of the input is under tap k of window o.
Under(n, x, kernel, d, o, k) ==
  LET rank == Len(x.shape) - 2
      stride == PerDim(n, "strides", 1, rank)[d]
      dilation == PerDim(n, "dilations", 1, rank)[d]
  IN o * stride + k * dilation - PadBegin(n, d, x.shape[d + 2], kernel[d], stride, dilation, rank)

OutArea(n, x, kernel) ==
  LET rank == Len(x.shape) - 2
  IN [d \in 1..rank |-> OutExtent(n, d, x.shape[d + 2], kernel[d], PerDim(n, "strides", 1, rank)[d],
                                  PerDim(n, "dilations", 1, rank)[d], rank)]

ConvMeaning(n) ==
  LET x == In(n, 1)
      w == In(n, 2)
      rank == Len(x.shape) - 2
      kernel == SubSeq(w.shape, 3, rank + 2)
      outsPerGroup == w.shape[1] \div Attr(n, "group", 1)
      bias(o) == IF Present(n, 3) THEN In(n, 3).data[o + 1] ELSE 0
      from(idx, c) == <<idx[1], (idx[2] \div outsPerGroup) * w.shape[2] + c[1]>>
                      \o [d \in 1..rank |-> Under(n, x, kernel, d, idx[d + 2], c[d + 1])]
  IN <<Tensor(<<x.shape[1], w.shape[1]>> \o OutArea(n, x, kernel), LAMBDA idx :
         bias(idx[2]) + SumOver(Tail(w.shape), LAMBDA c : At(w, <<idx[2]>> \o c) * PaddedAt(x, from(idx, c))))>>

\* Each input element adds the kernel, scaled by it, where it stands in the output.
ConvTransposeMeaning(n) ==
  LET x == In(n, 1)
      w == In(n, 2)
      s == PerDim(n, "strides", 1, 2)
      pads == PerDim(n, "pads", 0, 4)
      area == [d \in 1..2 |-> s[d] * (x.shape[d + 2] - 1) + PerDim(n, "output_padding", 0, 2)[d] + w.shape[d + 2]
                              - pads[d] - pads[d + 2]]
      bias(o) == IF Present(n, 3) THEN In(n, 3).data[o + 1] ELSE 0
      lands(idx, i, k) == \A d \in 1..2 : i[d + 1] * s[d] + k[d] - pads[d] = idx[d + 2]
  IN <<Tensor(<<x.shape[1], w.shape[2]>> \o area, LAMBDA idx :
         bias(idx[2]) + SumOver(Tail(x.shape), LAMBDA i : SumOver(SubSeq(w.shape, 3, 4), LAMBDA k :
           IF lands(idx, i, k) THEN At(x, <<idx[1]>> \o i) * At(w, <<i[1], idx[2]>> \o k) ELSE 0)))>>

\* The bilinear value, in quarters, at a position in halves: of each element around it
\* by how near it is, nothing beyond the border.
Bilinear(x, b, c, y, z) ==
  LET near(p, v) == IF 2 * p - v \in {-1, 0, 1} THEN 2 - (IF 2 * p > v THEN 2 * p - v ELSE v - 2 * p) ELSE 0
  IN SumOver(<<x.shape[3], x.shape[4]>>, LAMBDA p : near(p[1], y) * near(p[2], z) * At(x, <<b, c>> \o p))

DeformConvMeaning(n) ==
  LET x == In(n, 1)
      w == In(n, 2)
      kernel == SubSeq(w.shape, 3, 4)
      outsPerGroup == w.shape[1] \div Attr(n, "group", 1)
      perOffset == x.shape[2] \div Attr(n, "offset_group", 1)
      bias(o) == IF Present(n, 4) THEN 4 * In(n, 4).data[o + 1] ELSE 0
      term(idx, c) ==
        LET channel == (idx[2] \div outsPerGroup) * w.shape[2] + c[1]
            \* offset is [N, groups, kH, kW, 2, H, W] and mask [N, groups, kH, kW, H, W]
            split == <<x.shape[1], Attr(n, "offset_group", 1)>> \o kernel
            point == <<idx[1], channel \div perOffset, c[2], c[3]>>
            offset == [In(n, 3) EXCEPT !.shape = split \o <<2, @[3], @[4]>>]
            mask == [In(n, 5) EXCEPT !.shape = split \o SubSeq(@, 3, 4)]
            at == [d \in 1..2 |-> 2 * Under(n, x, kernel, d, idx[d + 2], c[d + 1])
                                  + At(offset, point \o <<d - 1, idx[3], idx[4]>>)]
        IN At(w, <<idx[2]>> \o c) * Bilinear(x, idx[1], channel, at[1], at[2])
           * (IF Present(n, 5) THEN At(mask, point \o <<idx[3], idx[4]>>) ELSE 1)
  IN <<Tensor(<<x.shape[1], w.shape[1]>> \o OutArea(n, x, kernel),
              LAMBDA idx : bias(idx[2]) + SumOver(Tail(w.shape), LAMBDA c : term(idx, c)))>>

\* The elements of the input, and not of its pads, under the window of an output.
Windowed(n, x, kernel, idx) ==
  LET all == [k \in 1..Prod(kernel) |->
                [d \in 1..4 |-> IF d <= 2 THEN idx[d] ELSE Under(n, x, kernel, d - 2, idx[d], Coord(kernel, k - 1)[d - 2])]]
      inside == SelectSeq(all, LAMBDA c : \A d \in 3..4 : 0 <= c[d] /\ c[d] < x.shape[d])
  IN [i \in DOMAIN inside |-> At(x, inside[i])]

Pooled(n, s, size) ==
  LET p == Attr(n, "p", 2)
      powers == Total([i \in DOMAIN s |-> Prod([j \in 1..p |-> IF s[i] < 0 THEN -s[i] ELSE s[i]])])
  IN CASE n.op \in {"MaxPool", "GlobalMaxPool"} -> CHOOSE v \in ToSet(s) : \A w \in ToSet(s) : w <= v
       [] n.op \in {"LpPool", "GlobalLpPool"} -> IF p = 1 THEN powers ELSE <<"root", p, powers>>
       [] OTHER -> Quotient(Total(s), IF Attr(n, "count_include_pad", 0) = 1 THEN size ELSE Len(s))

\* A global pool is one window over the plane.
PoolMeaning(n) ==
  LET x == In(n, 1)
      kernel == Attr(n, "kernel_shape", SubSeq(x.shape, 3, 4))
  IN <<Tensor(SubSeq(x.shape, 1, 2) \o OutArea(n, x, kernel),
              LAMBDA idx : Pooled(n, Windowed(n, x, kernel, idx), Prod(kernel)))>>

ConvTypes == {"Conv", "DeformConv", "ConvTranspose", "AveragePool", "MaxPool", "GlobalAveragePool",
              "GlobalMaxPool", "LpPool", "GlobalLpPool"}

ConvFamily(n) ==
  CASE n.op = "Conv" -> ConvMeaning(n)
    [] n.op = "DeformConv" -> DeformConvMeaning(n)
    [] n.op = "ConvTranspose" -> ConvTransposeMeaning(n)
    [] OTHER -> PoolMeaning(n)

=============================================================================
