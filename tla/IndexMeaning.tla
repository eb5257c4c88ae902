---------------------------- MODULE IndexMeaning ----------------------------
(***************************************************************************)
(* What ONNX says of the operators of IndexOps: the element at every index *)
(* of every output, without the folded rows, the spread indices and the    *)
(* permutations the handlers build; and of the operands it allows.         *)
(***************************************************************************)
EXTENDS Nodes

\* An axis attribute, and an index that may count from the end.
AxisAttr(n, name, default, rank) == 1 + (Attr(n, name, default) % rank)

Wrapped(v, extent) == IF v < 0 THEN v + extent ELSE v

GatherMeaning(n) ==
  LET data == In(n, 1)
      index == In(n, 2)
      a == AxisAttr(n, "axis", 0, Rank(data))
      r == Rank(index)
  IN <<Tensor(SubSeq(data.shape, 1, a - 1) \o index.shape \o SubSeq(data.shape, a + 1, Rank(data)),
              LAMBDA idx :
                LET v == At(index, SubSeq(idx, a, a + r - 1))
                IN At(data, SubSeq(idx, 1, a - 1) \o <<Wrapped(v, data.shape[a])>>
                            \o SubSeq(idx, a + r, Len(idx))))>>

GatherElementsMeaning(n) ==
  LET data == In(n, 1)
      index == In(n, 2)
      a == AxisAttr(n, "axis", 0, Rank(data))
  IN <<Tensor(index.shape, LAMBDA idx :
                At(data, [idx EXCEPT ![a] = Wrapped(At(index, idx), data.shape[a])]))>>

\* A scatter: the data, with the update last aimed at each element.
Scattered(data, updates, Target(_)) ==
  Tensor(data.shape, LAMBDA idx :
    LET hits == {k \in 0..(SizeOf(updates) - 1) : Target(Coord(updates.shape, k)) = idx}
    IN IF hits = {} THEN At(data, idx)
       ELSE updates.data[1 + (CHOOSE k \in hits : \A h \in hits : h <= k)])

ScatterElementsMeaning(n) ==
  LET data == In(n, 1)
      a == AxisAttr(n, "axis", 0, Rank(data))
  IN <<Scattered(data, In(n, 3), LAMBDA u :
                   [u EXCEPT ![a] = Wrapped(At(In(n, 2), u), data.shape[a])])>>

\* The leading part of an index of the data that a tuple of the index array names.
Tuple(n, q) ==
  [j \in 1..Last(n.ins[2].shape) |-> Wrapped(At(In(n, 2), q \o <<j - 1>>), n.ins[1].shape[j])]

GatherNDMeaning(n) ==
  LET data == In(n, 1)
      q == Len(n.ins[2].shape) - 1
      width == Last(n.ins[2].shape)
  IN <<Tensor(Front(n.ins[2].shape) \o SubSeq(data.shape, width + 1, Rank(data)),
              LAMBDA idx : At(data, Tuple(n, SubSeq(idx, 1, q)) \o SubSeq(idx, q + 1, Len(idx))))>>

ScatterNDMeaning(n) ==
  LET q == Len(n.ins[2].shape) - 1
  IN <<Scattered(In(n, 1), In(n, 3), LAMBDA u :
                   Tuple(n, SubSeq(u, 1, q)) \o SubSeq(u, q + 1, Len(u)))>>

ReverseSequenceMeaning(n) ==
  LET data == In(n, 1)
      b == AxisAttr(n, "batch_axis", 1, Rank(data))
      t == AxisAttr(n, "time_axis", 0, Rank(data))
      len(idx) == n.ins[2].data[1 + idx[b]]
  IN <<Tensor(data.shape, LAMBDA idx :
                At(data, IF idx[t] < len(idx) THEN [idx EXCEPT ![t] = len(idx) - 1 - @] ELSE idx))>>

\* What ONNX asks of the operands of these operators.  It also lets the index of GatherElements
\* and ScatterElements be narrower than the data off the axis, and GatherND take no tuples
\* or empty slices: nodes of those kinds are left out.
ArrayOf(n, i) == i \in DOMAIN n.ins /\ IsOperand(n.ins[i])

LegalAxis(n) == Attr(n, "axis", 0) \in (-Len(n.ins[1].shape))..(Len(n.ins[1].shape) - 1)

AlignedOffAxis(n) ==
  LET data == n.ins[1].shape
  IN /\ Len(n.ins[2].shape) = Len(data)
     /\ \A d \in DOMAIN data : d = AxisAttr(n, "axis", 0, Len(data)) \/ n.ins[2].shape[d] = data[d]

\* Every entry of every tuple is an index of the axis it is for.
LegalTuples(n) ==
  LET data == n.ins[1].shape
      index == n.ins[2].shape
  IN /\ index # <<>> /\ Last(index) \in 1..Len(data)
     /\ \A k \in DOMAIN n.ins[2].data :
          LET extent == data[1 + ((k - 1) % Last(index))] IN n.ins[2].data[k] \in (-extent)..(extent - 1)

LegalOperands(n) ==
  /\ ArrayOf(n, 1) /\ ArrayOf(n, 2)
  /\ n.op \in {"ScatterElements", "ScatterND"} => ArrayOf(n, 3)
  /\ n.op \in {"Gather", "GatherElements", "ScatterElements"} => LegalAxis(n)
  /\ n.op \in {"GatherElements", "ScatterElements"} => AlignedOffAxis(n)
  /\ n.op = "ScatterElements" => n.ins[3].shape = n.ins[2].shape
  /\ n.op \in {"GatherND", "ScatterND"} => LegalTuples(n)
  /\ n.op = "GatherND" =>
       /\ Prod(Front(n.ins[2].shape)) # 0
       /\ Prod(SubSeq(n.ins[1].shape, Last(n.ins[2].shape) + 1, Len(n.ins[1].shape))) # 0
  /\ n.op = "ReverseSequence" =>
       /\ Attr(n, "batch_axis", 1) \in Int /\ Attr(n, "time_axis", 0) \in Int
       /\ LET time == AxisAttr(n, "time_axis", 0, Len(n.ins[1].shape))
          IN \A k \in DOMAIN n.ins[2].data : n.ins[2].data[k] \in 0..n.ins[1].shape[time]

IndexFamily(n) ==
  CASE n.op = "Gather" -> GatherMeaning(n)
    [] n.op = "GatherElements" -> GatherElementsMeaning(n)
    [] n.op = "ScatterElements" -> ScatterElementsMeaning(n)
    [] n.op = "GatherND" -> GatherNDMeaning(n)
    [] n.op = "ScatterND" -> ScatterNDMeaning(n)
    [] n.op = "ReverseSequence" -> ReverseSequenceMeaning(n)

=============================================================================
