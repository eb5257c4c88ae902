-------------------------------- MODULE Nodes --------------------------------
(***************************************************************************)
(* One node of the graph: what a claim predicate may ask of it before the  *)
(* session runs (NodeView) and what its handler reads (NodeDesc and the    *)
(* arrays its inputs resolve to).  An input is                             *)
(*   [shape, data, dtype, source, info]                                    *)
(* where info is the shape the graph declares, -1 for an unknown extent.   *)
(***************************************************************************)
EXTENDS Tensors

Floats == {"fp32", "fp16", "bf16"}

Ints == {"int8", "int16", "int32", "int64"}

Uints == {"uint8", "uint16", "uint32", "uint64"}

IsMlxCpuFloat(t) == t \in Floats \cup {"fp64"}

IsMlxNumeric(t) == t \in Floats \cup Ints \cup Uints

IsMovable(t) == t \in Floats \cup {"fp64", "bool"} \cup Ints \cup Uints

IsIntIndex(t) == t \in {"int32", "int64"}

IsRangeType(t) == t \in {"int16", "int32", "int64"} \cup Floats

\* An operand has an element at every index, and the extents the graph declares for it, if any.
IsOperand(t) ==
  /\ t.shape \in Seq(Nat) /\ DOMAIN t.data = 1..Prod(t.shape)
  /\ t.info \in Seq(Int) /\ Len(t.info) = Len(t.shape)
  /\ \A d \in DOMAIN t.shape : t.info[d] \in {-1, t.shape[d]}

\* The array an input resolves to, and an integer operand read on the host.
In(n, i) == [shape |-> n.ins[i].shape, data |-> n.ins[i].data]

ReadInts(n, i) == n.ins[i].data

Present(n, i) == i <= Len(n.ins) /\ n.ins[i].source # "Absent"

Attr(n, name, default) == IF name \in DOMAIN n.attrs THEN n.attrs[name] ELSE default

Arity(n, ins, outs) == Len(n.ins) \in ins /\ Len(n.outs) = outs

Static(shape) == \A d \in DOMAIN shape : shape[d] >= 0

IsConstInt64(n, i) == n.ins[i].source = "Initializer" /\ n.ins[i].dtype = "int64"

IsConstIntTensor(n, i) == n.ins[i].source = "Initializer" /\ IsIntIndex(n.ins[i].dtype)

ConstScalarInt64(n, i) == IsConstInt64(n, i) /\ n.ins[i].info \in {<<>>, <<1>>}

AxisInRange(a, rank) == -rank <= a /\ a < rank

\* The axes a list names, and that it names each once.
UniqueAxes(axes, rank) ==
  /\ \A i \in DOMAIN axes : AxisInRange(axes[i], rank)
  /\ \A i, j \in DOMAIN axes : Axis(axes[i], rank) = Axis(axes[j], rank) => i = j

\* An unknown extent is compatible with any.
SuffixBroadcast(a, b) ==
  LET short == Smaller(Len(a), Len(b))
  IN \A i \in 0..(short - 1) :
       LET l == a[Len(a) - i]
           s == b[Len(b) - i]
       IN l < 0 \/ s < 0 \/ l = s \/ l = 1 \/ s = 1

=============================================================================
