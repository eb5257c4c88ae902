------------------------------ MODULE IndexOps ------------------------------
(***************************************************************************)
(* The operators of ops/shape.rs that move elements by the values of an    *)
(* index.  XOp is the handler of X, the sequence of its outputs; XClaim is *)
(* its claim predicate.                                                    *)
(***************************************************************************)
EXTENDS Nodes

IndexTypes == {"Gather", "GatherElements", "GatherND", "ScatterElements", "ScatterND", "ReverseSequence"}

MovesData(n) == IsMovable(n.ins[1].dtype) /\ n.outs[1].dtype = n.ins[1].dtype

-----------------------------------------------------------------------------
(* Gather and scatter. *)

\* normalize_indices: a negative index counts from the end.
NormalizeIndices(index, extent) == Map(LAMBDA v : IF v < 0 THEN v + extent ELSE v, index)

Indexed(n, TakeAt(_, _, _)) ==
  LET data == In(n, 1)
      axis == Axis(Attr(n, "axis", 0), Rank(data))
  IN <<TakeAt(data, NormalizeIndices(In(n, 2), data.shape[axis]), axis)>>

GatherOp(n) == Indexed(n, TakeAxis)

GatherElementsOp(n) == Indexed(n, TakeAlong)

GatherLikeClaim(n) ==
  /\ Arity(n, {2}, 1)
  /\ MovesData(n)
  /\ IsIntIndex(n.ins[2].dtype)

ScatterElementsOp(n) == Indexed(n, LAMBDA t, index, axis : PutAlong(t, index, In(n, 3), axis))

ScatterElementsClaim(n) ==
  LET data == n.ins[1].info
      axis == Attr(n, "axis", 0)
  IN /\ Arity(n, {3}, 1)
     /\ Attr(n, "reduction", "none") = "none"
     /\ n.ins[1].dtype \in Floats
     /\ IsIntIndex(n.ins[2].dtype)
     /\ n.ins[3].dtype = n.ins[1].dtype /\ n.outs[1].dtype = n.ins[1].dtype
     /\ Len(data) >= 1
     /\ n.ins[2].info = n.ins[3].info
     /\ Len(n.ins[2].info) = Len(data)
     /\ n.outs[1].shape = data
     /\ AxisInRange(axis, Len(data))
     /\ \A d \in DOMAIN data : d = Axis(axis, Len(data)) \/ n.ins[2].info[d] <= data[d]

\* Mutant: the strides grow from the first axis on.
TupleRowsColumnMajor(index, dims) ==
  LET width == Len(dims)
      count == Larger(1, Prod(Front(index.shape)))
      strides == [j \in 1..width |-> Prod(SubSeq(dims, 1, j - 1))]
      wrapped == Map2(LAMBDA i, d : IF i < 0 THEN i + d ELSE i,
                      Reshape(index, <<count, width>>), Vector(dims))
  IN ReduceAxis(Total, Map2(LAMBDA i, s : i * s, wrapped, Vector(strides)), 2)

\* The flat row a tuple of indices names: the first axes of the data folded to one.
TupleRows(index, dims) ==
  LET width == Len(dims)
      count == Larger(1, Prod(Front(index.shape)))
      strides == [j \in 1..width |-> Prod(SubSeq(dims, j + 1, width))]
      wrapped == Map2(LAMBDA i, d : IF i < 0 THEN i + d ELSE i,
                      Reshape(index, <<count, width>>), Vector(dims))
      scaled == Map2(LAMBDA i, s : i * s, wrapped, Vector(strides))
  IN ReduceAxis(Total, scaled, 2)

Rows(data, width) ==
  Reshape(data, <<Prod(SubSeq(data.shape, 1, width)),
                  Larger(1, Prod(SubSeq(data.shape, width + 1, Rank(data))))>>)

GatherNdOp(n) ==
  LET data == In(n, 1)
      index == In(n, 2)
      width == Last(index.shape)
      rows == TupleRows(index, SubSeq(data.shape, 1, width))
  IN IF width = 0 \/ width > Rank(data) THEN <<Fail>>
     ELSE <<Reshape(TakeAxis(Rows(data, width), rows, 1),
                    Front(index.shape) \o SubSeq(data.shape, width + 1, Rank(data)))>>

GatherNdClaim(n) ==
  /\ Arity(n, {2}, 1)
  /\ Attr(n, "batch_dims", 0) = 0
  /\ MovesData(n)
  /\ IsIntIndex(n.ins[2].dtype)
  /\ Len(n.ins[2].info) > 0 /\ Last(n.ins[2].info) > 0
  /\ Len(n.ins[1].info) > 0

ScatterNdOp(n) ==
  LET data == In(n, 1)
      index == In(n, 2)
      width == Last(index.shape)
      rows == TupleRows(index, SubSeq(data.shape, 1, width))
      flat == Rows(data, width)
      block == <<rows.shape[1], flat.shape[2]>>
      at == BroadcastTo(Reshape(rows, <<rows.shape[1], 1>>), block)
  IN <<Reshape(PutAlong(flat, at, Reshape(In(n, 3), block), 1), data.shape)>>

ScatterNdClaim(n) ==
  LET data == n.ins[1].info
      index == n.ins[2].info
  IN /\ Arity(n, {3}, 1)
     /\ Attr(n, "reduction", "none") = "none"
     /\ n.ins[1].dtype \in Floats
     /\ n.outs[1].dtype = n.ins[1].dtype /\ n.ins[3].dtype = n.ins[1].dtype
     /\ n.outs[1].shape = data
     /\ IsIntIndex(n.ins[2].dtype)
     /\ index # <<>> /\ \A d \in DOMAIN index : index[d] > 0
     /\ \A d \in DOMAIN data : data[d] > 0
     /\ Last(index) <= Len(data)
     /\ n.ins[3].info = Front(index) \o SubSeq(data, Last(index) + 1, Len(data))

-----------------------------------------------------------------------------
(* Sequences of a batch, each reversed up to its length. *)

\* Two of the axes first, the others after them in order.
AxesFirst(b, t, rank) ==
  <<b, t>> \o Without(Without([d \in 1..rank |-> d], Larger(b, t)), Smaller(b, t))

\* The batch and the time axis come first, the gather index is spread over the rest,
\* and the inverse permutation puts the axes back.
ReverseSequenceOp(n) ==
  LET data == In(n, 1)
      rank == Rank(data)
      batch == Axis(Attr(n, "batch_axis", 1), rank)
      time == Axis(Attr(n, "time_axis", 0), rank)
      perm == AxesFirst(batch, time, rank)
      inverse == [d \in 1..rank |-> CHOOSE i \in 1..rank : perm[i] = d]
      first == Transpose(data, perm)
      lens == Reshape(In(n, 2), <<first.shape[1], 1>>)
      steps == Reshape(Arange(0, first.shape[2], 1), <<1, first.shape[2]>>)
      index == Map2(LAMBDA t, l : IF t < l THEN l - 1 - t ELSE t, steps, lens)
      spread == BroadcastTo(Reshape(index, index.shape \o Repeated(1, rank - 2)), first.shape)
  IN <<Transpose(TakeAlong(first, spread, 2), inverse)>>

ReverseSequenceClaim(n) ==
  LET data == n.ins[1].info
      batch == Attr(n, "batch_axis", 1)
      time == Attr(n, "time_axis", 0)
  IN /\ Arity(n, {2}, 1)
     /\ MovesData(n) /\ n.outs[1].shape = data
     /\ Len(data) >= 2 /\ Static(data)
     /\ n.ins[2].dtype = "int64" /\ Len(n.ins[2].info) = 1
     /\ UniqueAxes(<<batch, time>>, Len(data))
     /\ n.ins[2].info[1] = data[Axis(batch, Len(data))]

-----------------------------------------------------------------------------
(* The entries of these operators. *)

IndexClaim(n) ==
  CASE n.op \in {"Gather", "GatherElements"} -> GatherLikeClaim(n)
    [] n.op = "ScatterElements" -> ScatterElementsClaim(n)
    [] n.op = "GatherND" -> GatherNdClaim(n)
    [] n.op = "ScatterND" -> ScatterNdClaim(n)
    [] n.op = "ReverseSequence" -> ReverseSequenceClaim(n)

IndexHandler(n) ==
  CASE n.op = "Gather" -> GatherOp(n)
    [] n.op = "GatherElements" -> GatherElementsOp(n)
    [] n.op = "ScatterElements" -> ScatterElementsOp(n)
    [] n.op = "GatherND" -> GatherNdOp(n)
    [] n.op = "ScatterND" -> ScatterNdOp(n)
    [] n.op = "ReverseSequence" -> ReverseSequenceOp(n)

=============================================================================
