---------------------------- MODULE ReductionOps ----------------------------
(***************************************************************************)
(* ops/reduction.rs: reductions, arg reductions, cumulative sums and       *)
(* products, Hardmax and TopK.  Roots, logarithms and quotients are left   *)
(* as terms of their operands.                                             *)
(***************************************************************************)
EXTENDS Nodes

\* The values of an axis combined by an MLX reduction of each kind.
Reduced(kind, s) ==
  CASE kind = "Sum" -> Total(s)
    [] kind = "Prod" -> Prod(s)
    [] kind = "Max" -> Max(ToSet(s))
    [] kind = "Min" -> Min(ToSet(s))

\* The identity of a reduction of nothing; MLX would abort on it.
EmptyValue(kind, dtype) ==
  CASE kind \in {"Max", "LogSumExp"} /\ dtype \in Floats -> "-inf"
    [] kind = "Min" /\ dtype \in Floats -> "inf"
    [] OTHER -> 0

\* The axes folded into one run of values each, then combined.
ApplyReduction(t, dtype, axes, all, keepdims, kind) ==
  LET gone == IF all THEN 1..Rank(t) ELSE axes
      kept == SelectSeq([d \in 1..Rank(t) |-> d], LAMBDA d : d \notin gone)
      left == [i \in DOMAIN kept |-> t.shape[kept[i]]]
      folded == SelectSeq([d \in 1..Rank(t) |-> d], LAMBDA d : d \in gone)
      runs == Reshape(Transpose(t, kept \o folded),
                      left \o <<Prod([i \in DOMAIN folded |-> t.shape[folded[i]]])>>)
      shape == IF keepdims THEN [d \in 1..Rank(t) |-> IF d \in gone THEN 1 ELSE t.shape[d]] ELSE left
      combine(s) == CASE kind = "Mean" -> Quotient(Total(s), Len(s))
                      [] kind = "LogSumExp" -> LogSumExp(s)
                      [] OTHER -> Reduced(kind, s)
  IN IF t = Fail THEN Fail
     ELSE IF kind \in {"Max", "Min", "LogSumExp"} /\ SizeOf(t) = 0 THEN Full(shape, EmptyValue(kind, dtype))
     ELSE Reshape(ReduceAxis(combine, runs, Len(left) + 1), shape)

ReductionTypes == {"ReduceSum", "ReduceMean", "ReduceMax", "ReduceMin", "ReduceProd", "ReduceSumSquare",
                   "ReduceL1", "ReduceL2", "ReduceLogSum", "ReduceLogSumExp"}

\* The kind of reduction, what is applied before it and after it, of each operator.
Stages(op) ==
  CASE op = "ReduceSum" -> <<"None", "Sum", "None">>
    [] op = "ReduceMean" -> <<"None", "Mean", "None">>
    [] op = "ReduceMax" -> <<"None", "Max", "None">>
    [] op = "ReduceMin" -> <<"None", "Min", "None">>
    [] op = "ReduceProd" -> <<"None", "Prod", "None">>
    [] op = "ReduceSumSquare" -> <<"Square", "Sum", "None">>
    [] op = "ReduceL1" -> <<"Abs", "Sum", "None">>
    [] op = "ReduceL2" -> <<"Square", "Sum", "Sqrt">>
    [] op = "ReduceLogSum" -> <<"None", "Sum", "Log">>
    [] op = "ReduceLogSumExp" -> <<"None", "LogSumExp", "None">>

Prepared(pre, v) ==
  CASE pre = "Abs" -> Larger(v, -v)
    [] pre = "Square" -> v * v
    [] OTHER -> v

Finished(post, v) == IF post = "None" THEN v ELSE <<post, v>>

\* Mutant: an empty list of axes reduces all of them, whatever noop says.
ReduceOpNoNoop(n) ==
  LET x == In(n, 1)
      listed == Present(n, 2)
      raw == IF listed THEN ReadInts(n, 2) ELSE Attr(n, "axes", <<>>)
      stages == Stages(n.op)
      axes == {Axis(raw[i], Rank(x)) : i \in DOMAIN raw}
      result == ApplyReduction(Map(LAMBDA v : Prepared(stages[1], v), x), n.ins[1].dtype, axes, raw = <<>>,
                               Attr(n, "keepdims", 1) # 0, stages[2])
  IN <<Map(LAMBDA v : Finished(stages[3], v), result)>>

\* The axes are an input or an attribute; an empty list is all of them, or with noop
\* set none.  A list that a node computes cannot be read.
ReduceOp(n) ==
  LET x == In(n, 1)
      listed == Present(n, 2)
      raw == IF listed THEN ReadInts(n, 2) ELSE Attr(n, "axes", <<>>)
      stages == Stages(n.op)
      body == Map(LAMBDA v : Prepared(stages[1], v), x)
      noop == raw = <<>> /\ (listed \/ "axes" \in DOMAIN n.attrs) /\ Attr(n, "noop_with_empty_axes", 0) # 0
      axes == {Axis(raw[i], Rank(x)) : i \in DOMAIN raw}
      result == IF noop THEN body
                ELSE ApplyReduction(body, n.ins[1].dtype, axes, raw = <<>>, Attr(n, "keepdims", 1) # 0, stages[2])
  IN <<IF (listed /\ n.ins[2].source = "Intermediate") \/ ~UniqueAxes(raw, Rank(x)) THEN Fail
       ELSE Map(LAMBDA v : Finished(stages[3], v), result)>>

FloatOnly == {"ReduceMean", "ReduceL2", "ReduceLogSum", "ReduceLogSumExp"}

ReductionClaim(n) ==
  LET x == n.ins[1]
  IN /\ Arity(n, 1..2, 1)
     /\ x.info # <<>> /\ x.dtype = n.outs[1].dtype
     /\ ~(n.op = "ReduceLogSumExp" /\ x.dtype = "fp64")
     /\ IF n.op \in FloatOnly THEN IsMlxCpuFloat(x.dtype) ELSE IsMlxNumeric(x.dtype) \/ x.dtype = "fp64"
     /\ Present(n, 2) => n.ins[2].dtype = "int64" /\ Len(n.ins[2].info) <= 1
     /\ "axes" \in DOMAIN n.attrs => UniqueAxes(n.attrs.axes, Len(x.info))
     /\ Attr(n, "keepdims", 1) \in 0..1
     /\ Attr(n, "noop_with_empty_axes", 0) \in 0..1

-----------------------------------------------------------------------------
\* MLX's arg reductions: the first element that is best.
First(op, s) ==
  LET best == IF op = "ArgMin" THEN Min(ToSet(s)) ELSE Max(ToSet(s))
  IN Min({i \in DOMAIN s : s[i] = best}) - 1

\* The last index is looked for in the reversed axis and counted from its end.
ArgMinMaxOp(n) ==
  LET x == In(n, 1)
      axis == Axis(Attr(n, "axis", 0), Rank(x))
      dim == x.shape[axis]
      last == Attr(n, "select_last_index", 0) # 0
      over == IF last THEN TakeAxis(x, Arange(dim - 1, -1, -1), axis) ELSE x
      found == ReduceAxis(LAMBDA s : First(n.op, s), over, axis)
      index == IF last THEN Map(LAMBDA v : dim - 1 - v, found) ELSE found
  IN <<IF Attr(n, "keepdims", 1) # 0 THEN Reshape(index, With(x.shape, axis, 1)) ELSE index>>

ArgMinMaxClaim(n) ==
  /\ Arity(n, {1}, 1)
  /\ n.ins[1].info # <<>>
  /\ IsMlxNumeric(n.ins[1].dtype) /\ n.ins[1].dtype # "uint64"
  /\ n.outs[1].dtype = "int64"
  /\ AxisInRange(Attr(n, "axis", 0), Len(n.ins[1].info))
  /\ Attr(n, "keepdims", 1) \in 0..1
  /\ Attr(n, "select_last_index", 0) \in 0..1

\* MLX's scans: forward or reverse, with or without the element itself.
Scan(t, axis, Combine(_), reverse, inclusive) ==
  Tensor(t.shape, LAMBDA idx :
    LET k == idx[axis]
        on == IF reverse THEN (IF inclusive THEN k ELSE k + 1)..(t.shape[axis] - 1)
              ELSE 0..(IF inclusive THEN k ELSE k - 1)
        met == SetToSortSeq(on, <)
    IN Combine([i \in DOMAIN met |-> At(t, With(idx, axis, met[i]))]))

CumulativeOp(n) ==
  LET x == In(n, 1)
      axis == ReadInts(n, 2)[1]
      reverse == Attr(n, "reverse", 0) # 0
      inclusive == Attr(n, "exclusive", 0) = 0
  IN <<IF Len(ReadInts(n, 2)) # 1 THEN Fail
       ELSE IF ~AxisInRange(axis, Rank(x)) THEN Fail
       ELSE Scan(x, Axis(axis, Rank(x)), LAMBDA s : IF n.op = "CumSum" THEN Total(s) ELSE Prod(s),
                 reverse, inclusive)>>

Compatible(a, b) == Len(a) = Len(b) /\ \A d \in DOMAIN a : a[d] < 0 \/ b[d] < 0 \/ a[d] = b[d]

\* The axis of CumProd must name an extent known to be positive, whichever it is.
CumulativeClaim(n) ==
  LET x == n.ins[1].info
      axis == n.ins[2]
      known == axis.source = "Initializer"
      types == IF n.op = "CumSum" THEN {t \in {n.ins[1].dtype} : IsMlxNumeric(t)}
               ELSE Floats \cup {"fp64", "int32", "int64", "uint32", "uint64"}
  IN /\ Arity(n, {2}, 1)
     /\ x # <<>>
     /\ n.ins[1].dtype = n.outs[1].dtype /\ n.ins[1].dtype \in types
     /\ Compatible(x, n.outs[1].shape)
     /\ IsIntIndex(axis.dtype)
     /\ axis.info = <<>> \/ (n.op = "CumSum" /\ axis.info = <<1>>)
     /\ axis.source \in {"Initializer", "CtxInput"}
     /\ known => Len(axis.data) = 1 /\ AxisInRange(axis.data[1], Len(x))
     /\ n.op = "CumProd" => \A d \in DOMAIN x : (known => d = Axis(axis.data[1], Len(x))) => x[d] > 0
     /\ Attr(n, "exclusive", 0) \in 0..1
     /\ Attr(n, "reverse", 0) \in 0..1

-----------------------------------------------------------------------------
\* Before opset 13 the axes from axis on are one.
HardmaxOp(n) ==
  LET x == In(n, 1)
      legacy == n.op = "Hardmax-11"
      axis == Axis(Attr(n, "axis", IF legacy THEN 1 ELSE -1), Rank(x))
      input == IF legacy THEN Reshape(x, <<Prod(SubSeq(x.shape, 1, axis - 1)), Prod(SubSeq(x.shape, axis, Rank(x)))>>)
               ELSE x
      over == IF legacy THEN 2 ELSE axis
      best == Reshape(ReduceAxis(LAMBDA s : First("ArgMax", s), input, over), With(input.shape, over, 1))
      index == Reshape(Arange(0, input.shape[over], 1), With(Repeated(1, Rank(input)), over, input.shape[over]))
      selected == Map2(LAMBDA i, b : IF i = b THEN 1 ELSE 0, index, best)
  IN <<Reshape(selected, x.shape)>>

HardmaxClaim(n) ==
  LET x == n.ins[1].info
      legacy == n.op = "Hardmax-11"
      axis == Attr(n, "axis", IF legacy THEN 1 ELSE -1)
  IN /\ Arity(n, {1}, 1)
     /\ x # <<>>
     /\ n.ins[1].dtype = n.outs[1].dtype /\ n.ins[1].dtype \in Floats
     /\ AxisInRange(axis, Len(x))
     /\ \A d \in DOMAIN x : (legacy \/ d = Axis(axis, Len(x))) => x[d] > 0

\* The width of a signed integer, and a value wrapped to it.
Wide(dtype) == IF dtype = "int8" THEN 256 ELSE 65536

InWidth(v, dtype) ==
  IF dtype \in {"int8", "int16"}
  THEN ((v + (Wide(dtype) \div 2)) % Wide(dtype)) - (Wide(dtype) \div 2) ELSE v

\* Mutant: the order of integers is reversed by negation.
SortKeyNegated(v, dtype, largest) == IF largest THEN InWidth(-v, dtype) ELSE v

\* Inverting the bits of an integer reverses the order of all of them; a float is negated.
SortKey(v, dtype, largest) ==
  IF ~largest THEN v ELSE IF dtype \in Ints THEN InWidth(-v - 1, dtype) ELSE -v

\* argsort is stable: equal elements stay in the order of their indices.
ArgSort(s) ==
  LET order == SortSeq([i \in DOMAIN s |-> <<s[i], i>>],
                       LAMBDA a, b : a[1] < b[1] \/ (a[1] = b[1] /\ a[2] < b[2]))
  IN [i \in DOMAIN order |-> order[i][2] - 1]

TopKOp(n) ==
  LET x == In(n, 1)
      axis == Axis(Attr(n, "axis", -1), Rank(x))
      k == ReadInts(n, 2)[1]
      key == Map(LAMBDA v : SortKey(v, n.ins[1].dtype, Attr(n, "largest", 1) # 0), x)
      run(idx) == [i \in 1..x.shape[axis] |-> At(key, With(idx, axis, i - 1))]
      sorted == Tensor(x.shape, LAMBDA idx : ArgSort(run(idx))[idx[axis] + 1])
      top == TakeAxis(sorted, Arange(0, k, 1), axis)
  IN IF k <= 0 \/ k > x.shape[axis] THEN <<Fail>> ELSE <<TakeAlong(x, top, axis), top>>

TopKClaim(n) ==
  LET x == n.ins[1]
      axis == Attr(n, "axis", -1)
      k == ReadInts(n, 2)
  IN /\ Arity(n, {2}, 2)
     /\ x.info # <<>>
     /\ IsMlxCpuFloat(x.dtype) \/ x.dtype \in Ints
     /\ n.outs[1].dtype = x.dtype /\ n.outs[2].dtype = "int64"
     /\ n.ins[2].info = <<1>> /\ IsConstInt64(n, 2)
     /\ AxisInRange(axis, Len(x.info))
     /\ Attr(n, "largest", 1) \in 0..1 /\ Attr(n, "sorted", 1) = 1
     /\ x.info[Axis(axis, Len(x.info))] > 0
     /\ k[1] \in 1..x.info[Axis(axis, Len(x.info))]

=============================================================================
