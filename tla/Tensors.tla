------------------------------- MODULE Tensors -------------------------------
(***************************************************************************)
(* Arrays and the MLX primitives the operator handlers call.  An array is  *)
(* its shape and its elements in row-major order; axes count from 1,       *)
(* elements of an axis from 0.  A primitive whose precondition fails gives *)
(* Fail, as MLX's non-zero return does, and so does one applied to Fail.   *)
(***************************************************************************)
EXTENDS Integers, SequencesExt

Fail == [shape |-> <<-1>>, data |-> <<>>]

Prod(s) == FoldLeft(LAMBDA a, b : a * b, 1, s)

Total(s) == FoldLeft(LAMBDA a, b : a + b, 0, s)

Rank(t) == Len(t.shape)

SizeOf(t) == Prod(t.shape)

\* The index of element k (from 0), and the element at an index.
Coord(shape, k) ==
  [d \in DOMAIN shape |-> (k \div Prod(SubSeq(shape, d + 1, Len(shape)))) % shape[d]]

Place(shape, idx) ==
  LET offset[d \in 0..Len(shape)] == IF d = 0 THEN 0 ELSE offset[d - 1] * shape[d] + idx[d]
  IN offset[Len(shape)]

Tensor(shape, Value(_)) ==
  [shape |-> shape, data |-> [k \in 1..Prod(shape) |-> Value(Coord(shape, k - 1))]]

At(t, idx) == t.data[1 + Place(t.shape, idx)]

\* norm_axis: an ONNX axis, from 0 and possibly negative, as an axis from 1.
Axis(a, rank) == 1 + (IF a < 0 THEN a + rank ELSE a)

\* s with v at i, as a function of its own.
With(s, i, v) == [k \in DOMAIN s |-> IF k = i THEN v ELSE s[k]]

Without(s, i) == SubSeq(s, 1, i - 1) \o SubSeq(s, i + 1, Len(s))

Splice(s, i, new) == SubSeq(s, 1, i - 1) \o new \o SubSeq(s, i + 1, Len(s))

AxesOf(t) == [i \in 1..Rank(t) |-> i - 1]

Repeated(v, n) == [i \in 1..n |-> v]

Larger(a, b) == IF a > b THEN a ELSE b

Smaller(a, b) == IF a < b THEN a ELSE b

Clamp(v, lo, hi) == Smaller(Larger(v, lo), hi)

CeilDiv(a, b) == -((-a) \div b)

Scalar(v) == [shape |-> <<>>, data |-> <<v>>]

Vector(s) == [shape |-> <<Len(s)>>, data |-> s]

Full(shape, v) == [shape |-> shape, data |-> Repeated(v, Prod(shape))]

\* arange of integers, steps of either sign.
Arange(start, stop, step) ==
  LET count == Larger(0, IF step > 0 THEN CeilDiv(stop - start, step) ELSE CeilDiv(start - stop, -step))
  IN Vector([k \in 1..count |-> start + (k - 1) * step])

\* reshape: at most one extent of -1 is inferred.
Reshape(t, shape) ==
  LET known == Prod([i \in DOMAIN shape |-> IF shape[i] = -1 THEN 1 ELSE shape[i]])
      full == [i \in DOMAIN shape |->
                 IF shape[i] # -1 THEN shape[i]
                 ELSE IF known = 0 THEN 0 ELSE SizeOf(t) \div known]
  IN IF t = Fail \/ Prod(full) # SizeOf(t) THEN Fail ELSE [t EXCEPT !.shape = full]

\* Axis d of the result is axis perm[d] of t.
Transpose(t, perm) ==
  IF t = Fail \/ Len(perm) # Rank(t) THEN Fail
  ELSE Tensor([d \in DOMAIN perm |-> t.shape[perm[d]]],
              LAMBDA idx : At(t, [a \in DOMAIN perm |->
                                    idx[CHOOSE d \in DOMAIN perm : perm[d] = a]]))

BroadcastTo(t, shape) ==
  LET lead == Len(shape) - Rank(t)
  IN IF t = Fail \/ lead < 0
        \/ \E a \in 1..Rank(t) : t.shape[a] \notin {1, shape[lead + a]}
     THEN Fail
     ELSE Tensor(shape, LAMBDA idx : At(t, [a \in 1..Rank(t) |->
                                              IF t.shape[a] = 1 THEN 0 ELSE idx[lead + a]]))

\* The common shape of two operands, aligned at the last axis.
Broadcast(s, t) ==
  LET rank == Larger(Len(s), Len(t))
      ext(u, d) == IF d > rank - Len(u) THEN u[d - (rank - Len(u))] ELSE 1
  IN [d \in 1..rank |-> IF ext(s, d) = 1 THEN ext(t, d) ELSE ext(s, d)]

Map(F(_), t) == IF t = Fail THEN Fail ELSE [t EXCEPT !.data = [k \in DOMAIN @ |-> F(@[k])]]

Map2(F(_, _), s, t) ==
  LET shape == Broadcast(s.shape, t.shape)
      a == BroadcastTo(s, shape)
      b == BroadcastTo(t, shape)
  IN IF s = Fail \/ t = Fail \/ a = Fail \/ b = Fail THEN Fail
     ELSE [shape |-> shape, data |-> [k \in DOMAIN a.data |-> F(a.data[k], b.data[k])]]

\* slice: start, stop and stride (positive) of every axis.
Slice(t, start, stop, stride) ==
  IF t = Fail THEN Fail
  ELSE LET till == [d \in DOMAIN stop |-> Smaller(stop[d], t.shape[d])]
       IN Tensor([d \in DOMAIN start |-> Larger(0, CeilDiv(till[d] - start[d], stride[d]))],
                 LAMBDA idx : At(t, [d \in DOMAIN idx |-> start[d] + idx[d] * stride[d]]))

\* A slice of one axis only.
Cut(t, axis, start, stop) ==
  IF t = Fail THEN Fail
  ELSE Slice(t, With(Repeated(0, Rank(t)), axis, start), With(t.shape, axis, stop), Repeated(1, Rank(t)))

Concat(parts, axis) ==
  LET before(i) == Total([j \in 1..(i - 1) |-> parts[j].shape[axis]])
      part(x) == CHOOSE i \in DOMAIN parts : before(i) <= x /\ x < before(i + 1)
  IN IF \E i \in DOMAIN parts :
          \/ parts[i] = Fail \/ Rank(parts[i]) # Rank(parts[1])
          \/ Without(parts[i].shape, axis) # Without(parts[1].shape, axis)
     THEN Fail
     ELSE Tensor(With(parts[1].shape, axis, before(Len(parts) + 1)),
                 LAMBDA idx : LET i == part(idx[axis])
                              IN At(parts[i], With(idx, axis, idx[axis] - before(i))))

\* The elements of a new axis are the parts.
Stack(parts, axis) ==
  Concat([i \in DOMAIN parts |->
            Reshape(parts[i], SubSeq(parts[i].shape, 1, axis - 1) \o <<1>>
                              \o SubSeq(parts[i].shape, axis, Rank(parts[i])))], axis)

\* take_axis: the index may have any rank.
TakeAxis(t, index, axis) ==
  IF t = Fail \/ index = Fail THEN Fail
  ELSE Tensor(Splice(t.shape, axis, index.shape),
              LAMBDA idx :
                LET taken == At(index, SubSeq(idx, axis, axis + Rank(index) - 1))
                IN At(t, SubSeq(idx, 1, axis - 1) \o <<taken>>
                         \o SubSeq(idx, axis + Rank(index), Len(idx))))

\* Off the axis an index has the extents of t; MLX refuses others, or repeats an extent of one.
FitsAlong(t, index, axis) ==
  Rank(index) = Rank(t) /\ Without(index.shape, axis) = Without(t.shape, axis)

\* take_along_axis.
TakeAlong(t, index, axis) ==
  IF t = Fail \/ index = Fail \/ ~FitsAlong(t, index, axis) THEN Fail
  ELSE Tensor(index.shape, LAMBDA idx : At(t, With(idx, axis, At(index, idx))))

\* put_along_axis: the last update of an element stays.
PutAlong(t, index, updates, axis) ==
  IF t = Fail \/ index = Fail \/ updates = Fail \/ ~FitsAlong(t, index, axis) THEN Fail
  ELSE Tensor(t.shape, LAMBDA idx :
         LET hits == {k \in 0..(index.shape[axis] - 1) : At(index, With(idx, axis, k)) = idx[axis]}
         IN IF hits = {} THEN At(t, idx) ELSE At(updates, With(idx, axis, Max(hits))))

\* pad with a value: low and high of every axis, neither negative.
PadWith(t, low, high, v) ==
  IF t = Fail THEN Fail
  ELSE Tensor([d \in DOMAIN low |-> low[d] + t.shape[d] + high[d]],
              LAMBDA idx : LET at == [d \in DOMAIN idx |-> idx[d] - low[d]]
                           IN IF \A d \in DOMAIN at : at[d] \in 0..(t.shape[d] - 1)
                              THEN At(t, at) ELSE v)

\* The elements of one axis combined, the axis removed.
ReduceAxis(Combine(_), t, axis) ==
  IF t = Fail THEN Fail
  ELSE Tensor(Without(t.shape, axis), LAMBDA idx :
         Combine([k \in 1..t.shape[axis] |->
                    At(t, SubSeq(idx, 1, axis - 1) \o <<k - 1>> \o SubSeq(idx, axis, Len(idx)))]))

\* matmul by a matrix.
MatMul(a, b) ==
  IF a = Fail \/ b = Fail \/ a.shape[Rank(a)] # b.shape[1] THEN Fail
  ELSE Tensor(With(a.shape, Rank(a), b.shape[2]), LAMBDA idx :
         Total([k \in 1..b.shape[1] |-> At(a, With(idx, Rank(a), k - 1)) * At(b, <<k - 1, idx[Rank(a)]>>)]))

\* A quotient and a log-sum-exp that are not integers stay terms.
Quotient(p, q) == IF q # 0 /\ p % q = 0 THEN p \div q ELSE <<"over", p, q>>

LogSumExp(s) == IF Len(s) = 1 THEN s[1] ELSE <<"log", SortSeq(s, <)>>

\* The activations: functions of which nothing else is said.
Sigmoid(v) == (3 * v + 1) % 5

Tanh(v) == ((2 * v + 1) % 7) - 3

\* mlx_round of v / q: halves to the even neighbour.
RoundEven(v, q) ==
  LET floor == v \div q
      rest == 2 * (v % q)
  IN IF rest < q THEN floor ELSE IF rest > q THEN floor + 1 ELSE floor + (floor % 2)

=============================================================================
