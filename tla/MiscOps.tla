------------------------------ MODULE MiscOps -------------------------------
(***************************************************************************)
(* ops/misc.rs: OneHot, Trilu, the operators computed on the host (Det,    *)
(* NonZero, Unique), TfIdfVectorizer, Constant and the negative log        *)
(* likelihood.  A quotient and a log-sum-exp are left as terms.            *)
(***************************************************************************)
EXTENDS Nodes

OneHotOp(n) ==
  LET index == In(n, 1)
      depth == ReadInts(n, 2)[1]
      rank == Rank(index) + 1
      axis == Axis(Attr(n, "axis", -1), rank)
      categories == Reshape(Arange(0, depth, 1), With(Repeated(1, rank), axis, depth))
      wrapped == Map(LAMBDA v : IF v < 0 THEN v + depth ELSE v, index)
      expanded == Reshape(wrapped, SubSeq(index.shape, 1, axis - 1) \o <<1>>
                                   \o SubSeq(index.shape, axis, Rank(index)))
  IN <<Map2(LAMBDA i, c : In(n, 3).data[IF i = c THEN 2 ELSE 1], expanded, categories)>>

IsBoundaryValueType(t) == (IsMlxNumeric(t) /\ t # "uint64") \/ t = "bool"

OneHotClaim(n) ==
  LET index == n.ins[1].info
      axis == Attr(n, "axis", -1)
      rank == Len(index) + 1
  IN /\ Arity(n, {3}, 1)
     /\ IsIntIndex(n.ins[1].dtype) /\ n.ins[2].dtype = "int64"
     /\ n.ins[3].info = <<2>> /\ n.ins[3].dtype = n.outs[1].dtype
     /\ IsBoundaryValueType(n.ins[3].dtype)
     /\ ConstScalarInt64(n, 2) /\ ReadInts(n, 2)[1] > 0
     /\ AxisInRange(axis, rank)
     /\ n.outs[1].shape = SubSeq(index, 1, Axis(axis, rank) - 1) \o <<ReadInts(n, 2)[1]>>
                          \o SubSeq(index, Axis(axis, rank), Len(index))

\* MLX's triu and tril.
TriluOp(n) ==
  LET x == In(n, 1)
      k == IF Present(n, 2) THEN ReadInts(n, 2)[1] ELSE 0
      r == Rank(x)
      kept(idx) == IF Attr(n, "upper", 1) # 0 THEN idx[r] - idx[r - 1] >= k ELSE idx[r] - idx[r - 1] <= k
  IN <<Tensor(x.shape, LAMBDA idx : IF kept(idx) THEN At(x, idx) ELSE 0)>>

TriluClaim(n) ==
  /\ Arity(n, 1..2, 1)
  /\ Len(n.ins[1].info) >= 2
  /\ n.ins[1].dtype = n.outs[1].dtype /\ IsBoundaryValueType(n.ins[1].dtype)
  /\ Present(n, 2) => ConstScalarInt64(n, 2)
  /\ Attr(n, "upper", 1) \in 0..1

\* The deprecated Scatter.
ScatterOp(n) ==
  LET data == In(n, 1)
      axis == Axis(Attr(n, "axis", 0), Rank(data))
      index == Map(LAMBDA v : IF v < 0 THEN v + data.shape[axis] ELSE v, In(n, 2))
  IN <<PutAlong(data, index, In(n, 3), axis)>>

ScatterClaim(n) ==
  /\ Arity(n, {3}, 1)
  /\ \A i \in 1..3 : Static(n.ins[i].info)
  /\ Static(n.outs[1].shape)
  /\ n.ins[1].dtype \in Floats /\ IsIntIndex(n.ins[2].dtype)
  /\ n.ins[3].dtype = n.ins[1].dtype /\ n.outs[1].dtype = n.ins[1].dtype
  /\ n.ins[1].info # <<>>
  /\ n.ins[2].info = n.ins[3].info
  /\ Len(n.ins[2].info) = Len(n.ins[1].info)
  /\ n.outs[1].shape = n.ins[1].info

-----------------------------------------------------------------------------
\* A matrix is a sequence of rows of fractions <<p, q>>.
Times(a, b) == <<a[1] * b[1], a[2] * b[2]>>

Less(a, b) == <<a[1] * b[2] - b[1] * a[2], a[2] * b[2]>>

Over(a, b) == IF b[1] > 0 THEN <<a[1] * b[2], a[2] * b[1]>> ELSE <<-(a[1] * b[2]), -(a[2] * b[1])>>

Size(a) == Larger(a[1], -a[1])

\* Mutant: an exchange of rows leaves the sign.
ExchangeKept(r, c) == 1

\* The sign an exchange of two rows gives the determinant.
Exchange(r, c) == IF r # c THEN -1 ELSE 1

\* Gaussian elimination, the largest element of the column being the pivot.
Determinant(m) ==
  LET order == Len(m)
      pivot(a, c) == CHOOSE r \in c..order : \A s \in c..order :
                       /\ Size(a[r][c]) * a[s][c][2] >= Size(a[s][c]) * a[r][c][2]
                       /\ (s < r => Size(a[r][c]) * a[s][c][2] # Size(a[s][c]) * a[r][c][2])
      step(s, c) ==
        LET r == pivot(s.a, c)
            top == s.a[r]
            a == [s.a EXCEPT ![r] = s.a[c], ![c] = top]
            clear(row) == [k \in 1..order |-> IF k < c THEN row[k]
                             ELSE Less(row[k], Times(Over(row[c], top[c]), top[k]))]
        IN IF s.det[1] = 0 \/ top[c][1] = 0 THEN [s EXCEPT !.det = <<0, 1>>]
           ELSE [a |-> [i \in 1..order |-> IF i > c THEN clear(a[i]) ELSE a[i]],
                 det |-> Times(s.det, Times(<<Exchange(r, c), 1>>, top[c]))]
  IN FoldLeft(step, [a |-> m, det |-> <<1, 1>>], [c \in 1..order |-> c]).det

DetOp(n) ==
  LET x == In(n, 1)
      order == Last(x.shape)
      batch == SubSeq(x.shape, 1, Rank(x) - 2)
      matrix(idx) == [r \in 1..order |-> [c \in 1..order |-> <<At(x, idx \o <<r - 1, c - 1>>), 1>>]]
  IN <<Tensor(batch, LAMBDA idx : LET d == Determinant(matrix(idx)) IN d[1] \div d[2])>>

DetClaim(n) ==
  LET x == n.ins[1].info
      r == Len(x)
  IN /\ Arity(n, {1}, 1)
     /\ Static(x) /\ n.ins[1].dtype \in Floats /\ n.outs[1].dtype = n.ins[1].dtype
     /\ r >= 2 /\ x[r] > 0 /\ x[r] = x[r - 1]

\* The coordinates are laid out coordinate by coordinate.
NonZeroOp(n) ==
  LET x == In(n, 1)
      met == SelectSeq([k \in 1..SizeOf(x) |-> k], LAMBDA k : x.data[k] # 0)
  IN <<Tensor(<<Rank(x), Len(met)>>, LAMBDA idx : Coord(x.shape, met[idx[2] + 1] - 1)[idx[1] + 1])>>

NonZeroClaim(n) ==
  /\ Arity(n, {1}, 1)
  /\ IsMovable(n.ins[1].dtype) /\ n.outs[1].dtype = "int64" /\ n.ins[1].info # <<>>

\* unique_groups, finalize_groups: the groups in the order of their first elements, or of
\* their values; the positions of the first elements, the group of each element, the counts.
UniqueGroups(s, sorted) ==
  LET first == SelectSeq([i \in DOMAIN s |-> i], LAMBDA i : \A j \in 1..(i - 1) : s[j] # s[i])
      order == IF sorted THEN SortSeq(first, LAMBDA i, j : s[i] < s[j]) ELSE first
      rank(i) == CHOOSE r \in DOMAIN order : s[order[r]] = s[i]
  IN [first |-> [r \in DOMAIN order |-> order[r] - 1],
      inverse |-> [i \in DOMAIN s |-> rank(i) - 1],
      counts |-> [r \in DOMAIN order |-> Cardinality({i \in DOMAIN s : s[i] = s[order[r]]})]]

UniqueOp(n) ==
  LET s == In(n, 1).data
      g == UniqueGroups(s, Attr(n, "sorted", 1) # 0)
      all == <<Vector([r \in DOMAIN g.first |-> s[g.first[r] + 1]]), Vector(g.first), Vector(g.inverse),
               Vector(g.counts)>>
  IN SubSeq(all, 1, Len(n.outs))

UniqueClaim(n) ==
  /\ Len(n.ins) = 1 /\ Len(n.outs) \in 1..4
  /\ "axis" \notin DOMAIN n.attrs
  /\ n.ins[1].info # <<>>
  /\ n.ins[1].dtype \in {"fp32", "int32", "int64"}

-----------------------------------------------------------------------------
\* tfidf_pool: ngrams of size i are pool[counts[i]], ... up to counts[i + 1].
Grams(n, size) ==
  LET counts == n.attrs.ngram_counts
      till == IF size < Len(counts) THEN counts[size + 1] ELSE Len(n.attrs.pool_int64s)
      before == Total([i \in 1..(size - 1) |-> (counts[i + 1] - counts[i]) \div i])
  IN [g \in 1..((till - counts[size]) \div size) |->
        [tokens |-> SubSeq(n.attrs.pool_int64s, counts[size] + (g - 1) * size + 1, counts[size] + g * size),
         id |-> before + g]]

\* Every skip distance, start and size, in this order; single tokens are met only once.
TfIdfOp(n) ==
  LET x == In(n, 1)
      rows == IF Rank(x) = 1 THEN 1 ELSE x.shape[1]
      width == Last(x.shape)
      token(row, i) == x.data[row * width + i + 1]
      size == Max(ToSet(n.attrs.ngram_indexes)) + 1
      low == n.attrs.min_gram_length
      high == n.attrs.max_gram_length
      skips == IF high <= 1 THEN 1 ELSE Smaller(n.attrs.max_skip_count + 1, Larger(1, width - 1))
      sizes(skip) == {g \in 1..high : g >= (IF skip > 1 /\ low = 1 THEN 2 ELSE low)}
      places == {p \in (1..skips) \X (0..(width - 1)) \X (1..high) :
                   p[3] \in sizes(p[1]) /\ p[2] + (p[3] - 1) * p[1] < width}
      weight(gram) == Attr(n, "weights", [i \in DOMAIN n.attrs.ngram_indexes |-> 1])[gram.id]
      all(i) == {gram \in UNION {ToSet(Grams(n, g)) : g \in 1..high} : n.attrs.ngram_indexes[gram.id] = i}
      hits(row, i) == {h \in places \X all(i) :
                         /\ h[1][3] = Len(h[2].tokens)
                         /\ \A j \in 1..h[1][3] : token(row, h[1][2] + (j - 1) * h[1][1]) = h[2].tokens[j]}
      earlier(p, q) == \E d \in 1..3 : p[d] < q[d] /\ \A e \in 1..(d - 1) : p[e] = q[e]
      slot(row, i) ==
        CASE n.attrs.mode = "TF" -> Cardinality(hits(row, i))
          [] n.attrs.mode = "TFIDF" -> MapThenSumSet(LAMBDA h : weight(h[2]), hits(row, i))
          [] OTHER -> IF hits(row, i) = {} THEN 0
                      ELSE weight((CHOOSE h \in hits(row, i) : \A g \in hits(row, i) : ~earlier(h[1], g[1]))[2])
  IN <<Tensor(IF Rank(x) = 1 THEN <<size>> ELSE <<rows, size>>,
              LAMBDA idx : slot(IF Rank(x) = 1 THEN 0 ELSE idx[1], Last(idx)))>>

TfIdfClaim(n) ==
  LET x == n.ins[1].info
      counts == n.attrs.ngram_counts
      pool == n.attrs.pool_int64s
      till(i) == IF i < Len(counts) THEN counts[i + 1] ELSE Len(pool)
  IN /\ Arity(n, {1}, 1)
     /\ Static(x) /\ Len(x) \in 1..2 /\ IsIntIndex(n.ins[1].dtype)
     /\ n.outs[1].dtype = "fp32"
     /\ Len(x) = 2 => x[1] >= 1
     /\ n.attrs.mode \in {"TF", "IDF", "TFIDF"}
     /\ 0 < n.attrs.min_gram_length /\ n.attrs.min_gram_length <= n.attrs.max_gram_length
     /\ n.attrs.max_skip_count >= 0
     /\ n.attrs.max_gram_length <= Len(counts)
     /\ \A i \in DOMAIN counts : /\ 0 <= counts[i] /\ counts[i] <= till(i) /\ till(i) <= Len(pool)
                                 /\ (till(i) - counts[i]) % i = 0
     /\ \A i \in DOMAIN counts : IsInjective([g \in DOMAIN Grams(n, i) |-> Grams(n, i)[g].tokens])
     /\ Len(n.attrs.ngram_indexes) = Total([i \in DOMAIN counts |-> Len(Grams(n, i))])
     /\ n.outs[1].shape = Front(x) \o <<Max(ToSet(n.attrs.ngram_indexes)) + 1>>

-----------------------------------------------------------------------------
ConstantOp(n) ==
  <<IF "value_int" \in DOMAIN n.attrs THEN Scalar(n.attrs.value_int)
    ELSE IF "value_float" \in DOMAIN n.attrs THEN Scalar(n.attrs.value_float)
    ELSE IF "value_ints" \in DOMAIN n.attrs THEN Vector(n.attrs.value_ints)
    ELSE Vector(n.attrs.value_floats)>>

\* Exactly one scalar or list form, of the output's type and rank.
ConstantClaim(n) ==
  LET forms == DOMAIN n.attrs \cap {"value_int", "value_float", "value_ints", "value_floats"}
  IN /\ n.ins = <<>> /\ Len(n.outs) = 1
     /\ Static(n.outs[1].shape)
     /\ DOMAIN n.attrs \cap {"value", "sparse_value"} = {}
     /\ Cardinality(forms) = 1
     /\ \A f \in forms : n.outs[1].dtype = IF f \in {"value_int", "value_ints"} THEN "int64" ELSE "fp32"
     /\ \A f \in forms : IF f \in {"value_int", "value_float"} THEN n.outs[1].shape = <<>>
                         ELSE Len(n.outs[1].shape) = 1

\* Mutant: the ignored targets keep their weight.
ShareKept(ignored, weight) == weight

\* What a target adds to the divisor of the mean.
Share(ignored, weight) == IF ignored THEN 0 ELSE weight

\* loss_common without the log-softmax: an ignored target reads the first class and
\* counts for nothing, in the sum and in what the mean divides by.
NllLossOp(n) ==
  LET x == In(n, 1)
      t == In(n, 2)
      ignored(v) == "ignore_index" \in DOMAIN n.attrs /\ v = n.attrs.ignore_index
      safe == Map(LAMBDA v : IF ignored(v) THEN 0 ELSE v, t)
      picked == TakeAlong(x, Reshape(safe, <<t.shape[1], 1>> \o Tail(t.shape)), 2)
      at(k) == IF Present(n, 3) THEN n.ins[3].data[safe.data[k] + 1] ELSE 1
      loss == [k \in DOMAIN t.data |-> IF ignored(t.data[k]) THEN 0 ELSE -(picked.data[k] * at(k))]
      share == [k \in DOMAIN t.data |-> Share(ignored(t.data[k]), at(k))]
  IN CASE Attr(n, "reduction", "mean") = "none" -> <<[t EXCEPT !.data = loss]>>
       [] Attr(n, "reduction", "mean") = "sum" -> <<Scalar(Total(loss))>>
       [] OTHER -> <<Scalar(<<Total(loss), Total(share)>>)>>

LossClaim(n) ==
  /\ Len(n.ins) \in 2..3 /\ Len(n.outs) = 1
  /\ n.ins[1].dtype \in Floats /\ IsIntIndex(n.ins[2].dtype)
  /\ Len(n.ins[1].info) >= 2
  /\ Present(n, 3) => n.ins[3].dtype = n.ins[1].dtype /\ Len(n.ins[3].info) = 1
  /\ Attr(n, "reduction", "mean") \in {"mean", "sum", "none"}

=============================================================================
