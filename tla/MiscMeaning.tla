----------------------------- MODULE MiscMeaning -----------------------------
(***************************************************************************)
(* What ONNX says of the operators of ReductionOps, every element of the   *)
(* result from the elements of the input that are folded into it, and of   *)
(* the operators of MiscOps.                                               *)
(***************************************************************************)
EXTENDS Nodes

Reducers == {"ReduceSum", "ReduceMean", "ReduceMax", "ReduceMin", "ReduceProd", "ReduceSumSquare",
             "ReduceL1", "ReduceL2", "ReduceLogSum", "ReduceLogSumExp"}

\* The elements of an array, in order, at indices of which F holds.
Elements(t, F(_)) ==
  LET met == SelectSeq([k \in DOMAIN t.data |-> k], LAMBDA k : F(Coord(t.shape, k - 1)))
  IN [i \in DOMAIN met |-> t.data[met[i]]]

Combined(op, s) ==
  CASE op = "ReduceSum" -> Total(s)
    [] op = "ReduceProd" -> Prod(s)
    [] op = "ReduceSumSquare" -> Total([i \in DOMAIN s |-> s[i] * s[i]])
    [] op = "ReduceL1" -> Total([i \in DOMAIN s |-> IF s[i] < 0 THEN -s[i] ELSE s[i]])
    [] op = "ReduceL2" -> <<"Sqrt", Total([i \in DOMAIN s |-> s[i] * s[i]])>>
    [] op = "ReduceLogSum" -> <<"Log", Total(s)>>
    [] op = "ReduceMean" -> Quotient(Total(s), Len(s))
    [] s = <<>> -> IF op = "ReduceMin" THEN "inf" ELSE "-inf"
    [] op = "ReduceLogSumExp" -> LogSumExp(s)
    [] op = "ReduceMax" -> CHOOSE v \in ToSet(s) : \A w \in ToSet(s) : w <= v
    [] op = "ReduceMin" -> CHOOSE v \in ToSet(s) : \A w \in ToSet(s) : v <= w

\* With noop set an empty list of axes leaves the shape, and the element-wise part applies.
ReduceMeaning(n) ==
  LET x == In(n, 1)
      given == Present(n, 2) \/ "axes" \in DOMAIN n.attrs
      list == IF Present(n, 2) THEN ReadInts(n, 2) ELSE Attr(n, "axes", <<>>)
      all == 1..Rank(x)
      gone == IF list # <<>> THEN {1 + (list[i] % Rank(x)) : i \in DOMAIN list}
              ELSE IF given /\ Attr(n, "noop_with_empty_axes", 0) = 1 THEN {} ELSE all
      kept == SetToSortSeq(all \ gone, <)
      keep == Attr(n, "keepdims", 1) = 1
      shape == IF keep THEN [d \in all |-> IF d \in gone THEN 1 ELSE x.shape[d]]
               ELSE [i \in DOMAIN kept |-> x.shape[kept[i]]]
      meets(idx, c) == \A i \in DOMAIN kept : c[kept[i]] = idx[IF keep THEN kept[i] ELSE i]
  IN <<Tensor(shape, LAMBDA idx : Combined(n.op, Elements(x, LAMBDA c : meets(idx, c))))>>

\* The elements of an axis through an index.
Along(t, idx, a) == [k \in 1..t.shape[a] |-> At(t, [idx EXCEPT ![a] = k - 1])]

ArgMeaning(n) ==
  LET x == In(n, 1)
      a == 1 + (Attr(n, "axis", 0) % Rank(x))
      kept == [x.shape EXCEPT ![a] = 1]
      best(s, k) == \A j \in DOMAIN s :
        /\ IF n.op = "ArgMax" THEN s[j] <= s[k] ELSE s[k] <= s[j]
        /\ s[j] = s[k] => IF Attr(n, "select_last_index", 0) = 1 THEN j <= k ELSE k <= j
      found(idx) == LET s == Along(x, idx, a) IN (CHOOSE k \in DOMAIN s : best(s, k)) - 1
      full == Tensor(kept, found)
  IN <<IF Attr(n, "keepdims", 1) = 1 THEN full
       ELSE [full EXCEPT !.shape = SubSeq(@, 1, a - 1) \o SubSeq(@, a + 1, Len(@))]>>

CumulativeMeaning(n) ==
  LET x == In(n, 1)
      a == 1 + (ReadInts(n, 2)[1] % Rank(x))
      on(idx, c) ==
        /\ \A d \in DOMAIN c : d # a => c[d] = idx[d]
        /\ IF Attr(n, "reverse", 0) = 1 THEN idx[a] <= c[a] ELSE c[a] <= idx[a]
        /\ Attr(n, "exclusive", 0) = 1 => c[a] # idx[a]
      fold(s) == IF n.op = "CumSum" THEN Total(s) ELSE Prod(s)
  IN <<Tensor(x.shape, LAMBDA idx : fold(Elements(x, LAMBDA c : on(idx, c))))>>

\* Before opset 13 the maximum is looked for in all the axes from axis on.
HardmaxMeaning(n) ==
  LET x == In(n, 1)
      legacy == n.op = "Hardmax-11"
      a == 1 + (Attr(n, "axis", IF legacy THEN 1 ELSE -1) % Rank(x))
      same(c, idx) == \A d \in DOMAIN c : (IF legacy THEN d < a ELSE d # a) => c[d] = idx[d]
      rivals(idx) == {k \in 0..(SizeOf(x) - 1) : same(Coord(x.shape, k), idx)}
      first(idx) == CHOOSE k \in rivals(idx) : \A j \in rivals(idx) :
                      /\ x.data[j + 1] <= x.data[k + 1]
                      /\ x.data[j + 1] = x.data[k + 1] => k <= j
  IN <<Tensor(x.shape, LAMBDA idx : IF Coord(x.shape, first(idx)) = idx THEN 1 ELSE 0)>>

\* The element that has exactly r better ones; of equal ones the earlier is better.
TopKMeaning(n) ==
  LET x == In(n, 1)
      a == 1 + (Attr(n, "axis", -1) % Rank(x))
      better(s, j, i) == IF s[j] = s[i] THEN j < i
                         ELSE IF Attr(n, "largest", 1) = 1 THEN s[j] > s[i] ELSE s[j] < s[i]
      ranked(idx) == LET s == Along(x, idx, a)
                     IN CHOOSE i \in DOMAIN s : Cardinality({j \in DOMAIN s : better(s, j, i)}) = idx[a]
      shape == [x.shape EXCEPT ![a] = ReadInts(n, 2)[1]]
  IN <<Tensor(shape, LAMBDA idx : Along(x, idx, a)[ranked(idx)]), Tensor(shape, LAMBDA idx : ranked(idx) - 1)>>

OneHotMeaning(n) ==
  LET index == In(n, 1)
      depth == ReadInts(n, 2)[1]
      a == 1 + (Attr(n, "axis", -1) % (Rank(index) + 1))
      hot(idx) == LET v == At(index, SubSeq(idx, 1, a - 1) \o SubSeq(idx, a + 1, Len(idx)))
                  IN v \in -depth..(depth - 1) /\ v % depth = idx[a]
  IN <<Tensor(SubSeq(index.shape, 1, a - 1) \o <<depth>> \o SubSeq(index.shape, a, Rank(index)),
              LAMBDA idx : n.ins[3].data[IF hot(idx) THEN 2 ELSE 1])>>

TriluMeaning(n) ==
  LET x == In(n, 1)
      k == IF Present(n, 2) THEN ReadInts(n, 2)[1] ELSE 0
      above(idx) == idx[Rank(x)] - idx[Rank(x) - 1] - k
      side == IF Attr(n, "upper", 1) = 1 THEN 1 ELSE -1
  IN <<Tensor(x.shape, LAMBDA idx : IF side * above(idx) >= 0 THEN At(x, idx) ELSE 0)>>

ScatterMeaning(n) ==
  LET data == In(n, 1)
      a == 1 + (Attr(n, "axis", 0) % Rank(data))
      target(k) == LET u == Coord(n.ins[2].shape, k - 1)
                   IN [u EXCEPT ![a] = n.ins[2].data[k] % data.shape[a]]
      last(idx) == {k \in DOMAIN n.ins[3].data : target(k) = idx}
  IN <<Tensor(data.shape, LAMBDA idx : IF last(idx) = {} THEN At(data, idx) ELSE n.ins[3].data[Max(last(idx))])>>

\* The sum over all permutations of the signed products.
DetMeaning(n) ==
  LET x == In(n, 1)
      order == Last(x.shape)
      perms == {p \in [1..order -> 1..order] : IsInjective(p)}
      odd(p) == Cardinality({ij \in (1..order) \X (1..order) : ij[1] < ij[2] /\ p[ij[1]] > p[ij[2]]}) % 2 = 1
      term(idx, p) == Prod([r \in 1..order |-> At(x, idx \o <<r - 1, p[r] - 1>>)])
  IN <<Tensor(SubSeq(x.shape, 1, Rank(x) - 2), LAMBDA idx :
         MapThenSumSet(LAMBDA p : IF odd(p) THEN -term(idx, p) ELSE term(idx, p), perms))>>

\* Column c holds the index of the (c + 1)-th element that is not zero.
NonZeroMeaning(n) ==
  LET x == In(n, 1)
      met == {k \in DOMAIN x.data : x.data[k] # 0}
      nth(c) == CHOOSE k \in met : Cardinality({j \in met : j < k}) = c
  IN <<Tensor(<<Rank(x), Cardinality(met)>>, LAMBDA idx : Coord(x.shape, nth(idx[2]) - 1)[idx[1] + 1])>>

UniqueMeaning(n) ==
  LET s == n.ins[1].data
      first(v) == Min({i \in DOMAIN s : s[i] = v})
      values == SetToSortSeq(ToSet(s), LAMBDA v, w :
                  IF Attr(n, "sorted", 1) = 1 THEN v < w ELSE first(v) < first(w))
      rows == <<values, [r \in DOMAIN values |-> first(values[r]) - 1],
                [i \in DOMAIN s |-> (CHOOSE r \in DOMAIN values : values[r] = s[i]) - 1],
                [r \in DOMAIN values |-> Cardinality({i \in DOMAIN s : s[i] = values[r]})]>>
  IN [i \in DOMAIN n.outs |-> [shape |-> <<Len(rows[i])>>, data |-> rows[i]]]

\* The occurrences of every n-gram of the pool, its tokens a fixed distance apart; a
\* single token has one distance only.
TfIdfMeaning(n) ==
  LET x == In(n, 1)
      width == Last(x.shape)
      counts == n.attrs.ngram_counts
      pool == n.attrs.pool_int64s
      size(i) == CHOOSE g \in DOMAIN counts :
                   /\ Total([h \in 1..(g - 1) |-> (counts[h + 1] - counts[h]) \div h]) < i
                   /\ i <= Total([h \in 1..g |-> ((IF h < Len(counts) THEN counts[h + 1] ELSE Len(pool)) - counts[h]) \div h])
      start(i) == counts[size(i)]
                  + (i - 1 - Total([h \in 1..(size(i) - 1) |-> (counts[h + 1] - counts[h]) \div h])) * size(i)
      gram(i) == SubSeq(pool, start(i) + 1, start(i) + size(i))
      \* A gap and a start of the gram.
      found(row, i) == {f \in (1..(IF size(i) = 1 THEN 1 ELSE n.attrs.max_skip_count + 1)) \X (0..(width - 1)) :
                          /\ size(i) \in n.attrs.min_gram_length..n.attrs.max_gram_length
                          /\ f[2] + (size(i) - 1) * f[1] < width
                          /\ \A j \in 1..size(i) : x.data[row * width + f[2] + (j - 1) * f[1] + 1] = gram(i)[j]}
      weight(i) == IF "weights" \in DOMAIN n.attrs THEN n.attrs.weights[i] ELSE 1
      worth(row, i) == LET k == Cardinality(found(row, i)) IN
        CASE n.attrs.mode = "TF" -> k
          [] n.attrs.mode = "IDF" -> IF k = 0 THEN 0 ELSE weight(i)
          [] n.attrs.mode = "TFIDF" -> k * weight(i)
      column(c) == {i \in DOMAIN n.attrs.ngram_indexes : n.attrs.ngram_indexes[i] = c}
      value(row, c) == MapThenSumSet(LAMBDA i : worth(row, i), column(c))
      top == Max(ToSet(n.attrs.ngram_indexes)) + 1
  IN <<Tensor(Front(x.shape) \o <<top>>, LAMBDA idx : value(IF Rank(x) = 1 THEN 0 ELSE idx[1], Last(idx)))>>

ConstantMeaning(n) ==
  LET form == CHOOSE f \in DOMAIN n.attrs : TRUE
  IN <<IF form \in {"value_int", "value_float"} THEN [shape |-> <<>>, data |-> <<n.attrs[form]>>]
       ELSE [shape |-> <<Len(n.attrs[form])>>, data |-> n.attrs[form]]>>

\* The loss of the targets that are not ignored; the mean divides by their weights.
NllLossMeaning(n) ==
  LET x == In(n, 1)
      t == In(n, 2)
      counted == {k \in DOMAIN t.data : t.data[k] # Attr(n, "ignore_index", -100)}
      weight(k) == IF Present(n, 3) THEN n.ins[3].data[t.data[k] + 1] ELSE 1
      score(k) == LET c == Coord(t.shape, k - 1) IN At(x, <<c[1], t.data[k]>> \o Tail(c))
      loss(k) == IF k \in counted THEN -weight(k) * score(k) ELSE 0
      sum == MapThenSumSet(loss, DOMAIN t.data)
      how == Attr(n, "reduction", "mean")
  IN CASE how = "none" -> <<[t EXCEPT !.data = [k \in DOMAIN t.data |-> loss(k)]]>>
       [] how = "sum" -> <<[shape |-> <<>>, data |-> <<sum>>]>>
       [] how = "mean" -> <<[shape |-> <<>>, data |-> <<<<sum, MapThenSumSet(weight, counted)>>>>]>>

=============================================================================
