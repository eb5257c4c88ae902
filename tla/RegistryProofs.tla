--------------------------- MODULE RegistryProofs ---------------------------
(***************************************************************************)
(* The index operators give what ONNX defines, for every node a host may   *)
(* offer: arrays of any rank and extent, any legal indices.                *)
(*                                                                         *)
(* The first part is about arrays: the folds Prod and Total and the        *)
(* recursion of Place, by induction on the length of a sequence; Coord and *)
(* Place as inverses of each other between the positions of an array and   *)
(* Box(shape), the set of its indices; and both split where a shape is a   *)
(* concatenation.  The second part takes each handler to the elements ONNX *)
(* names, the third the registry from its handlers to the invariant.       *)
(***************************************************************************)
EXTENDS Registry, SequenceTheorems, WellFoundedInduction, TLAPS

-----------------------------------------------------------------------------
(* Induction, and what the folds and the recursions of module Tensors compute. *)

\* Induction on the natural numbers, as a fact about sets.
LEMMA NatSets ==
  ASSUME NEW T, 0 \in T, \A n \in Nat : n \in T => n + 1 \in T
  PROVE  Nat \subseteq T
<1> DEFINE R == {p \in Nat \X Nat : p[1] < p[2]}
           B == Nat \ T
<1>1. IsWellFoundedOn(R, Nat)
  BY NatLessThanWellFounded DEF OpToRel
<1> HIDE DEF R
<1>2. SUFFICES ASSUME B # {} PROVE FALSE
  OBVIOUS
<1>3. PICK x \in B : \A y \in B : ~(<<y, x>> \in R)
  BY <1>1, <1>2, WFMin
<1>4. x # 0 /\ x - 1 \in Nat
  OBVIOUS
<1>5. <<x - 1, x>> \in R
  BY <1>4 DEF R
<1>6. x - 1 \in T
  BY <1>3, <1>4, <1>5
<1>7. x - 1 + 1 \in T
  BY <1>4, <1>6
<1> QED BY <1>7

\* Induction over sequences.
LEMMA SeqSets ==
  ASSUME NEW S, NEW T, <<>> \in T,
         \A s \in Seq(S), e \in S : s \in T => Append(s, e) \in T
  PROVE  Seq(S) \subseteq T
<1> DEFINE N == {n \in Nat : \A s \in Seq(S) : Len(s) = n => s \in T}
<1>1. 0 \in N
  BY EmptySeq
<1>2. ASSUME NEW n \in Nat, n \in N PROVE n + 1 \in N
  <2>1. SUFFICES ASSUME NEW s \in Seq(S), Len(s) = n + 1 PROVE s \in T
    OBVIOUS
  <2>2. s # <<>>
    BY <2>1, EmptySeq
  <2>3. PICK r \in Seq(S), e \in S : s = Append(r, e)
    BY <2>2, SequenceEmptyOrAppend
  <2>4. Len(r) = n
    BY <2>1, <2>3, AppendProperties, LenProperties
  <2> QED BY <1>2, <2>3, <2>4
<1>3. Nat \subseteq N
  <2> HIDE DEF N
  <2> QED BY <1>1, <1>2, NatSets
<1> QED BY <1>3, LenProperties

\* The greatest element, from its two properties.
LEMMA MaxIs ==
  ASSUME NEW I \in SUBSET Int, NEW x \in I, \A y \in I : x >= y
  PROVE  Max(I) = x
<1> DEFINE P(z) == z \in I /\ \A y \in I : z >= y
<1>1. ASSUME NEW z, P(z) PROVE z = x
  <2>1. z \in Int /\ x \in Int /\ z >= x /\ x >= z
    BY <1>1
  <2> QED BY <2>1
<1>3. P(x)
  OBVIOUS
<1>2. Max(I) = CHOOSE z : P(z)
  BY DEF Max
<1> HIDE DEF P
<1> QED BY <1>1, <1>2, <1>3

\* The table a fold over a sequence fills.
LEMMA ProdTable ==
  ASSUME NEW s \in Seq(Int), NEW n \in Nat, n <= Len(s)
  PROVE  \E f : f = [I \in SUBSET (1..n) |-> IF I = {} THEN 1
                                            ELSE f[I \ {Max(I)}] * s[Max(I)]]
<1> DEFINE Table(m, f) == f = [I \in SUBSET (1..m) |-> IF I = {} THEN 1
                                                       ELSE f[I \ {Max(I)}] * s[Max(I)]]
           T == {m \in Nat : \E f : Table(m, f)}
<1>1. 0 \in T
  <2>1. SUBSET (1..0) = {{}}
    OBVIOUS
  <2> DEFINE g == [I \in SUBSET (1..0) |-> 1]
  <2>2. Table(0, g)
    BY <2>1
  <2> QED BY <2>2
<1>2. ASSUME NEW m \in Nat, m \in T PROVE m + 1 \in T
  <2>1. PICK f : Table(m, f)
    BY <1>2
  <2> DEFINE g == [I \in SUBSET (1..(m + 1)) |-> IF m + 1 \in I THEN f[I \ {m + 1}] * s[m + 1]
                                                ELSE f[I]]
  <2>2. ASSUME NEW I \in SUBSET (1..(m + 1)) PROVE g[I] = IF I = {} THEN 1
                                            ELSE g[I \ {Max(I)}] * s[Max(I)]
    <3>1. CASE m + 1 \in I
      <4>1. Max(I) = m + 1
        BY <3>1, MaxIs
      <4>2. I \ {m + 1} \in SUBSET (1..(m + 1)) /\ m + 1 \notin I \ {m + 1}
        OBVIOUS
      <4>3. g[I \ {m + 1}] = f[I \ {m + 1}]
        BY <4>2
      <4> QED BY <3>1, <4>1, <4>3
    <3>2. CASE m + 1 \notin I
      <4>1. I \in SUBSET (1..m)
        BY <3>2
      <4>2. g[I] = f[I] /\ I \ {Max(I)} \in SUBSET (1..m)
        BY <3>2, <4>1
      <4>3. g[I \ {Max(I)}] = f[I \ {Max(I)}]
        BY <3>2, <4>1
      <4>4. f[I] = IF I = {} THEN 1 ELSE f[I \ {Max(I)}] * s[Max(I)]
        BY <2>1, <4>1
      <4> QED BY <4>2, <4>3, <4>4
    <3> QED BY <3>1, <3>2
  <2>3. Table(m + 1, g)
    <3>1. g = [I \in SUBSET (1..(m + 1)) |-> g[I]]
      OBVIOUS
    <3> HIDE DEF g
    <3> QED BY <2>2, <3>1
  <2> QED
    <3> HIDE DEF Table, g
    <3> QED BY <2>3
<1>3. n \in T
  <2>1. Nat \subseteq T
    <3> HIDE DEF T
    <3> QED BY <1>1, <1>2, NatSets
  <2> QED BY <2>1
<1> QED BY <1>3

\* The fold of Prod as a function of the length of the prefix.
LEMMA ProdFold ==
  ASSUME NEW s \in Seq(Int)
  PROVE  \E h \in [0..Len(s) -> Int] :
           /\ h[0] = 1 /\ \A i \in 1..Len(s) : h[i] = h[i - 1] * s[i]
           /\ Prod(s) = h[Len(s)]
<1> DEFINE Table(f) == f = [I \in SUBSET (1..Len(s)) |-> IF I = {} THEN 1
                                              ELSE f[I \ {Max(I)}] * s[Max(I)]]
           f == CHOOSE f : Table(f)
           h == [i \in 0..Len(s) |-> f[1..i]]
           T == {i \in Nat : i <= Len(s) => h[i] \in Int}
<1>1. Len(s) \in Nat /\ DOMAIN s = 1..Len(s) /\ \A i \in 1..Len(s) : s[i] \in Int
  BY LenProperties
<1>2. Table(f)
  <2>1. Len(s) <= Len(s)
    BY <1>1
  <2>2. \E g : Table(g)
    BY <1>1, <2>1, ProdTable
  <2> HIDE DEF Table
  <2> QED BY <2>2
<1>3. Prod(s) = f[1..Len(s)]
  BY <1>1 DEF Prod, FoldLeft, MapThenFoldSet
<1> HIDE DEF f
<1>4. h[0] = 1
  <2>1. 1..0 = {}
    OBVIOUS
  <2>2. f[{}] = 1
    BY <1>2
  <2> QED BY <1>1, <2>1, <2>2
<1>5. ASSUME NEW i \in 1..Len(s) PROVE h[i] = h[i - 1] * s[i]
  <2>1. 1..i \in SUBSET (1..Len(s)) /\ i \in 1..i /\ 1..i # {}
    <3>1. i \in Nat /\ i >= 1 /\ i <= Len(s)
      BY <1>1
    <3>2. 1..i \subseteq 1..Len(s) /\ i \in 1..i
      BY <1>1, <3>1
    <3> QED BY <3>2
  <2>2. Max(1..i) = i
    <3>1. 1..i \in SUBSET Int /\ i \in 1..i /\ \A y \in 1..i : i >= y
      BY <1>1
    <3> QED BY <3>1, MaxIs
  <2>3. (1..i) \ {i} = 1..(i - 1)
    BY <1>1
  <2>4. f[1..i] = f[1..(i - 1)] * s[i]
    BY <1>2, <2>1, <2>2, <2>3
  <2>5. i \in 0..Len(s) /\ i - 1 \in 0..Len(s)
    BY <1>1
  <2> QED BY <2>4, <2>5
<1>6. 0 \in T
  BY <1>4
<1>7. ASSUME NEW i \in Nat, i \in T PROVE i + 1 \in T
  <2>1. SUFFICES ASSUME i + 1 <= Len(s) PROVE h[i + 1] \in Int
    OBVIOUS
  <2>2. i + 1 \in 1..Len(s) /\ h[i] \in Int
    BY <1>1, <1>7, <2>1
  <2>3. s[i + 1] \in Int /\ i + 1 - 1 = i
    BY <1>1, <2>2
  <2>4. h[i + 1] = h[i + 1 - 1] * s[i + 1]
    <3> HIDE DEF h
    <3> QED BY <1>5, <2>2
  <2> HIDE DEF h
  <2> QED BY <2>2, <2>3, <2>4
<1>8. Nat \subseteq T
  <2> HIDE DEF T
  <2> QED BY <1>6, <1>7, NatSets
<1>9. h \in [0..Len(s) -> Int]
  <2>1. ASSUME NEW i \in 0..Len(s) PROVE h[i] \in Int
    <3> HIDE DEF h
    <3>1. i \in Nat /\ i <= Len(s)
      BY <1>1
    <3> QED BY <1>8, <3>1
  <2> QED BY <2>1
<1>10. Prod(s) = h[Len(s)]
  BY <1>1, <1>3
<1> HIDE DEF h
<1> QED BY <1>4, <1>5, <1>9, <1>10

LEMMA ProdEmpty == Prod(<<>>) = 1
  BY ProdFold, EmptySeq

\* One more extent multiplies the product.
LEMMA ProdAppend ==
  ASSUME NEW s \in Seq(Int), NEW x \in Int
  PROVE  Prod(s) \in Int /\ Prod(Append(s, x)) = Prod(s) * x
<1> DEFINE r == Append(s, x)
<1>1. r \in Seq(Int) /\ Len(s) \in Nat /\ Len(r) = Len(s) + 1
      /\ (\A i \in 1..Len(s) : r[i] = s[i]) /\ r[Len(s) + 1] = x
  BY AppendProperties, LenProperties
<1> HIDE DEF r
<1>2. PICK h \in [0..Len(s) -> Int] :
           /\ h[0] = 1 /\ \A i \in 1..Len(s) : h[i] = h[i - 1] * s[i]
           /\ Prod(s) = h[Len(s)]
  BY ProdFold
<1>3. PICK g \in [0..Len(r) -> Int] :
           /\ g[0] = 1 /\ \A i \in 1..Len(r) : g[i] = g[i - 1] * r[i]
           /\ Prod(r) = g[Len(r)]
  BY <1>1, ProdFold
<1> DEFINE T == {i \in Nat : i <= Len(s) => g[i] = h[i]}
<1>4. 0 \in T
  BY <1>2, <1>3
<1>5. ASSUME NEW i \in Nat, i \in T PROVE i + 1 \in T
  <2>1. SUFFICES ASSUME i + 1 <= Len(s) PROVE g[i + 1] = h[i + 1]
    OBVIOUS
  <2>2. i + 1 \in 1..Len(s) /\ i + 1 \in 1..Len(r) /\ i + 1 - 1 = i /\ g[i] = h[i]
    BY <1>1, <1>5, <2>1
  <2> QED BY <1>1, <1>2, <1>3, <2>2
<1>6. Nat \subseteq T
  <2> HIDE DEF T
  <2> QED BY <1>4, <1>5, NatSets
<1>7. g[Len(s)] = h[Len(s)] /\ h[Len(s)] \in Int
  BY <1>1, <1>2, <1>6
<1>8. g[Len(s) + 1] = g[Len(s) + 1 - 1] * r[Len(s) + 1] /\ Len(s) + 1 - 1 = Len(s)
  <2>1. Len(s) + 1 \in 1..Len(r) /\ Len(s) + 1 - 1 = Len(s)
    BY <1>1
  <2> QED BY <1>3, <2>1
<1> QED BY <1>1, <1>2, <1>3, <1>7, <1>8 DEF r

\* The table a fold over a sequence fills.
LEMMA TotalTable ==
  ASSUME NEW s \in Seq(Int), NEW n \in Nat, n <= Len(s)
  PROVE  \E f : f = [I \in SUBSET (1..n) |-> IF I = {} THEN 0
                                            ELSE f[I \ {Max(I)}] + s[Max(I)]]
<1> DEFINE Table(m, f) == f = [I \in SUBSET (1..m) |-> IF I = {} THEN 0
                                                       ELSE f[I \ {Max(I)}] + s[Max(I)]]
           T == {m \in Nat : \E f : Table(m, f)}
<1>1. 0 \in T
  <2>1. SUBSET (1..0) = {{}}
    OBVIOUS
  <2> DEFINE g == [I \in SUBSET (1..0) |-> 0]
  <2>2. Table(0, g)
    BY <2>1
  <2> QED BY <2>2
<1>2. ASSUME NEW m \in Nat, m \in T PROVE m + 1 \in T
  <2>1. PICK f : Table(m, f)
    BY <1>2
  <2> DEFINE g == [I \in SUBSET (1..(m + 1)) |-> IF m + 1 \in I THEN f[I \ {m + 1}] + s[m + 1]
                                                ELSE f[I]]
  <2>2. ASSUME NEW I \in SUBSET (1..(m + 1)) PROVE g[I] = IF I = {} THEN 0
                                            ELSE g[I \ {Max(I)}] + s[Max(I)]
    <3>1. CASE m + 1 \in I
      <4>1. Max(I) = m + 1
        BY <3>1, MaxIs
      <4>2. I \ {m + 1} \in SUBSET (1..(m + 1)) /\ m + 1 \notin I \ {m + 1}
        OBVIOUS
      <4>3. g[I \ {m + 1}] = f[I \ {m + 1}]
        BY <4>2
      <4> QED BY <3>1, <4>1, <4>3
    <3>2. CASE m + 1 \notin I
      <4>1. I \in SUBSET (1..m)
        BY <3>2
      <4>2. g[I] = f[I] /\ I \ {Max(I)} \in SUBSET (1..m)
        BY <3>2, <4>1
      <4>3. g[I \ {Max(I)}] = f[I \ {Max(I)}]
        BY <3>2, <4>1
      <4>4. f[I] = IF I = {} THEN 0 ELSE f[I \ {Max(I)}] + s[Max(I)]
        BY <2>1, <4>1
      <4> QED BY <4>2, <4>3, <4>4
    <3> QED BY <3>1, <3>2
  <2>3. Table(m + 1, g)
    <3>1. g = [I \in SUBSET (1..(m + 1)) |-> g[I]]
      OBVIOUS
    <3> HIDE DEF g
    <3> QED BY <2>2, <3>1
  <2> QED
    <3> HIDE DEF Table, g
    <3> QED BY <2>3
<1>3. n \in T
  <2>1. Nat \subseteq T
    <3> HIDE DEF T
    <3> QED BY <1>1, <1>2, NatSets
  <2> QED BY <2>1
<1> QED BY <1>3

\* The fold of Total as a function of the length of the prefix.
LEMMA TotalFold ==
  ASSUME NEW s \in Seq(Int)
  PROVE  \E h \in [0..Len(s) -> Int] :
           /\ h[0] = 0 /\ \A i \in 1..Len(s) : h[i] = h[i - 1] + s[i]
           /\ Total(s) = h[Len(s)]
<1> DEFINE Table(f) == f = [I \in SUBSET (1..Len(s)) |-> IF I = {} THEN 0
                                              ELSE f[I \ {Max(I)}] + s[Max(I)]]
           f == CHOOSE f : Table(f)
           h == [i \in 0..Len(s) |-> f[1..i]]
           T == {i \in Nat : i <= Len(s) => h[i] \in Int}
<1>1. Len(s) \in Nat /\ DOMAIN s = 1..Len(s) /\ \A i \in 1..Len(s) : s[i] \in Int
  BY LenProperties
<1>2. Table(f)
  <2>1. Len(s) <= Len(s)
    BY <1>1
  <2>2. \E g : Table(g)
    BY <1>1, <2>1, TotalTable
  <2> HIDE DEF Table
  <2> QED BY <2>2
<1>3. Total(s) = f[1..Len(s)]
  BY <1>1 DEF Total, FoldLeft, MapThenFoldSet
<1> HIDE DEF f
<1>4. h[0] = 0
  <2>1. 1..0 = {}
    OBVIOUS
  <2>2. f[{}] = 0
    BY <1>2
  <2> QED BY <1>1, <2>1, <2>2
<1>5. ASSUME NEW i \in 1..Len(s) PROVE h[i] = h[i - 1] + s[i]
  <2>1. 1..i \in SUBSET (1..Len(s)) /\ i \in 1..i /\ 1..i # {}
    <3>1. i \in Nat /\ i >= 1 /\ i <= Len(s)
      BY <1>1
    <3>2. 1..i \subseteq 1..Len(s) /\ i \in 1..i
      BY <1>1, <3>1
    <3> QED BY <3>2
  <2>2. Max(1..i) = i
    <3>1. 1..i \in SUBSET Int /\ i \in 1..i /\ \A y \in 1..i : i >= y
      BY <1>1
    <3> QED BY <3>1, MaxIs
  <2>3. (1..i) \ {i} = 1..(i - 1)
    BY <1>1
  <2>4. f[1..i] = f[1..(i - 1)] + s[i]
    BY <1>2, <2>1, <2>2, <2>3
  <2>5. i \in 0..Len(s) /\ i - 1 \in 0..Len(s)
    BY <1>1
  <2> QED BY <2>4, <2>5
<1>6. 0 \in T
  BY <1>4
<1>7. ASSUME NEW i \in Nat, i \in T PROVE i + 1 \in T
  <2>1. SUFFICES ASSUME i + 1 <= Len(s) PROVE h[i + 1] \in Int
    OBVIOUS
  <2>2. i + 1 \in 1..Len(s) /\ h[i] \in Int
    BY <1>1, <1>7, <2>1
  <2>3. s[i + 1] \in Int /\ i + 1 - 1 = i
    BY <1>1, <2>2
  <2>4. h[i + 1] = h[i + 1 - 1] + s[i + 1]
    <3> HIDE DEF h
    <3> QED BY <1>5, <2>2
  <2> HIDE DEF h
  <2> QED BY <2>2, <2>3, <2>4
<1>8. Nat \subseteq T
  <2> HIDE DEF T
  <2> QED BY <1>6, <1>7, NatSets
<1>9. h \in [0..Len(s) -> Int]
  <2>1. ASSUME NEW i \in 0..Len(s) PROVE h[i] \in Int
    <3> HIDE DEF h
    <3>1. i \in Nat /\ i <= Len(s)
      BY <1>1
    <3> QED BY <1>8, <3>1
  <2> QED BY <2>1
<1>10. Total(s) = h[Len(s)]
  BY <1>1, <1>3
<1> HIDE DEF h
<1> QED BY <1>4, <1>5, <1>9, <1>10

LEMMA TotalEmpty == Total(<<>>) = 0
  BY TotalFold, EmptySeq

\* One more summand adds to the total.
LEMMA TotalAppend ==
  ASSUME NEW s \in Seq(Int), NEW x \in Int
  PROVE  Total(s) \in Int /\ Total(Append(s, x)) = Total(s) + x
<1> DEFINE r == Append(s, x)
<1>1. r \in Seq(Int) /\ Len(s) \in Nat /\ Len(r) = Len(s) + 1
      /\ (\A i \in 1..Len(s) : r[i] = s[i]) /\ r[Len(s) + 1] = x
  BY AppendProperties, LenProperties
<1> HIDE DEF r
<1>2. PICK h \in [0..Len(s) -> Int] :
           /\ h[0] = 0 /\ \A i \in 1..Len(s) : h[i] = h[i - 1] + s[i]
           /\ Total(s) = h[Len(s)]
  BY TotalFold
<1>3. PICK g \in [0..Len(r) -> Int] :
           /\ g[0] = 0 /\ \A i \in 1..Len(r) : g[i] = g[i - 1] + r[i]
           /\ Total(r) = g[Len(r)]
  BY <1>1, TotalFold
<1> DEFINE T == {i \in Nat : i <= Len(s) => g[i] = h[i]}
<1>4. 0 \in T
  BY <1>2, <1>3
<1>5. ASSUME NEW i \in Nat, i \in T PROVE i + 1 \in T
  <2>1. SUFFICES ASSUME i + 1 <= Len(s) PROVE g[i + 1] = h[i + 1]
    OBVIOUS
  <2>2. i + 1 \in 1..Len(s) /\ i + 1 \in 1..Len(r) /\ i + 1 - 1 = i /\ g[i] = h[i]
    BY <1>1, <1>5, <2>1
  <2> QED BY <1>1, <1>2, <1>3, <2>2
<1>6. Nat \subseteq T
  <2> HIDE DEF T
  <2> QED BY <1>4, <1>5, NatSets
<1>7. g[Len(s)] = h[Len(s)] /\ h[Len(s)] \in Int
  BY <1>1, <1>2, <1>6
<1>8. g[Len(s) + 1] = g[Len(s) + 1 - 1] + r[Len(s) + 1] /\ Len(s) + 1 - 1 = Len(s)
  <2>1. Len(s) + 1 \in 1..Len(r) /\ Len(s) + 1 - 1 = Len(s)
    BY <1>1
  <2> QED BY <1>3, <2>1
<1> QED BY <1>1, <1>2, <1>3, <1>7, <1>8 DEF r

-----------------------------------------------------------------------------
(* Quotients and remainders of natural numbers. *)

Pos == Nat \ {0}

\* The products Z3 is not to unfold, stated once.
LEMMA Products ==
  /\ \A a, b \in Nat : a * b \in Nat
  /\ \A a, b \in Pos : a * b \in Pos
  /\ \A a \in Nat, b \in Pos : a <= a * b
  /\ \A a, b, c \in Nat : a < b => a * c + c <= b * c
  /\ \A a, b, c \in Nat : a <= b => a * c <= b * c
<1>1. \A a, b \in Nat : a * b \in Nat
  OBVIOUS
<1>2. \A a, b \in Pos : a * b \in Pos
  BY DEF Pos
<1>3. \A a \in Nat, b \in Pos : a <= a * b
  BY DEF Pos
<1>4. \A a, b, c \in Nat : a < b => a * c + c <= b * c
  <2>1. ASSUME NEW a \in Nat, NEW d \in Nat, NEW c \in Nat
        PROVE  a * c + c <= (a + 1 + d) * c
    OBVIOUS
  <2>2. \A a, b \in Nat : a < b => b - a - 1 \in Nat /\ b = a + 1 + (b - a - 1)
    OBVIOUS
  <2> QED BY <2>1, <2>2
<1>5. \A a, b, c \in Nat : a <= b => a * c <= b * c
  BY <1>1, <1>4
<1> QED BY <1>1, <1>2, <1>3, <1>4, <1>5

\* A position is its quotient and its remainder,
LEMMA Parts ==
  ASSUME NEW k \in Nat, NEW x \in Pos
  PROVE  k \div x \in Nat /\ k % x \in 0..(x - 1) /\ k = (k \div x) * x + (k % x)
  BY DEF Pos

\* and of no others.
LEMMA OnlyParts ==
  ASSUME NEW x \in Pos, NEW a \in Nat, NEW v \in 0..(x - 1)
  PROVE  (a * x + v) \div x = a /\ (a * x + v) % x = v
  BY DEF Pos

\* A position of a table has its row in range.
LEMMA QuotientIn ==
  ASSUME NEW k \in Nat, NEW a \in Nat, NEW x \in Pos, k < a * x
  PROVE  k \div x \in 0..(a - 1)
  BY DEF Pos

\* A quotient of a quotient.
LEMMA QuotientTwice ==
  ASSUME NEW k \in Nat, NEW x \in Pos, NEW y \in Pos
  PROVE  (k \div x) \div y = k \div (y * x)
  BY DEF Pos
-----------------------------------------------------------------------------
(* Shapes: what Prod says of a sequence of extents. *)

\* A function on 1..n is a sequence.
LEMMA IsSeq ==
  ASSUME NEW S, NEW n \in Nat, NEW f \in [1..n -> S]
  PROVE  f \in Seq(S) /\ Len(f) = n /\ DOMAIN f = 1..n
  OBVIOUS

\* Sequences with the same elements are equal.
LEMMA Same ==
  ASSUME NEW S, NEW s \in Seq(S), NEW t \in Seq(S), Len(s) = Len(t),
         \A d \in 1..Len(s) : s[d] = t[d]
  PROVE  s = t
  BY SeqEqual

\* A sequence over a set is one over any larger set.
LEMMA Wider ==
  ASSUME NEW S, NEW R, S \subseteq R, NEW s \in Seq(S)
  PROVE  s \in Seq(R)
  OBVIOUS

\* The size of an array is a natural number,
LEMMA ProdNat ==
  ASSUME NEW s \in Seq(Nat)
  PROVE  Prod(s) \in Nat
<1> DEFINE T == {t \in Seq(Nat) : Prod(t) \in Nat}
<1>1. <<>> \in T
  BY ProdEmpty, EmptySeq
<1>2. ASSUME NEW t \in Seq(Nat), NEW x \in Nat, t \in T PROVE Append(t, x) \in T
  <2>1. t \in Seq(Int) /\ x \in Int /\ Append(t, x) \in Seq(Nat)
    BY Wider, AppendProperties
  <2>2. Prod(Append(t, x)) = Prod(t) * x
    BY <2>1, ProdAppend
  <2> QED BY <1>2, <2>1, <2>2, Products
<1>3. Seq(Nat) \subseteq T
  <2> HIDE DEF T
  <2> QED BY <1>1, <1>2, SeqSets
<1> QED BY <1>3

\* and positive when every extent is.
LEMMA ProdPositive ==
  ASSUME NEW s \in Seq(Pos)
  PROVE  Prod(s) \in Pos
<1> DEFINE T == {t \in Seq(Pos) : Prod(t) \in Pos}
<1>1. <<>> \in T
  BY ProdEmpty, EmptySeq DEF Pos
<1>2. ASSUME NEW t \in Seq(Pos), NEW x \in Pos, t \in T PROVE Append(t, x) \in T
  <2>1. t \in Seq(Int) /\ x \in Int /\ Append(t, x) \in Seq(Pos)
    BY Wider, AppendProperties DEF Pos
  <2>2. Prod(Append(t, x)) = Prod(t) * x
    BY <2>1, ProdAppend
  <2> QED BY <1>2, <2>1, <2>2, Products
<1>3. Seq(Pos) \subseteq T
  <2> HIDE DEF T
  <2> QED BY <1>1, <1>2, SeqSets
<1> QED BY <1>3

\* An array that has elements has no empty axis.
LEMMA Extents ==
  ASSUME NEW s \in Seq(Nat), Prod(s) # 0
  PROVE  s \in Seq(Pos)
<1> DEFINE T == {t \in Seq(Nat) : Prod(t) # 0 => t \in Seq(Pos)}
<1>1. <<>> \in T
  BY EmptySeq
<1>2. ASSUME NEW t \in Seq(Nat), NEW x \in Nat, t \in T PROVE Append(t, x) \in T
  <2>1. t \in Seq(Int) /\ x \in Int /\ Append(t, x) \in Seq(Nat)
    BY Wider, AppendProperties
  <2>2. Prod(Append(t, x)) = Prod(t) * x /\ Prod(t) \in Nat
    BY <2>1, ProdAppend, ProdNat
  <2>3. ASSUME Prod(Append(t, x)) # 0 PROVE Append(t, x) \in Seq(Pos)
    <3>1. Prod(t) # 0 /\ x \in Pos
      BY <2>2, <2>3 DEF Pos
    <3>2. t \in Seq(Pos)
      BY <1>2, <3>1
    <3> QED BY <3>1, <3>2, AppendProperties
  <2> QED BY <2>1, <2>3
<1>3. Seq(Nat) \subseteq T
  <2> HIDE DEF T
  <2> QED BY <1>1, <1>2, SeqSets
<1> QED BY <1>3

\* Concatenation one element at a time.
LEMMA ConcatAppend ==
  ASSUME NEW S, NEW s \in Seq(S), NEW t \in Seq(S), NEW x \in S
  PROVE  s \o Append(t, x) = Append(s \o t, x)
<1>1. Append(t, x) \in Seq(S) /\ s \o t \in Seq(S)
  BY AppendProperties, ConcatProperties
<1>2. s \o Append(t, x) \in Seq(S) /\ Append(s \o t, x) \in Seq(S)
  BY <1>1, AppendProperties, ConcatProperties
<1> QED OBVIOUS

\* A product splits where its shape does.
LEMMA ProdCat ==
  ASSUME NEW s \in Seq(Nat), NEW t \in Seq(Nat)
  PROVE  Prod(s \o t) = Prod(s) * Prod(t)
<1> DEFINE T == {r \in Seq(Nat) : Prod(s \o r) = Prod(s) * Prod(r)}
<1>1. <<>> \in T
  <2>1. s \o <<>> = s /\ Prod(s) \in Nat
    BY ConcatEmptySeq, ProdNat
  <2> QED BY <2>1, ProdEmpty, EmptySeq
<1>2. ASSUME NEW r \in Seq(Nat), NEW x \in Nat, r \in T PROVE Append(r, x) \in T
  <2>1. r \in Seq(Int) /\ x \in Int /\ Append(r, x) \in Seq(Nat) /\ s \o r \in Seq(Nat)
    BY Wider, AppendProperties, ConcatProperties
  <2>2. s \o r \in Seq(Int)
    BY <2>1, Wider
  <2>3. Prod(Append(r, x)) = Prod(r) * x /\ Prod(Append(s \o r, x)) = Prod(s \o r) * x
    BY <2>1, <2>2, ProdAppend
  <2>4. Prod(s) \in Nat /\ Prod(r) \in Nat
    BY ProdNat
  <2>5. s \o Append(r, x) = Append(s \o r, x)
    BY ConcatAppend
  <2>6. Prod(s \o Append(r, x)) = (Prod(s) * Prod(r)) * x
    BY <1>2, <2>3, <2>5
  <2> QED BY <2>1, <2>3, <2>4, <2>6
<1>3. Seq(Nat) \subseteq T
  <2> HIDE DEF T
  <2> QED BY <1>1, <1>2, SeqSets
<1> QED BY <1>3
-----------------------------------------------------------------------------
(* Indices: Place counts an index of an array in row-major order, Coord is its *)
(* inverse.                                                                     *)

\* The recursive function in Place has values at every prefix.
LEMMA PlaceTable ==
  ASSUME NEW s \in Seq(Int), NEW i \in Seq(Int), Len(i) = Len(s), NEW n \in Nat, n <= Len(s)
  PROVE  \E f : f = [d \in 0..n |-> IF d = 0 THEN 0 ELSE f[d - 1] * s[d] + i[d]]
<1> DEFINE Table(m, f) == f = [d \in 0..m |-> IF d = 0 THEN 0 ELSE f[d - 1] * s[d] + i[d]]
           T == {m \in Nat : \E f : Table(m, f)}
<1>1. 0 \in T
  <2> DEFINE g == [d \in 0..0 |-> 0]
  <2>1. Table(0, g)
    OBVIOUS
  <2> QED BY <2>1
<1>2. ASSUME NEW m \in Nat, m \in T PROVE m + 1 \in T
  <2>1. PICK f : Table(m, f)
    BY <1>2
  <2> DEFINE g == [d \in 0..(m + 1) |-> IF d = m + 1 THEN f[m] * s[m + 1] + i[m + 1] ELSE f[d]]
  <2>2. ASSUME NEW d \in 0..(m + 1)
        PROVE  g[d] = IF d = 0 THEN 0 ELSE g[d - 1] * s[d] + i[d]
    <3>1. CASE d = m + 1
      <4>1. m \in 0..(m + 1) /\ m # m + 1 /\ d - 1 = m /\ d # 0
        BY <3>1
      <4>2. g[m] = f[m] /\ g[d] = f[m] * s[m + 1] + i[m + 1]
        BY <3>1, <4>1
      <4> QED BY <3>1, <4>1, <4>2
    <3>2. CASE d # m + 1
      <4>1. d \in 0..m /\ g[d] = f[d]
        BY <3>2
      <4>2. d # 0 => d - 1 \in 0..(m + 1) /\ d - 1 # m + 1
        BY <4>1
      <4>3. d # 0 => g[d - 1] = f[d - 1]
        BY <4>2
      <4>4. f[d] = IF d = 0 THEN 0 ELSE f[d - 1] * s[d] + i[d]
        BY <2>1, <4>1
      <4> QED BY <4>1, <4>3, <4>4
    <3> QED BY <3>1, <3>2
  <2>3. Table(m + 1, g)
    <3>1. g = [d \in 0..(m + 1) |-> g[d]]
      OBVIOUS
    <3> HIDE DEF g
    <3> QED BY <2>2, <3>1
  <2> QED
    <3> HIDE DEF Table, g
    <3> QED BY <2>3
<1>3. n \in T
  <2>1. Nat \subseteq T
    <3> HIDE DEF T
    <3> QED BY <1>1, <1>2, NatSets
  <2> QED BY <2>1
<1> QED BY <1>3

\* Place as a function of the length of the prefix.
LEMMA PlaceFold ==
  ASSUME NEW s \in Seq(Int), NEW i \in Seq(Int), Len(i) = Len(s)
  PROVE  \E h \in [0..Len(s) -> Int] :
           /\ h[0] = 0 /\ \A d \in 1..Len(s) : h[d] = h[d - 1] * s[d] + i[d]
           /\ Place(s, i) = h[Len(s)]
<1> DEFINE Table(f) == f = [d \in 0..Len(s) |-> IF d = 0 THEN 0 ELSE f[d - 1] * s[d] + i[d]]
           h == CHOOSE f : Table(f)
           T == {d \in Nat : d <= Len(s) => h[d] \in Int}
<1>1. Len(s) \in Nat /\ (\A d \in 1..Len(s) : s[d] \in Int /\ i[d] \in Int)
  BY LenProperties
<1>2. Table(h)
  <2>1. Len(s) <= Len(s)
    BY <1>1
  <2>2. \E g : Table(g)
    BY <1>1, <2>1, PlaceTable
  <2> HIDE DEF Table
  <2> QED BY <2>2
<1>3. Place(s, i) = h[Len(s)]
  BY DEF Place
<1> HIDE DEF h
<1>4. h[0] = 0
  <2>1. 0 \in 0..Len(s)
    BY <1>1
  <2> QED BY <1>2, <2>1
<1>5. ASSUME NEW d \in 1..Len(s) PROVE h[d] = h[d - 1] * s[d] + i[d]
  <2>1. d \in 0..Len(s) /\ d # 0
    BY <1>1
  <2> QED BY <1>2, <2>1
<1>6. 0 \in T
  BY <1>4
<1>7. ASSUME NEW d \in Nat, d \in T PROVE d + 1 \in T
  <2>1. SUFFICES ASSUME d + 1 <= Len(s) PROVE h[d + 1] \in Int
    OBVIOUS
  <2>2. d + 1 \in 1..Len(s) /\ h[d] \in Int /\ d + 1 - 1 = d
    BY <1>1, <1>7, <2>1
  <2>3. h[d + 1] = h[d] * s[d + 1] + i[d + 1]
    BY <1>5, <2>2
  <2> QED BY <1>1, <2>2, <2>3
<1>8. Nat \subseteq T
  <2> HIDE DEF T
  <2> QED BY <1>6, <1>7, NatSets
<1>9. h \in [0..Len(s) -> Int]
  <2>1. \A d \in 0..Len(s) : h[d] \in Int
    BY <1>1, <1>8
  <2> QED BY <1>2, <2>1
<1> QED BY <1>3, <1>4, <1>5, <1>9

LEMMA PlaceEmpty == Place(<<>>, <<>>) = 0
  BY PlaceFold, EmptySeq

\* One more axis scales the place by its extent.
LEMMA PlaceAppend ==
  ASSUME NEW s \in Seq(Int), NEW i \in Seq(Int), Len(i) = Len(s), NEW x \in Int, NEW v \in Int
  PROVE  Place(s, i) \in Int /\ Place(Append(s, x), Append(i, v)) = Place(s, i) * x + v
<1> DEFINE r == Append(s, x)
           j == Append(i, v)
<1>1. r \in Seq(Int) /\ Len(s) \in Nat /\ Len(r) = Len(s) + 1
      /\ (\A d \in 1..Len(s) : r[d] = s[d]) /\ r[Len(s) + 1] = x
  BY AppendProperties, LenProperties
<1>2. j \in Seq(Int) /\ Len(j) = Len(s) + 1
      /\ (\A d \in 1..Len(s) : j[d] = i[d]) /\ j[Len(s) + 1] = v
  BY AppendProperties, LenProperties
<1> HIDE DEF r, j
<1>3. PICK h \in [0..Len(s) -> Int] :
           /\ h[0] = 0 /\ \A d \in 1..Len(s) : h[d] = h[d - 1] * s[d] + i[d]
           /\ Place(s, i) = h[Len(s)]
  BY PlaceFold
<1>4. PICK g \in [0..Len(r) -> Int] :
           /\ g[0] = 0 /\ \A d \in 1..Len(r) : g[d] = g[d - 1] * r[d] + j[d]
           /\ Place(r, j) = g[Len(r)]
  BY <1>1, <1>2, PlaceFold
<1> DEFINE T == {d \in Nat : d <= Len(s) => g[d] = h[d]}
<1>5. 0 \in T
  BY <1>3, <1>4
<1>6. ASSUME NEW d \in Nat, d \in T PROVE d + 1 \in T
  <2>1. SUFFICES ASSUME d + 1 <= Len(s) PROVE g[d + 1] = h[d + 1]
    OBVIOUS
  <2>2. d + 1 \in 1..Len(s) /\ d + 1 \in 1..Len(r) /\ d + 1 - 1 = d /\ g[d] = h[d]
    BY <1>1, <1>6, <2>1
  <2> QED BY <1>1, <1>2, <1>3, <1>4, <2>2
<1>7. Nat \subseteq T
  <2> HIDE DEF T
  <2> QED BY <1>5, <1>6, NatSets
<1>8. g[Len(s)] = h[Len(s)] /\ h[Len(s)] \in Int
  BY <1>1, <1>3, <1>7
<1>9. g[Len(s) + 1] = g[Len(s)] * r[Len(s) + 1] + j[Len(s) + 1]
  <2>1. Len(s) + 1 \in 1..Len(r) /\ Len(s) + 1 - 1 = Len(s)
    BY <1>1
  <2> QED BY <1>4, <2>1
<1> QED BY <1>1, <1>2, <1>3, <1>4, <1>8, <1>9 DEF r, j

\* The indices of an array of a shape.
Box(s) == {i \in Seq(Nat) : Len(i) = Len(s) /\ \A d \in 1..Len(s) : i[d] < s[d]}

\* An index of a shape with one more axis ends in an index of that axis,
LEMMA BoxAppend ==
  ASSUME NEW s \in Seq(Nat), NEW x \in Nat, NEW j \in Box(Append(s, x))
  PROVE  \E i \in Box(s), v \in 0..(x - 1) : j = Append(i, v)
<1>1. Append(s, x) \in Seq(Nat) /\ Len(s) \in Nat /\ Len(Append(s, x)) = Len(s) + 1
      /\ (\A d \in 1..Len(s) : Append(s, x)[d] = s[d]) /\ Append(s, x)[Len(s) + 1] = x
  BY AppendProperties, LenProperties
<1>2. j \in Seq(Nat) /\ Len(j) = Len(s) + 1 /\ \A d \in 1..(Len(s) + 1) : j[d] < Append(s, x)[d]
  BY <1>1 DEF Box
<1>3. j # <<>>
  BY <1>1, <1>2, EmptySeq
<1>4. PICK i \in Seq(Nat), v \in Nat : j = Append(i, v)
  BY <1>2, <1>3, SequenceEmptyOrAppend
<1>5. Len(i) = Len(s) /\ (\A d \in 1..Len(i) : j[d] = i[d]) /\ j[Len(i) + 1] = v
  BY <1>1, <1>2, <1>4, AppendProperties, LenProperties
<1>6. v < x
  BY <1>1, <1>2, <1>5
<1>7. i \in Box(s)
  BY <1>1, <1>2, <1>5 DEF Box
<1> QED BY <1>4, <1>6, <1>7

\* and every such pair is one.
LEMMA InBoxAppend ==
  ASSUME NEW s \in Seq(Nat), NEW x \in Nat, NEW i \in Box(s), NEW v \in 0..(x - 1)
  PROVE  Append(i, v) \in Box(Append(s, x))
<1>1. Append(s, x) \in Seq(Nat) /\ Len(s) \in Nat /\ Len(Append(s, x)) = Len(s) + 1
      /\ (\A d \in 1..Len(s) : Append(s, x)[d] = s[d]) /\ Append(s, x)[Len(s) + 1] = x
  BY AppendProperties, LenProperties
<1>2. i \in Seq(Nat) /\ Len(i) = Len(s) /\ (\A d \in 1..Len(s) : i[d] < s[d]) /\ v \in Nat /\ v < x
  BY DEF Box
<1>3. Append(i, v) \in Seq(Nat) /\ Len(Append(i, v)) = Len(s) + 1
      /\ (\A d \in 1..Len(s) : Append(i, v)[d] = i[d]) /\ Append(i, v)[Len(s) + 1] = v
  BY <1>2, AppendProperties
<1>4. ASSUME NEW d \in 1..(Len(s) + 1) PROVE Append(i, v)[d] < Append(s, x)[d]
  <2>1. d \in 1..Len(s) \/ d = Len(s) + 1
    BY <1>1
  <2> QED BY <1>1, <1>2, <1>3, <2>1
<1> QED BY <1>1, <1>3, <1>4 DEF Box

\* The entries of an index are below the extents.
LEMMA BoxSeq ==
  ASSUME NEW s \in Seq(Nat), NEW i \in Box(s)
  PROVE  i \in Seq(Nat) /\ i \in Seq(Int) /\ Len(i) = Len(s) /\ \A d \in 1..Len(s) : i[d] \in 0..(s[d] - 1)
<1>1. i \in Seq(Nat) /\ Len(i) = Len(s) /\ \A d \in 1..Len(s) : i[d] < s[d]
  BY DEF Box
<1>2. i \in Seq(Int)
  BY <1>1, Wider
<1>3. \A d \in 1..Len(s) : i[d] \in Nat /\ s[d] \in Nat
  BY <1>1, LenProperties
<1> QED BY <1>1, <1>2, <1>3

\* A scalar has one index.
LEMMA EmptyBox ==
  /\ <<>> \in Box(<<>>)
  /\ \A i \in Box(<<>>) : i = <<>>
  BY EmptySeq DEF Box

\* Every index has a place within the array.
LEMMA PlaceIn ==
  ASSUME NEW s \in Seq(Nat), NEW i \in Box(s)
  PROVE  Place(s, i) \in 0..(Prod(s) - 1)
<1> DEFINE T == {r \in Seq(Nat) : \A j \in Box(r) : Place(r, j) \in 0..(Prod(r) - 1)}
<1>1. <<>> \in T
  BY PlaceEmpty, ProdEmpty, EmptyBox, EmptySeq
<1>2. ASSUME NEW r \in Seq(Nat), NEW x \in Nat, r \in T PROVE Append(r, x) \in T
  <2>1. r \in Seq(Int) /\ x \in Int /\ Append(r, x) \in Seq(Nat)
    BY Wider, AppendProperties
  <2>2. Prod(Append(r, x)) = Prod(r) * x /\ Prod(r) \in Nat
    BY <2>1, ProdAppend, ProdNat
  <2>3. ASSUME NEW j \in Box(Append(r, x))
        PROVE  Place(Append(r, x), j) \in 0..(Prod(Append(r, x)) - 1)
    <3>1. PICK i1 \in Box(r), v \in 0..(x - 1) : j = Append(i1, v)
      BY BoxAppend
    <3>2. i1 \in Seq(Int) /\ Len(i1) = Len(r)
      BY BoxSeq
    <3>3. Place(Append(r, x), j) = Place(r, i1) * x + v
      BY <2>1, <3>1, <3>2, PlaceAppend
    <3>4. Place(r, i1) \in Nat /\ Place(r, i1) < Prod(r)
      BY <1>2, <2>2
    <3>5. Place(r, i1) * x + x <= Prod(r) * x /\ Place(r, i1) * x \in Nat
      BY <2>2, <3>4, Products
    <3> QED BY <2>2, <3>3, <3>5
  <2> QED BY <2>1, <2>3
<1>3. Seq(Nat) \subseteq T
  <2> HIDE DEF T
  <2> QED BY <1>1, <1>2, SeqSets
<1> QED BY <1>3

\* A place splits where its shape does.
LEMMA PlaceCat ==
  ASSUME NEW s \in Seq(Nat), NEW t \in Seq(Nat),
         NEW i \in Seq(Int), NEW j \in Seq(Int), Len(i) = Len(s), Len(j) = Len(t)
  PROVE  /\ Place(s, i) \in Int /\ Place(t, j) \in Int
         /\ Place(s \o t, i \o j) = Place(s, i) * Prod(t) + Place(t, j)
<1> DEFINE T == {r \in Seq(Nat) : \A k \in Seq(Int) : Len(k) = Len(r) =>
                   /\ Place(r, k) \in Int
                   /\ Place(s \o r, i \o k) = Place(s, i) * Prod(r) + Place(r, k)}
<1>0. s \in Seq(Int) /\ Place(s, i) \in Int
  BY Wider, PlaceAppend
<1>1. <<>> \in T
  <2>1. ASSUME NEW k \in Seq(Int), Len(k) = 0 PROVE k = <<>>
    BY <2>1, EmptySeq
  <2>2. s \o <<>> = s /\ i \o <<>> = i
    BY ConcatEmptySeq
  <2>3. ASSUME NEW k \in Seq(Int), Len(k) = Len(<<>>)
        PROVE  /\ Place(<<>>, k) \in Int
               /\ Place(s \o <<>>, i \o k) = Place(s, i) * Prod(<<>>) + Place(<<>>, k)
    <3>1. k = <<>>
      BY <2>1, <2>3, EmptySeq
    <3> QED BY <1>0, <2>2, <3>1, PlaceEmpty, ProdEmpty
  <2> QED BY <2>3, EmptySeq
<1>2. ASSUME NEW r \in Seq(Nat), NEW x \in Nat, r \in T PROVE Append(r, x) \in T
  <2>1. r \in Seq(Int) /\ x \in Int /\ Append(r, x) \in Seq(Nat) /\ Len(Append(r, x)) = Len(r) + 1
    BY Wider, AppendProperties
  <2>2. Prod(Append(r, x)) = Prod(r) * x /\ Prod(r) \in Nat
    BY <2>1, ProdAppend, ProdNat
  <2>3. s \o Append(r, x) = Append(s \o r, x) /\ s \o r \in Seq(Int) /\ Len(s \o r) = Len(s) + Len(r)
    <3>1. s \in Seq(Int) /\ r \in Seq(Int) /\ x \in Int
      BY <1>0, <2>1
    <3>2. s \o Append(r, x) = Append(s \o r, x)
      BY <3>1, ConcatAppend
    <3>3. s \o r \in Seq(Int) /\ Len(s \o r) = Len(s) + Len(r)
      BY <3>1, ConcatProperties
    <3> QED BY <3>2, <3>3
  <2>4. ASSUME NEW k \in Seq(Int), Len(k) = Len(Append(r, x))
        PROVE  /\ Place(Append(r, x), k) \in Int
               /\ Place(s \o Append(r, x), i \o k)
                  = Place(s, i) * Prod(Append(r, x)) + Place(Append(r, x), k)
    <3>1. k # <<>>
      BY <2>1, <2>4, EmptySeq, LenProperties
    <3>2. PICK m \in Seq(Int), v \in Int : k = Append(m, v)
      BY <3>1, SequenceEmptyOrAppend
    <3>3. Len(m) = Len(r)
      BY <2>1, <2>4, <3>2, AppendProperties, LenProperties
    <3>4. i \o k = Append(i \o m, v) /\ i \o m \in Seq(Int) /\ Len(i \o m) = Len(s \o r)
      BY <2>3, <3>2, <3>3, ConcatAppend, ConcatProperties
    <3>5. Place(r, m) \in Int /\ Place(s \o r, i \o m) = Place(s, i) * Prod(r) + Place(r, m)
      BY <1>2, <3>3
    <3>6. Place(Append(r, x), k) = Place(r, m) * x + v
      BY <2>1, <3>2, <3>3, PlaceAppend
    <3>7. Place(s \o Append(r, x), i \o k) = (Place(s, i) * Prod(r) + Place(r, m)) * x + v
      <4> DEFINE a == s \o r
                 b == i \o m
      <4>1. a \in Seq(Int) /\ b \in Seq(Int) /\ Len(b) = Len(a)
        BY <2>3, <3>4
      <4>2. Place(Append(a, x), Append(b, v)) = Place(a, b) * x + v
        <5> HIDE DEF a, b
        <5> QED BY <2>1, <3>2, <4>1, PlaceAppend
      <4> QED BY <2>3, <3>4, <3>5, <4>2
    <3>8. \A a, b, c, d \in Int : (a * b + c) * d + v = a * (b * d) + (c * d + v)
      OBVIOUS
    <3>9. (Place(s, i) * Prod(r) + Place(r, m)) * x + v = Place(s, i) * (Prod(r) * x) + (Place(r, m) * x + v)
      BY <1>0, <2>1, <2>2, <3>5, <3>8
    <3> QED BY <2>1, <2>2, <3>5, <3>6, <3>7, <3>9
  <2> QED BY <2>1, <2>4
<1>3. Seq(Nat) \subseteq T
  <2> HIDE DEF T
  <2> QED BY <1>1, <1>2, SeqSets
<1> QED BY <1>0, <1>3

\* Coord gives one entry for every axis.
LEMMA CoordSeq ==
  ASSUME NEW s \in Seq(Nat), NEW k
  PROVE  DOMAIN Coord(s, k) = 1..Len(s) /\ Len(Coord(s, k)) = Len(s)
         /\ \A d \in 1..Len(s) : Coord(s, k)[d] = (k \div Prod(SubSeq(s, d + 1, Len(s)))) % s[d]
  BY LenProperties DEF Coord

\* The extents after an axis, one axis later.
LEMMA SubSeqAppend ==
  ASSUME NEW S, NEW s \in Seq(S), NEW x \in S, NEW d \in 1..Len(s)
  PROVE  SubSeq(s, d + 1, Len(s)) \in Seq(S)
         /\ SubSeq(Append(s, x), d + 1, Len(s) + 1) = Append(SubSeq(s, d + 1, Len(s)), x)
<1> DEFINE r == Append(s, x)
           n == Len(s)
           p == SubSeq(s, d + 1, n)
<1>1. r \in Seq(S) /\ n \in Nat /\ Len(r) = n + 1
      /\ (\A e \in 1..n : r[e] = s[e] /\ s[e] \in S) /\ r[n + 1] = x
  BY AppendProperties, LenProperties
<1> HIDE DEF r
<1>2. p \in Seq(S) /\ Len(p) = n - d /\ \A e \in 1..(n - d) : p[e] = s[d + e]
  <2>1. \A e \in (d + 1)..n : s[e] \in S
    BY <1>1
  <2> QED BY <1>1, <2>1, SubSeqProperties
<1>3. SubSeq(r, d + 1, n + 1) \in Seq(S) /\ Len(SubSeq(r, d + 1, n + 1)) = n + 1 - d
      /\ \A e \in 1..(n + 1 - d) : SubSeq(r, d + 1, n + 1)[e] = r[d + e]
  <2>1. \A e \in (d + 1)..(n + 1) : r[e] \in S
    BY <1>1
  <2> QED BY <1>1, <2>1, SubSeqProperties
<1> HIDE DEF p
<1>4. Append(p, x) \in Seq(S) /\ Len(Append(p, x)) = n + 1 - d
      /\ (\A e \in 1..(n - d) : Append(p, x)[e] = p[e]) /\ Append(p, x)[n - d + 1] = x
  BY <1>1, <1>2, AppendProperties
<1>5. ASSUME NEW e \in 1..(n + 1 - d) PROVE SubSeq(r, d + 1, n + 1)[e] = Append(p, x)[e]
  <2>1. CASE e = n - d + 1
    <3>1. SubSeq(r, d + 1, n + 1)[e] = r[d + e] /\ d + e = n + 1
      BY <1>1, <1>3, <2>1
    <3>2. Append(p, x)[e] = x
      BY <1>4, <2>1
    <3> QED BY <1>1, <3>1, <3>2
  <2>2. CASE e # n - d + 1
    <3>1. e \in 1..(n - d) /\ d + e \in 1..n
      BY <1>1, <2>2
    <3> QED BY <1>1, <1>2, <1>3, <1>4, <3>1
  <2> QED BY <2>1, <2>2
<1>6. SubSeq(r, d + 1, n + 1) = Append(p, x)
  BY <1>3, <1>4, <1>5, Same
<1> QED BY <1>2, <1>6 DEF p, r

\* The coordinate of k on the last axis, and on the others.
LEMMA CoordAppend ==
  ASSUME NEW s \in Seq(Pos), NEW x \in Pos, NEW k \in Nat
  PROVE  Coord(Append(s, x), k) = Append(Coord(s, k \div x), k % x)
<1> DEFINE r == Append(s, x)
           n == Len(s)
<1>1. r \in Seq(Pos) /\ n \in Nat /\ Len(r) = n + 1
      /\ (\A d \in 1..n : r[d] = s[d] /\ s[d] \in Pos) /\ r[n + 1] = x
  BY AppendProperties, LenProperties
<1>2. s \in Seq(Nat) /\ r \in Seq(Nat)
  BY <1>1, Wider DEF Pos
<1> HIDE DEF r
<1>3. k \div x \in Nat /\ k % x \in Nat
  <2>1. k \div x \in Nat /\ k % x \in 0..(x - 1)
    BY Parts
  <2> QED BY <2>1
<1>4. \A d \in 1..n : Coord(s, k \div x)[d] \in Nat
  <2>1. ASSUME NEW d \in 1..n PROVE Coord(s, k \div x)[d] \in Nat
    <3>1. SubSeq(s, d + 1, n) \in Seq(Pos)
      BY <1>1, SubSeqProperties
    <3>2. Prod(SubSeq(s, d + 1, n)) \in Pos
      BY <3>1, ProdPositive
    <3>3. (k \div x) \div Prod(SubSeq(s, d + 1, n)) \in Nat
      BY <1>3, <3>2, Parts
    <3>4. s[d] \in Pos
      BY <1>1
    <3>5. ASSUME NEW q \in Nat PROVE q % s[d] \in Nat
      <4>1. q % s[d] \in 0..(s[d] - 1)
        BY <3>4, Parts
      <4> QED BY <3>4, <4>1 DEF Pos
    <3>6. Coord(s, k \div x)[d] = ((k \div x) \div Prod(SubSeq(s, d + 1, n))) % s[d]
      BY <1>2, CoordSeq
    <3> QED BY <3>3, <3>5, <3>6
  <2> QED BY <2>1
<1>5. Coord(s, k \div x) \in Seq(Nat) /\ Len(Coord(s, k \div x)) = n
  BY <1>1, <1>2, <1>4, CoordSeq, IsSeq DEF Coord
<1>6. Append(Coord(s, k \div x), k % x) \in Seq(Nat)
      /\ Len(Append(Coord(s, k \div x), k % x)) = n + 1
      /\ (\A d \in 1..n : Append(Coord(s, k \div x), k % x)[d] = Coord(s, k \div x)[d])
      /\ Append(Coord(s, k \div x), k % x)[n + 1] = k % x
  BY <1>3, <1>5, AppendProperties
<1>7. ASSUME NEW d \in 1..n PROVE Coord(r, k)[d] = Coord(s, k \div x)[d]
  <2> DEFINE p == SubSeq(s, d + 1, n)
  <2>1. p \in Seq(Pos) /\ SubSeq(r, d + 1, n + 1) = Append(p, x)
    BY SubSeqAppend DEF r
  <2> HIDE DEF p
  <2>4. Prod(Append(p, x)) = Prod(p) * x /\ Prod(p) \in Pos
    <3>1. p \in Seq(Int) /\ x \in Int
      BY <2>1, Wider DEF Pos
    <3> QED BY <2>1, <3>1, ProdAppend, ProdPositive
  <2>5. k \div (Prod(p) * x) = (k \div x) \div Prod(p)
    BY <2>4, QuotientTwice
  <2>6. d \in 1..Len(r) /\ d \in 1..Len(s) /\ Len(r) = n + 1
    BY <1>1
  <2>7. Coord(r, k)[d] = (k \div Prod(SubSeq(r, d + 1, n + 1))) % r[d]
    BY <1>2, <2>6, CoordSeq
  <2>8. Coord(s, k \div x)[d] = ((k \div x) \div Prod(p)) % s[d]
    BY <1>2, <2>6, CoordSeq DEF p
  <2> QED BY <1>1, <2>1, <2>4, <2>5, <2>7, <2>8
<1>8. Coord(r, k)[n + 1] = k % x
  <2>1. SubSeq(r, n + 2, n + 1) = <<>>
    BY <1>1, SubSeqEmpty
  <2>2. n + 1 \in 1..Len(r) /\ n + 1 + 1 = n + 2
    BY <1>1
  <2>3. Coord(r, k)[n + 1] = (k \div Prod(SubSeq(r, n + 2, n + 1))) % r[n + 1]
    BY <1>1, <1>2, <2>2, CoordSeq
  <2>4. k \div 1 = k
    OBVIOUS
  <2> QED BY <1>1, <2>1, <2>3, <2>4, ProdEmpty
<1>9. \A d \in 1..(n + 1) : Coord(r, k)[d] = Append(Coord(s, k \div x), k % x)[d]
  BY <1>1, <1>6, <1>7, <1>8
<1>10. Coord(r, k) \in Seq(Nat) /\ Len(Coord(r, k)) = n + 1
  <2>1. \A d \in 1..(n + 1) : Coord(r, k)[d] \in Nat
    BY <1>1, <1>6, <1>9, LenProperties
  <2>2. Len(r) = n + 1
    BY <1>1
  <2> QED BY <1>1, <1>2, <2>1, <2>2, CoordSeq, IsSeq DEF Coord
<1> QED BY <1>6, <1>9, <1>10, Same DEF r

\* The k-th index is in the box and is counted k; an index of the box is the one
\* its place counts.
LEMMA CoordIn ==
  ASSUME NEW s \in Seq(Pos), NEW k \in 0..(Prod(s) - 1)
  PROVE  Coord(s, k) \in Box(s) /\ Place(s, Coord(s, k)) = k
<1> DEFINE T == {r \in Seq(Pos) : \A m \in 0..(Prod(r) - 1) :
                   Coord(r, m) \in Box(r) /\ Place(r, Coord(r, m)) = m}
<1>1. <<>> \in T
  <2>1. ASSUME NEW m PROVE Coord(<<>>, m) = <<>>
    <3>1. DOMAIN Coord(<<>>, m) = 1..0 /\ Len(Coord(<<>>, m)) = 0
      BY EmptySeq, CoordSeq
    <3>2. Coord(<<>>, m) \in [1..0 -> Nat]
      BY DEF Coord
    <3>3. Coord(<<>>, m) \in Seq(Nat)
      BY <3>2, IsSeq
    <3> QED BY <3>1, <3>3, EmptySeq
  <2>2. ASSUME NEW m \in 0..(Prod(<<>>) - 1)
        PROVE  Coord(<<>>, m) \in Box(<<>>) /\ Place(<<>>, Coord(<<>>, m)) = m
    BY <2>1, ProdEmpty, PlaceEmpty, EmptyBox
  <2> QED BY <2>2, EmptySeq
<1>2. ASSUME NEW r \in Seq(Pos), NEW x \in Pos, r \in T PROVE Append(r, x) \in T
  <2>1. r \in Seq(Int) /\ r \in Seq(Nat) /\ x \in Nat /\ Append(r, x) \in Seq(Pos)
    BY Wider, AppendProperties DEF Pos
  <2>2. Prod(Append(r, x)) = Prod(r) * x /\ Prod(r) \in Nat
    BY <2>1, ProdAppend, ProdNat
  <2>3. ASSUME NEW m \in 0..(Prod(Append(r, x)) - 1)
        PROVE  Coord(Append(r, x), m) \in Box(Append(r, x))
               /\ Place(Append(r, x), Coord(Append(r, x), m)) = m
    <3>1. m \in Nat /\ m < Prod(r) * x
      BY <2>1, <2>2, Products
    <3>2. m \div x \in 0..(Prod(r) - 1)
      BY <2>2, <3>1, QuotientIn
    <3>3. m % x \in 0..(x - 1) /\ m = (m \div x) * x + (m % x)
      BY <3>1, Parts
    <3>4. Coord(r, m \div x) \in Box(r) /\ Place(r, Coord(r, m \div x)) = m \div x
      BY <1>2, <3>2
    <3>5. Coord(Append(r, x), m) = Append(Coord(r, m \div x), m % x)
      BY <3>1, CoordAppend
    <3>6. Coord(Append(r, x), m) \in Box(Append(r, x))
      BY <2>1, <3>3, <3>4, <3>5, InBoxAppend
    <3>7. Coord(r, m \div x) \in Seq(Int) /\ Len(Coord(r, m \div x)) = Len(r)
      BY <2>1, <3>4, BoxSeq
    <3>8. Place(Append(r, x), Coord(Append(r, x), m)) = (m \div x) * x + (m % x)
      <4> DEFINE c == Coord(r, m \div x)
                 v == m % x
      <4>1. c \in Seq(Int) /\ Len(c) = Len(r) /\ v \in Int
        BY <2>1, <3>3, <3>7
      <4>2. Place(Append(r, x), Append(c, v)) = Place(r, c) * x + v
        <5> HIDE DEF c, v
        <5> QED BY <2>1, <4>1, PlaceAppend
      <4> QED BY <3>4, <3>5, <4>2
    <3> QED BY <3>3, <3>6, <3>8
  <2> QED BY <2>1, <2>3
<1>3. Seq(Pos) \subseteq T
  <2> HIDE DEF T
  <2> QED BY <1>1, <1>2, SeqSets
<1> QED BY <1>3

\* A shape with an index has no extent of zero.
LEMMA BoxPos ==
  ASSUME NEW s \in Seq(Nat), NEW i \in Box(s)
  PROVE  s \in Seq(Pos)
<1>1. Place(s, i) \in 0..(Prod(s) - 1) /\ Prod(s) \in Nat
  BY PlaceIn, ProdNat
<1>2. Prod(s) # 0
  BY <1>1
<1> QED BY <1>2, Extents

\* The index at the place of an index is that index.
LEMMA CoordPlace ==
  ASSUME NEW s \in Seq(Nat), NEW i \in Box(s)
  PROVE  Coord(s, Place(s, i)) = i
<1> DEFINE T == {r \in Seq(Pos) : \A j \in Box(r) : Coord(r, Place(r, j)) = j}
<1>1. <<>> \in T
  <2>1. ASSUME NEW j \in Box(<<>>) PROVE Coord(<<>>, Place(<<>>, j)) = j
    <3>1. Place(<<>>, j) \in 0..(Prod(<<>>) - 1)
      BY EmptySeq, PlaceIn
    <3>2. Coord(<<>>, Place(<<>>, j)) \in Box(<<>>)
      BY <3>1, EmptySeq, CoordIn
    <3> QED BY <3>2, EmptyBox
  <2> QED BY <2>1, EmptySeq
<1>2. ASSUME NEW r \in Seq(Pos), NEW x \in Pos, r \in T PROVE Append(r, x) \in T
  <2>1. r \in Seq(Int) /\ r \in Seq(Nat) /\ x \in Nat /\ Append(r, x) \in Seq(Pos)
    BY Wider, AppendProperties DEF Pos
  <2>2. ASSUME NEW j \in Box(Append(r, x)) PROVE Coord(Append(r, x), Place(Append(r, x), j)) = j
    <3>1. PICK i1 \in Box(r), v \in 0..(x - 1) : j = Append(i1, v)
      BY <2>1, BoxAppend
    <3>2. i1 \in Seq(Int) /\ Len(i1) = Len(r)
      BY <2>1, BoxSeq
    <3>3. Place(Append(r, x), j) = Place(r, i1) * x + v
      BY <2>1, <3>1, <3>2, PlaceAppend
    <3>4. Place(r, i1) \in Nat
      BY <2>1, PlaceIn
    <3>5. (Place(r, i1) * x + v) \div x = Place(r, i1) /\ (Place(r, i1) * x + v) % x = v
      BY <3>4, OnlyParts
    <3>6. Place(r, i1) * x + v \in Nat
      <4>1. Place(r, i1) * x \in Nat
        BY <2>1, <3>4, Products
      <4> QED BY <2>1, <4>1
    <3>7. Coord(r, Place(r, i1)) = i1
      BY <1>2
    <3> QED BY <3>1, <3>3, <3>5, <3>6, <3>7, CoordAppend
  <2> QED BY <2>1, <2>2
<1>3. Seq(Pos) \subseteq T
  <2> HIDE DEF T
  <2> QED BY <1>1, <1>2, SeqSets
<1> QED BY <1>3, BoxPos

\* The indices of an array folded from two.
LEMMA BoxCat ==
  ASSUME NEW s \in Seq(Nat), NEW t \in Seq(Nat), NEW i \in Box(s), NEW j \in Box(t)
  PROVE  i \o j \in Box(s \o t)
<1>1. i \in Seq(Nat) /\ Len(i) = Len(s) /\ j \in Seq(Nat) /\ Len(j) = Len(t)
      /\ (\A d \in 1..Len(s) : i[d] < s[d]) /\ \A d \in 1..Len(t) : j[d] < t[d]
  BY DEF Box
<1>2. Len(s) \in Nat /\ Len(t) \in Nat
  BY LenProperties
<1>3. i \o j \in Seq(Nat) /\ Len(i \o j) = Len(s) + Len(t)
      /\ \A d \in 1..(Len(s) + Len(t)) : (i \o j)[d] = IF d <= Len(s) THEN i[d] ELSE j[d - Len(s)]
  <2>1. i \o j \in Seq(Nat) /\ Len(i \o j) = Len(i) + Len(j)
        /\ \A d \in 1..(Len(i) + Len(j)) : (i \o j)[d] = IF d <= Len(i) THEN i[d] ELSE j[d - Len(i)]
    BY <1>1, ConcatProperties
  <2> QED BY <1>1, <2>1
<1>4. s \o t \in Seq(Nat) /\ Len(s \o t) = Len(s) + Len(t)
      /\ \A d \in 1..(Len(s) + Len(t)) : (s \o t)[d] = IF d <= Len(s) THEN s[d] ELSE t[d - Len(s)]
  BY ConcatProperties
<1>5. ASSUME NEW d \in 1..(Len(s) + Len(t)) PROVE (i \o j)[d] < (s \o t)[d]
  <2>1. CASE d <= Len(s)
    BY <1>1, <1>2, <1>3, <1>4, <2>1
  <2>2. CASE ~(d <= Len(s))
    <3>1. d - Len(s) \in 1..Len(t)
      BY <1>2, <2>2
    <3> QED BY <1>1, <1>3, <1>4, <2>2, <3>1
  <2> QED BY <2>1, <2>2
<1> QED BY <1>3, <1>4, <1>5 DEF Box

\* The index of a position splits into those of its quotient and remainder.
LEMMA CoordCat ==
  ASSUME NEW s \in Seq(Pos), NEW t \in Seq(Pos), NEW k \in 0..(Prod(s) * Prod(t) - 1)
  PROVE  /\ k \div Prod(t) \in 0..(Prod(s) - 1) /\ k % Prod(t) \in 0..(Prod(t) - 1)
         /\ Coord(s \o t, k) = Coord(s, k \div Prod(t)) \o Coord(t, k % Prod(t))
<1> DEFINE i == Coord(s, k \div Prod(t))
           j == Coord(t, k % Prod(t))
<1>1. s \in Seq(Nat) /\ t \in Seq(Nat) /\ Prod(s) \in Pos /\ Prod(t) \in Pos
  BY Wider, ProdPositive DEF Pos
<1>2. k \in Nat /\ k < Prod(s) * Prod(t)
  BY <1>1, Products DEF Pos
<1>3. k \div Prod(t) \in 0..(Prod(s) - 1) /\ k % Prod(t) \in 0..(Prod(t) - 1)
      /\ k = (k \div Prod(t)) * Prod(t) + (k % Prod(t))
  BY <1>1, <1>2, QuotientIn, Parts DEF Pos
<1>4. i \in Box(s) /\ Place(s, i) = k \div Prod(t) /\ j \in Box(t) /\ Place(t, j) = k % Prod(t)
  BY <1>3, CoordIn
<1>5. i \in Seq(Int) /\ Len(i) = Len(s) /\ j \in Seq(Int) /\ Len(j) = Len(t)
  BY <1>1, <1>4, BoxSeq
<1> HIDE DEF i, j
<1>6. Place(s \o t, i \o j) = k
  BY <1>1, <1>3, <1>4, <1>5, PlaceCat
<1>7. i \o j \in Box(s \o t) /\ s \o t \in Seq(Nat)
  BY <1>1, <1>4, BoxCat, ConcatProperties
<1>8. Coord(s \o t, k) = i \o j
  BY <1>6, <1>7, CoordPlace
<1> QED BY <1>3, <1>8 DEF i, j

\* Scaled by the strides of the axes, the entries of an index add up to its place.
LEMMA TotalScaled ==
  ASSUME NEW s \in Seq(Int), NEW x \in Int
  PROVE  Total([d \in 1..Len(s) |-> s[d] * x]) = Total(s) * x
<1> DEFINE T == {r \in Seq(Int) : Total([d \in 1..Len(r) |-> r[d] * x]) = Total(r) * x}
<1>1. <<>> \in T
  <2>1. [d \in 1..0 |-> <<>>[d] * x] \in [1..0 -> Int]
    OBVIOUS
  <2>2. [d \in 1..0 |-> <<>>[d] * x] = <<>>
    BY <2>1, IsSeq, EmptySeq
  <2> QED BY <2>2, TotalEmpty, EmptySeq
<1>2. ASSUME NEW r \in Seq(Int), NEW v \in Int, r \in T PROVE Append(r, v) \in T
  <2> DEFINE f == [d \in 1..Len(r) |-> r[d] * x]
             q == Append(r, v)
             g == [d \in 1..Len(q) |-> q[d] * x]
  <2>1. Len(r) \in Nat /\ \A d \in 1..Len(r) : r[d] \in Int
    BY LenProperties
  <2>2. q \in Seq(Int) /\ Len(q) = Len(r) + 1 /\ (\A d \in 1..Len(r) : q[d] = r[d]) /\ q[Len(r) + 1] = v
    BY AppendProperties
  <2>3. f \in Seq(Int) /\ Len(f) = Len(r)
    BY <2>1, IsSeq
  <2>4. Append(f, v * x) \in Seq(Int) /\ Len(Append(f, v * x)) = Len(r) + 1
        /\ (\A d \in 1..Len(r) : Append(f, v * x)[d] = f[d]) /\ Append(f, v * x)[Len(r) + 1] = v * x
    BY <2>3, AppendProperties
  <2> HIDE DEF q
  <2>5. \A d \in 1..Len(q) : q[d] \in Int
    BY <2>2, LenProperties
  <2>6. g \in Seq(Int) /\ Len(g) = Len(r) + 1
    BY <2>1, <2>2, <2>5, IsSeq
  <2>7. ASSUME NEW d \in 1..(Len(r) + 1) PROVE g[d] = Append(f, v * x)[d]
    <3>1. d \in 1..Len(r) \/ d = Len(r) + 1
      BY <2>1
    <3> QED BY <2>2, <2>4, <3>1
  <2>8. g = Append(f, v * x)
    <3> HIDE DEF f, g
    <3> QED BY <2>4, <2>6, <2>7, Same
  <2>9. Total(Append(f, v * x)) = Total(f) + v * x /\ Total(q) = Total(r) + v /\ Total(r) \in Int
    <3> HIDE DEF f
    <3>1. v * x \in Int
      OBVIOUS
    <3>2. Total(Append(f, v * x)) = Total(f) + v * x
      BY <2>3, <3>1, TotalAppend
    <3>3. Total(q) = Total(r) + v /\ Total(r) \in Int
      BY TotalAppend DEF q
    <3> QED BY <3>2, <3>3
  <2>10. Total(f) = Total(r) * x
    BY <1>2
  <2>11. Total(g) = Total(q) * x
    <3> HIDE DEF f, g
    <3> QED BY <2>8, <2>9, <2>10
  <2> QED BY <2>2, <2>11 DEF q
<1>3. Seq(Int) \subseteq T
  <2> HIDE DEF T
  <2> QED BY <1>1, <1>2, SeqSets
<1> QED BY <1>3

\* A place is the total of the entries times their strides.
LEMMA PlaceTotal ==
  ASSUME NEW s \in Seq(Nat), NEW i \in Seq(Int), Len(i) = Len(s)
  PROVE  Total([d \in 1..Len(s) |-> i[d] * Prod(SubSeq(s, d + 1, Len(s)))]) = Place(s, i)
<1> DEFINE Strided(r, j) == [d \in 1..Len(r) |-> j[d] * Prod(SubSeq(r, d + 1, Len(r)))]
           T == {r \in Seq(Nat) : \A j \in Seq(Int) : Len(j) = Len(r) =>
                   Strided(r, j) \in Seq(Int) /\ Total(Strided(r, j)) = Place(r, j)}
<1>1. <<>> \in T
  <2>1. ASSUME NEW j \in Seq(Int), Len(j) = Len(<<>>)
        PROVE  Strided(<<>>, j) \in Seq(Int) /\ Total(Strided(<<>>, j)) = Place(<<>>, j)
    <3>1. j = <<>> /\ Len(<<>>) = 0
      BY <2>1, EmptySeq
    <3>2. Strided(<<>>, j) \in [1..0 -> Int]
      BY <3>1
    <3>3. Strided(<<>>, j) = <<>>
      BY <3>2, IsSeq, EmptySeq
    <3> QED BY <3>1, <3>3, TotalEmpty, PlaceEmpty, EmptySeq
  <2> QED BY <2>1, EmptySeq
<1>2. ASSUME NEW r \in Seq(Nat), NEW x \in Nat, r \in T PROVE Append(r, x) \in T
  <2> DEFINE q == Append(r, x)
             n == Len(r)
  <2>1. r \in Seq(Int) /\ x \in Int /\ q \in Seq(Nat) /\ Len(q) = n + 1 /\ n \in Nat
    BY Wider, AppendProperties, LenProperties
  <2>2. ASSUME NEW k \in Seq(Int), Len(k) = Len(q)
        PROVE  Strided(q, k) \in Seq(Int) /\ Total(Strided(q, k)) = Place(q, k)
    <3>1. k # <<>>
      BY <2>1, <2>2, EmptySeq
    <3>2. PICK j \in Seq(Int), v \in Int : k = Append(j, v)
      BY <3>1, SequenceEmptyOrAppend
    <3>3. Len(j) = n /\ (\A d \in 1..n : k[d] = j[d]) /\ k[n + 1] = v /\ \A d \in 1..n : j[d] \in Int
      BY <2>1, <2>2, <3>2, AppendProperties, LenProperties
    <3> DEFINE f == Strided(r, j)
               g == [d \in 1..n |-> f[d] * x]
    <3>4. f \in Seq(Int) /\ Len(f) = n /\ Total(f) = Place(r, j) /\ DOMAIN f = 1..n
      <4>1. f \in Seq(Int) /\ Total(f) = Place(r, j)
        BY <1>2, <3>3
      <4>2. DOMAIN f = 1..n
        OBVIOUS
      <4> QED BY <2>1, <4>1, <4>2, LenProperties
    <3>5. g \in Seq(Int) /\ Len(g) = n /\ \A d \in 1..n : g[d] = f[d] * x
      <4> HIDE DEF f
      <4>1. \A d \in 1..n : f[d] * x \in Int
        BY <2>1, <3>4, LenProperties
      <4> QED BY <2>1, <4>1, IsSeq
    <3>6. Total(g) = Total(f) * x
      <4> HIDE DEF f
      <4> QED BY <2>1, <3>4, TotalScaled
    <3>7. ASSUME NEW d \in 1..n PROVE Strided(q, k)[d] = g[d]
      <4>1. SubSeq(r, d + 1, n) \in Seq(Nat) /\ SubSeq(q, d + 1, n + 1) = Append(SubSeq(r, d + 1, n), x)
        BY SubSeqAppend
      <4>2. Prod(SubSeq(r, d + 1, n)) \in Nat
            /\ Prod(SubSeq(q, d + 1, n + 1)) = Prod(SubSeq(r, d + 1, n)) * x
        <5>1. SubSeq(r, d + 1, n) \in Seq(Int)
          BY <4>1, Wider
        <5> QED BY <2>1, <4>1, <5>1, ProdNat, ProdAppend
      <4> HIDE DEF q
      <4>3. Strided(q, k)[d] = k[d] * Prod(SubSeq(q, d + 1, n + 1))
        BY <2>1
      <4>4. f[d] = j[d] * Prod(SubSeq(r, d + 1, n))
        OBVIOUS
      <4>5. k[d] = j[d] /\ j[d] \in Int
        BY <3>3
      <4>6. \A a \in Int, b \in Nat : a * (b * x) = (a * b) * x
        OBVIOUS
      <4> QED BY <3>5, <4>2, <4>3, <4>4, <4>5, <4>6
    <3>8. Strided(q, k)[n + 1] = v
      <4>1. SubSeq(q, n + 1 + 1, n + 1) = <<>>
        BY <2>1, SubSeqEmpty
      <4> HIDE DEF q
      <4>2. Strided(q, k)[n + 1] = k[n + 1] * Prod(SubSeq(q, n + 1 + 1, n + 1))
        BY <2>1
      <4>3. v * 1 = v
        BY <3>2
      <4> HIDE DEF Strided
      <4> QED BY <3>3, <4>1, <4>2, <4>3, ProdEmpty
    <3> HIDE DEF g
    <3>9. Append(g, v) \in Seq(Int) /\ Len(Append(g, v)) = n + 1
          /\ (\A d \in 1..n : Append(g, v)[d] = g[d]) /\ Append(g, v)[n + 1] = v
      BY <3>2, <3>5, AppendProperties
    <3>10. \A d \in 1..(n + 1) : Strided(q, k)[d] = Append(g, v)[d]
      <4> HIDE DEF Strided, q
      <4>1. \A d \in 1..(n + 1) : d \in 1..n \/ d = n + 1
        BY <2>1
      <4> QED BY <3>7, <3>8, <3>9, <4>1
    <3>11. Strided(q, k) \in Seq(Int) /\ Len(Strided(q, k)) = n + 1
      <4> DEFINE h == Strided(q, k)
      <4>1. \A d \in 1..(n + 1) : h[d] \in Int
        BY <3>9, <3>10, LenProperties
      <4>2. h = [d \in 1..(n + 1) |-> h[d]]
        BY <2>1
      <4> HIDE DEF h
      <4>3. h \in [1..(n + 1) -> Int]
        BY <4>1, <4>2
      <4>4. n + 1 \in Nat
        BY <2>1
      <4>5. h \in Seq(Int) /\ Len(h) = n + 1
        BY <4>3, <4>4, IsSeq
      <4> QED BY <4>5 DEF h
    <3>12. Strided(q, k) = Append(g, v)
      <4> HIDE DEF Strided
      <4> QED BY <3>9, <3>10, <3>11, Same
    <3>13. Total(Append(g, v)) = Total(g) + v
      BY <3>2, <3>5, TotalAppend
    <3>14. Place(q, k) = Place(r, j) * x + v
      BY <2>1, <3>2, <3>3, PlaceAppend
    <3> HIDE DEF f
    <3> QED BY <3>4, <3>6, <3>11, <3>12, <3>13, <3>14
  <2> QED BY <2>1, <2>2
<1>3. Seq(Nat) \subseteq T
  <2> HIDE DEF T
  <2> QED BY <1>1, <1>2, SeqSets
<1> QED BY <1>3

\* The elements of a part of a sequence.
LEMMA PartOf ==
  ASSUME NEW S, NEW s \in Seq(S), NEW m \in Nat, NEW n \in Nat, m + n <= Len(s)
  PROVE  SubSeq(s, m + 1, m + n) \in Seq(S) /\ Len(SubSeq(s, m + 1, m + n)) = n
         /\ \A d \in 1..n : SubSeq(s, m + 1, m + n)[d] = s[m + d]
<1>1. \A i \in (m + 1)..(m + n) : s[i] \in S
  BY LenProperties
<1>2. SubSeq(s, m + 1, m + n) \in Seq(S)
      /\ Len(SubSeq(s, m + 1, m + n)) = (IF m + 1 <= m + n THEN m + n - (m + 1) + 1 ELSE 0)
      /\ \A d \in 1..(m + n - (m + 1) + 1) : SubSeq(s, m + 1, m + n)[d] = s[m + 1 + d - 1]
  BY <1>1, SubSeqProperties
<1>3. m + n - (m + 1) + 1 = n /\ \A d \in 1..n : m + 1 + d - 1 = m + d
  OBVIOUS
<1> QED BY <1>2, <1>3

\* An index splits where its shape does,
LEMMA BoxSplit ==
  ASSUME NEW s \in Seq(Nat), NEW t \in Seq(Nat), NEW i \in Box(s \o t)
  PROVE  /\ SubSeq(i, 1, Len(s)) \in Box(s) /\ SubSeq(i, Len(s) + 1, Len(i)) \in Box(t)
         /\ i = SubSeq(i, 1, Len(s)) \o SubSeq(i, Len(s) + 1, Len(i))
<1> DEFINE m == Len(s)
           p == SubSeq(i, 1, m)
           q == SubSeq(i, m + 1, Len(i))
<1>1. m \in Nat /\ Len(t) \in Nat
  BY LenProperties
<1>2. s \o t \in Seq(Nat) /\ Len(s \o t) = m + Len(t)
      /\ \A d \in 1..(m + Len(t)) : (s \o t)[d] = IF d <= m THEN s[d] ELSE t[d - m]
  BY ConcatProperties
<1>3. i \in Seq(Nat) /\ Len(i) = m + Len(t) /\ \A d \in 1..(m + Len(t)) : i[d] < (s \o t)[d]
  BY <1>2 DEF Box
<1>4. p \in Seq(Nat) /\ Len(p) = m /\ \A d \in 1..m : p[d] = i[d]
  <2>1. 0 + m <= Len(i) /\ 0 + 1 = 1 /\ 0 + m = m /\ \A d \in 1..m : 0 + d = d
    BY <1>1, <1>3
  <2>2. SubSeq(i, 0 + 1, 0 + m) \in Seq(Nat) /\ Len(SubSeq(i, 0 + 1, 0 + m)) = m
        /\ \A d \in 1..m : SubSeq(i, 0 + 1, 0 + m)[d] = i[0 + d]
    BY <1>1, <1>3, <2>1, PartOf
  <2> QED BY <2>1, <2>2
<1>5. q \in Seq(Nat) /\ Len(q) = Len(t) /\ \A d \in 1..Len(t) : q[d] = i[m + d]
  <2> DEFINE n == Len(t)
  <2>1. m \in Nat /\ n \in Nat /\ m + n <= Len(i) /\ Len(i) = m + n
    BY <1>1, <1>3
  <2> HIDE DEF m, n
  <2>2. SubSeq(i, m + 1, m + n) \in Seq(Nat) /\ Len(SubSeq(i, m + 1, m + n)) = n
        /\ \A d \in 1..n : SubSeq(i, m + 1, m + n)[d] = i[m + d]
    BY <1>3, <2>1, PartOf
  <2> QED BY <2>1, <2>2 DEF n
<1> HIDE DEF p, q
<1>6. p \in Box(s)
  <2>1. ASSUME NEW d \in 1..m PROVE p[d] < s[d]
    <3>1. d \in 1..(m + Len(t)) /\ d <= m
      BY <1>1
    <3> QED BY <1>2, <1>3, <1>4, <3>1
  <2> QED BY <1>4, <2>1 DEF Box
<1>7. q \in Box(t)
  <2>1. ASSUME NEW d \in 1..Len(t) PROVE q[d] < t[d]
    <3>1. m + d \in 1..(m + Len(t)) /\ ~(m + d <= m) /\ m + d - m = d
      BY <1>1
    <3>2. (s \o t)[m + d] = t[d] /\ i[m + d] < (s \o t)[m + d]
      <4>1. ASSUME NEW e \in 1..(m + Len(t)), ~(e <= m) PROVE (s \o t)[e] = t[e - m] /\ i[e] < (s \o t)[e]
        BY <1>2, <1>3, <4>1
      <4> DEFINE e == m + d
      <4>2. e \in 1..(m + Len(t)) /\ ~(e <= m) /\ e - m = d
        BY <3>1
      <4>3. (s \o t)[e] = t[e - m] /\ i[e] < (s \o t)[e]
        <5> HIDE DEF e, m
        <5> QED BY <4>1, <4>2
      <4> QED BY <4>2, <4>3
    <3> QED BY <1>5, <3>2
  <2> QED BY <1>5, <2>1 DEF Box
<1>8. i = p \o q
  <2>1. p \o q \in Seq(Nat) /\ Len(p \o q) = Len(p) + Len(q)
        /\ \A d \in 1..(Len(p) + Len(q)) : (p \o q)[d] = IF d <= Len(p) THEN p[d] ELSE q[d - Len(p)]
    BY <1>4, <1>5, ConcatProperties
  <2>2. ASSUME NEW d \in 1..(m + Len(t)) PROVE i[d] = (p \o q)[d]
    <3>1. CASE d <= m
      BY <1>1, <1>4, <1>5, <2>1, <3>1
    <3>2. CASE ~(d <= m)
      <4>1. d - m \in 1..Len(t) /\ m + (d - m) = d
        BY <1>1, <3>2
      <4> QED BY <1>4, <1>5, <2>1, <3>2, <4>1
    <3> QED BY <3>1, <3>2
  <2> QED BY <1>3, <1>4, <1>5, <2>1, <2>2, Same
<1> QED BY <1>6, <1>7, <1>8 DEF p, q

\* in the middle as well.
LEMMA BoxMiddle ==
  ASSUME NEW s \in Seq(Nat), NEW t \in Seq(Nat), NEW u \in Seq(Nat), NEW i \in Box(s \o t \o u)
  PROVE  SubSeq(i, Len(s) + 1, Len(s) + Len(t)) \in Box(t)
<1>1. s \o t \in Seq(Nat) /\ Len(s \o t) = Len(s) + Len(t) /\ Len(s) \in Nat /\ Len(t) \in Nat /\ Len(u) \in Nat
  BY ConcatProperties, LenProperties
<1> DEFINE p == SubSeq(i, 1, Len(s) + Len(t))
<1>2. p \in Box(s \o t)
  BY <1>1, BoxSplit
<1>3. SubSeq(p, Len(s) + 1, Len(p)) \in Box(t) /\ Len(p) = Len(s) + Len(t) /\ p \in Seq(Nat)
  <2>1. SubSeq(p, Len(s) + 1, Len(p)) \in Box(t)
    <3> HIDE DEF p
    <3> QED BY <1>2, BoxSplit
  <2>2. Len(p) = Len(s) + Len(t) /\ p \in Seq(Nat)
    <3> HIDE DEF p
    <3> QED BY <1>1, <1>2, BoxSeq
  <2> QED BY <2>1, <2>2
<1>4. i \in Seq(Nat) /\ Len(i) = Len(s) + Len(t) + Len(u)
  <2>1. s \o t \o u \in Seq(Nat) /\ Len(s \o t \o u) = Len(s) + Len(t) + Len(u)
    BY <1>1, ConcatProperties
  <2> QED BY <2>1, BoxSeq
<1>5. \A d \in 1..(Len(s) + Len(t)) : p[d] = i[d]
  <2> DEFINE m == Len(s) + Len(t)
  <2>1. m \in Nat /\ 0 + m <= Len(i) /\ 0 + 1 = 1 /\ 0 + m = m /\ \A d \in 1..m : 0 + d = d
    BY <1>1, <1>4
  <2> HIDE DEF m
  <2>2. \A d \in 1..m : SubSeq(i, 0 + 1, 0 + m)[d] = i[0 + d]
    BY <1>4, <2>1, PartOf
  <2> QED BY <2>1, <2>2 DEF m
<1> HIDE DEF p
<1>6. SubSeq(p, Len(s) + 1, Len(p)) = SubSeq(i, Len(s) + 1, Len(s) + Len(t))
  <2> DEFINE m == Len(s)
             n == Len(t)
  <2>1. m \in Nat /\ n \in Nat /\ m + n <= Len(i) /\ m + n <= Len(p) /\ Len(p) = m + n
        /\ \A d \in 1..(m + n) : p[d] = i[d]
    BY <1>1, <1>3, <1>4, <1>5
  <2> HIDE DEF m, n
  <2>2. SubSeq(i, m + 1, m + n) \in Seq(Nat) /\ Len(SubSeq(i, m + 1, m + n)) = n
        /\ \A d \in 1..n : SubSeq(i, m + 1, m + n)[d] = i[m + d]
    BY <1>4, <2>1, PartOf
  <2>3. SubSeq(p, m + 1, m + n) \in Seq(Nat) /\ Len(SubSeq(p, m + 1, m + n)) = n
        /\ \A d \in 1..n : SubSeq(p, m + 1, m + n)[d] = p[m + d]
    BY <1>3, <2>1, PartOf
  <2>4. \A d \in 1..n : m + d \in 1..(m + n)
    BY <2>1
  <2>5. \A d \in 1..n : SubSeq(p, m + 1, m + n)[d] = SubSeq(i, m + 1, m + n)[d]
    BY <2>1, <2>2, <2>3, <2>4
  <2>6. SubSeq(p, m + 1, m + n) = SubSeq(i, m + 1, m + n)
    BY <2>2, <2>3, <2>5, Same
  <2> QED BY <2>1, <2>6 DEF m, n
<1> QED BY <1>3, <1>6
-----------------------------------------------------------------------------
(* Operands and axes. *)

\* No array with a shape is Fail.
LEMMA NotFail ==
  ASSUME NEW t, t.shape \in Seq(Nat)
  PROVE  t # Fail
<1>1. SUFFICES ASSUME t = Fail PROVE FALSE
  OBVIOUS
<1>2. <<-1>> \in Seq(Nat) /\ Len(<<-1>>) = 1
  BY <1>1 DEF Fail
<1>3. <<-1>>[1] \in Nat
  BY <1>2, LenProperties
<1> QED BY <1>3

\* The outputs of a call no primitive of which failed.
NoFailure(values) == \A i \in DOMAIN values : values[i] # Fail

\* A single array is such an output.
LEMMA OneArray ==
  ASSUME NEW s \in Seq(Nat), NEW d
  PROVE  NoFailure(<<[shape |-> s, data |-> d]>>)
<1> DEFINE t == [shape |-> s, data |-> d]
<1>1. t.shape = s
  OBVIOUS
<1> HIDE DEF t
<1>2. t # Fail
  BY <1>1, NotFail
<1> QED BY <1>2 DEF NoFailure, t

\* What IsOperand says of the array an input resolves to.
LEMMA Operand ==
  ASSUME NEW n, NEW i, ArrayOf(n, i)
  PROVE  /\ In(n, i) = [shape |-> n.ins[i].shape, data |-> n.ins[i].data]
         /\ In(n, i).shape = n.ins[i].shape /\ In(n, i).data = n.ins[i].data
         /\ In(n, i).shape \in Seq(Nat) /\ DOMAIN In(n, i).data = 1..Prod(In(n, i).shape)
         /\ Rank(In(n, i)) = Len(n.ins[i].shape) /\ Rank(In(n, i)) \in Nat
         /\ In(n, i) # Fail
<1>1. n.ins[i].shape \in Seq(Nat) /\ DOMAIN n.ins[i].data = 1..Prod(n.ins[i].shape)
  BY DEF ArrayOf, IsOperand
<1>2. In(n, i).shape = n.ins[i].shape /\ In(n, i).data = n.ins[i].data
  BY DEF In
<1>3. In(n, i) # Fail
  BY <1>1, <1>2, NotFail
<1>4. Len(n.ins[i].shape) \in Nat
  BY <1>1, LenProperties
<1> QED BY <1>1, <1>2, <1>3, <1>4 DEF In, Rank

\* norm_axis and the modulus of ONNX agree on the axes in range.
LEMMA AxisIs ==
  ASSUME NEW rank \in Nat, NEW a \in (-rank)..(rank - 1)
  PROVE  Axis(a, rank) = 1 + (a % rank) /\ Axis(a, rank) \in 1..rank
<1>1. CASE a < 0
  <2>1. a + rank \in 0..(rank - 1) /\ rank \in Pos
    BY <1>1 DEF Pos
  <2>2. a % rank = a + rank
    BY <1>1, <2>1 DEF Pos
  <2> QED BY <1>1, <2>1, <2>2 DEF Axis
<1>2. CASE ~(a < 0)
  <2>1. a \in 0..(rank - 1) /\ rank \in Pos
    BY <1>2 DEF Pos
  <2>2. a % rank = a
    BY <2>1 DEF Pos
  <2> QED BY <1>2, <2>1, <2>2 DEF Axis
<1> QED BY <1>1, <1>2

\* The axis a legal node names is one of its data.
LEMMA AxisOf ==
  ASSUME NEW n, ArrayOf(n, 1), LegalAxis(n)
  PROVE  /\ Axis(Attr(n, "axis", 0), Rank(In(n, 1))) = AxisAttr(n, "axis", 0, Rank(In(n, 1)))
         /\ AxisAttr(n, "axis", 0, Rank(In(n, 1))) \in 1..Rank(In(n, 1))
         /\ AxisAttr(n, "axis", 0, Len(n.ins[1].shape)) = AxisAttr(n, "axis", 0, Rank(In(n, 1)))
<1>1. Rank(In(n, 1)) = Len(n.ins[1].shape) /\ Rank(In(n, 1)) \in Nat
  BY Operand
<1>2. Attr(n, "axis", 0) \in (-Rank(In(n, 1)))..(Rank(In(n, 1)) - 1)
  BY <1>1 DEF LegalAxis
<1> DEFINE rank == Rank(In(n, 1))
           a == Attr(n, "axis", 0)
<1>3. rank \in Nat /\ a \in (-rank)..(rank - 1)
  BY <1>1, <1>2
<1>4. Axis(a, rank) = 1 + (a % rank) /\ Axis(a, rank) \in 1..rank
  <2> HIDE DEF rank, a
  <2> QED BY <1>3, AxisIs
<1> QED BY <1>1, <1>4 DEF AxisAttr

\* An element of an array, at an index of its shape.
LEMMA ElementAt ==
  ASSUME NEW t, t.shape \in Seq(Nat), NEW i \in Box(t.shape)
  PROVE  /\ 1 + Place(t.shape, i) \in 1..Prod(t.shape)
         /\ At(t, i) = t.data[1 + Place(t.shape, i)]
<1>1. Place(t.shape, i) \in 0..(Prod(t.shape) - 1) /\ Prod(t.shape) \in Nat
  BY PlaceIn, ProdNat
<1> QED BY <1>1 DEF At

\* Every position of an array has an index at that place.
LEMMA IndexIn ==
  ASSUME NEW s \in Seq(Nat), NEW k \in 1..Prod(s)
  PROVE  s \in Seq(Pos) /\ Coord(s, k - 1) \in Box(s) /\ Place(s, Coord(s, k - 1)) = k - 1
<1>1. Prod(s) \in Nat
  BY ProdNat
<1>2. s \in Seq(Pos) /\ k - 1 \in 0..(Prod(s) - 1)
  BY <1>1, Extents
<1> QED BY <1>2, CoordIn

\* normalize_indices.
LEMMA Normalized ==
  ASSUME NEW n, NEW i, ArrayOf(n, i), NEW e
  PROVE  LET m == NormalizeIndices(In(n, i), e)
         IN /\ m.shape = In(n, i).shape /\ Rank(m) = Rank(In(n, i)) /\ m # Fail
            /\ \A j \in Box(In(n, i).shape) : At(m, j) = Wrapped(At(In(n, i), j), e)
<1> DEFINE t == In(n, i)
           m == NormalizeIndices(t, e)
<1>1. t = [shape |-> t.shape, data |-> t.data] /\ t.shape \in Seq(Nat) /\ DOMAIN t.data = 1..Prod(t.shape) /\ t # Fail
  BY Operand
<1> HIDE DEF t
<1>2. m = [t EXCEPT !.data = [k \in DOMAIN t.data |-> IF t.data[k] < 0 THEN t.data[k] + e ELSE t.data[k]]]
  BY <1>1 DEF NormalizeIndices, Map
<1>3. m.shape = t.shape /\ m.data = [k \in DOMAIN t.data |-> IF t.data[k] < 0 THEN t.data[k] + e ELSE t.data[k]]
  BY <1>1, <1>2
<1> HIDE DEF m
<1>4. m # Fail
  BY <1>1, <1>3, NotFail
<1>5. ASSUME NEW j \in Box(t.shape) PROVE At(m, j) = Wrapped(At(t, j), e)
  <2>1. 1 + Place(t.shape, j) \in DOMAIN t.data /\ At(t, j) = t.data[1 + Place(t.shape, j)]
    BY <1>1, ElementAt
  <2>2. At(m, j) = m.data[1 + Place(t.shape, j)]
    BY <1>3 DEF At
  <2> QED BY <1>3, <2>1, <2>2 DEF Wrapped
<1> QED BY <1>3, <1>4, <1>5 DEF t, m, Rank
-----------------------------------------------------------------------------
(* Gather and GatherElements. *)

\* Gather: the handler takes what ONNX takes.
LEMMA GatherExact ==
  ASSUME NEW n, n.op = "Gather", LegalOperands(n)
  PROVE  GatherOp(n) = GatherMeaning(n) /\ NoFailure(GatherOp(n))
<1> DEFINE data == In(n, 1)
           index == In(n, 2)
           a == AxisAttr(n, "axis", 0, Rank(data))
           r == Rank(index)
           norm == NormalizeIndices(index, data.shape[a])
           shape == SubSeq(data.shape, 1, a - 1) \o index.shape \o SubSeq(data.shape, a + 1, Rank(data))
           Taken(idx) == At(data, SubSeq(idx, 1, a - 1) \o <<At(norm, SubSeq(idx, a, a + r - 1))>>
                                  \o SubSeq(idx, a + r, Len(idx)))
           Meant(idx) == At(data, SubSeq(idx, 1, a - 1)
                                  \o <<Wrapped(At(index, SubSeq(idx, a, a + r - 1)), data.shape[a])>>
                                  \o SubSeq(idx, a + r, Len(idx)))
<1>1. ArrayOf(n, 1) /\ ArrayOf(n, 2) /\ LegalAxis(n)
  BY DEF LegalOperands
<1>2. /\ data.shape \in Seq(Nat) /\ index.shape \in Seq(Nat) /\ data # Fail
      /\ Rank(data) \in Nat /\ r \in Nat /\ Len(data.shape) = Rank(data) /\ Len(index.shape) = r
  BY <1>1, Operand DEF Rank
<1>3. a \in 1..Rank(data) /\ Axis(Attr(n, "axis", 0), Rank(data)) = a
  BY <1>1, AxisOf
<1>4. norm.shape = index.shape /\ Rank(norm) = r /\ norm # Fail
      /\ \A j \in Box(index.shape) : At(norm, j) = Wrapped(At(index, j), data.shape[a])
  BY <1>1, Normalized
<1>5. GatherOp(n) = <<Tensor(shape, Taken)>>
  <2>1. GatherOp(n) = <<TakeAxis(data, norm, a)>>
    BY <1>3 DEF GatherOp, Indexed
  <2>2. Splice(data.shape, a, norm.shape) = shape
    BY <1>2, <1>4 DEF Splice
  <2> HIDE DEF data, norm, a, r, shape
  <2>3. TakeAxis(data, norm, a) = Tensor(shape, Taken)
    BY <1>2, <1>4, <2>2 DEF TakeAxis, Tensor
  <2> QED BY <2>1, <2>3
<1>6. GatherMeaning(n) = <<Tensor(shape, Meant)>>
  BY DEF GatherMeaning
<1> DEFINE before == SubSeq(data.shape, 1, a - 1)
           after == SubSeq(data.shape, a + 1, Rank(data))
<1>7. before \in Seq(Nat) /\ Len(before) = a - 1 /\ after \in Seq(Nat)
  <2> DEFINE m == a - 1
             k == Rank(data) - a
             s == data.shape
  <2>1. m \in Nat /\ 0 + m <= Len(s) /\ a \in Nat /\ a + k <= Len(s) /\ k \in Nat
        /\ 0 + 1 = 1 /\ 0 + m = a - 1 /\ a + k = Rank(data) /\ s \in Seq(Nat)
    <3> HIDE DEF data, a
    <3> QED BY <1>2, <1>3
  <2> HIDE DEF m, k, s
  <2>2. SubSeq(s, 0 + 1, 0 + m) \in Seq(Nat) /\ Len(SubSeq(s, 0 + 1, 0 + m)) = m
    BY <2>1, PartOf
  <2>3. SubSeq(s, a + 1, a + k) \in Seq(Nat)
    <3> HIDE DEF a
    <3> QED BY <2>1, PartOf
  <2> QED BY <2>1, <2>2, <2>3 DEF m, s
<1>8. shape \in Seq(Nat)
  BY <1>2, <1>7, ConcatProperties
<1>9. ASSUME NEW k \in 1..Prod(shape) PROVE Taken(Coord(shape, k - 1)) = Meant(Coord(shape, k - 1))
  <2> DEFINE idx == Coord(shape, k - 1)
  <2>1. idx \in Box(shape)
    <3> HIDE DEF shape
    <3> QED BY <1>8, IndexIn
  <2>2. SubSeq(idx, Len(before) + 1, Len(before) + Len(index.shape)) \in Box(index.shape)
    <3> HIDE DEF before, after, idx, index
    <3> QED BY <1>2, <1>7, <2>1, BoxMiddle DEF before, after
  <2>3. SubSeq(idx, a, a + r - 1) \in Box(index.shape)
    <3>1. Len(before) + 1 = a /\ Len(before) + Len(index.shape) = a + r - 1
      <4> HIDE DEF before, a, r, index, data
      <4> QED BY <1>2, <1>3, <1>7
    <3> QED BY <2>2, <3>1
  <2> HIDE DEF idx, index, data, a, r, norm
  <2>4. At(norm, SubSeq(idx, a, a + r - 1)) = Wrapped(At(index, SubSeq(idx, a, a + r - 1)), data.shape[a])
    BY <1>4, <2>3
  <2> QED BY <2>4 DEF idx
<1>10. Tensor(shape, Taken) = Tensor(shape, Meant)
  <2> HIDE DEF shape, Taken, Meant
  <2> QED BY <1>9 DEF Tensor
<1>11. NoFailure(GatherOp(n))
  <2> HIDE DEF shape, Taken
  <2> QED BY <1>5, <1>8, OneArray DEF Tensor
<1> QED BY <1>5, <1>6, <1>10, <1>11

\* Shapes that differ at one axis only agree without it.
LEMMA OneApart ==
  ASSUME NEW s \in Seq(Nat), NEW t \in Seq(Nat), Len(s) = Len(t), NEW a \in 1..Len(s),
         \A d \in 1..Len(s) : d = a \/ s[d] = t[d]
  PROVE  Without(s, a) = Without(t, a)
<1> DEFINE m == a - 1
           k == Len(s) - a
<1>1. m \in Nat /\ k \in Nat /\ Len(s) \in Nat /\ 0 + m <= Len(s) /\ a + k <= Len(s) /\ a \in Nat
      /\ 0 + 1 = 1 /\ 0 + m = a - 1 /\ a + k = Len(s)
  BY LenProperties
<1>2. (\A d \in 1..m : s[d] = t[d]) /\ \A d \in 1..k : s[a + d] = t[a + d]
  <2>1. \A d \in 1..m : d \in 1..Len(s) /\ d # a
    BY <1>1
  <2>2. \A d \in 1..k : a + d \in 1..Len(s) /\ a + d # a
    BY <1>1
  <2> QED BY <2>1, <2>2
<1> HIDE DEF m, k
<1>3. SubSeq(s, 1, a - 1) = SubSeq(t, 1, a - 1)
  <2>1. SubSeq(s, 0 + 1, 0 + m) \in Seq(Nat) /\ Len(SubSeq(s, 0 + 1, 0 + m)) = m
        /\ \A d \in 1..m : SubSeq(s, 0 + 1, 0 + m)[d] = s[0 + d]
    BY <1>1, PartOf
  <2>2. SubSeq(t, 0 + 1, 0 + m) \in Seq(Nat) /\ Len(SubSeq(t, 0 + 1, 0 + m)) = m
        /\ \A d \in 1..m : SubSeq(t, 0 + 1, 0 + m)[d] = t[0 + d]
    BY <1>1, PartOf
  <2>3. \A d \in 1..m : 0 + d = d
    BY <1>1
  <2>4. SubSeq(s, 0 + 1, 0 + m) = SubSeq(t, 0 + 1, 0 + m)
    BY <1>2, <2>1, <2>2, <2>3, Same
  <2> QED BY <1>1, <2>4
<1>4. SubSeq(s, a + 1, Len(s)) = SubSeq(t, a + 1, Len(t))
  <2>0. a \in Nat /\ k \in Nat /\ a + k <= Len(s) /\ a + k <= Len(t)
    BY <1>1
  <2>1. SubSeq(s, a + 1, a + k) \in Seq(Nat) /\ Len(SubSeq(s, a + 1, a + k)) = k
        /\ \A d \in 1..k : SubSeq(s, a + 1, a + k)[d] = s[a + d]
    BY <2>0, PartOf
  <2>2. SubSeq(t, a + 1, a + k) \in Seq(Nat) /\ Len(SubSeq(t, a + 1, a + k)) = k
        /\ \A d \in 1..k : SubSeq(t, a + 1, a + k)[d] = t[a + d]
    BY <2>0, PartOf
  <2>3. SubSeq(s, a + 1, a + k) = SubSeq(t, a + 1, a + k)
    <3> DEFINE p == SubSeq(s, a + 1, a + k)
               q == SubSeq(t, a + 1, a + k)
    <3>1. p \in Seq(Nat) /\ q \in Seq(Nat) /\ Len(p) = Len(q) /\ Len(p) = k
      BY <2>1, <2>2
    <3>2. \A d \in 1..k : p[d] = q[d]
      BY <1>2, <2>1, <2>2
    <3> HIDE DEF p, q
    <3>3. p = q
      BY <3>1, <3>2, Same
    <3> QED BY <3>3 DEF p, q
  <2> QED BY <1>1, <2>3
<1> QED BY <1>3, <1>4 DEF Without

\* The index of a legal node fits its data off the axis.
LEMMA Fits ==
  ASSUME NEW n, ArrayOf(n, 1), ArrayOf(n, 2), LegalAxis(n), AlignedOffAxis(n),
         NEW m, m.shape = In(n, 2).shape
  PROVE  FitsAlong(In(n, 1), m, AxisAttr(n, "axis", 0, Rank(In(n, 1))))
<1> DEFINE s == In(n, 2).shape
           t == In(n, 1).shape
           a == AxisAttr(n, "axis", 0, Rank(In(n, 1)))
<1>1. s \in Seq(Nat) /\ t \in Seq(Nat) /\ s = n.ins[2].shape /\ t = n.ins[1].shape /\ Rank(In(n, 1)) = Len(t)
  BY Operand
<1>2. a \in 1..Len(t) /\ AxisAttr(n, "axis", 0, Len(n.ins[1].shape)) = a
  BY <1>1, AxisOf
<1>3. Len(s) = Len(t) /\ \A d \in DOMAIN t : d = a \/ s[d] = t[d]
  <2> HIDE DEF a
  <2> QED BY <1>1, <1>2 DEF AlignedOffAxis
<1>4. DOMAIN t = 1..Len(t)
  BY <1>1, LenProperties
<1> HIDE DEF s, t, a
<1>5. Without(s, a) = Without(t, a)
  <2>1. a \in 1..Len(s) /\ \A d \in 1..Len(s) : d = a \/ s[d] = t[d]
    BY <1>2, <1>3, <1>4
  <2> QED BY <1>1, <1>3, <2>1, OneApart
<1> QED BY <1>3, <1>5 DEF FitsAlong, Rank, s, t, a

\* GatherElements: the handler takes what ONNX takes.
LEMMA GatherElementsExact ==
  ASSUME NEW n, n.op = "GatherElements", LegalOperands(n)
  PROVE  GatherElementsOp(n) = GatherElementsMeaning(n) /\ NoFailure(GatherElementsOp(n))
<1> DEFINE data == In(n, 1)
           index == In(n, 2)
           a == AxisAttr(n, "axis", 0, Rank(data))
           norm == NormalizeIndices(index, data.shape[a])
           Taken(idx) == At(data, With(idx, a, At(norm, idx)))
           Meant(idx) == At(data, [idx EXCEPT ![a] = Wrapped(At(index, idx), data.shape[a])])
<1>1. ArrayOf(n, 1) /\ ArrayOf(n, 2) /\ LegalAxis(n) /\ AlignedOffAxis(n)
  BY DEF LegalOperands
<1>2. /\ data.shape \in Seq(Nat) /\ index.shape \in Seq(Nat) /\ data # Fail
  BY <1>1, Operand
<1>3. Axis(Attr(n, "axis", 0), Rank(data)) = a
  BY <1>1, AxisOf
<1>4. norm.shape = index.shape /\ norm # Fail
      /\ \A j \in Box(index.shape) : At(norm, j) = Wrapped(At(index, j), data.shape[a])
  BY <1>1, Normalized
<1>5. FitsAlong(data, norm, a)
  BY <1>1, <1>4, Fits
<1>6. GatherElementsOp(n) = <<Tensor(index.shape, Taken)>>
  <2>1. GatherElementsOp(n) = <<TakeAlong(data, norm, a)>>
    BY <1>3 DEF GatherElementsOp, Indexed
  <2> HIDE DEF data, norm, a, index
  <2>2. TakeAlong(data, norm, a) = Tensor(index.shape, Taken)
    BY <1>2, <1>4, <1>5 DEF TakeAlong, Tensor
  <2> QED BY <2>1, <2>2
<1>7. GatherElementsMeaning(n) = <<Tensor(index.shape, Meant)>>
  BY DEF GatherElementsMeaning
<1> HIDE DEF data, index, a, norm
<1>8. ASSUME NEW k \in 1..Prod(index.shape)
      PROVE  Taken(Coord(index.shape, k - 1)) = Meant(Coord(index.shape, k - 1))
  <2> DEFINE idx == Coord(index.shape, k - 1)
  <2>1. idx \in Box(index.shape)
    BY <1>2, IndexIn
  <2>2. idx = [d \in DOMAIN idx |-> idx[d]]
    BY DEF Coord
  <2> HIDE DEF idx
  <2>3. With(idx, a, At(norm, idx)) = [idx EXCEPT ![a] = Wrapped(At(index, idx), data.shape[a])]
    BY <1>4, <2>1, <2>2 DEF With
  <2> QED BY <2>3 DEF idx
<1>9. Tensor(index.shape, Taken) = Tensor(index.shape, Meant)
  <2> HIDE DEF Taken, Meant
  <2> QED BY <1>8 DEF Tensor
<1>10. NoFailure(GatherElementsOp(n))
  <2> HIDE DEF Taken
  <2> QED BY <1>2, <1>6, OneArray DEF Tensor
<1> QED BY <1>6, <1>7, <1>9, <1>10
-----------------------------------------------------------------------------
(* Scatters: the last update aimed at an element. *)

\* A set of positions that is not empty has a greatest element.
LEMMA MaxOf ==
  ASSUME NEW n \in Nat, NEW I \in SUBSET (0..(n - 1)), I # {}
  PROVE  Max(I) \in I /\ \A y \in I : Max(I) >= y
<1> DEFINE Top(J) == \E x \in J : \A y \in J : x >= y
           T == {m \in Nat : \A J \in SUBSET (0..(m - 1)) : J # {} => Top(J)}
<1>1. 0 \in T
  <2>1. 0..(0 - 1) = {}
    OBVIOUS
  <2> QED BY <2>1
<1>2. ASSUME NEW m \in Nat, m \in T PROVE m + 1 \in T
  <2>1. SUFFICES ASSUME NEW J \in SUBSET (0..m), J # {} PROVE Top(J)
    BY DEF T
  <2>2. CASE m \in J
    BY <2>2
  <2>3. CASE m \notin J
    <3>1. J \in SUBSET (0..(m - 1))
      BY <2>3
    <3> QED BY <1>2, <2>1, <3>1
  <2> QED BY <2>2, <2>3
<1>3. n \in T
  <2> HIDE DEF T
  <2> QED BY <1>1, <1>2, NatSets
<1>4. PICK x \in I : \A y \in I : x >= y
  BY <1>3
<1>5. Max(I) = x
  BY <1>4, MaxIs
<1> QED BY <1>4, <1>5

Latest(G) == CHOOSE k \in G : \A h \in G : h <= k

\* Positions that follow the hits of a row.
Follows(K, H, G) ==
  /\ \A v \in H : K[v] \in G
  /\ \A k \in G : \E v \in H : K[v] = k
  /\ \A v, w \in H : v <= w => K[v] <= K[w]

\* The last of the positions is the one of the last hit.
LEMMA LastHit ==
  ASSUME NEW H, NEW m \in H, NEW G, NEW K, H \subseteq Nat, G \subseteq Nat,
         \A v \in H : v <= m, Follows(K, H, G)
  PROVE  Latest(G) = K[m]
<1>1. \A k \in G : k <= K[m]
  <2>1. SUFFICES ASSUME NEW k \in G PROVE k <= K[m]
    OBVIOUS
  <2>2. PICK v \in H : K[v] = k
    BY DEF Follows
  <2> QED BY <2>2 DEF Follows
<1>2. K[m] \in G
  BY DEF Follows
<1> DEFINE c == Latest(G)
<1>3. c \in G /\ \A h \in G : h <= c
  BY <1>1, <1>2 DEF Latest
<1> HIDE DEF c
<1>4. c \in Nat /\ K[m] \in Nat /\ c <= K[m] /\ K[m] <= c
  BY <1>1, <1>2, <1>3
<1>5. c = K[m]
  BY <1>4
<1> QED BY <1>5 DEF c

\* What an integer is above another.
LEMMA Gap ==
  ASSUME NEW a \in Int, NEW b \in Int, a <= b
  PROVE  b - a \in Nat /\ b = a + (b - a)
  OBVIOUS

\* Place is monotonic in every entry.
LEMMA PlaceUp ==
  ASSUME NEW s \in Seq(Nat), NEW i \in Seq(Int), NEW j \in Seq(Int), Len(i) = Len(s), Len(j) = Len(s),
         \A d \in 1..Len(s) : i[d] <= j[d]
  PROVE  Place(s, i) <= Place(s, j)
<1>1. s \in Seq(Int) /\ Len(s) \in Nat
  BY Wider, LenProperties
<1>2. PICK g \in [0..Len(s) -> Int] :
        /\ g[0] = 0 /\ \A d \in 1..Len(s) : g[d] = g[d - 1] * s[d] + i[d]
        /\ Place(s, i) = g[Len(s)]
  BY <1>1, PlaceFold
<1>3. PICK h \in [0..Len(s) -> Int] :
        /\ h[0] = 0 /\ \A d \in 1..Len(s) : h[d] = h[d - 1] * s[d] + j[d]
        /\ Place(s, j) = h[Len(s)]
  BY <1>1, PlaceFold
<1> DEFINE T == {d \in Nat : d <= Len(s) => g[d] <= h[d]}
<1>4. 0 \in T
  BY <1>2, <1>3
<1>5. ASSUME NEW d \in Nat, d \in T PROVE d + 1 \in T
  <2>1. SUFFICES ASSUME d + 1 <= Len(s) PROVE g[d + 1] <= h[d + 1]
    OBVIOUS
  <2>2. d + 1 \in 1..Len(s) /\ d \in 0..Len(s) /\ (d + 1) - 1 = d
    BY <1>1, <2>1
  <2>3. g[d + 1] = g[d] * s[d + 1] + i[d + 1] /\ h[d + 1] = h[d] * s[d + 1] + j[d + 1]
    BY <1>2, <1>3, <2>2
  <2>4. g[d] \in Int /\ h[d] \in Int /\ s[d + 1] \in Nat /\ i[d + 1] \in Int /\ j[d + 1] \in Int
    BY <2>2, ElementOfSeq
  <2>5. g[d] <= h[d] /\ i[d + 1] <= j[d + 1]
    BY <1>1, <1>5, <2>1, <2>2
  <2>6. PICK x \in Nat : h[d] = g[d] + x
    <3>1. h[d] - g[d] \in Nat /\ h[d] = g[d] + (h[d] - g[d])
      BY <2>4, <2>5, Gap
    <3> QED BY <3>1
  <2>7. x * s[d + 1] \in Nat
    BY <2>4, <2>6, Products
  <2>8. (g[d] + x) * s[d + 1] = g[d] * s[d + 1] + x * s[d + 1] /\ g[d] * s[d + 1] \in Int
    <3> DEFINE b == g[d]
               c == s[d + 1]
    <3>1. b \in Int /\ c \in Nat
      BY <2>4
    <3> HIDE DEF b, c
    <3>2. (b + x) * c = b * c + x * c /\ b * c \in Int
      BY <3>1
    <3> QED BY <3>2 DEF b, c
  <2> DEFINE y == g[d] * s[d + 1]
             z == x * s[d + 1]
  <2>9. y \in Int /\ z \in Nat /\ g[d + 1] = y + i[d + 1] /\ h[d + 1] = y + z + j[d + 1]
    BY <2>3, <2>6, <2>7, <2>8
  <2> HIDE DEF y, z
  <2> QED BY <2>4, <2>5, <2>9
<1>6. Len(s) \in T
  <2> HIDE DEF T
  <2> QED BY <1>1, <1>4, <1>5, NatSets
<1> QED BY <1>1, <1>2, <1>3, <1>6

\* ScatterElements: every element gets the last update aimed at it.
LEMMA ScatterElementsExact ==
  ASSUME NEW n, n.op = "ScatterElements", LegalOperands(n)
  PROVE  ScatterElementsOp(n) = ScatterElementsMeaning(n) /\ NoFailure(ScatterElementsOp(n))
<1> DEFINE data == In(n, 1)
           index == In(n, 2)
           updates == In(n, 3)
           a == AxisAttr(n, "axis", 0, Rank(data))
           e == data.shape[a]
           norm == NormalizeIndices(index, e)
           Target(u) == [u EXCEPT ![a] = Wrapped(At(index, u), e)]
           H(idx) == {k \in 0..(index.shape[a] - 1) : At(norm, With(idx, a, k)) = idx[a]}
           G(idx) == {k \in 0..(Prod(index.shape) - 1) : Target(Coord(index.shape, k)) = idx}
           Put(idx) == IF H(idx) = {} THEN At(data, idx) ELSE At(updates, With(idx, a, Max(H(idx))))
           Aimed(idx) == IF G(idx) = {} THEN At(data, idx)
                         ELSE updates.data[1 + (CHOOSE k \in G(idx) : \A h \in G(idx) : h <= k)]
<1>1. ArrayOf(n, 1) /\ ArrayOf(n, 2) /\ ArrayOf(n, 3) /\ LegalAxis(n) /\ AlignedOffAxis(n)
      /\ n.ins[3].shape = n.ins[2].shape
  BY DEF LegalOperands
<1>2. /\ data.shape \in Seq(Nat) /\ index.shape \in Seq(Nat) /\ updates.shape = index.shape
      /\ data # Fail /\ index # Fail /\ updates # Fail /\ Len(data.shape) = Rank(data)
      /\ n.ins[2].shape = index.shape /\ n.ins[1].shape = data.shape
  BY <1>1, Operand DEF Rank
<1>3. Axis(Attr(n, "axis", 0), Rank(data)) = a /\ a \in 1..Rank(data)
      /\ AxisAttr(n, "axis", 0, Len(n.ins[1].shape)) = a
  BY <1>1, AxisOf
<1>4. norm.shape = index.shape /\ norm # Fail
      /\ \A j \in Box(index.shape) : At(norm, j) = Wrapped(At(index, j), e)
  BY <1>1, Normalized
<1>5. FitsAlong(data, norm, a)
  BY <1>1, <1>4, Fits
<1>6. Len(index.shape) = Len(data.shape) /\ \A d \in 1..Len(data.shape) : d = a \/ index.shape[d] = data.shape[d]
  <2>1. DOMAIN data.shape = 1..Len(data.shape)
    BY <1>2, LenProperties
  <2> HIDE DEF a, data, index
  <2> QED BY <1>1, <1>2, <1>3, <2>1 DEF AlignedOffAxis
<1>7. ScatterElementsOp(n) = <<Tensor(data.shape, Put)>>
  <2>1. ScatterElementsOp(n) = <<PutAlong(data, norm, updates, a)>>
    BY <1>3 DEF ScatterElementsOp, Indexed
  <2> HIDE DEF data, norm, a, index, updates
  <2>2. PutAlong(data, norm, updates, a) = Tensor(data.shape, Put)
    BY <1>2, <1>4, <1>5 DEF PutAlong, Tensor
  <2> QED BY <2>1, <2>2
<1>8. ScatterElementsMeaning(n) = <<Tensor(data.shape, Aimed)>>
  <2>1. SizeOf(updates) = Prod(index.shape)
    BY <1>2 DEF SizeOf
  <2>2. ScatterElementsMeaning(n) = <<Scattered(data, updates, Target)>>
    BY DEF ScatterElementsMeaning
  <2> HIDE DEF data, norm, a, index, updates
  <2>3. Scattered(data, updates, Target) = Tensor(data.shape, Aimed)
    BY <1>2, <2>1 DEF Scattered, Tensor
  <2> QED BY <2>2, <2>3
<1> HIDE DEF data, index, updates, a, norm
<1> DEFINE s == index.shape
<1>9. ASSUME NEW idx \in Box(data.shape) PROVE Put(idx) = Aimed(idx)
  <2> DEFINE K == [v \in H(idx) |-> Place(s, With(idx, a, v))]
             hits == H(idx)
             aims == G(idx)
  <2>1. idx \in Seq(Nat) /\ Len(idx) = Len(s) /\ DOMAIN idx = 1..Len(s) /\ a \in 1..Len(s)
        /\ s \in Seq(Nat) /\ Len(s) \in Nat /\ Prod(s) \in Nat /\ s[a] \in Nat
        /\ \A d \in 1..Len(s) : d = a \/ (idx[d] \in Nat /\ idx[d] < s[d])
    <3>1. idx \in Seq(Nat) /\ Len(idx) = Len(data.shape) /\ \A d \in 1..Len(data.shape) : idx[d] < data.shape[d]
      BY DEF Box
    <3>2. a \in 1..Len(s)
      BY <1>2, <1>3, <1>6
    <3>3. Prod(s) \in Nat /\ s[a] \in Nat /\ Len(s) \in Nat
      BY <1>2, <3>2, ProdNat, ElementOfSeq, LenProperties
    <3>4. DOMAIN idx = 1..Len(s)
      BY <1>6, <3>1, LenProperties
    <3>5. \A d \in 1..Len(idx) : idx[d] \in Nat
      BY <3>1, ElementOfSeq
    <3> QED BY <1>2, <1>6, <3>1, <3>2, <3>3, <3>4, <3>5
  <2> HIDE DEF s
  <2>2. ASSUME NEW v \in 0..(s[a] - 1)
        PROVE  /\ With(idx, a, v) \in Box(s) /\ With(idx, a, v)[a] = v /\ DOMAIN With(idx, a, v) = 1..Len(s)
               /\ With(idx, a, v) \in Seq(Int) /\ Len(With(idx, a, v)) = Len(s)
               /\ \A d \in 1..Len(s) : d = a \/ With(idx, a, v)[d] = idx[d]
    <3> DEFINE u == With(idx, a, v)
    <3>1. u = [d \in 1..Len(s) |-> IF d = a THEN v ELSE idx[d]]
      BY <2>1 DEF With
    <3> HIDE DEF u
    <3>2. u \in [1..Len(s) -> Nat]
      BY <2>1, <3>1
    <3>3. u \in Seq(Nat) /\ Len(u) = Len(s) /\ u \in Seq(Int)
      <4>1. Len(s) \in Nat
        BY <2>1
      <4>2. u \in Seq(Nat) /\ Len(u) = Len(s)
        BY <3>2, <4>1, IsSeq
      <4> QED BY <4>2, Wider
    <3>4. \A d \in 1..Len(s) : u[d] < s[d]
      BY <2>1, <3>1
    <3>5. u \in Box(s)
      BY <3>3, <3>4 DEF Box
    <3> QED BY <2>1, <3>1, <3>3, <3>5 DEF u
  <2>3. hits \in SUBSET (0..(s[a] - 1)) /\ aims \in SUBSET Nat
    BY <2>1 DEF s
  <2>4. ASSUME NEW v \in hits PROVE K[v] \in aims
    <3> DEFINE u == With(idx, a, v)
    <3>1. v \in 0..(s[a] - 1) /\ At(norm, u) = idx[a]
      BY <2>3 DEF s
    <3>2. u \in Box(s) /\ DOMAIN u = 1..Len(s) /\ u[a] = v /\ \A d \in 1..Len(s) : d = a \/ u[d] = idx[d]
      BY <2>2, <3>1
    <3>3. Place(s, u) \in 0..(Prod(s) - 1) /\ Coord(s, Place(s, u)) = u
      BY <2>1, <3>2, PlaceIn, CoordPlace
    <3>4. Wrapped(At(index, u), e) = idx[a]
      BY <1>4, <3>1, <3>2 DEF s
    <3>5. Target(u) = [d \in 1..Len(s) |-> IF d = a THEN idx[a] ELSE u[d]]
      <4> HIDE DEF u
      <4> QED BY <3>2, <3>4
    <3>6. idx = [d \in 1..Len(s) |-> idx[d]]
      BY <2>1
    <3>7. Target(u) = idx
      <4> HIDE DEF u
      <4> QED BY <2>1, <3>2, <3>5, <3>6
    <3>8. K[v] = Place(s, u)
      OBVIOUS
    <3> HIDE DEF u, K
    <3> QED BY <3>3, <3>7, <3>8 DEF s
  <2>5. ASSUME NEW k \in aims PROVE \E v \in hits : K[v] = k
    <3> DEFINE u == Coord(s, k)
    <3>1. k \in 0..(Prod(s) - 1) /\ Target(u) = idx
      BY DEF s
    <3>2. s \in Seq(Pos) /\ u \in Box(s) /\ Place(s, u) = k
      <4>1. k + 1 \in 1..Prod(s) /\ (k + 1) - 1 = k
        BY <2>1, <3>1
      <4>2. s \in Seq(Pos) /\ Coord(s, (k + 1) - 1) \in Box(s) /\ Place(s, Coord(s, (k + 1) - 1)) = (k + 1) - 1
        BY <2>1, <4>1, IndexIn
      <4> QED BY <4>1, <4>2
    <3>3. u \in Seq(Nat) /\ DOMAIN u = 1..Len(s) /\ u[a] \in 0..(s[a] - 1) /\ u = [d \in 1..Len(s) |-> u[d]]
      <4>1. u \in Seq(Nat) /\ Len(u) = Len(s) /\ \A d \in 1..Len(s) : u[d] \in 0..(s[d] - 1)
        BY <2>1, <3>2, BoxSeq
      <4>2. DOMAIN u = 1..Len(s)
        BY <2>1, CoordSeq
      <4>3. u = [d \in DOMAIN s |-> u[d]] /\ DOMAIN s = 1..Len(s)
        BY <2>1, LenProperties DEF Coord
      <4> QED BY <2>1, <4>1, <4>2, <4>3
    <3>4. At(norm, u) = Wrapped(At(index, u), e)
      BY <1>4, <3>2 DEF s
    <3> HIDE DEF u
    <3>5. idx[a] = At(norm, u) /\ \A d \in 1..Len(s) : d = a \/ idx[d] = u[d]
      BY <2>1, <3>1, <3>3, <3>4
    <3>6. With(idx, a, u[a]) = u
      <4>1. With(idx, a, u[a]) = [d \in 1..Len(s) |-> IF d = a THEN u[a] ELSE idx[d]]
        BY <2>1 DEF With
      <4> QED BY <3>3, <3>5, <4>1
    <3>7. u[a] \in hits
      BY <3>3, <3>5, <3>6 DEF s
    <3>8. K[u[a]] = k
      BY <3>2, <3>6, <3>7
    <3> QED BY <3>7, <3>8
  <2>6. ASSUME NEW v \in hits, NEW w \in hits, v <= w PROVE K[v] <= K[w]
    <3> DEFINE p == With(idx, a, v)
               q == With(idx, a, w)
    <3>1. v \in 0..(s[a] - 1) /\ w \in 0..(s[a] - 1)
      BY <2>3
    <3>2. p \in Seq(Int) /\ Len(p) = Len(s) /\ p[a] = v /\ \A d \in 1..Len(s) : d = a \/ p[d] = idx[d]
      BY <2>2, <3>1
    <3>3. q \in Seq(Int) /\ Len(q) = Len(s) /\ q[a] = w /\ \A d \in 1..Len(s) : d = a \/ q[d] = idx[d]
      BY <2>2, <3>1
    <3>4. K[v] = Place(s, p) /\ K[w] = Place(s, q)
      OBVIOUS
    <3> HIDE DEF p, q
    <3>5. ASSUME NEW d \in 1..Len(s) PROVE p[d] <= q[d]
      <4>1. CASE d = a
        BY <2>6, <3>2, <3>3, <4>1
      <4>2. CASE d # a
        <5>1. idx[d] \in Nat /\ p[d] = idx[d] /\ q[d] = idx[d]
          BY <2>1, <3>2, <3>3, <4>2
        <5> QED BY <5>1
      <4> QED BY <4>1, <4>2
    <3>6. Place(s, p) <= Place(s, q)
      BY <2>1, <3>2, <3>3, <3>5, PlaceUp
    <3> QED BY <3>4, <3>6
  <2> HIDE DEF hits, aims, K
  <2>7. /\ hits = {} <=> aims = {}
        /\ hits # {} => Max(hits) \in hits /\ Latest(aims) = K[Max(hits)]
    <3>1. Follows(K, hits, aims)
      BY <2>4, <2>5, <2>6 DEF Follows
    <3>2. hits = {} <=> aims = {}
      BY <3>1 DEF Follows
    <3>3. ASSUME hits # {} PROVE Max(hits) \in hits /\ Latest(aims) = K[Max(hits)]
      <4>1. Max(hits) \in hits /\ \A v \in hits : v <= Max(hits)
        <5> DEFINE m == s[a]
        <5>1. m \in Nat /\ hits \in SUBSET (0..(m - 1))
          BY <2>1, <2>3
        <5> HIDE DEF m
        <5>2. Max(hits) \in hits /\ \A v \in hits : Max(hits) >= v
          BY <3>3, <5>1, MaxOf
        <5> QED BY <5>1, <5>2
      <4>2. hits \subseteq Nat /\ aims \subseteq Nat
        BY <2>1, <2>3
      <4> QED BY <3>1, <4>1, <4>2, LastHit
    <3> QED BY <3>2, <3>3
  <2>8. CASE hits = {}
    BY <2>7, <2>8 DEF hits, aims
  <2>9. CASE hits # {}
    <3>1. K[Max(hits)] = Place(s, With(idx, a, Max(hits)))
      BY <2>7, <2>9 DEF K, hits
    <3>2. Put(idx) = At(updates, With(idx, a, Max(hits)))
      BY <2>9 DEF hits
    <3>3. Aimed(idx) = updates.data[1 + Latest(aims)]
      BY <2>7, <2>9 DEF aims, Latest
    <3>4. At(updates, With(idx, a, Max(hits))) = updates.data[1 + Place(s, With(idx, a, Max(hits)))]
      BY <1>2 DEF At, s
    <3> QED BY <2>7, <2>9, <3>1, <3>2, <3>3, <3>4
  <2> QED BY <2>8, <2>9
<1>10. ASSUME NEW k \in 1..Prod(data.shape)
       PROVE  Put(Coord(data.shape, k - 1)) = Aimed(Coord(data.shape, k - 1))
  <2>1. Coord(data.shape, k - 1) \in Box(data.shape)
    BY <1>2, IndexIn
  <2> HIDE DEF Put, Aimed
  <2> QED BY <1>9, <2>1
<1>11. Tensor(data.shape, Put) = Tensor(data.shape, Aimed)
  <2> HIDE DEF Put, Aimed
  <2> QED BY <1>10 DEF Tensor
<1>12. NoFailure(ScatterElementsOp(n))
  <2> HIDE DEF Put
  <2> QED BY <1>2, <1>7, OneArray DEF Tensor
<1> QED BY <1>7, <1>8, <1>11, <1>12
-----------------------------------------------------------------------------
(* Arrays of one and two axes, views and rows. *)

\* Tuples of one and two entries, built by Append.
LEMMA Two ==
  ASSUME NEW x \in Int, NEW y \in Int
  PROVE  <<x>> = Append(<<>>, x) /\ <<x, y>> = Append(<<x>>, y)
<1> DEFINE s == <<x>>
           t == <<x, y>>
<1>1. s \in Seq(Int) /\ Len(s) = 1 /\ s[1] = x /\ t \in Seq(Int) /\ Len(t) = 2 /\ t[1] = x /\ t[2] = y
  OBVIOUS
<1>2. s = Append(<<>>, x)
  OBVIOUS
<1> HIDE DEF s, t
<1>3. PICK u : u = Append(s, y)
  OBVIOUS
<1>4. s \in Seq(Int)
  BY <1>1
<1>5. u \in Seq(Int) /\ Len(u) = Len(s) + 1 /\ (\A d \in 1..Len(s) : u[d] = s[d]) /\ u[Len(s) + 1] = y
  BY <1>3, <1>4, AppendProperties
<1>6. Len(u) = 2 /\ u[1] = x /\ u[2] = y
  BY <1>1, <1>5
<1>7. Len(t) = Len(u) /\ \A d \in 1..Len(t) : t[d] = u[d]
  BY <1>1, <1>6
<1>8. t = u
  BY <1>1, <1>5, <1>7, Same
<1> QED BY <1>2, <1>3, <1>8 DEF s, t

\* Shapes of one and two axes.
LEMMA Pair ==
  ASSUME NEW p \in Nat, NEW c \in Nat
  PROVE  /\ <<p>> \in Seq(Nat) /\ Len(<<p>>) = 1 /\ Prod(<<p>>) = p
         /\ <<p, c>> \in Seq(Nat) /\ Len(<<p, c>>) = 2 /\ Prod(<<p, c>>) = p * c /\ p * c \in Nat
         /\ <<p, c>> = <<p>> \o <<c>> /\ <<p>> = Append(<<>>, p) /\ <<p, c>> = Append(<<p>>, c)
<1>1. <<p>> = Append(<<>>, p) /\ <<p, c>> = Append(<<p>>, c) /\ <<>> \in Seq(Int) /\ <<p>> \in Seq(Int)
  OBVIOUS
<1>2. <<p, c>> = <<p>> \o <<c>>
  <2>1. Len(<<p>> \o <<c>>) = 2 /\ (<<p>> \o <<c>>)[1] = p /\ (<<p>> \o <<c>>)[2] = c /\ <<p>> \o <<c>> \in Seq(Nat)
    BY ConcatProperties
  <2> DEFINE s == <<p>> \o <<c>>
             t == <<p, c>>
  <2>2. s \in Seq(Nat) /\ t \in Seq(Nat) /\ Len(s) = 2 /\ Len(t) = 2 /\ s[1] = t[1] /\ s[2] = t[2]
    BY <2>1
  <2> HIDE DEF s, t
  <2>3. s = t
    BY <2>2, Same
  <2> QED BY <2>3 DEF s, t
<1> DEFINE e == <<>>
           s == <<p>>
<1>3. e \in Seq(Int) /\ s \in Seq(Int) /\ s = Append(e, p) /\ <<p, c>> = Append(s, c) /\ Prod(e) = 1
      /\ p \in Int /\ c \in Int
  BY <1>1, ProdEmpty
<1>4. Prod(s) = p /\ Prod(<<p, c>>) = p * c
  <2> HIDE DEF e, s
  <2>1. Prod(s) = 1 * p
    BY <1>3, ProdAppend
  <2>2. Prod(<<p, c>>) = Prod(s) * c
    BY <1>3, ProdAppend
  <2> QED BY <2>1, <2>2
<1>5. p * c \in Nat
  BY Products
<1> QED BY <1>1, <1>2, <1>4, <1>5

\* The place of an index of one axis,
LEMMA OnePlace ==
  ASSUME NEW p \in Nat, NEW i \in Int
  PROVE  Place(<<p>>, <<i>>) = i
<1> DEFINE e == <<>>
           s == <<p>>
           t == <<i>>
<1>1. e \in Seq(Int) /\ Len(e) = Len(e) /\ p \in Int
  OBVIOUS
<1>2. s = Append(e, p) /\ t = Append(e, i)
  BY Two
<1>3. Place(e, e) = 0
  BY PlaceEmpty
<1> HIDE DEF e, s, t
<1>4. Place(Append(e, p), Append(e, i)) = Place(e, e) * p + i
  BY <1>1, PlaceAppend
<1>5. Place(s, t) = i
  BY <1>2, <1>3, <1>4
<1> QED BY <1>5 DEF s, t

\* and of two.
LEMMA PairPlace ==
  ASSUME NEW p \in Nat, NEW c \in Nat, NEW i \in Int, NEW j \in Int
  PROVE  Place(<<p, c>>, <<i, j>>) = i * c + j
<1> DEFINE s == <<p>>
           t == <<i>>
<1>1. s \in Seq(Int) /\ t \in Seq(Int) /\ Len(t) = Len(s) /\ c \in Int
  OBVIOUS
<1>2. <<p, c>> = Append(s, c) /\ <<i, j>> = Append(t, j)
  BY Two
<1>3. Place(s, t) = i
  BY OnePlace
<1> HIDE DEF s, t
<1>4. Place(Append(s, c), Append(t, j)) = Place(s, t) * c + j
  BY <1>1, PlaceAppend
<1> QED BY <1>2, <1>3, <1>4

\* The index of a position in a table is its row and its column.
LEMMA PairCoord ==
  ASSUME NEW p \in Nat, NEW c \in Nat, NEW k \in 0..(p * c - 1)
  PROVE  /\ p \in Pos /\ c \in Pos
         /\ k \div c \in 0..(p - 1) /\ k % c \in 0..(c - 1) /\ k = (k \div c) * c + (k % c)
         /\ Coord(<<p, c>>, k) = <<k \div c, k % c>>
<1>1. p \in Pos /\ c \in Pos
  <2>1. p * c # 0
    <3> DEFINE m == p * c
    <3>1. m \in Nat
      BY Products
    <3>2. m # 0
      <4> HIDE DEF m
      <4>1. k \in 0..(m - 1)
        BY DEF m
      <4> QED BY <3>1, <4>1
    <3> QED BY <3>2
  <2> QED BY <2>1 DEF Pos
<1>2. k \in Nat /\ k < p * c
  <2> DEFINE m == p * c
  <2>1. m \in Nat /\ k \in 0..(m - 1)
    BY Products
  <2> HIDE DEF m
  <2>2. k \in Nat /\ k < m
    BY <2>1
  <2> QED BY <2>2 DEF m
<1>3. k \div c \in 0..(p - 1)
  BY <1>1, <1>2, QuotientIn
<1>4. k % c \in 0..(c - 1) /\ k = (k \div c) * c + (k % c) /\ k \div c \in Nat
  BY <1>1, <1>2, Parts
<1>5. <<p>> \in Seq(Pos) /\ <<>> \in Seq(Pos) /\ <<p>> = Append(<<>>, p) /\ <<p, c>> = Append(<<p>>, c)
  BY <1>1
<1>6. Coord(<<>>, (k \div c) \div p) = <<>>
  <2>1. DOMAIN <<>> = {}
    OBVIOUS
  <2>2. Coord(<<>>, (k \div c) \div p) = [d \in {} |-> 0]
    BY <2>1 DEF Coord
  <2>3. <<>> = [d \in {} |-> 0]
    BY <2>1
  <2> QED BY <2>2, <2>3
<1>7. Coord(<<p>>, k \div c) = <<(k \div c) % p>>
  <2> DEFINE j == k \div c
  <2>1. j \in Nat
    BY <1>4
  <2> HIDE DEF j
  <2>2. Coord(Append(<<>>, p), j) = Append(Coord(<<>>, j \div p), j % p)
    BY <1>1, <1>5, <2>1, CoordAppend
  <2> QED BY <1>5, <1>6, <2>2 DEF j
<1>8. (k \div c) % p = k \div c
  BY <1>1, <1>3 DEF Pos
<1>9. Coord(Append(<<p>>, c), k) = Append(Coord(<<p>>, k \div c), k % c)
  BY <1>1, <1>2, <1>5, CoordAppend
<1>10. Append(<<k \div c>>, k % c) = <<k \div c, k % c>>
  <2> DEFINE x == k \div c
             y == k % c
  <2>1. x \in Int /\ y \in Int
    BY <1>4
  <2> HIDE DEF x, y
  <2>2. Append(<<x>>, y) = <<x, y>>
    BY <2>1, Two
  <2> QED BY <2>2 DEF x, y
<1> QED BY <1>1, <1>3, <1>4, <1>5, <1>7, <1>8, <1>9, <1>10

\* A sequence is all but its last element, and that one.
LEMMA FrontLast ==
  ASSUME NEW S, NEW s \in Seq(S), s # <<>>
  PROVE  /\ Front(s) \in Seq(S) /\ Len(Front(s)) = Len(s) - 1 /\ Last(s) \in S
         /\ s = Append(Front(s), Last(s)) /\ Len(s) \in Nat \ {0}
<1> DEFINE m == Len(s) - 1
           f == SubSeq(s, 0 + 1, 0 + m)
<1>1. m \in Nat /\ 0 + m <= Len(s) /\ Len(s) = m + 1 /\ m + 1 \in 1..Len(s)
  BY EmptySeq, LenProperties
<1>2. Front(s) = f /\ Last(s) = s[m + 1]
  BY <1>1 DEF Front, Last
<1> HIDE DEF m
<1>3. f \in Seq(S) /\ Len(f) = m /\ \A d \in 1..m : f[d] = s[0 + d]
  BY <1>1, PartOf
<1> HIDE DEF f
<1>4. s[m + 1] \in S
  BY <1>1, ElementOfSeq
<1>5. Append(f, s[m + 1]) \in Seq(S) /\ Len(Append(f, s[m + 1])) = m + 1
      /\ (\A d \in 1..m : Append(f, s[m + 1])[d] = f[d]) /\ Append(f, s[m + 1])[m + 1] = s[m + 1]
  BY <1>1, <1>3, <1>4, AppendProperties
<1>6. ASSUME NEW d \in 1..Len(s) PROVE s[d] = Append(f, s[m + 1])[d]
  <2>1. CASE d = m + 1
    BY <1>5, <2>1
  <2>2. CASE d # m + 1
    <3>1. d \in 1..m /\ 0 + d = d
      BY <1>1, <2>2
    <3> QED BY <1>3, <1>5, <3>1
  <2> QED BY <2>1, <2>2
<1>7. s = Append(f, s[m + 1])
  BY <1>1, <1>5, <1>6, Same
<1> QED BY <1>1, <1>2, <1>3, <1>4, <1>7

\* A shape and its first axes.
LEMMA Leading ==
  ASSUME NEW s \in Seq(Nat), NEW w \in 1..Len(s)
  PROVE  /\ SubSeq(s, 1, w) \in Seq(Nat) /\ Len(SubSeq(s, 1, w)) = w
         /\ \A d \in 1..w : SubSeq(s, 1, w)[d] = s[d]
         /\ SubSeq(s, w + 1, Len(s)) \in Seq(Nat)
         /\ s = SubSeq(s, 1, w) \o SubSeq(s, w + 1, Len(s))
<1> DEFINE k == Len(s) - w
           p == SubSeq(s, 0 + 1, 0 + w)
           q == SubSeq(s, w + 1, w + k)
<1>1. k \in Nat /\ w \in Nat /\ 0 + w <= Len(s) /\ w + k <= Len(s) /\ w + k = Len(s) /\ 0 + w = w /\ 0 + 1 = 1
  BY LenProperties
<1> HIDE DEF k
<1>2. p \in Seq(Nat) /\ Len(p) = w /\ \A d \in 1..w : p[d] = s[0 + d]
  BY <1>1, PartOf
<1>3. q \in Seq(Nat) /\ Len(q) = k /\ \A d \in 1..k : q[d] = s[w + d]
  BY <1>1, PartOf
<1>4. p = SubSeq(s, 1, w) /\ q = SubSeq(s, w + 1, Len(s))
  BY <1>1
<1> HIDE DEF p, q
<1>5. p \o q \in Seq(Nat) /\ Len(p \o q) = w + k
      /\ \A d \in 1..(w + k) : (p \o q)[d] = IF d <= w THEN p[d] ELSE q[d - w]
  <2>1. /\ p \o q \in Seq(Nat) /\ Len(p \o q) = Len(p) + Len(q)
        /\ \A d \in 1..(Len(p) + Len(q)) : (p \o q)[d] = IF d <= Len(p) THEN p[d] ELSE q[d - Len(p)]
    BY <1>2, <1>3, ConcatProperties
  <2> QED BY <1>2, <1>3, <2>1
<1>6. ASSUME NEW d \in 1..Len(s) PROVE s[d] = (p \o q)[d]
  <2>1. CASE d <= w
    <3>1. d \in 1..w /\ 0 + d = d /\ d \in 1..(w + k)
      BY <1>1, <2>1
    <3> QED BY <1>2, <1>5, <2>1, <3>1
  <2>2. CASE ~(d <= w)
    <3>1. d - w \in 1..k /\ w + (d - w) = d /\ d \in 1..(w + k)
      BY <1>1, <2>2
    <3> QED BY <1>3, <1>5, <2>2, <3>1
  <2> QED BY <2>1, <2>2
<1>7. s = p \o q
  BY <1>1, <1>5, <1>6, Same
<1>8. \A d \in 1..w : 0 + d = d
  BY <1>1
<1> QED BY <1>2, <1>3, <1>4, <1>7, <1>8

\* A view keeps the elements, if it keeps their number.
LEMMA Reshaped ==
  ASSUME NEW t, t = [shape |-> t.shape, data |-> t.data], t # Fail,
         NEW s \in Seq(Nat), Prod(s) = Prod(t.shape)
  PROVE  Reshape(t, s) = [shape |-> s, data |-> t.data]
<1> DEFINE known == Prod([i \in DOMAIN s |-> IF s[i] = -1 THEN 1 ELSE s[i]])
           full == [i \in DOMAIN s |-> IF s[i] # -1 THEN s[i]
                                       ELSE IF known = 0 THEN 0 ELSE SizeOf(t) \div known]
<1>1. Reshape(t, s) = IF t = Fail \/ Prod(full) # SizeOf(t) THEN Fail ELSE [t EXCEPT !.shape = full]
  BY DEF Reshape
<1>2. \A i \in DOMAIN s : s[i] \in Nat
  BY LenProperties, ElementOfSeq
<1>3. full = [i \in DOMAIN s |-> s[i]]
  <2> HIDE DEF known
  <2> QED BY <1>2
<1>4. s = [i \in DOMAIN s |-> s[i]]
  BY LenProperties
<1>5. full = s
  BY <1>3, <1>4
<1> HIDE DEF full
<1> QED BY <1>1, <1>5 DEF SizeOf

\* An element of an array built by Tensor, and its elements in order.
LEMMA PlaceOf ==
  ASSUME NEW s \in Seq(Nat), NEW i \in Box(s)
  PROVE  /\ 1 + Place(s, i) \in 1..Prod(s) /\ Coord(s, (1 + Place(s, i)) - 1) = i
<1>1. Place(s, i) \in 0..(Prod(s) - 1) /\ Prod(s) \in Nat
  BY PlaceIn, ProdNat
<1>2. (1 + Place(s, i)) - 1 = Place(s, i)
  BY <1>1
<1> QED BY <1>1, <1>2, CoordPlace
-----------------------------------------------------------------------------
(* A table combined with a row, and the rows tuples of indices name. *)

\* Functions on 1..2 and 1..1 written as tuples.
LEMMA PlainTuples ==
  ASSUME NEW i \in Int, NEW j \in Int
  PROVE  /\ \A f : f = [a \in 1..2 |-> IF a = 1 THEN i ELSE j] => f = <<i, j>>
         /\ \A f : f = [a \in 1..1 |-> i] => f = <<i>>
<1>1. <<i, j>> = [a \in 1..2 |-> IF a = 1 THEN i ELSE j]
  OBVIOUS
<1>2. <<i>> = [a \in 1..1 |-> i]
  OBVIOUS
<1> QED BY <1>1, <1>2

\* Sequences of up to two elements, written out.
LEMMA Spelled ==
  ASSUME NEW s \in Seq(Int), NEW x \in Int, NEW y \in Int
  PROVE  /\ Len(s) = 0 => s = <<>>
         /\ Len(s) = 1 /\ s[1] = x => s = <<x>>
         /\ Len(s) = 2 /\ s[1] = x /\ s[2] = y => s = <<x, y>>
<1> DEFINE t == <<x>>
           u == <<x, y>>
<1>1. t \in Seq(Int) /\ Len(t) = 1 /\ t[1] = x /\ u \in Seq(Int) /\ Len(u) = 2 /\ u[1] = x /\ u[2] = y
  OBVIOUS
<1> HIDE DEF t, u
<1>2. Len(s) = 0 => s = <<>>
  BY EmptySeq
<1>3. ASSUME Len(s) = 1, s[1] = x PROVE s = t
  <2>1. \A d \in 1..Len(s) : s[d] = t[d]
    BY <1>1, <1>3
  <2> QED BY <1>1, <1>3, <2>1, Same
<1>4. ASSUME Len(s) = 2, s[1] = x, s[2] = y PROVE s = u
  <2>1. \A d \in 1..Len(s) : s[d] = u[d]
    BY <1>1, <1>4
  <2> QED BY <1>1, <1>4, <2>1, Same
<1> QED BY <1>2, <1>3, <1>4 DEF t, u

\* The parts of a tuple of up to two.
LEMMA PairParts ==
  ASSUME NEW x \in Int, NEW y \in Int
  PROVE  /\ SubSeq(<<x>>, 1, 2 - 1) = <<x>> /\ SubSeq(<<x>>, 2, Len(<<x>>)) = <<>> /\ <<x>> \o <<>> = <<x>>
         /\ SubSeq(<<x, y>>, 1, 2 - 1) = <<x>> /\ SubSeq(<<x, y>>, 2 + 1, Len(<<x, y>>)) = <<>>
         /\ SubSeq(<<x, y>>, 1, 1 - 1) = <<>> /\ SubSeq(<<x, y>>, 1 + 1, Len(<<x, y>>)) = <<y>>
         /\ <<x>> \o <<y>> \o <<>> = <<x, y>> /\ <<>> \o <<x>> \o <<y>> = <<x, y>>
<1> DEFINE s == <<x>>
           t == <<x, y>>
           u == <<y>>
           v == s \o u
<1>1. /\ s \in Seq(Int) /\ Len(s) = 1 /\ s[1] = x
      /\ t \in Seq(Int) /\ Len(t) = 2 /\ t[1] = x /\ t[2] = y
      /\ u \in Seq(Int) /\ Len(u) = 1 /\ u[1] = y
  OBVIOUS
<1> HIDE DEF s, t, u
<1>2. v \in Seq(Int) /\ Len(v) = 2 /\ v[1] = x /\ v[2] = y
  <2>1. v \in Seq(Int) /\ Len(v) = Len(s) + Len(u)
        /\ \A i \in 1..(Len(s) + Len(u)) : v[i] = IF i <= Len(s) THEN s[i] ELSE u[i - Len(s)]
    <3>1. s \in Seq(Int) /\ u \in Seq(Int)
      BY <1>1
    <3> QED BY <3>1, ConcatProperties
  <2> HIDE DEF v
  <2> QED BY <1>1, <2>1
<1> HIDE DEF v
<1>3. v = <<x, y>>
  BY <1>2, Spelled
<1>4. s \o <<>> = s /\ v \o <<>> = v /\ <<>> \o s = s
  BY <1>1, <1>2, ConcatEmptySeq
<1> DEFINE S0 == SubSeq(s, 0 + 1, 0 + 1)
           S1 == SubSeq(s, 1 + 1, 1 + 0)
           T0 == SubSeq(t, 0 + 1, 0 + 1)
           T1 == SubSeq(t, 1 + 1, 1 + 1)
           T2 == SubSeq(t, 2 + 1, 2 + 0)
           T3 == SubSeq(t, 0 + 1, 0 + 0)
<1>5. S0 \in Seq(Int) /\ Len(S0) = 1 /\ S0[1] = x
  <2>1. S0 \in Seq(Int) /\ Len(S0) = 1 /\ \A d \in 1..1 : S0[d] = s[0 + d]
    BY <1>1, PartOf
  <2> QED BY <1>1, <2>1
<1>6. S1 \in Seq(Int) /\ Len(S1) = 0
  BY <1>1, PartOf
<1>7. T0 \in Seq(Int) /\ Len(T0) = 1 /\ T0[1] = x
  <2>1. T0 \in Seq(Int) /\ Len(T0) = 1 /\ \A d \in 1..1 : T0[d] = t[0 + d]
    BY <1>1, PartOf
  <2> QED BY <1>1, <2>1
<1>8. T1 \in Seq(Int) /\ Len(T1) = 1 /\ T1[1] = y
  <2>1. T1 \in Seq(Int) /\ Len(T1) = 1 /\ \A d \in 1..1 : T1[d] = t[1 + d]
    BY <1>1, PartOf
  <2> QED BY <1>1, <2>1
<1>9. T2 \in Seq(Int) /\ Len(T2) = 0 /\ T3 \in Seq(Int) /\ Len(T3) = 0
  BY <1>1, PartOf
<1> HIDE DEF S0, S1, T0, T1, T2, T3
<1>10. S0 = <<x>> /\ S1 = <<>> /\ T0 = <<x>> /\ T1 = <<y>> /\ T2 = <<>> /\ T3 = <<>>
  BY <1>5, <1>6, <1>7, <1>8, <1>9, Spelled
<1>11. /\ S0 = SubSeq(s, 1, 2 - 1) /\ S1 = SubSeq(s, 2, Len(s))
       /\ T0 = SubSeq(t, 1, 2 - 1) /\ T1 = SubSeq(t, 1 + 1, Len(t))
       /\ T2 = SubSeq(t, 2 + 1, Len(t)) /\ T3 = SubSeq(t, 1, 1 - 1)
  BY <1>1 DEF S0, S1, T0, T1, T2, T3
<1> QED BY <1>3, <1>4, <1>10, <1>11 DEF s, t, u, v

\* An array of two axes spread over a table: an extent of one is repeated.
SpreadOver(t, p, w) ==
  LET b == BroadcastTo(t, <<p, w>>)
      x == t.shape[1]
      y == t.shape[2]
      from(k) == 1 + ((IF x = 1 THEN 0 ELSE (k - 1) \div w) * y + (IF y = 1 THEN 0 ELSE (k - 1) % w))
  IN /\ t # Fail /\ b # Fail /\ b.shape = <<p, w>> /\ DOMAIN b.data = 1..(p * w)
     /\ \A k \in 1..(p * w) : b.data[k] = t.data[from(k)]

\* An array of two axes is spread over a table its extents fit.
LEMMA PairSpread ==
  ASSUME NEW p \in Nat, NEW w \in Nat, NEW t, t.shape \in Seq(Nat), Len(t.shape) = 2,
         t.shape[1] \in {1, p}, t.shape[2] \in {1, w}
  PROVE  SpreadOver(t, p, w)
<1> DEFINE s == <<p, w>>
           x == t.shape[1]
           y == t.shape[2]
           lead == Len(s) - Rank(t)
           Value(idx) == At(t, [a \in 1..Rank(t) |-> IF t.shape[a] = 1 THEN 0 ELSE idx[lead + a]])
           b == BroadcastTo(t, s)
           from(k) == 1 + ((IF x = 1 THEN 0 ELSE (k - 1) \div w) * y + (IF y = 1 THEN 0 ELSE (k - 1) % w))
<1>1. s \in Seq(Nat) /\ Len(s) = 2 /\ Prod(s) = p * w /\ p * w \in Nat /\ s[1] = p /\ s[2] = w
  BY Pair DEF Pos
<1>2. Rank(t) = 2 /\ t # Fail /\ t.shape[1] = x /\ t.shape[2] = y /\ x \in Nat /\ y \in Nat
      /\ t.shape = <<x, y>> /\ x \in {1, p} /\ y \in {1, w}
  <2>1. x \in Nat /\ y \in Nat
    BY DEF Pos
  <2>2. t # Fail
    BY NotFail
  <2>3. t.shape = <<x, y>>
    <3>1. t.shape \in Seq(Int) /\ x \in Int /\ y \in Int
      BY <2>1, Wider
    <3> QED BY <3>1, Spelled
  <2> QED BY <2>1, <2>2, <2>3 DEF Rank
<1> HIDE DEF x, y
<1>3. b = Tensor(s, Value)
  <2>1. lead = 0 /\ ~(lead < 0) /\ Rank(t) = 2
    BY <1>1, <1>2
  <2>2. \A a \in 1..Rank(t) : t.shape[a] \in {1, s[lead + a]}
    BY <1>1, <1>2, <2>1
  <2> HIDE DEF s
  <2> QED BY <1>2, <2>1, <2>2 DEF BroadcastTo, Tensor
<1>4. ASSUME NEW k \in 1..(p * w) PROVE Value(Coord(s, k - 1)) = t.data[from(k)]
  <2> DEFINE i == (k - 1) \div w
             j == (k - 1) % w
             u == IF x = 1 THEN 0 ELSE i
             v == IF y = 1 THEN 0 ELSE j
             c == [a \in 1..Rank(t) |-> IF t.shape[a] = 1 THEN 0 ELSE <<i, j>>[lead + a]]
  <2>1. k - 1 \in 0..(p * w - 1) /\ p \in Nat /\ w \in Nat
    <3> DEFINE m == p * w
    <3>1. m \in Nat /\ k \in 1..m
      BY <1>1
    <3> HIDE DEF m
    <3>2. k - 1 \in 0..(m - 1)
      BY <3>1
    <3> QED BY <3>2 DEF m, Pos
  <2>2. i \in 0..(p - 1) /\ j \in 0..(w - 1) /\ Coord(s, k - 1) = <<i, j>>
    <3> DEFINE h == k - 1
    <3> HIDE DEF h
    <3>1. h \in 0..(p * w - 1)
      BY <2>1 DEF h
    <3>2. h \div w \in 0..(p - 1) /\ h % w \in 0..(w - 1) /\ Coord(<<p, w>>, h) = <<h \div w, h % w>>
      BY <2>1, <3>1, PairCoord
    <3> QED BY <3>2 DEF h
  <2>3. c = [a \in 1..2 |-> IF a = 1 THEN u ELSE v]
    <3>1. lead = 0
      BY <1>1, <1>2
    <3> HIDE DEF lead, i, j
    <3>2. ASSUME NEW a \in 1..2
          PROVE  (IF t.shape[a] = 1 THEN 0 ELSE <<i, j>>[lead + a]) = IF a = 1 THEN u ELSE v
      BY <1>2, <2>1, <2>2, <3>1
    <3> QED BY <1>2, <3>2
  <2>4. u \in Int /\ v \in Int
    <3> HIDE DEF i, j
    <3> QED BY <2>1, <2>2
  <2> HIDE DEF c
  <2>5. c = <<u, v>>
    <3> HIDE DEF u, v
    <3> QED BY <2>3, <2>4, PlainTuples
  <2>6. Place(<<x, y>>, <<u, v>>) = u * y + v
    <3> HIDE DEF u, v
    <3> QED BY <1>2, <2>4, PairPlace
  <2>7. Value(Coord(s, k - 1)) = At(t, c)
    BY <2>2 DEF c
  <2> HIDE DEF u, v, Value
  <2>8. At(t, c) = t.data[1 + (u * y + v)]
    BY <1>2, <2>5, <2>6 DEF At
  <2> QED BY <2>7, <2>8 DEF u, v
<1>5. b.shape = s /\ b.data = [k \in 1..(p * w) |-> t.data[from(k)]]
  <2> HIDE DEF s, Value, from
  <2> QED BY <1>1, <1>3, <1>4 DEF Tensor
<1> HIDE DEF b, s, from
<1>6. b # Fail
  BY <1>1, <1>5, NotFail
<1>7. t # Fail /\ b # Fail /\ b.shape = s /\ DOMAIN b.data = 1..(p * w)
      /\ \A k \in 1..(p * w) : b.data[k] = t.data[from(k)]
  BY <1>2, <1>5, <1>6
<1> QED BY <1>7 DEF SpreadOver, b, s, from, x, y

\* A table spread over its own shape keeps its elements.
LEMMA TableSpread ==
  ASSUME NEW p \in Pos, NEW w \in Pos, NEW t, t.shape = <<p, w>>
  PROVE  LET b == BroadcastTo(t, <<p, w>>)
         IN /\ t # Fail /\ b # Fail /\ b.shape = <<p, w>> /\ DOMAIN b.data = 1..(p * w)
            /\ \A k \in 1..(p * w) : b.data[k] = t.data[k]
<1> DEFINE b == BroadcastTo(t, <<p, w>>)
           x == t.shape[1]
           y == t.shape[2]
           from(k) == 1 + ((IF x = 1 THEN 0 ELSE (k - 1) \div w) * y + (IF y = 1 THEN 0 ELSE (k - 1) % w))
<1>1. t # Fail /\ b # Fail /\ b.shape = <<p, w>> /\ DOMAIN b.data = 1..(p * w)
      /\ \A k \in 1..(p * w) : b.data[k] = t.data[from(k)]
  <2>1. t.shape \in Seq(Nat) /\ Len(t.shape) = 2 /\ t.shape[1] = p /\ t.shape[2] = w
    BY Pair DEF Pos
  <2>2. p \in Nat /\ w \in Nat
    BY DEF Pos
  <2>3. SpreadOver(t, p, w)
    BY <2>1, <2>2, PairSpread
  <2> QED BY <2>3 DEF SpreadOver
<1>2. ASSUME NEW k \in 1..(p * w) PROVE from(k) = k
  <2> DEFINE h == k - 1
             m == p * w
             i == h \div w
             j == h % w
  <2>1. h \in 0..(m - 1) /\ k = 1 + h /\ p \in Nat /\ w \in Nat
    <3>1. m \in Nat /\ k \in 1..m /\ p \in Nat /\ w \in Nat
      BY Products DEF Pos
    <3> HIDE DEF m
    <3> QED BY <3>1
  <2> HIDE DEF h
  <2>2. i \in 0..(p - 1) /\ j \in 0..(w - 1) /\ h = i * w + j
    BY <2>1, PairCoord
  <2> HIDE DEF i, j
  <2>3. (IF p = 1 THEN 0 ELSE i) = i /\ (IF w = 1 THEN 0 ELSE j) = j
    BY <2>1, <2>2
  <2>4. x = p /\ y = w
    OBVIOUS
  <2> HIDE DEF x, y
  <2>5. from(k) = 1 + ((IF p = 1 THEN 0 ELSE i) * w + (IF w = 1 THEN 0 ELSE j))
    BY <2>4 DEF i, j, h
  <2> QED BY <2>1, <2>2, <2>3, <2>5
<1> HIDE DEF b, from
<1> QED BY <1>1, <1>2 DEF b

\* A vector is repeated on every row.
LEMMA RowSpread ==
  ASSUME NEW p \in Pos, NEW w \in Pos, NEW d, Len(d) = w
  PROVE  LET b == BroadcastTo(Vector(d), <<p, w>>)
         IN /\ Vector(d) # Fail /\ b # Fail /\ b.shape = <<p, w>> /\ DOMAIN b.data = 1..(p * w)
            /\ \A k \in 1..(p * w) : b.data[k] = d[1 + ((k - 1) % w)]
<1> DEFINE s == <<p, w>>
           t == Vector(d)
           lead == Len(s) - Rank(t)
           Value(idx) == At(t, [a \in 1..Rank(t) |-> IF t.shape[a] = 1 THEN 0 ELSE idx[lead + a]])
           b == BroadcastTo(t, s)
<1>1. s \in Seq(Nat) /\ Len(s) = 2 /\ Prod(s) = p * w /\ p * w \in Nat /\ s[1] = p /\ s[2] = w
      /\ <<w>> \in Seq(Nat) /\ Len(<<w>>) = 1 /\ <<w>>[1] = w
  BY Pair DEF Pos
<1>2. t.shape = <<w>> /\ t.data = d /\ Rank(t) = 1 /\ t # Fail
  BY <1>1, NotFail DEF Rank, Vector
<1> HIDE DEF t
<1>3. b = Tensor(s, Value)
  <2>1. lead = 1 /\ ~(lead < 0) /\ Rank(t) = 1
    BY <1>1, <1>2
  <2>2. \A a \in 1..Rank(t) : t.shape[a] = s[lead + a]
    BY <1>1, <1>2, <2>1
  <2> HIDE DEF s
  <2> QED BY <1>2, <2>1, <2>2 DEF BroadcastTo, Tensor
<1>4. ASSUME NEW k \in 1..(p * w) PROVE Value(Coord(s, k - 1)) = d[1 + ((k - 1) % w)]
  <2> DEFINE i == (k - 1) \div w
             j == (k - 1) % w
             c == [a \in 1..Rank(t) |-> IF t.shape[a] = 1 THEN 0 ELSE <<i, j>>[lead + a]]
  <2>1. k - 1 \in 0..(p * w - 1) /\ p \in Nat /\ w \in Nat /\ k \in Nat
    <3> DEFINE m == p * w
    <3>1. m \in Nat /\ k \in 1..m
      BY <1>1
    <3> HIDE DEF m
    <3>2. k - 1 \in 0..(m - 1) /\ k \in Nat
      BY <3>1
    <3> QED BY <3>2 DEF m, Pos
  <2>2. i \in 0..(p - 1) /\ j \in 0..(w - 1) /\ Coord(s, k - 1) = <<i, j>>
    <3> DEFINE h == k - 1
    <3> HIDE DEF h
    <3>1. h \in 0..(p * w - 1)
      BY <2>1 DEF h
    <3>2. h \div w \in 0..(p - 1) /\ h % w \in 0..(w - 1)
          /\ Coord(<<p, w>>, h) = <<h \div w, h % w>>
      BY <2>1, <3>1, PairCoord
    <3> QED BY <3>2 DEF h
  <2> HIDE DEF i, j
  <2>3. c = [a \in 1..1 |-> j]
    <3>1. lead = 1
      BY <1>1, <1>2
    <3> HIDE DEF lead
    <3>2. ASSUME NEW a \in 1..1
          PROVE  (IF t.shape[a] = 1 THEN 0 ELSE <<i, j>>[lead + a]) = j
      BY <1>1, <1>2, <2>1, <2>2, <3>1
    <3> QED BY <1>2, <3>2
  <2> HIDE DEF c
  <2>4. c = <<j>>
    BY <2>2, <2>3, PlainTuples
  <2>5. Place(<<w>>, <<j>>) = j
    <3>1. j \in Int
      BY <2>1, <2>2
    <3> QED BY <2>1, <3>1, OnePlace
  <2> QED BY <1>2, <2>2, <2>4, <2>5 DEF At, c, j
<1>5. b.shape = s /\ b.data = [k \in 1..(p * w) |-> d[1 + ((k - 1) % w)]]
  <2> HIDE DEF s, Value
  <2> QED BY <1>1, <1>3, <1>4 DEF Tensor
<1> HIDE DEF b, s
<1>6. b # Fail
  BY <1>1, <1>5, NotFail
<1> QED BY <1>2, <1>5, <1>6 DEF b, s, t

\* A table and a row of its width have the shape of the table.
LEMMA TableShape ==
  ASSUME NEW p \in Pos, NEW w \in Pos, NEW d, Len(d) = w
  PROVE  Broadcast(<<p, w>>, Vector(d).shape) = <<p, w>>
<1> DEFINE s == <<p, w>>
           t == <<w>>
           ext(u, i) == IF i > 2 - Len(u) THEN u[i - (2 - Len(u))] ELSE 1
           f == [i \in 1..2 |-> IF ext(s, i) = 1 THEN ext(t, i) ELSE ext(s, i)]
<1>1. Vector(d).shape = t
  BY DEF Vector
<1>2. Len(s) = 2 /\ Len(t) = 1 /\ Larger(Len(s), Len(t)) = 2
  BY DEF Larger
<1>3. Broadcast(s, t) = f
  <2> HIDE DEF s, t
  <2> QED BY <1>2 DEF Broadcast
<1>4. s[1] = p /\ s[2] = w /\ t[1] = w
  OBVIOUS
<1>5. f = [i \in 1..2 |-> IF i = 1 THEN p ELSE w]
  <2>1. ASSUME NEW i \in 1..2
        PROVE  (IF ext(s, i) = 1 THEN ext(t, i) ELSE ext(s, i)) = IF i = 1 THEN p ELSE w
    <3> HIDE DEF s, t
    <3>1. ext(s, i) = s[i] /\ ext(t, i) = IF i = 2 THEN t[1] ELSE 1
      BY <1>2
    <3> QED BY <1>4, <3>1
  <2> QED BY <2>1
<1>6. f = <<p, w>>
  <2> HIDE DEF f
  <2> QED BY <1>5, PlainTuples DEF Pos
<1> QED BY <1>1, <1>3, <1>6

\* The m-th tuple of an index array.
Entry(index, dims, m) == [j \in 1..Len(dims) |-> Wrapped(index.data[(m - 1) * Len(dims) + j], dims[j])]

HoldsTuples(index, dims, p) ==
  /\ index = [shape |-> index.shape, data |-> index.data] /\ index # Fail
  /\ Prod(Front(index.shape)) = p /\ Prod(index.shape) = p * Len(dims)
  /\ \A k \in 1..(p * Len(dims)) : Wrapped(index.data[k], dims[1 + ((k - 1) % Len(dims))]) \in Nat

\* The row a tuple of indices names is the place of that tuple.
LEMMA RowsAre ==
  ASSUME NEW p \in Pos, NEW w \in Pos, NEW dims \in Seq(Nat), Len(dims) = w,
         NEW index, HoldsTuples(index, dims, p)
  PROVE  /\ TupleRows(index, dims).shape = <<p>> /\ TupleRows(index, dims) # Fail
         /\ \A m \in 1..p : /\ Entry(index, dims, m) \in Seq(Nat) /\ Len(Entry(index, dims, m)) = w
                             /\ TupleRows(index, dims).data[m] = Place(dims, Entry(index, dims, m))
<1> DEFINE s == <<p, w>>
           view == [shape |-> s, data |-> index.data]
           strides == [j \in 1..w |-> Prod(SubSeq(dims, j + 1, w))]
           wrapped == [shape |-> s, data |-> [k \in 1..(p * w) |-> Wrapped(index.data[k], dims[1 + ((k - 1) % w)])]]
           scaled == [shape |-> s, data |-> [k \in 1..(p * w) |-> wrapped.data[k] * strides[1 + ((k - 1) % w)]]]
           entry(m) == [j \in 1..w |-> Wrapped(index.data[(m - 1) * w + j], dims[j])]
           rows == TupleRows(index, dims)
<1>0. /\ index = [shape |-> index.shape, data |-> index.data] /\ index # Fail
      /\ Prod(Front(index.shape)) = p /\ Prod(index.shape) = p * w
      /\ \A k \in 1..(p * w) : Wrapped(index.data[k], dims[1 + ((k - 1) % w)]) \in Nat
  BY DEF HoldsTuples
<1>1. s \in Seq(Nat) /\ Prod(s) = p * w /\ p \in Nat /\ w \in Nat /\ p * w \in Nat /\ s[2] = w
  BY Pair DEF Pos
<1>2. Larger(1, Prod(Front(index.shape))) = p
  BY <1>0 DEF Larger, Pos
<1>3. Reshape(index, s) = view
  <2> HIDE DEF s
  <2> QED BY <1>0, <1>1, Reshaped
<1>4. Map2(LAMBDA i, d : IF i < 0 THEN i + d ELSE i, view, Vector(dims)) = wrapped
  <2> DEFINE a == BroadcastTo(view, s)
             b == BroadcastTo(Vector(dims), s)
  <2>1. view.shape = s /\ view.data = index.data
    OBVIOUS
  <2>2. Broadcast(view.shape, Vector(dims).shape) = s
    BY <2>1, TableShape
  <2> HIDE DEF view
  <2>3. view # Fail /\ a # Fail /\ DOMAIN a.data = 1..(p * w) /\ \A k \in 1..(p * w) : a.data[k] = index.data[k]
    BY <2>1, TableSpread
  <2>4. Vector(dims) # Fail /\ b # Fail /\ \A k \in 1..(p * w) : b.data[k] = dims[1 + ((k - 1) % w)]
    BY RowSpread
  <2> HIDE DEF a, b, s
  <2>5. \A k \in 1..(p * w) : (IF a.data[k] < 0 THEN a.data[k] + b.data[k] ELSE a.data[k])
                              = Wrapped(index.data[k], dims[1 + ((k - 1) % w)])
    BY <2>3, <2>4 DEF Wrapped
  <2>6. Map2(LAMBDA i, d : IF i < 0 THEN i + d ELSE i, view, Vector(dims))
        = [shape |-> s, data |-> [k \in 1..(p * w) |-> IF a.data[k] < 0 THEN a.data[k] + b.data[k] ELSE a.data[k]]]
    BY <2>2, <2>3, <2>4 DEF Map2, a, b
  <2> QED BY <2>5, <2>6
<1>5. strides \in Seq(Int) /\ Len(strides) = w /\ \A j \in 1..w : strides[j] = Prod(SubSeq(dims, j + 1, w))
  <2>1. ASSUME NEW j \in 1..w PROVE Prod(SubSeq(dims, j + 1, w)) \in Int
    <3> DEFINE k == w - j
    <3>1. j \in Nat /\ k \in Nat /\ j + k <= Len(dims) /\ j + k = w
      BY <1>1
    <3> HIDE DEF k
    <3>2. SubSeq(dims, j + 1, j + k) \in Seq(Nat)
      BY <3>1, PartOf
    <3>3. SubSeq(dims, j + 1, w) \in Seq(Nat)
      BY <3>1, <3>2
    <3>4. Prod(SubSeq(dims, j + 1, w)) \in Nat
      BY <3>3, ProdNat
    <3> QED BY <3>4
  <2>2. strides \in [1..w -> Int]
    BY <2>1
  <2> QED BY <1>1, <2>2, IsSeq
<1>6. Map2(LAMBDA i, d : i * d, wrapped, Vector(strides)) = scaled
  <2> DEFINE a == BroadcastTo(wrapped, s)
             b == BroadcastTo(Vector(strides), s)
  <2>1. wrapped.shape = s
    OBVIOUS
  <2> HIDE DEF wrapped, strides
  <2>2. Broadcast(wrapped.shape, Vector(strides).shape) = s
    BY <1>5, <2>1, TableShape
  <2>3. wrapped # Fail /\ a # Fail /\ DOMAIN a.data = 1..(p * w) /\ \A k \in 1..(p * w) : a.data[k] = wrapped.data[k]
    <3> HIDE DEF b
    <3>1. wrapped.shape = <<p, w>> /\ a = BroadcastTo(wrapped, <<p, w>>)
      BY <2>1
    <3> HIDE DEF a
    <3> QED BY <3>1, TableSpread
  <2>4. Vector(strides) # Fail /\ b # Fail /\ \A k \in 1..(p * w) : b.data[k] = strides[1 + ((k - 1) % w)]
    <3>1. Len(strides) = w
      BY <1>5
    <3> QED BY <3>1, RowSpread
  <2> HIDE DEF a, b, s
  <2>5. Map2(LAMBDA i, d : i * d, wrapped, Vector(strides))
        = [shape |-> s, data |-> [k \in 1..(p * w) |-> a.data[k] * b.data[k]]]
    BY <2>2, <2>3, <2>4 DEF Map2, a, b
  <2> QED BY <2>3, <2>4, <2>5
<1>7. rows = ReduceAxis(Total, scaled, 2)
  <2> HIDE DEF wrapped, scaled, view
  <2> QED BY <1>2, <1>3, <1>4, <1>6 DEF TupleRows
<1>8. Without(s, 2) = <<p>>
  <2>0. p \in Int /\ w \in Int
    BY <1>1
  <2>1. SubSeq(s, 1, 2 - 1) = <<p>> /\ SubSeq(s, 2 + 1, Len(s)) = <<>>
    BY <2>0, PairParts
  <2>2. <<p>> \o <<>> = <<p>>
    BY <1>1, PairParts
  <2> QED BY <2>1, <2>2 DEF Without
<1>9. ASSUME NEW m \in 1..p
      PROVE  /\ Coord(<<p>>, m - 1) = <<m - 1>>
             /\ \A j \in 1..w : (m - 1) * w + j \in 1..(p * w) /\ (((m - 1) * w + j) - 1) % w = j - 1
                               /\ 1 + ((m - 1) * w + (j - 1)) = (m - 1) * w + j
  <2> DEFINE h == m - 1
             g == h * w
  <2>1. h \in Nat /\ h < p /\ m \in Nat
    BY <1>1
  <2>2. g \in Nat /\ g + w <= p * w
    <3> HIDE DEF h
    <3> QED BY <1>1, <2>1, Products
  <2>3. Coord(<<p>>, h) = <<h>>
    <3> HIDE DEF h
    <3>1. <<p>> \in Seq(Nat) /\ <<h>> \in Seq(Nat) /\ Len(<<h>>) = Len(<<p>>) /\ Len(<<p>>) = 1 /\ <<h>>[1] = h /\ <<p>>[1] = p
      BY <1>1, <2>1
    <3>2. <<h>> \in Box(<<p>>)
      <4> DEFINE b == <<h>>
                 q == <<p>>
      <4>1. b \in Seq(Nat) /\ Len(b) = Len(q) /\ \A d \in 1..Len(q) : b[d] < q[d]
        BY <2>1, <3>1
      <4> QED BY <4>1 DEF Box
    <3>3. Coord(<<p>>, Place(<<p>>, <<h>>)) = <<h>>
      BY <3>1, <3>2, CoordPlace
    <3>4. Place(<<p>>, <<h>>) = h
      <4>1. h \in Int
        BY <2>1
      <4> QED BY <1>1, <4>1, OnePlace
    <3> QED BY <3>3, <3>4
  <2>4. ASSUME NEW j \in 1..w
        PROVE  g + j \in 1..(p * w) /\ ((g + j) - 1) % w = j - 1 /\ 1 + (g + (j - 1)) = g + j
    <3>1. j - 1 \in 0..(w - 1) /\ j \in Nat
      BY <1>1
    <3>2. (h * w + (j - 1)) % w = j - 1
      <4> DEFINE v == j - 1
      <4> HIDE DEF v, h
      <4>1. v \in 0..(w - 1)
        BY <3>1 DEF v
      <4>2. (h * w + v) % w = v
        BY <2>1, <4>1, OnlyParts
      <4> QED BY <4>2 DEF v
    <3> DEFINE x == p * w
    <3>3. g \in Nat /\ g + w <= x /\ x \in Nat
      BY <1>1, <2>2
    <3> HIDE DEF g, x
    <3>4. g + j \in 1..x /\ (g + j) - 1 = g + (j - 1) /\ 1 + (g + (j - 1)) = g + j
      BY <1>1, <3>1, <3>3
    <3> QED BY <3>2, <3>4 DEF g, x
  <2> QED BY <2>3, <2>4
<1>10. ASSUME NEW m \in 1..p
       PROVE  /\ entry(m) \in Seq(Nat) /\ Len(entry(m)) = w
              /\ Total([j \in 1..scaled.shape[2] |-> At(scaled, SubSeq(<<m - 1>>, 1, 2 - 1) \o <<j - 1>> \o SubSeq(<<m - 1>>, 2, Len(<<m - 1>>)))])
                 = Place(dims, entry(m))
  <2> DEFINE e == entry(m)
             h == m - 1
  <2>1. ASSUME NEW j \in 1..w
        PROVE  e[j] \in Nat /\ scaled.data[(m - 1) * w + j] = e[j] * Prod(SubSeq(dims, j + 1, w))
    <3> DEFINE k == (m - 1) * w + j
    <3>1. k \in 1..(p * w) /\ (k - 1) % w = j - 1
      BY <1>9
    <3>2. 1 + ((k - 1) % w) = j
      BY <1>1, <3>1
    <3> HIDE DEF k, strides
    <3>3. e[j] = Wrapped(index.data[k], dims[j])
      BY DEF k
    <3>4. Wrapped(index.data[k], dims[j]) \in Nat
      BY <1>0, <3>1, <3>2
    <3>5. scaled.data[k] = wrapped.data[k] * strides[1 + ((k - 1) % w)]
      BY <3>1
    <3>6. wrapped.data[k] = Wrapped(index.data[k], dims[1 + ((k - 1) % w)])
      BY <3>1
    <3> HIDE DEF wrapped, scaled, e
    <3> QED BY <1>5, <3>2, <3>3, <3>4, <3>5, <3>6 DEF k
  <2>2. e \in Seq(Nat) /\ Len(e) = w
    <3>1. e = [j \in 1..w |-> e[j]]
      OBVIOUS
    <3> HIDE DEF e, scaled
    <3>2. e \in [1..w -> Nat]
      BY <2>1, <3>1
    <3> QED BY <1>1, <3>2, IsSeq
  <2>3. ASSUME NEW j \in 1..w
        PROVE  At(scaled, SubSeq(<<h>>, 1, 2 - 1) \o <<j - 1>> \o SubSeq(<<h>>, 2, Len(<<h>>))) = e[j] * Prod(SubSeq(dims, j + 1, w))
    <3>1. h \in Int /\ j - 1 \in Int
      BY <1>1
    <3> DEFINE v == j - 1
    <3> HIDE DEF h, v
    <3>2. SubSeq(<<h>>, 1, 2 - 1) \o <<v>> \o SubSeq(<<h>>, 2, Len(<<h>>)) = <<h, v>>
      BY <3>1, PairParts DEF v
    <3>3. Place(s, <<h, v>>) = h * w + v
      BY <1>1, <3>1, PairPlace DEF v
    <3>4. scaled.shape = s
      OBVIOUS
    <3> HIDE DEF scaled, s, e
    <3>5. 1 + Place(s, <<h, v>>) = (m - 1) * w + j
      BY <1>9, <3>3 DEF h, v
    <3>6. At(scaled, <<h, v>>) = scaled.data[(m - 1) * w + j]
      BY <3>4, <3>5 DEF At
    <3> QED BY <2>1, <3>2, <3>6 DEF v
  <2>4. [j \in 1..scaled.shape[2] |-> At(scaled, SubSeq(<<h>>, 1, 2 - 1) \o <<j - 1>> \o SubSeq(<<h>>, 2, Len(<<h>>)))]
        = [j \in 1..w |-> e[j] * Prod(SubSeq(dims, j + 1, w))]
    <3>1. scaled.shape[2] = w
      BY <1>1
    <3> HIDE DEF scaled, e, h
    <3> QED BY <2>3, <3>1
  <2>5. Total([j \in 1..w |-> e[j] * Prod(SubSeq(dims, j + 1, w))]) = Place(dims, e)
    <3> HIDE DEF e
    <3>0. Nat \subseteq Int
      OBVIOUS
    <3>1. e \in Seq(Int) /\ Len(e) = Len(dims)
      BY <2>2, <3>0, Wider
    <3>2. Total([j \in 1..Len(dims) |-> e[j] * Prod(SubSeq(dims, j + 1, Len(dims)))]) = Place(dims, e)
      BY <3>1, PlaceTotal
    <3> QED BY <3>2
  <2> QED BY <2>2, <2>4, <2>5
<1>11. rows.shape = <<p>> /\ rows.data = [m \in 1..p |-> Place(dims, entry(m))]
  <2> DEFINE Value(idx) == Total([j \in 1..scaled.shape[2] |->
                                    At(scaled, SubSeq(idx, 1, 2 - 1) \o <<j - 1>> \o SubSeq(idx, 2, Len(idx)))])
             t == <<p>>
  <2>1. scaled.shape = s /\ scaled # Fail
    <3>1. scaled.shape = s
      OBVIOUS
    <3> HIDE DEF scaled
    <3> QED BY <1>1, <3>1, NotFail
  <2>2. Prod(t) = p
    BY <1>1, Pair
  <2>3. ASSUME NEW m \in 1..p PROVE Value(Coord(t, m - 1)) = Place(dims, entry(m))
    <3>1. Coord(t, m - 1) = <<m - 1>> /\ Len(<<m - 1>>) = 1
      BY <1>9
    <3> HIDE DEF scaled, entry, t
    <3> QED BY <1>10, <3>1
  <2> HIDE DEF scaled, s, t
  <2>4. rows = Tensor(t, Value)
    BY <1>1, <1>7, <1>8, <2>1 DEF ReduceAxis, Tensor, t
  <2>5. rows.shape = t /\ rows.data = [m \in 1..p |-> Value(Coord(t, m - 1))]
    <3> HIDE DEF rows, Value
    <3> QED BY <2>2, <2>4 DEF Tensor
  <2> HIDE DEF Value, entry, rows
  <2> QED BY <2>3, <2>5 DEF t
<1>12. rows # Fail
  <2>1. <<p>> \in Seq(Nat)
    BY <1>1, Pair
  <2> HIDE DEF rows
  <2> QED BY <1>11, <2>1, NotFail
<1>13. ASSUME NEW m \in 1..p PROVE Entry(index, dims, m) = entry(m)
  BY DEF Entry
<1> HIDE DEF rows
<1>14. ASSUME NEW m \in 1..p
       PROVE  /\ Entry(index, dims, m) \in Seq(Nat) /\ Len(Entry(index, dims, m)) = w
              /\ rows.data[m] = Place(dims, Entry(index, dims, m))
  <2>1. rows.data[m] = Place(dims, entry(m))
    <3> HIDE DEF entry
    <3> QED BY <1>11
  <2>2. entry(m) \in Seq(Nat) /\ Len(entry(m)) = w
    BY <1>10
  <2> HIDE DEF entry
  <2> QED BY <1>13, <2>1, <2>2
<1>15. rows.shape = <<p>> /\ rows # Fail
  BY <1>11, <1>12
<1> QED BY <1>14, <1>15 DEF rows
-----------------------------------------------------------------------------
(* GatherND. *)

\* The two parts of a concatenation.
LEMMA ConcatParts ==
  ASSUME NEW S, NEW s \in Seq(S), NEW t \in Seq(S)
  PROVE  SubSeq(s \o t, 1, Len(s)) = s /\ SubSeq(s \o t, Len(s) + 1, Len(s \o t)) = t
<1> DEFINE m == Len(s)
           k == Len(t)
           c == s \o t
           p == SubSeq(c, 0 + 1, 0 + m)
           q == SubSeq(c, m + 1, m + k)
<1>1. c \in Seq(S) /\ Len(c) = m + k /\ \A d \in 1..(m + k) : c[d] = IF d <= m THEN s[d] ELSE t[d - m]
  BY ConcatProperties
<1>2. m \in Nat /\ k \in Nat /\ 0 + m <= Len(c) /\ m + k <= Len(c)
  BY <1>1, LenProperties
<1>3. Len(s) = m /\ Len(t) = k
  OBVIOUS
<1> HIDE DEF m, k, c
<1>4. p \in Seq(S) /\ Len(p) = m /\ \A d \in 1..m : p[d] = c[0 + d]
  BY <1>1, <1>2, PartOf
<1>5. q \in Seq(S) /\ Len(q) = k /\ \A d \in 1..k : q[d] = c[m + d]
  BY <1>1, <1>2, PartOf
<1>6. p = SubSeq(c, 1, m) /\ q = SubSeq(c, m + 1, Len(c))
  BY <1>1, <1>2
<1> HIDE DEF p, q
<1>7. \A d \in 1..m : p[d] = s[d]
  BY <1>1, <1>2, <1>4
<1>8. \A d \in 1..k : q[d] = t[d]
  <2>1. ASSUME NEW d \in 1..k PROVE q[d] = t[d]
    <3>1. m + d \in 1..(m + k) /\ ~(m + d <= m) /\ (m + d) - m = d
      BY <1>2
    <3>2. q[d] = c[m + d] /\ c[m + d] = t[(m + d) - m]
      BY <1>1, <1>5, <3>1
    <3> QED BY <3>1, <3>2
  <2> QED BY <2>1
<1>9. p = s
  BY <1>3, <1>4, <1>7, Same
<1>10. q = t
  BY <1>3, <1>5, <1>8, Same
<1> QED BY <1>3, <1>6, <1>9, <1>10 DEF c

\* The tuples of the index array, as ONNX reads them, and the rows the handler computes.
LEMMA TuplesAre ==
  ASSUME NEW n, ArrayOf(n, 1), ArrayOf(n, 2), LegalTuples(n), Prod(Front(n.ins[2].shape)) # 0
  PROVE  LET F == Front(n.ins[2].shape)
             w == Last(n.ins[2].shape)
             dims == SubSeq(n.ins[1].shape, 1, w)
             rows == TupleRows(In(n, 2), dims)
         IN /\ F \in Seq(Pos) /\ F \in Seq(Nat) /\ Len(F) = Len(n.ins[2].shape) - 1 /\ Prod(F) \in Pos
            /\ w \in 1..Len(n.ins[1].shape) /\ dims \in Seq(Nat) /\ Len(dims) = w
            /\ rows.shape = <<Prod(F)>> /\ rows # Fail
            /\ \A q \in Box(F) : Tuple(n, q) \in Box(dims) /\ rows.data[1 + Place(F, q)] = Place(dims, Tuple(n, q))
<1> DEFINE s == n.ins[2].shape
           r == n.ins[1].shape
           F == Front(s)
           w == Last(s)
           dims == SubSeq(r, 1, w)
           index == In(n, 2)
           p == Prod(F)
           rows == TupleRows(index, dims)
           entry(m) == Entry(index, dims, m)
<1>1. /\ s \in Seq(Nat) /\ r \in Seq(Nat) /\ index.shape = s /\ index # Fail
      /\ index = [shape |-> index.shape, data |-> index.data] /\ DOMAIN index.data = 1..Prod(s)
      /\ index.data = n.ins[2].data
  BY Operand
<1>2. s # <<>> /\ w \in 1..Len(r)
  BY DEF LegalTuples
<1>3. \A k \in DOMAIN index.data : LET e == r[1 + ((k - 1) % w)] IN index.data[k] \in (-e)..(e - 1)
  <2> HIDE DEF index
  <2> QED BY <1>1 DEF LegalTuples
<1> HIDE DEF s, r, index
<1>4. F \in Seq(Nat) /\ Len(F) = Len(s) - 1 /\ s = Append(F, w)
  BY <1>1, <1>2, FrontLast
<1>5. dims \in Seq(Nat) /\ Len(dims) = w /\ \A d \in 1..w : dims[d] = r[d]
  BY <1>1, <1>2, Leading
<1>6. w \in Pos /\ w \in Nat /\ w \in Int
  BY <1>1, <1>2, LenProperties DEF Pos
<1>7. p \in Pos /\ F \in Seq(Pos) /\ F \in Seq(Int)
  <2>1. p # 0
    BY DEF s
  <2>2. F \in Seq(Pos)
    <3> HIDE DEF F
    <3> QED BY <1>4, <2>1, Extents
  <2>3. p \in Pos
    <3> HIDE DEF F
    <3> QED BY <2>2, ProdPositive
  <2> HIDE DEF F
  <2> QED BY <1>4, <2>2, <2>3, Wider
<1> HIDE DEF F, w, dims
<1>8. Prod(s) = p * w
  BY <1>4, <1>6, <1>7, ProdAppend
<1>9. ASSUME NEW k \in 1..(p * w)
      PROVE  Wrapped(index.data[k], dims[1 + ((k - 1) % w)]) \in 0..(dims[1 + ((k - 1) % w)] - 1)
  <2> DEFINE e == dims[1 + ((k - 1) % w)]
             x == index.data[k]
  <2>1. k - 1 \in Nat /\ k \in DOMAIN index.data
    <3> DEFINE m == p * w
    <3>1. m \in Nat /\ k \in 1..m
      BY <1>6, <1>7, Products DEF Pos
    <3> HIDE DEF m
    <3>2. k - 1 \in Nat
      BY <3>1
    <3> QED BY <1>1, <1>8, <3>2
  <2>2. (k - 1) % w \in 0..(w - 1)
    <3> DEFINE h == k - 1
    <3> HIDE DEF h
    <3>1. h % w \in 0..(w - 1)
      BY <1>6, <2>1, Parts DEF h
    <3> QED BY <3>1 DEF h
  <2>3. 1 + ((k - 1) % w) \in 1..w
    <3> DEFINE g == (k - 1) % w
    <3> HIDE DEF g
    <3>1. g \in 0..(w - 1)
      BY <2>2 DEF g
    <3>2. 1 + g \in 1..w
      BY <1>6, <3>1
    <3> QED BY <3>2 DEF g
  <2>4. e \in Nat /\ e = r[1 + ((k - 1) % w)]
    <3> DEFINE g == 1 + ((k - 1) % w)
    <3> HIDE DEF g
    <3>1. g \in 1..w
      BY <2>3 DEF g
    <3>2. dims[g] = r[g] /\ dims[g] \in Nat
      BY <1>5, <3>1, ElementOfSeq
    <3> QED BY <3>2 DEF g
  <2>5. x \in (-e)..(e - 1)
    BY <1>3, <2>1, <2>4
  <2> HIDE DEF x, e
  <2>6. Wrapped(x, e) \in 0..(e - 1)
    BY <2>4, <2>5 DEF Wrapped
  <2> QED BY <2>6 DEF x, e
<1>10. \A k \in 1..(p * w) : Wrapped(index.data[k], dims[1 + ((k - 1) % w)]) \in Nat
  <2>1. ASSUME NEW k \in 1..(p * w) PROVE Wrapped(index.data[k], dims[1 + ((k - 1) % w)]) \in Nat
    <3> DEFINE x == Wrapped(index.data[k], dims[1 + ((k - 1) % w)])
               e == dims[1 + ((k - 1) % w)]
    <3>1. x \in 0..(e - 1)
      BY <1>9
    <3> HIDE DEF x, e
    <3>2. x \in Nat
      BY <3>1
    <3> QED BY <3>2 DEF x
  <2> QED BY <2>1
<1>11. rows.shape = <<p>> /\ rows # Fail
       /\ \A m \in 1..p : entry(m) \in Seq(Nat) /\ Len(entry(m)) = w /\ rows.data[m] = Place(dims, entry(m))
  <2>1. Prod(Front(index.shape)) = p /\ Prod(index.shape) = p * w
    BY <1>1, <1>8 DEF F
  <2>2. HoldsTuples(index, dims, p)
    <3> HIDE DEF p
    <3> QED BY <1>1, <1>5, <1>10, <2>1 DEF HoldsTuples
  <2> HIDE DEF p
  <2> QED BY <1>5, <1>6, <1>7, <2>2, RowsAre
<1>12. ASSUME NEW q \in Box(F)
       PROVE  Tuple(n, q) \in Box(dims) /\ rows.data[1 + Place(F, q)] = Place(dims, Tuple(n, q))
  <2> DEFINE h == Place(F, q)
             m == 1 + h
  <2>1. q \in Seq(Int) /\ Len(q) = Len(F) /\ h \in 0..(p - 1)
    BY <1>4, BoxSeq, PlaceIn
  <2> HIDE DEF h
  <2>2. m \in 1..p /\ m - 1 = h /\ h \in Nat /\ h < p
    BY <1>7, <2>1 DEF Pos
  <2>3. ASSUME NEW j \in 1..w
        PROVE  /\ At(index, q \o <<j - 1>>) = index.data[(m - 1) * w + j]
               /\ Wrapped(index.data[(m - 1) * w + j], dims[j]) \in 0..(dims[j] - 1)
               /\ dims[j] = r[j]
    <3> DEFINE v == j - 1
               g == h * w
               x == p * w
    <3>1. v \in Int /\ v \in 0..(w - 1) /\ j = v + 1
      BY <1>6
    <3>2. g \in Nat /\ x \in Nat /\ g + w <= x
      BY <1>6, <1>7, <2>2, Products DEF Pos
    <3>3. (g + v) % w = v
      <4> HIDE DEF v
      <4> QED BY <1>6, <2>2, <3>1, OnlyParts
    <3> HIDE DEF v
    <3>4. q \o <<v>> = Append(q, v)
      BY <2>1, <3>1, AppendIsConcat
    <3>5. Place(Append(F, w), Append(q, v)) = Place(F, q) * w + v
      BY <1>6, <1>7, <2>1, <3>1, PlaceAppend
    <3>6. Place(s, q \o <<v>>) = g + v
      BY <1>4, <3>4, <3>5 DEF h
    <3> HIDE DEF g, x
    <3>7. 1 + (g + v) = g + j /\ (g + j) - 1 = g + v /\ g + j \in 1..x /\ 1 + v = j
      BY <1>6, <3>1, <3>2
    <3>8. At(index, q \o <<v>>) = index.data[g + j]
      BY <1>1, <3>6, <3>7 DEF At
    <3>9. Wrapped(index.data[g + j], dims[1 + (((g + j) - 1) % w)]) \in 0..(dims[1 + (((g + j) - 1) % w)] - 1)
      BY <1>9, <3>7 DEF x
    <3>10. ((g + j) - 1) % w = v
      BY <3>3, <3>7
    <3>11. Wrapped(index.data[g + j], dims[j]) \in 0..(dims[j] - 1)
      BY <3>7, <3>9, <3>10
    <3> QED BY <1>5, <2>2, <3>8, <3>11 DEF g, v
  <2>4. Tuple(n, q) = [j \in 1..w |-> Wrapped(At(index, q \o <<j - 1>>), r[j])]
    BY DEF Tuple, w, r, s, index
  <2>5. Tuple(n, q) = entry(m)
    <3>1. entry(m) = [j \in 1..w |-> Wrapped(index.data[(m - 1) * w + j], dims[j])]
      BY <1>5 DEF Entry
    <3> HIDE DEF m, entry
    <3> QED BY <2>3, <2>4, <3>1
  <2>6. entry(m) \in Seq(Nat) /\ Len(entry(m)) = w /\ rows.data[m] = Place(dims, entry(m))
    BY <1>11, <2>2
  <2>7. \A d \in 1..w : entry(m)[d] < dims[d]
    <3>1. ASSUME NEW d \in 1..w PROVE entry(m)[d] < dims[d]
      <4> DEFINE x == Wrapped(index.data[(m - 1) * w + d], dims[d])
                 e == dims[d]
      <4>1. entry(m)[d] = x
        BY <1>5 DEF Entry
      <4>2. x \in 0..(e - 1) /\ e \in Nat
        BY <1>5, <2>3, ElementOfSeq
      <4> HIDE DEF x, e
      <4>3. x < e
        BY <4>2
      <4> QED BY <4>1, <4>3 DEF e
    <3> QED BY <3>1
  <2> HIDE DEF entry
  <2>8. entry(m) \in Box(dims)
    BY <1>5, <2>6, <2>7 DEF Box
  <2> QED BY <2>5, <2>6, <2>8 DEF h
<1> HIDE DEF rows, entry
<1> QED BY <1>2, <1>4, <1>5, <1>7, <1>11, <1>12 DEF rows, F, w, dims, s, r, index

\* The data with its first axes folded to one, and the others to one.
LEMMA FlatRows ==
  ASSUME NEW data, data = [shape |-> data.shape, data |-> data.data], data # Fail,
         data.shape \in Seq(Nat), NEW w \in 1..Len(data.shape),
         Prod(SubSeq(data.shape, w + 1, Len(data.shape))) # 0
  PROVE  LET r == Prod(SubSeq(data.shape, 1, w))
             c == Prod(SubSeq(data.shape, w + 1, Len(data.shape)))
         IN /\ r \in Nat /\ c \in Pos /\ r * c = Prod(data.shape)
            /\ Rows(data, w) = [shape |-> <<r, c>>, data |-> data.data]
<1> DEFINE s == data.shape
           dims == SubSeq(s, 1, w)
           tail == SubSeq(s, w + 1, Len(s))
           r == Prod(dims)
           c == Prod(tail)
<1>1. dims \in Seq(Nat) /\ tail \in Seq(Nat) /\ s = dims \o tail
  BY Leading
<1> HIDE DEF dims, tail
<1>2. r \in Nat /\ c \in Nat /\ Prod(dims \o tail) = r * c
  BY <1>1, ProdNat, ProdCat
<1>3. c # 0
  BY DEF tail
<1>4. c \in Pos /\ Larger(1, c) = c
  BY <1>2, <1>3 DEF Pos, Larger
<1> HIDE DEF r, c
<1>5. <<r, c>> \in Seq(Nat) /\ Prod(<<r, c>>) = Prod(s)
  BY <1>1, <1>2, Pair
<1>6. Reshape(data, <<r, c>>) = [shape |-> <<r, c>>, data |-> data.data]
  BY <1>5, Reshaped
<1>7. Rows(data, w) = Reshape(data, <<r, c>>)
  BY <1>4 DEF Rows, Rank, r, c, dims, tail
<1> QED BY <1>1, <1>2, <1>4, <1>6, <1>7 DEF r, c, dims, tail

\* The rows an index takes from a table.
TakesRows(flat, rows, p, c) ==
  LET t == TakeAxis(flat, rows, 1)
  IN /\ t # Fail /\ t = [shape |-> t.shape, data |-> t.data] /\ t.shape = <<p, c>> /\ DOMAIN t.data = 1..(p * c)
     /\ t.data = [k \in 1..(p * c) |-> t.data[k]]
     /\ \A k \in 1..(p * c) : t.data[k] = flat.data[1 + (rows.data[1 + ((k - 1) \div c)] * c + ((k - 1) % c))]

\* Rows of a table taken by number.
LEMMA RowsTaken ==
  ASSUME NEW p \in Pos, NEW c \in Pos, NEW r \in Nat, NEW flat, flat.shape = <<r, c>>,
         NEW rows, rows.shape = <<p>>, \A m \in 1..p : rows.data[m] \in Int
  PROVE  TakesRows(flat, rows, p, c)
<1> DEFINE s == <<p, c>>
           t == TakeAxis(flat, rows, 1)
           from(k) == 1 + (rows.data[1 + ((k - 1) \div c)] * c + ((k - 1) % c))
           Value(idx) == At(flat, SubSeq(idx, 1, 1 - 1) \o <<At(rows, SubSeq(idx, 1, 1 + Rank(rows) - 1))>>
                                  \o SubSeq(idx, 1 + Rank(rows), Len(idx)))
<1>1. s \in Seq(Nat) /\ Prod(s) = p * c /\ p * c \in Nat /\ p \in Nat /\ c \in Nat /\ p \in Int /\ c \in Int /\ r \in Int
  <2>1. p \in Nat /\ c \in Nat
    BY DEF Pos
  <2>2. s \in Seq(Nat) /\ Prod(s) = p * c /\ p * c \in Nat
    BY <2>1, Pair
  <2> QED BY <2>1, <2>2
<1>2. flat # Fail /\ rows # Fail /\ Rank(rows) = 1
  <2>1. flat.shape \in Seq(Nat) /\ rows.shape \in Seq(Nat) /\ Len(rows.shape) = 1
    BY <1>1, Pair
  <2> QED BY <2>1, NotFail DEF Rank
<1>3. Splice(flat.shape, 1, rows.shape) = s
  <2>1. SubSeq(<<r, c>>, 1, 1 - 1) = <<>> /\ SubSeq(<<r, c>>, 1 + 1, Len(<<r, c>>)) = <<c>>
    BY <1>1, PairParts
  <2>2. <<>> \o <<p>> \o <<c>> = <<p, c>>
    BY <1>1, PairParts
  <2> QED BY <2>1, <2>2 DEF Splice
<1>4. t = Tensor(s, Value)
  <2> HIDE DEF s
  <2> QED BY <1>2, <1>3 DEF TakeAxis, Tensor
<1>5. ASSUME NEW k \in 1..(p * c) PROVE Value(Coord(s, k - 1)) = flat.data[from(k)]
  <2> DEFINE h == k - 1
             i == h \div c
             j == h % c
             v == rows.data[1 + i]
  <2>1. h \in 0..(p * c - 1)
    <3> DEFINE m == p * c
    <3>1. m \in Nat /\ k \in 1..m
      BY <1>1
    <3> HIDE DEF m
    <3>2. k - 1 \in 0..(m - 1)
      BY <3>1
    <3> QED BY <3>2 DEF m
  <2> HIDE DEF h
  <2>2. i \in 0..(p - 1) /\ j \in 0..(c - 1) /\ Coord(s, h) = <<i, j>>
    BY <1>1, <2>1, PairCoord
  <2> HIDE DEF i, j
  <2>3. i \in Int /\ j \in Int /\ 1 + i \in 1..p
    BY <1>1, <2>2
  <2>4. v \in Int
    BY <2>3
  <2> HIDE DEF v
  <2>5. SubSeq(<<i, j>>, 1, 1 + Rank(rows) - 1) = <<i>> /\ SubSeq(<<i, j>>, 1 + Rank(rows), Len(<<i, j>>)) = <<j>>
    <3>1. 1 + Rank(rows) - 1 = 2 - 1 /\ 1 + Rank(rows) = 1 + 1
      BY <1>2
    <3>2. SubSeq(<<i, j>>, 1, 2 - 1) = <<i>> /\ SubSeq(<<i, j>>, 1 + 1, Len(<<i, j>>)) = <<j>>
      BY <2>3, PairParts
    <3> QED BY <3>1, <3>2
  <2>6. SubSeq(<<i, j>>, 1, 1 - 1) \o <<v>> \o <<j>> = <<v, j>>
    <3>1. SubSeq(<<i, j>>, 1, 1 - 1) = <<>>
      BY <2>3, PairParts
    <3>2. <<>> \o <<v>> \o <<j>> = <<v, j>>
      BY <2>3, <2>4, PairParts
    <3> QED BY <3>1, <3>2
  <2>7. At(rows, <<i>>) = v
    <3>1. Place(<<p>>, <<i>>) = i
      BY <1>1, <2>3, OnePlace
    <3> QED BY <3>1 DEF At, v
  <2>8. At(flat, <<v, j>>) = flat.data[1 + (v * c + j)]
    <3>1. Place(<<r, c>>, <<v, j>>) = v * c + j
      BY <1>1, <2>3, <2>4, PairPlace
    <3> QED BY <3>1 DEF At
  <2>9. Value(<<i, j>>) = At(flat, <<v, j>>)
    BY <2>5, <2>6, <2>7
  <2> HIDE DEF Value, s
  <2> QED BY <2>2, <2>8, <2>9 DEF v, i, j, h
<1>6. t.shape = s /\ t.data = [k \in 1..(p * c) |-> flat.data[from(k)]] /\ t = [shape |-> t.shape, data |-> t.data]
  <2> DEFINE d == [k \in 1..Prod(s) |-> Value(Coord(s, k - 1))]
  <2>1. t = [shape |-> s, data |-> d]
    <3> HIDE DEF s, Value, t
    <3> QED BY <1>4 DEF Tensor
  <2>2. d = [k \in 1..(p * c) |-> flat.data[from(k)]]
    <3> HIDE DEF s, Value, from
    <3> QED BY <1>1, <1>5
  <2> HIDE DEF t, d, s
  <2> QED BY <2>1, <2>2
<1> HIDE DEF t, from, s
<1>7. t # Fail
  BY <1>1, <1>6, NotFail
<1>8. t # Fail /\ t = [shape |-> t.shape, data |-> t.data] /\ t.shape = s /\ DOMAIN t.data = 1..(p * c)
      /\ t.data = [k \in 1..(p * c) |-> t.data[k]]
      /\ \A k \in 1..(p * c) : t.data[k] = flat.data[from(k)]
  BY <1>6, <1>7
<1> QED BY <1>8 DEF TakesRows, t, from, s

\* GatherND: the rows taken are the slices the tuples name.
LEMMA GatherNDExact ==
  ASSUME NEW n, n.op = "GatherND", LegalOperands(n)
  PROVE  GatherNdOp(n) = GatherNDMeaning(n) /\ NoFailure(GatherNdOp(n))
<1> DEFINE data == In(n, 1)
           index == In(n, 2)
           F == Front(n.ins[2].shape)
           w == Last(n.ins[2].shape)
           q == Len(n.ins[2].shape) - 1
           dims == SubSeq(n.ins[1].shape, 1, w)
           tail == SubSeq(n.ins[1].shape, w + 1, Len(n.ins[1].shape))
           rows == TupleRows(index, dims)
           p == Prod(F)
           c == Prod(tail)
           Meant(idx) == At(data, Tuple(n, SubSeq(idx, 1, q)) \o SubSeq(idx, q + 1, Len(idx)))
<1>1. ArrayOf(n, 1) /\ ArrayOf(n, 2) /\ LegalTuples(n) /\ p # 0 /\ c # 0
  BY DEF LegalOperands
<1>2. /\ data = [shape |-> data.shape, data |-> data.data] /\ data # Fail /\ data.shape \in Seq(Nat)
      /\ data.shape = n.ins[1].shape /\ index.shape = n.ins[2].shape /\ Rank(data) = Len(data.shape)
  BY <1>1, Operand
<1>3. /\ F \in Seq(Pos) /\ F \in Seq(Nat) /\ Len(F) = q /\ p \in Pos /\ w \in 1..Len(data.shape)
      /\ dims \in Seq(Nat) /\ Len(dims) = w /\ rows.shape = <<p>>
      /\ \A i \in Box(F) : Tuple(n, i) \in Box(dims) /\ rows.data[1 + Place(F, i)] = Place(dims, Tuple(n, i))
  BY <1>1, <1>2, TuplesAre
<1>4. tail \in Seq(Nat) /\ data.shape = dims \o tail
  BY <1>2, <1>3, Leading
<1>5. LET r == Prod(dims)
      IN r \in Nat /\ c \in Pos /\ Rows(data, w) = [shape |-> <<r, c>>, data |-> data.data]
  <2>1. dims = SubSeq(data.shape, 1, w) /\ tail = SubSeq(data.shape, w + 1, Len(data.shape))
    BY <1>2
  <2> HIDE DEF data, dims, tail, w
  <2> QED BY <1>1, <1>2, <1>3, <2>1, FlatRows
<1>6. GatherNdOp(n) = <<Reshape(TakeAxis(Rows(data, w), rows, 1), F \o tail)>>
  <2>1. ~(w = 0 \/ w > Rank(data))
    <3> HIDE DEF w, data
    <3> QED BY <1>2, <1>3
  <2>2. Last(index.shape) = w /\ SubSeq(data.shape, 1, Last(index.shape)) = dims /\ Front(index.shape) = F
        /\ SubSeq(data.shape, Last(index.shape) + 1, Rank(data)) = tail
    BY <1>2
  <2> HIDE DEF w, data, index, F, tail, dims
  <2> QED BY <2>1, <2>2 DEF GatherNdOp, w, data, index, F, tail, dims
<1>7. GatherNDMeaning(n) = <<Tensor(F \o tail, Meant)>>
  <2>1. SubSeq(data.shape, w + 1, Rank(data)) = tail
    BY <1>2
  <2> HIDE DEF Meant, tail
  <2> QED BY <2>1 DEF GatherNDMeaning, Meant
<1> DEFINE s == F \o tail
           flat == Rows(data, w)
           taken == TakeAxis(flat, rows, 1)
<1> HIDE DEF data, index, F, w, dims, tail, rows, q
<1>8. \A m \in 1..p : rows.data[m] \in Int
  <2>1. ASSUME NEW m \in 1..p PROVE rows.data[m] \in Int
    <3> DEFINE i == Coord(F, m - 1)
    <3>1. i \in Box(F) /\ Place(F, i) = m - 1
      BY <1>3, IndexIn
    <3>2. Tuple(n, i) \in Box(dims) /\ rows.data[1 + Place(F, i)] = Place(dims, Tuple(n, i))
      BY <1>3, <3>1
    <3>3. Place(dims, Tuple(n, i)) \in 0..(Prod(dims) - 1)
      BY <1>3, <3>2, PlaceIn
    <3>4. 1 + Place(F, i) = m
      <4> HIDE DEF i
      <4>1. m \in Nat
        BY <1>3 DEF Pos
      <4> QED BY <3>1, <4>1
    <3> QED BY <3>2, <3>3, <3>4
  <2> QED BY <2>1
<1>9. TakesRows(flat, rows, p, c)
  <2>1. flat.shape = <<Prod(dims), c>> /\ Prod(dims) \in Nat /\ c \in Pos
    BY <1>5
  <2> HIDE DEF flat, p, c
  <2> QED BY <1>3, <1>8, <2>1, RowsTaken
<1>10. s \in Seq(Nat) /\ Prod(s) = p * c /\ tail \in Seq(Pos) /\ p \in Nat /\ c \in Nat /\ p * c \in Nat
  <2>1. s \in Seq(Nat) /\ Prod(s) = p * c
    BY <1>3, <1>4, ProdCat, ConcatProperties
  <2>2. tail \in Seq(Pos)
    BY <1>1, <1>4, Extents
  <2>3. p \in Nat /\ c \in Nat
    BY <1>3, <1>4, ProdNat
  <2> QED BY <2>1, <2>2, <2>3, Products
<1>11. Reshape(taken, s) = [shape |-> s, data |-> taken.data]
  <2>1. taken # Fail /\ taken = [shape |-> taken.shape, data |-> taken.data] /\ taken.shape = <<p, c>>
    BY <1>9 DEF TakesRows
  <2>2. Prod(<<p, c>>) = p * c
    BY <1>10, Pair
  <2> HIDE DEF taken, s
  <2> QED BY <1>10, <2>1, <2>2, Reshaped
<1>12. ASSUME NEW k \in 1..(p * c) PROVE taken.data[k] = Meant(Coord(s, k - 1))
  <2> DEFINE h == k - 1
             i == h \div c
             j == h % c
             a == Coord(F, i)
             b == Coord(tail, j)
  <2>1. h \in 0..(p * c - 1)
    <3> DEFINE m == p * c
    <3>1. m \in Nat /\ k \in 1..m
      BY <1>10
    <3> HIDE DEF m
    <3>2. k - 1 \in 0..(m - 1)
      BY <3>1
    <3> QED BY <3>2 DEF m
  <2> HIDE DEF h
  <2>2. i \in 0..(p - 1) /\ j \in 0..(c - 1) /\ Coord(s, h) = a \o b
    BY <1>3, <1>10, <2>1, CoordCat
  <2>3. a \in Box(F) /\ Place(F, a) = i
    <3> HIDE DEF i
    <3> QED BY <1>3, <2>2, CoordIn
  <2>4. b \in Box(tail) /\ Place(tail, b) = j
    <3> HIDE DEF j
    <3> QED BY <1>10, <2>2, CoordIn
  <2> HIDE DEF a, b
  <2>5. a \in Seq(Nat) /\ Len(a) = q /\ b \in Seq(Nat) /\ b \in Seq(Int) /\ Len(b) = Len(tail)
    BY <1>3, <1>4, <2>3, <2>4, BoxSeq
  <2> DEFINE d == a \o b
             u == Tuple(n, a)
  <2>6. SubSeq(d, 1, q) = a /\ SubSeq(d, q + 1, Len(d)) = b
    BY <2>5, ConcatParts
  <2>7. u \in Box(dims) /\ rows.data[1 + i] = Place(dims, u)
    BY <1>3, <2>3
  <2>8. u \in Seq(Int) /\ Len(u) = Len(dims)
    <3> HIDE DEF u
    <3> QED BY <1>3, <2>7, BoxSeq
  <2> HIDE DEF d, u
  <2>9. Meant(d) = At(data, u \o b)
    BY <2>6 DEF u
  <2>10. Place(dims \o tail, u \o b) = Place(dims, u) * c + Place(tail, b)
    <3>1. Place(dims \o tail, u \o b) = Place(dims, u) * Prod(tail) + Place(tail, b)
      BY <1>3, <1>4, <2>5, <2>8, PlaceCat
    <3> QED BY <3>1
  <2>11. At(data, u \o b) = data.data[1 + (rows.data[1 + i] * c + j)]
    <3> HIDE DEF i, j, c
    <3> QED BY <1>4, <2>4, <2>7, <2>10 DEF At
  <2>12. taken.data[k] = flat.data[1 + (rows.data[1 + i] * c + j)]
    <3> HIDE DEF flat
    <3> QED BY <1>9 DEF TakesRows, h
  <2>13. flat.data = data.data
    BY <1>5
  <2> HIDE DEF Meant, taken, flat, s
  <2> QED BY <2>2, <2>9, <2>11, <2>12, <2>13 DEF d, h
<1>13. taken.data = [k \in 1..Prod(s) |-> Meant(Coord(s, k - 1))]
  <2>1. DOMAIN taken.data = 1..(p * c) /\ taken.data = [k \in 1..(p * c) |-> taken.data[k]]
    <3> HIDE DEF flat
    <3> QED BY <1>9 DEF TakesRows
  <2> HIDE DEF taken, s, Meant, c, p
  <2> QED BY <1>10, <1>12, <2>1
<1>14. Tensor(s, Meant) = [shape |-> s, data |-> taken.data]
  <2> HIDE DEF taken, s, Meant
  <2> QED BY <1>13 DEF Tensor
<1>15. NoFailure(GatherNdOp(n))
  <2> HIDE DEF s, taken
  <2> QED BY <1>6, <1>10, <1>11, OneArray DEF s, taken, flat
<1> QED BY <1>6, <1>7, <1>11, <1>14, <1>15
-----------------------------------------------------------------------------
(* ScatterND. *)

RowHits(rows, p, i) == {v \in 0..(p - 1) : rows.data[1 + v] = i}

\* The updates put in the rows an index names.
PutsRows(flat, at, updates, rows, r, p, c) ==
  LET t == PutAlong(flat, at, updates, 1)
      hits(k) == RowHits(rows, p, (k - 1) \div c)
  IN /\ t # Fail /\ t = [shape |-> t.shape, data |-> t.data] /\ t.shape = <<r, c>>
     /\ t.data = [k \in 1..(r * c) |-> t.data[k]]
     /\ \A k \in 1..(r * c) :
          t.data[k] = IF hits(k) = {} THEN flat.data[k]
                      ELSE updates.data[1 + (Max(hits(k)) * c + ((k - 1) % c))]

\* Rows of a table put by number, the last update of each staying.
LEMMA RowsPut ==
  ASSUME NEW p \in Pos, NEW c \in Pos, NEW r \in Nat, NEW flat, flat.shape = <<r, c>>,
         NEW at, at.shape = <<p, c>>, NEW updates, updates.shape = <<p, c>>, NEW rows,
         \A k \in 1..(p * c) : at.data[k] = rows.data[1 + ((k - 1) \div c)]
  PROVE  PutsRows(flat, at, updates, rows, r, p, c)
<1> DEFINE s == <<r, c>>
           t == PutAlong(flat, at, updates, 1)
           aimed(k) == RowHits(rows, p, (k - 1) \div c)
           put(k) == IF aimed(k) = {} THEN flat.data[k]
                     ELSE updates.data[1 + (Max(aimed(k)) * c + ((k - 1) % c))]
           hits(idx) == {k \in 0..(at.shape[1] - 1) : At(at, With(idx, 1, k)) = idx[1]}
           Value(idx) == IF hits(idx) = {} THEN At(flat, idx) ELSE At(updates, With(idx, 1, Max(hits(idx))))
<1>1. p \in Nat /\ c \in Nat /\ p \in Int /\ c \in Int /\ r \in Int
  BY DEF Pos
<1>2. /\ s \in Seq(Nat) /\ Prod(s) = r * c /\ r * c \in Nat /\ Len(s) = 2
      /\ <<p, c>> \in Seq(Nat) /\ Len(<<p, c>>) = 2 /\ at.shape[1] = p
  <2>1. Prod(<<r, c>>) = r * c /\ r * c \in Nat /\ <<r, c>> \in Seq(Nat)
    BY <1>1, Pair
  <2>2. <<p, c>> \in Seq(Nat)
    BY <1>1, Pair
  <2>3. Len(<<r, c>>) = 2 /\ Len(<<p, c>>) = 2 /\ <<p, c>>[1] = p
    OBVIOUS
  <2> QED BY <2>1, <2>2, <2>3
<1>3. flat # Fail /\ at # Fail /\ updates # Fail
  BY <1>2, NotFail
<1>4. FitsAlong(flat, at, 1)
  <2>1. SubSeq(<<r, c>>, 1, 1 - 1) = <<>> /\ SubSeq(<<r, c>>, 1 + 1, Len(<<r, c>>)) = <<c>>
    BY <1>1, PairParts
  <2>2. SubSeq(<<p, c>>, 1, 1 - 1) = <<>> /\ SubSeq(<<p, c>>, 1 + 1, Len(<<p, c>>)) = <<c>>
    BY <1>1, PairParts
  <2>3. Without(<<p, c>>, 1) = Without(<<r, c>>, 1)
    BY <2>1, <2>2 DEF Without
  <2> QED BY <1>2, <2>3 DEF FitsAlong, Rank
<1>5. t = Tensor(s, Value)
  <2> HIDE DEF s
  <2> QED BY <1>3, <1>4 DEF PutAlong, Tensor, s
<1>6. ASSUME NEW k \in 1..(r * c) PROVE Value(Coord(s, k - 1)) = put(k)
  <2> DEFINE h == k - 1
             i == h \div c
             j == h % c
             H == RowHits(rows, p, i)
  <2>1. h \in 0..(r * c - 1) /\ 1 + h = k
    <3> DEFINE m == r * c
    <3>1. m \in Nat /\ k \in 1..m
      BY <1>2
    <3> HIDE DEF m
    <3>2. k - 1 \in 0..(m - 1) /\ 1 + (k - 1) = k
      BY <3>1
    <3> QED BY <3>2 DEF m
  <2> HIDE DEF h
  <2>2. i \in 0..(r - 1) /\ j \in 0..(c - 1) /\ Coord(s, h) = <<i, j>> /\ h = i * c + j
    BY <1>1, <2>1, PairCoord
  <2> HIDE DEF i, j
  <2>3. i \in Int /\ j \in Int
    BY <1>1, <2>2
  <2>4. ASSUME NEW v \in 0..(p - 1)
        PROVE  With(<<i, j>>, 1, v) = <<v, j>> /\ At(at, <<v, j>>) = rows.data[1 + v]
               /\ At(updates, <<v, j>>) = updates.data[1 + (v * c + j)]
    <3>1. v \in Int /\ v \in Nat /\ v < p /\ v + 1 <= p
      BY <1>1
    <3>2. With(<<i, j>>, 1, v) = <<v, j>>
      <4>1. With(<<i, j>>, 1, v) = [a \in 1..2 |-> IF a = 1 THEN v ELSE j]
        BY DEF With
      <4> QED BY <2>3, <3>1, <4>1, PlainTuples
    <3>3. Place(<<p, c>>, <<v, j>>) = v * c + j
      BY <1>1, <2>3, <3>1, PairPlace
    <3> DEFINE g == v * c
               x == p * c
               m == 1 + (g + j)
    <3>4. g \in Nat /\ x \in Nat /\ g + c <= x
      BY <1>1, <3>1, Products
    <3>5. (g + j) \div c = v
      BY <2>2, <3>1, OnlyParts
    <3>6. m \in 1..x /\ m - 1 = g + j
      <4> HIDE DEF g, x
      <4> QED BY <1>1, <2>2, <3>4
    <3>7. at.data[m] = rows.data[1 + v]
      <4> HIDE DEF m, g
      <4> QED BY <3>5, <3>6
    <3> QED BY <3>2, <3>3, <3>7 DEF At
  <2>5. hits(<<i, j>>) = H
    <3>1. <<i, j>>[1] = i
      OBVIOUS
    <3> QED BY <1>2, <2>4, <3>1 DEF RowHits
  <2>6. At(flat, <<i, j>>) = flat.data[k]
    <3>1. Place(<<r, c>>, <<i, j>>) = i * c + j
      BY <1>1, <2>3, PairPlace
    <3> QED BY <2>1, <2>2, <3>1 DEF At
  <2>7. H # {} => Max(H) \in 0..(p - 1)
    <3>1. H \in SUBSET (0..(p - 1))
      BY DEF RowHits
    <3> HIDE DEF H
    <3>2. ASSUME H # {} PROVE Max(H) \in H
      BY <1>1, <3>1, <3>2, MaxOf
    <3> QED BY <3>1, <3>2
  <2>8. Value(<<i, j>>) = IF H = {} THEN flat.data[k] ELSE updates.data[1 + (Max(H) * c + j)]
    <3> HIDE DEF H, hits
    <3>1. CASE H = {}
      BY <2>5, <2>6, <3>1
    <3>2. CASE H # {}
      BY <2>4, <2>5, <2>7, <3>2
    <3> QED BY <3>1, <3>2
  <2>9. put(k) = IF H = {} THEN flat.data[k] ELSE updates.data[1 + (Max(H) * c + j)]
    BY DEF h, i, j
  <2> HIDE DEF Value, put, H, s
  <2> QED BY <2>2, <2>8, <2>9 DEF h
<1>7. t.shape = s /\ t.data = [k \in 1..(r * c) |-> put(k)] /\ t = [shape |-> t.shape, data |-> t.data]
  <2> DEFINE d == [k \in 1..Prod(s) |-> Value(Coord(s, k - 1))]
  <2>1. t = [shape |-> s, data |-> d]
    <3> HIDE DEF s, Value, t
    <3> QED BY <1>5 DEF Tensor
  <2>2. d = [k \in 1..(r * c) |-> put(k)]
    <3> HIDE DEF s, Value, put
    <3> QED BY <1>2, <1>6
  <2> HIDE DEF t, d, s, put
  <2> QED BY <2>1, <2>2
<1> HIDE DEF t, put, s
<1>8. t # Fail
  BY <1>2, <1>7, NotFail
<1>9. t # Fail /\ t = [shape |-> t.shape, data |-> t.data] /\ t.shape = s
      /\ t.data = [k \in 1..(r * c) |-> t.data[k]] /\ \A k \in 1..(r * c) : t.data[k] = put(k)
  BY <1>7, <1>8
<1> QED BY <1>9 DEF PutsRows, t, put, s

\* An operand declared with positive extents only has those extents.
LEMMA Declared ==
  ASSUME NEW n, NEW i, ArrayOf(n, i), \A d \in DOMAIN n.ins[i].info : n.ins[i].info[d] > 0
  PROVE  n.ins[i].info = n.ins[i].shape /\ n.ins[i].shape \in Seq(Pos)
<1> DEFINE s == n.ins[i].shape
           t == n.ins[i].info
<1>1. s \in Seq(Nat) /\ t \in Seq(Int) /\ Len(t) = Len(s) /\ \A d \in DOMAIN s : t[d] \in {-1, s[d]}
  BY DEF ArrayOf, IsOperand
<1>2. \A d \in DOMAIN t : t[d] > 0
  OBVIOUS
<1> HIDE DEF s, t
<1>3. DOMAIN s = 1..Len(s) /\ DOMAIN t = 1..Len(s) /\ Len(s) \in Nat
  BY <1>1, LenProperties
<1>4. \A d \in 1..Len(s) : t[d] = s[d] /\ s[d] \in Pos
  <2>1. ASSUME NEW d \in 1..Len(s) PROVE t[d] = s[d] /\ s[d] \in Pos
    <3>1. t[d] \in {-1, s[d]} /\ t[d] > 0 /\ s[d] \in Nat
      BY <1>1, <1>2, <1>3, ElementOfSeq
    <3> QED BY <3>1 DEF Pos
  <2> QED BY <2>1
<1>5. s \in Seq(Int)
  BY <1>1, Wider
<1>6. t = s
  <2>1. Len(t) = Len(s) /\ \A d \in 1..Len(t) : t[d] = s[d]
    BY <1>1, <1>4
  <2> QED BY <1>1, <1>5, <2>1, Same
<1>7. s \in [1..Len(s) -> Pos]
  BY <1>1, <1>3, <1>4
<1>8. s \in Seq(Pos)
  BY <1>3, <1>7, IsSeq
<1> QED BY <1>6, <1>8 DEF s, t

\* The positions of the updates aimed at the k-th element.
Aims(n, updates, idx, q) ==
  {g \in 0..(SizeOf(updates) - 1) :
     LET u == Coord(updates.shape, g) IN Tuple(n, SubSeq(u, 1, q)) \o SubSeq(u, q + 1, Len(u)) = idx}

\* ScatterND: every slice gets the last update aimed at it.
LEMMA ScatterNDExact ==
  ASSUME NEW n, n.op = "ScatterND", LegalOperands(n), ScatterNdClaim(n)
  PROVE  ScatterNdOp(n) = ScatterNDMeaning(n) /\ NoFailure(ScatterNdOp(n))
<1> DEFINE data == In(n, 1)
           index == In(n, 2)
           updates == In(n, 3)
           F == Front(n.ins[2].shape)
           w == Last(n.ins[2].shape)
           q == Len(n.ins[2].shape) - 1
           dims == SubSeq(n.ins[1].shape, 1, w)
           tail == SubSeq(n.ins[1].shape, w + 1, Len(n.ins[1].shape))
           rows == TupleRows(index, dims)
           p == Prod(F)
           c == Prod(tail)
           r == Prod(dims)
           flat == Rows(data, w)
           column == Reshape(rows, <<p, 1>>)
           at == BroadcastTo(column, <<p, c>>)
           put == Reshape(updates, <<p, c>>)
           placed == PutAlong(flat, at, put, 1)
           Meant(idx) == IF Aims(n, updates, idx, q) = {} THEN At(data, idx)
                         ELSE updates.data[1 + Latest(Aims(n, updates, idx, q))]
<1>1. ArrayOf(n, 1) /\ ArrayOf(n, 2) /\ ArrayOf(n, 3) /\ LegalTuples(n)
  BY DEF LegalOperands
<1>2. /\ data = [shape |-> data.shape, data |-> data.data] /\ data # Fail /\ data.shape \in Seq(Nat)
      /\ data.shape = n.ins[1].shape /\ index.shape = n.ins[2].shape /\ Rank(data) = Len(data.shape)
      /\ updates = [shape |-> updates.shape, data |-> updates.data] /\ updates # Fail
      /\ updates.shape = n.ins[3].shape /\ index.shape \in Seq(Nat) /\ updates.shape \in Seq(Nat)
  BY <1>1, Operand
<1>3. n.ins[1].info = n.ins[1].shape /\ n.ins[1].shape \in Seq(Pos)
      /\ n.ins[2].info = n.ins[2].shape /\ n.ins[2].shape \in Seq(Pos) /\ n.ins[2].shape # <<>>
      /\ n.ins[3].info = F \o tail
  <2>1. /\ \A d \in DOMAIN n.ins[1].info : n.ins[1].info[d] > 0
        /\ \A d \in DOMAIN n.ins[2].info : n.ins[2].info[d] > 0
        /\ n.ins[3].info = Front(n.ins[2].info)
                            \o SubSeq(n.ins[1].info, Last(n.ins[2].info) + 1, Len(n.ins[1].info))
    BY DEF ScatterNdClaim
  <2>2. n.ins[1].info = n.ins[1].shape /\ n.ins[1].shape \in Seq(Pos)
    BY <1>1, <2>1, Declared
  <2>3. n.ins[2].info = n.ins[2].shape /\ n.ins[2].shape \in Seq(Pos)
    BY <1>1, <2>1, Declared
  <2>4. n.ins[2].shape # <<>>
    BY <1>1 DEF LegalTuples
  <2> QED BY <2>1, <2>2, <2>3, <2>4
<1>4. F \in Seq(Pos) /\ F \in Seq(Nat) /\ p \in Pos /\ p # 0
  <2>1. F \in Seq(Pos)
    BY <1>3, FrontLast
  <2> HIDE DEF F
  <2>2. F \in Seq(Nat)
    BY <2>1, Wider DEF Pos
  <2> QED BY <2>1, <2>2, ProdPositive DEF Pos
<1>5. /\ Len(F) = q /\ w \in 1..Len(data.shape)
      /\ dims \in Seq(Nat) /\ Len(dims) = w /\ rows.shape = <<p>> /\ rows # Fail
      /\ \A i \in Box(F) : Tuple(n, i) \in Box(dims) /\ rows.data[1 + Place(F, i)] = Place(dims, Tuple(n, i))
  BY <1>1, <1>2, <1>4, TuplesAre
<1>6. tail \in Seq(Nat) /\ data.shape = dims \o tail /\ tail \in Seq(Pos) /\ dims \in Seq(Pos) /\ c \in Pos
  <2>1. w \in 1..Len(n.ins[1].shape)
    BY <1>2, <1>5
  <2> DEFINE s == n.ins[1].shape
             m == Len(s)
             k == m - w
  <2>2. m \in Nat /\ w \in Nat /\ k \in Nat /\ w + k = m /\ 0 + w <= m /\ 0 \in Nat /\ w + k <= m
    <3>1. m \in Nat
      BY <1>3, LenProperties
    <3> HIDE DEF m, w
    <3> QED BY <2>1, <3>1 DEF m
  <2> HIDE DEF k, w
  <2>3. SubSeq(s, 0 + 1, 0 + w) \in Seq(Pos)
    BY <1>3, <2>2, PartOf
  <2>4. SubSeq(s, w + 1, w + k) \in Seq(Pos)
    BY <1>3, <2>2, PartOf
  <2>5. SubSeq(s, 0 + 1, 0 + w) = dims /\ SubSeq(s, w + 1, w + k) = tail
    <3> HIDE DEF s, m
    <3>1. SubSeq(s, 0 + 1, 0 + w) = SubSeq(s, 1, w) /\ SubSeq(s, w + 1, w + k) = SubSeq(s, w + 1, m)
      BY <2>2
    <3> QED BY <3>1 DEF s, m
  <2>6. tail \in Seq(Nat) /\ data.shape = dims \o tail
    BY <1>2, <1>5, Leading
  <2> HIDE DEF dims, tail, s, data
  <2> QED BY <2>3, <2>4, <2>5, <2>6, ProdPositive
<1>7. r \in Nat /\ flat = [shape |-> <<r, c>>, data |-> data.data] /\ Prod(data.shape) = r * c
  <2>1. dims = SubSeq(data.shape, 1, w) /\ tail = SubSeq(data.shape, w + 1, Len(data.shape)) /\ c # 0
    BY <1>2, <1>6 DEF Pos
  <2> HIDE DEF data, dims, tail, w
  <2> QED BY <1>2, <1>5, <2>1, FlatRows
<1>8. ScatterNdOp(n) = <<Reshape(placed, data.shape)>>
  <2>1. Last(index.shape) = w /\ SubSeq(data.shape, 1, Last(index.shape)) = dims
    BY <1>2
  <2>2. rows.shape[1] = p /\ flat.shape[2] = c
    BY <1>5, <1>7
  <2> HIDE DEF w, data, index, updates, F, tail, dims, rows, flat, p, c
  <2>3. <<rows.shape[1], flat.shape[2]>> = <<p, c>>
    BY <2>2
  <2> QED BY <2>1, <2>2, <2>3 DEF ScatterNdOp, w, data, index, updates, dims, rows, flat
<1>9. ScatterNDMeaning(n) = <<Tensor(data.shape, Meant)>>
  <2> DEFINE Target(u) == Tuple(n, SubSeq(u, 1, q)) \o SubSeq(u, q + 1, Len(u))
  <2>1. ScatterNDMeaning(n) = <<Scattered(data, updates, Target)>>
    BY DEF ScatterNDMeaning
  <2> HIDE DEF data, updates, q
  <2>2. Scattered(data, updates, Target) = Tensor(data.shape, Meant)
    BY DEF Scattered, Tensor, Aims, Latest
  <2> QED BY <2>1, <2>2
<1>10. updates.shape = F \o tail /\ Prod(updates.shape) = p * c /\ SizeOf(updates) = p * c
       /\ p \in Nat /\ c \in Nat /\ p * c \in Nat
  <2>1. F \o tail \in Seq(Pos)
    BY <1>4, <1>6, ConcatProperties
  <2>2. \A d \in DOMAIN n.ins[3].info : n.ins[3].info[d] > 0
    <3> DEFINE s == F \o tail
    <3>1. s \in Seq(Pos) /\ n.ins[3].info = s
      BY <1>3, <2>1
    <3> HIDE DEF s
    <3>2. \A d \in DOMAIN s : s[d] \in Pos
      BY <3>1, LenProperties, ElementOfSeq
    <3> QED BY <3>1, <3>2 DEF Pos
  <2>3. updates.shape = F \o tail
    BY <1>1, <1>2, <1>3, <2>2, Declared
  <2>4. Prod(F \o tail) = p * c
    BY <1>4, <1>6, ProdCat
  <2>5. p \in Nat /\ c \in Nat
    BY <1>4, <1>6 DEF Pos
  <2> QED BY <2>3, <2>4, <2>5, Products DEF SizeOf
<1> DEFINE s == F \o tail
<1>11. column = [shape |-> <<p, 1>>, data |-> rows.data]
  <2>1. rows = [shape |-> rows.shape, data |-> rows.data]
    <3> HIDE DEF index, dims
    <3> QED BY <1>5 DEF TupleRows, Tensor, ReduceAxis, Fail
  <2>2. <<p, 1>> \in Seq(Nat) /\ Prod(<<p, 1>>) = p * 1 /\ Prod(<<p>>) = p /\ p * 1 = p
    <3> HIDE DEF p
    <3>1. p \in Nat /\ 1 \in Nat
      BY <1>10
    <3>2. <<p, 1>> \in Seq(Nat) /\ Prod(<<p, 1>>) = p * 1
      BY <3>1, Pair
    <3>3. Prod(<<p>>) = p
      BY <3>1, Pair
    <3> QED BY <3>1, <3>2, <3>3
  <2> HIDE DEF rows, p
  <2> QED BY <1>5, <2>1, <2>2, Reshaped
<1>12. put = [shape |-> <<p, c>>, data |-> updates.data]
  <2> HIDE DEF updates, p, c
  <2>1. <<p, c>> \in Seq(Nat) /\ Prod(<<p, c>>) = p * c
    BY <1>10, Pair
  <2>2. /\ updates = [shape |-> updates.shape, data |-> updates.data] /\ updates # Fail
        /\ Prod(<<p, c>>) = Prod(updates.shape)
    BY <1>2, <1>10, <2>1
  <2> QED BY <2>1, <2>2, Reshaped
<1>13. at.shape = <<p, c>> /\ \A k \in 1..(p * c) : at.data[k] = rows.data[1 + ((k - 1) \div c)]
  <2>1. column.shape = <<p, 1>> /\ column.data = rows.data
    BY <1>11
  <2>2. column.shape \in Seq(Nat) /\ Len(column.shape) = 2 /\ column.shape[1] = p /\ column.shape[2] = 1
    <3> HIDE DEF column, p
    <3>1. <<p, 1>> \in Seq(Nat)
      BY <1>10, Pair
    <3> QED BY <2>1, <3>1
  <2> HIDE DEF column, p, c
  <2>3. SpreadOver(column, p, c)
    BY <1>10, <2>2, PairSpread
  <2>4. ASSUME NEW k \in 1..(p * c) PROVE at.data[k] = rows.data[1 + ((k - 1) \div c)]
    <3> DEFINE i == (k - 1) \div c
    <3>1. i \in 0..(p - 1)
      <4> DEFINE m == p * c
                 h == k - 1
      <4>1. h \in 0..(m - 1)
        <5> HIDE DEF m
        <5> QED BY <1>10 DEF m
      <4> HIDE DEF h
      <4>2. h \in Nat /\ h < p * c
        BY <1>10, <4>1
      <4> QED BY <1>6, <1>10, <4>2, QuotientIn DEF h
    <3>2. at.data[k] = column.data[1 + ((IF column.shape[1] = 1 THEN 0 ELSE i) * column.shape[2]
                                        + (IF column.shape[2] = 1 THEN 0 ELSE (k - 1) % c))]
      <4> HIDE DEF i
      <4> QED BY <2>3 DEF SpreadOver, i
    <3> HIDE DEF i
    <3>3. (IF column.shape[1] = 1 THEN 0 ELSE i) = i
      BY <1>10, <2>2, <3>1
    <3>4. at.data[k] = column.data[1 + (i * 1 + 0)]
      BY <2>2, <3>2, <3>3
    <3>5. 1 + (i * 1 + 0) = 1 + i
      BY <1>10, <3>1
    <3> QED BY <2>1, <3>4, <3>5 DEF i
  <2>5. at.shape = <<p, c>>
    BY <2>3 DEF SpreadOver
  <2> QED BY <2>4, <2>5
<1>14. PutsRows(flat, at, put, rows, r, p, c)
  <2>1. flat.shape = <<r, c>> /\ put.shape = <<p, c>>
    BY <1>7, <1>12
  <2> HIDE DEF flat, at, put, rows, p, c, r
  <2> QED BY <1>4, <1>6, <1>7, <1>13, <2>1, RowsPut
<1>15. Reshape(placed, data.shape) = [shape |-> data.shape, data |-> placed.data]
  <2>1. placed # Fail /\ placed = [shape |-> placed.shape, data |-> placed.data] /\ placed.shape = <<r, c>>
    <3> HIDE DEF flat, at, put, rows, p, c, r
    <3> QED BY <1>14 DEF PutsRows
  <2> HIDE DEF placed, data, r, c
  <2>2. Prod(<<r, c>>) = r * c
    BY <1>7, <1>10, Pair
  <2>3. data.shape \in Seq(Nat) /\ Prod(data.shape) = Prod(placed.shape)
    BY <1>2, <1>7, <2>1, <2>2
  <2> QED BY <2>1, <2>3, Reshaped
<1>16. flat.data = data.data /\ put.data = updates.data
  BY <1>7, <1>12
<1> HIDE DEF data, index, updates, F, w, dims, tail, rows, q, flat, at, put, column
<1>17. ASSUME NEW g \in 0..(p * c - 1)
       PROVE  /\ g \div c \in 0..(p - 1) /\ g % c \in 0..(c - 1) /\ g = (g \div c) * c + (g % c)
              /\ LET x == Coord(s, g)
                     u == Tuple(n, Coord(F, g \div c))
                     b == Coord(tail, g % c)
                 IN /\ Tuple(n, SubSeq(x, 1, q)) \o SubSeq(x, q + 1, Len(x)) = u \o b
                    /\ u \in Box(dims) /\ Place(dims, u) = rows.data[1 + (g \div c)]
                    /\ b \in Box(tail) /\ Place(tail, b) = g % c
  <2> DEFINE v == g \div c
             j == g % c
             a == Coord(F, v)
             b == Coord(tail, j)
  <2>1. v \in 0..(p - 1) /\ j \in 0..(c - 1) /\ Coord(s, g) = a \o b
    BY <1>4, <1>6, CoordCat
  <2>2. g = v * c + j
    <3>1. g \in Nat
      BY <1>10
    <3> QED BY <1>6, <3>1, Parts
  <2> HIDE DEF v, j
  <2>3. a \in Box(F) /\ Place(F, a) = v
    BY <1>4, <2>1, CoordIn
  <2>4. b \in Box(tail) /\ Place(tail, b) = j
    BY <1>6, <2>1, CoordIn
  <2> HIDE DEF a, b
  <2>5. a \in Seq(Nat) /\ Len(a) = q /\ b \in Seq(Nat) /\ Len(b) = Len(tail)
    BY <1>4, <1>5, <1>6, <2>3, <2>4, BoxSeq
  <2> DEFINE d == a \o b
  <2>6. SubSeq(d, 1, q) = a /\ SubSeq(d, q + 1, Len(d)) = b
    BY <2>5, ConcatParts
  <2>7. Tuple(n, a) \in Box(dims) /\ rows.data[1 + v] = Place(dims, Tuple(n, a))
    BY <1>5, <2>3
  <2> HIDE DEF d, s
  <2>8. Tuple(n, SubSeq(d, 1, q)) \o SubSeq(d, q + 1, Len(d)) = Tuple(n, a) \o b
    BY <2>6
  <2>9. Coord(s, g) = d
    BY <2>1 DEF d
  <2> QED BY <2>1, <2>2, <2>4, <2>7, <2>8, <2>9 DEF v, j, a, b
<1>18. ASSUME NEW k \in 1..(r * c) PROVE placed.data[k] = Meant(Coord(data.shape, k - 1))
  <2> DEFINE h == k - 1
             i == h \div c
             j == h % c
             a == Coord(dims, i)
             b == Coord(tail, j)
             idx == Coord(data.shape, h)
             hits == RowHits(rows, p, i)
             aims == Aims(n, updates, idx, q)
             K == [v \in hits |-> v * c + j]
  <2>1. h \in 0..(r * c - 1) /\ 1 + h = k /\ h \in Nat
    <3> DEFINE m == r * c
    <3>1. m \in Nat /\ k \in 1..m
      BY <1>7, <1>10, Products
    <3> HIDE DEF m
    <3>2. k - 1 \in 0..(m - 1) /\ 1 + (k - 1) = k /\ k - 1 \in Nat
      BY <3>1
    <3> QED BY <3>2 DEF m
  <2> HIDE DEF h
  <2>2. i \in 0..(r - 1) /\ j \in 0..(c - 1) /\ idx = a \o b
    BY <1>6, <2>1, CoordCat
  <2>3. h = i * c + j
    BY <1>6, <2>1, Parts
  <2> HIDE DEF i, j
  <2>4. a \in Box(dims) /\ Place(dims, a) = i
    BY <1>6, <2>2, CoordIn
  <2>5. b \in Box(tail) /\ Place(tail, b) = j
    BY <1>6, <2>2, CoordIn
  <2> HIDE DEF a, b, idx
  <2>6. a \in Seq(Nat) /\ Len(a) = Len(dims) /\ b \in Seq(Nat) /\ a \in Seq(Int) /\ b \in Seq(Int)
        /\ Len(b) = Len(tail)
    BY <1>5, <1>6, <2>4, <2>5, BoxSeq
  <2>7. hits \in SUBSET (0..(p - 1)) /\ aims \in SUBSET Nat /\ p \in Int /\ j \in Nat
    BY <1>10, <2>2 DEF RowHits, Aims
  <2>8. ASSUME NEW v \in hits PROVE K[v] \in aims
    <3>1. v \in 0..(p - 1) /\ rows.data[1 + v] = i /\ v \in Nat /\ v < p
      BY <1>10 DEF RowHits
    <3> DEFINE g == v * c + j
               u == Tuple(n, Coord(F, v))
    <3>2. g \div c = v /\ g % c = j
      BY <1>6, <2>2, <3>1, OnlyParts
    <3>3. g \in 0..(p * c - 1)
      <4> DEFINE y == v * c
                 z == p * c
      <4>1. y \in Nat /\ z \in Nat /\ y + c <= z
        BY <1>10, <3>1, Products
      <4> HIDE DEF y, z
      <4>2. y + j \in 0..(z - 1)
        BY <1>10, <2>2, <4>1
      <4> QED BY <4>2 DEF y, z
    <3> HIDE DEF g
    <3>4. LET x == Coord(s, g)
          IN Tuple(n, SubSeq(x, 1, q)) \o SubSeq(x, q + 1, Len(x)) = u \o b
      BY <1>17, <3>2, <3>3 DEF b
    <3>5. u \in Box(dims) /\ Place(dims, u) = i
      BY <1>17, <3>1, <3>2, <3>3
    <3> HIDE DEF u
    <3>6. u = a
      BY <1>5, <2>4, <3>5, CoordPlace
    <3>7. g \in 0..(SizeOf(updates) - 1) /\ s = updates.shape
      BY <1>10, <3>3
    <3> HIDE DEF s
    <3>8. g \in aims
      BY <2>2, <3>4, <3>6, <3>7 DEF Aims
    <3>9. K[v] = g
      BY DEF g
    <3> QED BY <3>8, <3>9
  <2>9. ASSUME NEW g \in aims PROVE \E v \in hits : K[v] = g
    <3> DEFINE x == Coord(s, g)
               v == g \div c
               u == Tuple(n, Coord(F, v))
               e == Coord(tail, g % c)
    <3>1. g \in 0..(p * c - 1) /\ Tuple(n, SubSeq(x, 1, q)) \o SubSeq(x, q + 1, Len(x)) = idx
      BY <1>10 DEF Aims
    <3>2. /\ v \in 0..(p - 1) /\ g = v * c + (g % c) /\ idx = u \o e
          /\ u \in Box(dims) /\ Place(dims, u) = rows.data[1 + v]
          /\ e \in Box(tail) /\ Place(tail, e) = g % c
      <4> HIDE DEF s
      <4> QED BY <1>17, <3>1
    <3> HIDE DEF u, e, x, v
    <3>3. u \in Seq(Nat) /\ Len(u) = Len(dims) /\ e \in Seq(Nat)
      BY <1>5, <1>6, <3>2, BoxSeq
    <3>4. u \o e = a \o b
      BY <2>2, <3>2
    <3> DEFINE d == u \o e
               l == Len(dims)
    <3>5. SubSeq(d, 1, l) = u /\ SubSeq(d, l + 1, Len(d)) = e
      BY <3>3, ConcatParts
    <3>6. SubSeq(a \o b, 1, l) = a /\ SubSeq(a \o b, l + 1, Len(a \o b)) = b
      BY <2>6, ConcatParts
    <3> HIDE DEF l
    <3>7. u = a /\ e = b
      BY <3>4, <3>5, <3>6
    <3>8. rows.data[1 + v] = i /\ g % c = j
      BY <2>4, <2>5, <3>2, <3>7
    <3>9. v \in hits
      BY <3>2, <3>8 DEF RowHits
    <3>10. K[v] = g
      BY <3>2, <3>8, <3>9
    <3> QED BY <3>9, <3>10
  <2>10. ASSUME NEW v \in hits, NEW y \in hits, v <= y PROVE K[v] <= K[y]
    <3> DEFINE e == v * c
               f == y * c
    <3>1. v \in Nat /\ y \in Nat
      BY <2>7
    <3>2. e \in Nat /\ f \in Nat /\ e <= f
      BY <1>10, <2>10, <3>1, Products
    <3>3. K[v] = e + j /\ K[y] = f + j
      OBVIOUS
    <3> HIDE DEF e, f, K
    <3> QED BY <2>7, <3>2, <3>3
  <2>11. /\ placed.data[k] = IF hits = {} THEN flat.data[k]
                             ELSE put.data[1 + (Max(hits) * c + j)]
    <3> HIDE DEF hits, placed, c
    <3> QED BY <1>14 DEF PutsRows, hits, placed, h, i, j
  <2>12. At(data, idx) = data.data[k]
    <3>1. Place(dims \o tail, a \o b) = Place(dims, a) * c + Place(tail, b)
      BY <1>5, <1>6, <2>6, PlaceCat
    <3> HIDE DEF c
    <3>2. Place(data.shape, idx) = h
      BY <1>6, <2>2, <2>3, <2>4, <2>5, <3>1
    <3> QED BY <2>1, <3>2 DEF At
  <2> HIDE DEF hits, aims, K
  <2>13. Follows(K, hits, aims)
    BY <2>8, <2>9, <2>10 DEF Follows
  <2>14. CASE hits = {}
    <3>1. aims = {}
      BY <2>13, <2>14 DEF Follows
    <3> HIDE DEF placed
    <3> QED BY <1>16, <2>11, <2>12, <2>14, <3>1 DEF aims, idx, h
  <2>15. CASE hits # {}
    <3>1. Max(hits) \in hits /\ \A v \in hits : Max(hits) >= v
      BY <1>10, <2>7, <2>15, MaxOf
    <3> DEFINE m == Max(hits)
    <3> HIDE DEF m
    <3>2. m \in hits /\ (\A v \in hits : v <= m) /\ hits \subseteq Nat /\ aims \subseteq Nat
      BY <2>7, <3>1 DEF m
    <3>3. Latest(aims) = K[m]
      BY <2>13, <3>2, LastHit
    <3>4. K[m] = m * c + j
      BY <3>2 DEF K
    <3>5. aims # {}
      BY <2>13, <3>2 DEF Follows
    <3>6. Meant(idx) = updates.data[1 + K[m]]
      BY <3>3, <3>5 DEF aims
    <3> HIDE DEF placed, Meant
    <3> QED BY <1>16, <2>11, <2>15, <3>4, <3>6 DEF m, idx, h
  <2> QED BY <2>14, <2>15
<1>19. placed.data = [k \in 1..Prod(data.shape) |-> Meant(Coord(data.shape, k - 1))]
  <2>1. placed.data = [k \in 1..(r * c) |-> placed.data[k]]
    BY <1>14 DEF PutsRows
  <2> HIDE DEF placed, Meant, c, p, r
  <2> QED BY <1>7, <1>18, <2>1
<1>20. Tensor(data.shape, Meant) = [shape |-> data.shape, data |-> placed.data]
  <2> HIDE DEF placed, Meant
  <2> QED BY <1>19 DEF Tensor
<1>21. NoFailure(ScatterNdOp(n))
  <2> HIDE DEF placed
  <2> QED BY <1>2, <1>8, <1>15, OneArray
<1> QED BY <1>8, <1>9, <1>15, <1>20, <1>21
-----------------------------------------------------------------------------
(* ReverseSequence. *)

\* The elements of a sequence without one of them.
LEMMA WithoutIs ==
  ASSUME NEW S, NEW s \in Seq(S), NEW a \in 1..Len(s)
  PROVE  /\ Without(s, a) \in Seq(S) /\ Len(Without(s, a)) = Len(s) - 1
         /\ \A d \in 1..(Len(s) - 1) : Without(s, a)[d] = s[IF d < a THEN d ELSE d + 1]
<1> DEFINE m == a - 1
           k == Len(s) - a
           p == SubSeq(s, 0 + 1, 0 + m)
           q == SubSeq(s, a + 1, a + k)
<1>1. m \in Nat /\ k \in Nat /\ Len(s) \in Nat /\ 0 + m <= Len(s) /\ a + k <= Len(s) /\ a \in Nat /\ 0 \in Nat
      /\ 0 + 1 = 1 /\ 0 + m = a - 1 /\ a + k = Len(s) /\ m + k = Len(s) - 1 /\ m + 1 = a
  BY LenProperties
<1>2. Without(s, a) = p \o q
  BY <1>1 DEF Without
<1> HIDE DEF m, k
<1>3. p \in Seq(S) /\ Len(p) = m /\ \A d \in 1..m : p[d] = s[0 + d]
  BY <1>1, PartOf
<1>4. q \in Seq(S) /\ Len(q) = k /\ \A d \in 1..k : q[d] = s[a + d]
  BY <1>1, PartOf
<1> HIDE DEF p, q
<1>5. p \o q \in Seq(S) /\ Len(p \o q) = m + k
      /\ \A d \in 1..(m + k) : (p \o q)[d] = IF d <= m THEN p[d] ELSE q[d - m]
  <2>1. /\ p \o q \in Seq(S) /\ Len(p \o q) = Len(p) + Len(q)
        /\ \A d \in 1..(Len(p) + Len(q)) : (p \o q)[d] = IF d <= Len(p) THEN p[d] ELSE q[d - Len(p)]
    BY <1>3, <1>4, ConcatProperties
  <2> QED BY <1>3, <1>4, <2>1
<1>6. ASSUME NEW d \in 1..(Len(s) - 1) PROVE (p \o q)[d] = s[IF d < a THEN d ELSE d + 1]
  <2>1. (p \o q)[d] = IF d <= m THEN p[d] ELSE q[d - m]
    BY <1>1, <1>5
  <2>2. CASE d <= m
    <3>1. d \in 1..m /\ 0 + d = d /\ d < a
      BY <1>1, <2>2
    <3> QED BY <1>3, <2>1, <2>2, <3>1
  <2>3. CASE ~(d <= m)
    <3>1. d - m \in 1..k /\ a + (d - m) = d + 1 /\ ~(d < a)
      BY <1>1, <2>3
    <3> QED BY <1>4, <2>1, <2>3, <3>1
  <2> QED BY <2>2, <2>3
<1> QED BY <1>1, <1>2, <1>5, <1>6

\* Two orders of the axes, each undoing the other.
Undoes(p, q, r) ==
  /\ p \in [1..r -> 1..r] /\ q \in [1..r -> 1..r]
  /\ \A d \in 1..r : p[q[d]] = d /\ q[p[d]] = d

\* Where each axis has gone.
Back(perm, r) == [d \in 1..r |-> CHOOSE i \in 1..r : perm[i] = d]

\* AxesFirst is an order of the axes, and the handler finds its inverse.
LEMMA Ordered ==
  ASSUME NEW r \in Nat, NEW b \in 1..r, NEW t \in 1..r, b # t
  PROVE  /\ Undoes(AxesFirst(b, t, r), Back(AxesFirst(b, t, r), r), r)
         /\ AxesFirst(b, t, r)[1] = b /\ AxesFirst(b, t, r)[2] = t /\ Len(AxesFirst(b, t, r)) = r
<1> DEFINE axes == [d \in 1..r |-> d]
           hi == Larger(b, t)
           lo == Smaller(b, t)
           some == Without(axes, hi)
           rest == Without(some, lo)
           two == <<b, t>>
           perm == two \o rest
           inverse == [d \in 1..r |-> CHOOSE i \in 1..r : perm[i] = d]
           skip(d) == LET e == IF d < lo THEN d ELSE d + 1 IN IF e < hi THEN e ELSE e + 1
           back(d) == IF d = b THEN 1 ELSE IF d = t THEN 2
                      ELSE 2 + (IF d < lo THEN d ELSE IF d < hi THEN d - 1 ELSE d - 2)
<1>1. hi \in 1..r /\ lo \in 1..r /\ lo < hi /\ ((lo = b /\ hi = t) \/ (lo = t /\ hi = b)) /\ r >= 2
  BY DEF Larger, Smaller
<1> HIDE DEF hi, lo
<1>2. axes \in Seq(1..r) /\ Len(axes) = r
  <2>1. axes \in [1..r -> 1..r]
    OBVIOUS
  <2> QED BY <2>1, IsSeq
<1>3. some \in Seq(1..r) /\ Len(some) = r - 1
      /\ \A d \in 1..(r - 1) : some[d] = axes[IF d < hi THEN d ELSE d + 1]
  <2> HIDE DEF axes
  <2> QED BY <1>1, <1>2, WithoutIs
<1>4. rest \in Seq(1..r) /\ Len(rest) = r - 2
      /\ \A d \in 1..(r - 2) : rest[d] = some[IF d < lo THEN d ELSE d + 1]
  <2>1. lo \in 1..Len(some)
    BY <1>1, <1>3
  <2>2. Len(some) - 1 = r - 2
    BY <1>1, <1>3
  <2> HIDE DEF some
  <2> QED BY <1>3, <2>1, <2>2, WithoutIs
<1>5. \A d \in 1..(r - 2) : rest[d] = skip(d)
  <2>1. ASSUME NEW d \in 1..(r - 2) PROVE rest[d] = skip(d)
    <3> DEFINE e == IF d < lo THEN d ELSE d + 1
               f == IF e < hi THEN e ELSE e + 1
    <3>1. e \in 1..(r - 1) /\ f \in 1..r
      BY <1>1
    <3>2. rest[d] = some[e]
      BY <1>4
    <3> HIDE DEF e
    <3>3. some[e] = axes[f]
      BY <1>3, <3>1
    <3>4. axes[f] = f
      BY <3>1
    <3> QED BY <3>2, <3>3, <3>4 DEF e
  <2> QED BY <2>1
<1>6. two \in Seq(1..r) /\ Len(two) = 2 /\ two[1] = b /\ two[2] = t
  OBVIOUS
<1> HIDE DEF rest, some, axes, two
<1>7. perm \in Seq(1..r) /\ Len(perm) = r
      /\ \A d \in 1..r : perm[d] = IF d <= 2 THEN two[d] ELSE rest[d - 2]
  <2>1. perm \in Seq(1..r) /\ Len(perm) = Len(two) + Len(rest)
        /\ \A d \in 1..(Len(two) + Len(rest)) : perm[d] = IF d <= Len(two) THEN two[d] ELSE rest[d - Len(two)]
    BY <1>4, <1>6, ConcatProperties
  <2>2. Len(two) + Len(rest) = r
    BY <1>1, <1>4, <1>6
  <2> HIDE DEF perm
  <2> QED BY <1>6, <2>1, <2>2
<1>8. Len(perm) = r /\ perm \in [1..r -> 1..r]
  <2> HIDE DEF perm
  <2> QED BY <1>1, <1>7
<1>9. \A d \in 1..r : perm[d] = IF d = 1 THEN b ELSE IF d = 2 THEN t ELSE skip(d - 2)
  <2>1. ASSUME NEW d \in 1..r PROVE perm[d] = IF d = 1 THEN b ELSE IF d = 2 THEN t ELSE skip(d - 2)
    <3>1. perm[d] = IF d <= 2 THEN two[d] ELSE rest[d - 2]
      BY <1>1, <1>7
    <3> HIDE DEF perm, skip
    <3> QED BY <1>1, <1>5, <1>6, <3>1
  <2> QED BY <2>1
<1>10. perm[1] = b /\ perm[2] = t
  <2> HIDE DEF perm, skip
  <2>1. 1 \in 1..r /\ 2 \in 1..r
    BY <1>1
  <2> QED BY <1>9, <2>1
<1> HIDE DEF perm
<1>11. \A i, j \in 1..r : perm[i] = perm[j] => i = j
  BY <1>1, <1>9
<1>12. \A d \in 1..r : back(d) \in 1..r /\ perm[back(d)] = d
  <2>1. ASSUME NEW d \in 1..r PROVE back(d) \in 1..r /\ perm[back(d)] = d
    <3> DEFINE i == back(d)
    <3>1. i \in 1..r /\ d = (IF i = 1 THEN b ELSE IF i = 2 THEN t ELSE skip(i - 2))
      BY <1>1
    <3> HIDE DEF i, skip
    <3>2. perm[i] = d
      BY <1>9, <3>1
    <3> QED BY <3>1, <3>2 DEF i
  <2> QED BY <2>1
<1>13. \A d \in 1..r : inverse[d] \in 1..r /\ perm[inverse[d]] = d
  <2>1. ASSUME NEW d \in 1..r PROVE inverse[d] \in 1..r /\ perm[inverse[d]] = d
    <3>1. \E i \in 1..r : perm[i] = d
      <4> HIDE DEF back
      <4> QED BY <1>12
    <3> QED BY <3>1
  <2> QED BY <2>1
<1>14. inverse \in [1..r -> 1..r]
  <2>1. \A d \in 1..r : (CHOOSE i \in 1..r : perm[i] = d) \in 1..r
    BY <1>13
  <2> QED BY <2>1
<1> HIDE DEF inverse
<1>15. \A d \in 1..r : inverse[perm[d]] = d
  BY <1>8, <1>11, <1>13, <1>14
<1>16. Undoes(perm, inverse, r)
  BY <1>8, <1>13, <1>14, <1>15 DEF Undoes
<1>17. AxesFirst(b, t, r) = perm
  BY DEF AxesFirst, perm, two, rest, some, axes, hi, lo
<1>18. Back(perm, r) = inverse
  BY DEF Back, inverse
<1> QED BY <1>8, <1>10, <1>16, <1>17, <1>18

\* An array with its axes in another order.
Reordered(t, perm, inverse, r) ==
  LET u == Transpose(t, perm)
      shape == [d \in 1..r |-> t.shape[perm[d]]]
  IN /\ u # Fail /\ u = [shape |-> u.shape, data |-> u.data] /\ u.shape = shape
     /\ shape \in Seq(Nat) /\ Len(shape) = r
     /\ u = Tensor(shape, LAMBDA idx : At(t, [a \in 1..r |-> idx[inverse[a]]]))
     /\ \A idx \in Box(shape) : At(u, idx) = At(t, [a \in 1..r |-> idx[inverse[a]]])

\* The elements of an array with its axes reordered.
LEMMA Transposed ==
  ASSUME NEW t, t # Fail, t.shape \in Seq(Nat), NEW r \in Nat, Len(t.shape) = r,
         NEW perm, NEW inverse, Undoes(perm, inverse, r)
  PROVE  Reordered(t, perm, inverse, r)
<1> DEFINE u == Transpose(t, perm)
           shape == [d \in 1..r |-> t.shape[perm[d]]]
           Value(idx) == At(t, [a \in 1..r |-> idx[inverse[a]]])
           data == [k \in 1..Prod(shape) |-> Value(Coord(shape, k - 1))]
<1>1. perm \in [1..r -> 1..r] /\ inverse \in [1..r -> 1..r] /\ DOMAIN perm = 1..r
      /\ \A d \in 1..r : perm[inverse[d]] = d /\ inverse[perm[d]] = d
  BY DEF Undoes
<1>2. Len(perm) = r /\ Rank(t) = r
  BY <1>1, IsSeq DEF Rank
<1>3. \A a \in 1..r : (CHOOSE d \in 1..r : perm[d] = a) = inverse[a]
  <2>1. ASSUME NEW a \in 1..r PROVE (CHOOSE d \in 1..r : perm[d] = a) = inverse[a]
    <3>1. inverse[a] \in 1..r /\ perm[inverse[a]] = a /\ \A d \in 1..r : perm[d] = a => d = inverse[a]
      BY <1>1
    <3> QED BY <3>1
  <2> QED BY <2>1
<1>4. u = Tensor(shape, Value)
  <2> DEFINE Chosen(idx) == At(t, [a \in 1..r |-> idx[CHOOSE d \in 1..r : perm[d] = a]])
  <2>1. u = Tensor(shape, Chosen)
    BY <1>1, <1>2 DEF Transpose, Tensor
  <2>2. ASSUME NEW idx PROVE Chosen(idx) = Value(idx)
    <3> DEFINE chosen(a) == CHOOSE d \in 1..r : perm[d] = a
    <3>1. \A a \in 1..r : chosen(a) = inverse[a]
      BY <1>3
    <3> HIDE DEF chosen
    <3>2. [a \in 1..r |-> idx[chosen(a)]] = [a \in 1..r |-> idx[inverse[a]]]
      BY <3>1
    <3>3. Chosen(idx) = At(t, [a \in 1..r |-> idx[chosen(a)]])
      BY DEF chosen
    <3> QED BY <3>2, <3>3
  <2> HIDE DEF Chosen, Value, shape
  <2> QED BY <2>1, <2>2 DEF Tensor
<1>5. shape \in Seq(Nat) /\ Len(shape) = r
  <2>1. \A d \in 1..r : t.shape[perm[d]] \in Nat
    BY <1>1, ElementOfSeq
  <2>2. shape \in [1..r -> Nat]
    BY <2>1
  <2> HIDE DEF shape
  <2> QED BY <2>2, IsSeq
<1> HIDE DEF shape, Value
<1>6. u = [shape |-> shape, data |-> data]
  BY <1>4 DEF Tensor
<1> HIDE DEF data, u
<1>7. u.shape = shape /\ u.data = data
  BY <1>6
<1>8. u # Fail
  BY <1>5, <1>7, NotFail
<1>9. ASSUME NEW idx \in Box(shape) PROVE At(u, idx) = Value(idx)
  <2> DEFINE k == 1 + Place(shape, idx)
  <2>1. k \in 1..Prod(shape) /\ Coord(shape, k - 1) = idx
    BY <1>5, PlaceOf
  <2>2. At(u, idx) = data[k]
    BY <1>7 DEF At
  <2> HIDE DEF k
  <2>3. data[k] = Value(Coord(shape, k - 1))
    BY <2>1 DEF data
  <2> QED BY <2>1, <2>2, <2>3
<1>10. u = Tensor(shape, LAMBDA idx : At(t, [a \in 1..r |-> idx[inverse[a]]]))
  BY <1>4 DEF Value, Tensor
<1>11. \A idx \in Box(shape) : At(u, idx) = At(t, [a \in 1..r |-> idx[inverse[a]]])
  BY <1>9 DEF Value
<1> HIDE DEF Value
<1>12. u = [shape |-> u.shape, data |-> u.data]
  BY <1>6, <1>7
<1> QED BY <1>5, <1>7, <1>8, <1>10, <1>11, <1>12 DEF Reordered, u, shape
Turned(t, l) == IF t < l THEN l - 1 - t ELSE t

\* The table of the elements a row of its own length takes, reversed.
Reversals(len, p, w) ==
  LET lens == Reshape(len, <<p, 1>>)
      steps == Reshape(Arange(0, w, 1), <<1, w>>)
      index == Map2(LAMBDA t, l : IF t < l THEN l - 1 - t ELSE t, steps, lens)
  IN /\ index # Fail /\ index.shape = <<p, w>> /\ index = [shape |-> index.shape, data |-> index.data]
     /\ \A k \in 1..(p * w) : index.data[k] = Turned((k - 1) % w, len.data[1 + ((k - 1) \div w)])

\* The table the handler builds from the lengths.
LEMMA Countdown ==
  ASSUME NEW p \in Nat, NEW w \in Nat, NEW len, len = [shape |-> len.shape, data |-> len.data],
         len.shape = <<p>>
  PROVE  Reversals(len, p, w)
<1> DEFINE lens == Reshape(len, <<p, 1>>)
           count == Arange(0, w, 1)
           numbers == [k \in 1..w |-> 0 + (k - 1) * 1]
           steps == Reshape(count, <<1, w>>)
           shape == Broadcast(steps.shape, lens.shape)
           a == BroadcastTo(steps, <<p, w>>)
           b == BroadcastTo(lens, <<p, w>>)
           index == Map2(LAMBDA t, l : IF t < l THEN l - 1 - t ELSE t, steps, lens)
<1>1. p \in Int /\ w \in Int /\ 1 \in Nat /\ p * w \in Nat
  BY Products
<1>2. /\ <<p>> \in Seq(Nat) /\ Prod(<<p>>) = p /\ <<w>> \in Seq(Nat) /\ Prod(<<w>>) = w
      /\ <<p, 1>> \in Seq(Nat) /\ Prod(<<p, 1>>) = p /\ <<1, w>> \in Seq(Nat) /\ Prod(<<1, w>>) = w
  <2>1. <<p>> \in Seq(Nat) /\ Prod(<<p>>) = p /\ <<w>> \in Seq(Nat) /\ Prod(<<w>>) = w
    BY Pair
  <2>2. <<p, 1>> \in Seq(Nat) /\ Prod(<<p, 1>>) = p * 1
    BY <1>1, Pair
  <2>3. <<1, w>> \in Seq(Nat) /\ Prod(<<1, w>>) = 1 * w
    BY <1>1, Pair
  <2> QED BY <1>1, <2>1, <2>2, <2>3
<1>3. lens = [shape |-> <<p, 1>>, data |-> len.data]
  <2>1. len # Fail
    BY <1>2, NotFail
  <2> QED BY <1>2, <2>1, Reshaped
<1>4. count = [shape |-> <<w>>, data |-> numbers]
  <2>1. CeilDiv(w - 0, 1) = w /\ Larger(0, CeilDiv(w - 0, 1)) = w
    <3>1. CeilDiv(w - 0, 1) = w
      BY <1>1 DEF CeilDiv
    <3> QED BY <1>1, <3>1 DEF Larger
  <2>2. Len(numbers) = w
    <3>1. numbers \in [1..w -> Int]
      BY <1>1
    <3> QED BY <3>1, IsSeq
  <2>3. count = Vector(numbers)
    BY <1>1, <2>1 DEF Arange
  <2> HIDE DEF numbers, count
  <2> QED BY <2>2, <2>3 DEF Vector
<1>5. steps = [shape |-> <<1, w>>, data |-> numbers]
  <2> HIDE DEF numbers, count
  <2>1. count.shape = <<w>> /\ count.data = numbers /\ count = [shape |-> count.shape, data |-> count.data]
    BY <1>4
  <2>2. count # Fail
    BY <1>2, <2>1, NotFail
  <2>3. Prod(<<1, w>>) = Prod(count.shape)
    BY <1>2, <2>1
  <2> QED BY <1>2, <2>1, <2>2, <2>3, Reshaped
<1> HIDE DEF lens, steps, count
<1>6. shape = <<p, w>>
  <2> DEFINE s == <<1, w>>
             t == <<p, 1>>
             ext(u, i) == IF i > 2 - Len(u) THEN u[i - (2 - Len(u))] ELSE 1
             f == [i \in 1..2 |-> IF ext(s, i) = 1 THEN ext(t, i) ELSE ext(s, i)]
  <2>1. Len(s) = 2 /\ Len(t) = 2 /\ Larger(Len(s), Len(t)) = 2 /\ s[1] = 1 /\ s[2] = w /\ t[1] = p /\ t[2] = 1
    BY DEF Larger
  <2>2. Broadcast(s, t) = f
    <3> HIDE DEF s, t
    <3> QED BY <2>1 DEF Broadcast
  <2>3. f = [i \in 1..2 |-> IF i = 1 THEN p ELSE w]
    <3>1. ASSUME NEW i \in 1..2
          PROVE  (IF ext(s, i) = 1 THEN ext(t, i) ELSE ext(s, i)) = IF i = 1 THEN p ELSE w
      <4> HIDE DEF s, t
      <4>1. ext(s, i) = s[i] /\ ext(t, i) = t[i]
        BY <2>1
      <4> QED BY <2>1, <4>1
    <3> QED BY <3>1
  <2>4. f = <<p, w>>
    <3> HIDE DEF f
    <3> QED BY <1>1, <2>3, PlainTuples
  <2> HIDE DEF f
  <2> QED BY <1>3, <1>5, <2>2, <2>4
<1>7. SpreadOver(steps, p, w)
  <2>1. steps.shape \in Seq(Nat) /\ Len(steps.shape) = 2 /\ steps.shape[1] \in {1, p} /\ steps.shape[2] \in {1, w}
    BY <1>2, <1>5
  <2> QED BY <2>1, PairSpread
<1>8. SpreadOver(lens, p, w)
  <2>1. lens.shape \in Seq(Nat) /\ Len(lens.shape) = 2 /\ lens.shape[1] \in {1, p} /\ lens.shape[2] \in {1, w}
    BY <1>2, <1>3
  <2> QED BY <2>1, PairSpread
<1>9. /\ a # Fail /\ b # Fail /\ steps # Fail /\ lens # Fail /\ DOMAIN a.data = 1..(p * w)
      /\ \A k \in 1..(p * w) :
           a.data[k] = steps.data[1 + ((IF steps.shape[1] = 1 THEN 0 ELSE (k - 1) \div w) * steps.shape[2]
                                       + (IF steps.shape[2] = 1 THEN 0 ELSE (k - 1) % w))]
      /\ \A k \in 1..(p * w) :
           b.data[k] = lens.data[1 + ((IF lens.shape[1] = 1 THEN 0 ELSE (k - 1) \div w) * lens.shape[2]
                                      + (IF lens.shape[2] = 1 THEN 0 ELSE (k - 1) % w))]
  BY <1>7, <1>8 DEF SpreadOver
<1> HIDE DEF a, b, shape
<1>10. index = [shape |-> <<p, w>>,
                data |-> [k \in 1..(p * w) |-> IF a.data[k] < b.data[k] THEN b.data[k] - 1 - a.data[k] ELSE a.data[k]]]
  BY <1>6, <1>9 DEF Map2, shape, a, b
<1>11. ASSUME NEW k \in 1..(p * w)
       PROVE  a.data[k] = (k - 1) % w /\ b.data[k] = len.data[1 + ((k - 1) \div w)]
  <2> DEFINE h == k - 1
             i == h \div w
             j == h % w
  <2>1. h \in 0..(p * w - 1)
    <3> DEFINE m == p * w
    <3>1. m \in Nat /\ k \in 1..m
      BY <1>1
    <3> HIDE DEF m
    <3> QED BY <3>1
  <2> HIDE DEF h
  <2>2. i \in 0..(p - 1) /\ j \in 0..(w - 1) /\ w \in Pos
    BY <2>1, PairCoord
  <2> HIDE DEF i, j
  <2>3. steps.shape[1] = 1 /\ steps.shape[2] = w /\ steps.data = numbers
        /\ lens.shape[1] = p /\ lens.shape[2] = 1 /\ lens.data = len.data
    BY <1>3, <1>5
  <2> HIDE DEF numbers
  <2>4. (IF w = 1 THEN 0 ELSE j) = j /\ (IF p = 1 THEN 0 ELSE i) = i /\ i \in Nat /\ j \in Nat
    BY <1>1, <2>2
  <2>5. a.data[k] = numbers[1 + (0 * w + (IF w = 1 THEN 0 ELSE j))]
    BY <1>9, <2>3 DEF h, i, j
  <2>6. b.data[k] = len.data[1 + ((IF p = 1 THEN 0 ELSE i) * 1 + 0)]
    BY <1>9, <2>3 DEF h, i, j
  <2>7. a.data[k] = numbers[1 + j]
    BY <1>1, <2>4, <2>5
  <2>8. b.data[k] = len.data[1 + i]
    BY <2>4, <2>6
  <2>9. numbers[1 + j] = j
    BY <1>1, <2>2 DEF numbers
  <2> QED BY <2>7, <2>8, <2>9 DEF h, i, j
<1> HIDE DEF index
<1>12. ASSUME NEW k \in 1..(p * w)
       PROVE  index.data[k] = Turned((k - 1) % w, len.data[1 + ((k - 1) \div w)])
  <2> DEFINE x == (k - 1) % w
             y == len.data[1 + ((k - 1) \div w)]
  <2>1. a.data[k] = x /\ b.data[k] = y
    BY <1>11
  <2> HIDE DEF x, y
  <2>2. index.data[k] = IF x < y THEN y - 1 - x ELSE x
    BY <1>10, <2>1
  <2> QED BY <2>2 DEF Turned, x, y
<1>13. index.shape = <<p, w>> /\ index = [shape |-> index.shape, data |-> index.data]
  BY <1>10
<1>14. index # Fail
  <2>1. <<p, w>> \in Seq(Nat)
    BY Pair
  <2> QED BY <1>13, <2>1, NotFail
<1> QED BY <1>12, <1>13, <1>14 DEF Reversals, index, steps, lens, count

\* A table spread over the axes after its two.
SpreadsOut(index, s) ==
  LET b == BroadcastTo(Reshape(index, index.shape \o Repeated(1, Len(s) - 2)), s)
  IN /\ b # Fail /\ b.shape = s
     /\ \A y \in Box(s) : At(b, y) = index.data[1 + (y[1] * s[2] + y[2])]

\* A reshape to trailing ones and a broadcast repeat a table over the other axes.
LEMMA SpreadOut ==
  ASSUME NEW s \in Seq(Nat), Len(s) >= 2, NEW index, index # Fail,
         index = [shape |-> index.shape, data |-> index.data], index.shape = <<s[1], s[2]>>
  PROVE  SpreadsOut(index, s)
<1> DEFINE p == s[1]
           w == s[2]
           r == Len(s)
           ones == Repeated(1, r - 2)
           two == <<p, w>>
           u == two \o ones
           view == Reshape(index, u)
           b == BroadcastTo(view, s)
           lead == Len(s) - Rank(view)
           Value(idx) == At(view, [a \in 1..Rank(view) |-> IF view.shape[a] = 1 THEN 0 ELSE idx[lead + a]])
<1>1. r \in Nat /\ r - 2 \in Nat /\ p \in Nat /\ w \in Nat /\ DOMAIN s = 1..r
      /\ \A d \in 1..r : s[d] \in Nat
  BY LenProperties, ElementOfSeq
<1>2. ones \in Seq(Nat) /\ Len(ones) = r - 2 /\ \A d \in 1..(r - 2) : ones[d] = 1
  <2> DEFINE k == r - 2
  <2>1. k \in Nat
    BY <1>1
  <2> HIDE DEF k
  <2>2. Repeated(1, k) \in [1..k -> Nat] /\ \A d \in 1..k : Repeated(1, k)[d] = 1
    BY DEF Repeated
  <2>3. Repeated(1, k) \in Seq(Nat) /\ Len(Repeated(1, k)) = k
    BY <2>1, <2>2, IsSeq
  <2> QED BY <2>2, <2>3 DEF k
<1> HIDE DEF ones, p, w, r
<1>3. Prod(ones) = 1
  <2>1. PICK h \in [0..Len(ones) -> Int] :
          h[0] = 1 /\ (\A i \in 1..Len(ones) : h[i] = h[i - 1] * ones[i]) /\ Prod(ones) = h[Len(ones)]
    <3>1. ones \in Seq(Int)
      BY <1>2, Wider
    <3> QED BY <3>1, ProdFold
  <2> DEFINE T == {m \in Nat : m <= r - 2 => h[m] = 1}
  <2>2. 0 \in T
    BY <2>1
  <2>3. ASSUME NEW m \in Nat, m \in T PROVE m + 1 \in T
    <3>1. ASSUME m + 1 <= r - 2 PROVE h[m + 1] = 1
      <4>1. m <= r - 2 /\ m + 1 \in 1..(r - 2) /\ (m + 1) - 1 = m
        BY <1>1, <3>1
      <4>2. h[m] = 1
        BY <2>3, <4>1
      <4>3. h[m + 1] = h[(m + 1) - 1] * ones[m + 1] /\ ones[m + 1] = 1
        BY <1>2, <2>1, <4>1
      <4> QED BY <4>1, <4>2, <4>3
    <3> QED BY <3>1
  <2> HIDE DEF T
  <2>4. Nat \subseteq T
    BY <2>2, <2>3, NatSets
  <2> QED BY <1>1, <1>2, <2>1, <2>4 DEF T
<1>4. two \in Seq(Nat) /\ Prod(two) = p * w /\ p * w \in Nat /\ Len(two) = 2 /\ two[1] = p /\ two[2] = w
  <2>1. two \in Seq(Nat) /\ Prod(two) = p * w /\ p * w \in Nat
    BY <1>1, Pair
  <2> QED BY <2>1
<1> HIDE DEF two
<1>5. u \in Seq(Nat) /\ Len(u) = r /\ Prod(u) = p * w
      /\ \A d \in 1..r : u[d] = IF d <= 2 THEN two[d] ELSE 1
  <2>1. u \in Seq(Nat) /\ Len(u) = Len(two) + Len(ones)
        /\ \A d \in 1..(Len(two) + Len(ones)) : u[d] = IF d <= Len(two) THEN two[d] ELSE ones[d - Len(two)]
    BY <1>2, <1>4, ConcatProperties
  <2>2. Prod(u) = (p * w) * 1
    BY <1>2, <1>3, <1>4, ProdCat
  <2> HIDE DEF u
  <2>3. ASSUME NEW d \in 1..r PROVE u[d] = IF d <= 2 THEN two[d] ELSE 1
    <3>1. d \in 1..(Len(two) + Len(ones))
      BY <1>1, <1>2, <1>4
    <3>2. CASE d <= 2
      BY <1>4, <2>1, <3>1, <3>2
    <3>3. CASE ~(d <= 2)
      <4>1. d - 2 \in 1..(r - 2)
        BY <1>1, <3>3
      <4> QED BY <1>2, <1>4, <2>1, <3>1, <3>3, <4>1
    <3> QED BY <3>2, <3>3
  <2>4. Len(two) + Len(ones) = r /\ (p * w) * 1 = p * w
    BY <1>1, <1>2, <1>4
  <2> QED BY <2>1, <2>2, <2>3, <2>4
<1> HIDE DEF u
<1>6. view = [shape |-> u, data |-> index.data]
  <2>1. Prod(u) = Prod(index.shape)
    BY <1>4, <1>5 DEF two, p, w
  <2> QED BY <1>5, <2>1, Reshaped
<1> HIDE DEF view
<1>7. view.shape = u /\ view.data = index.data /\ Rank(view) = r /\ lead = 0 /\ view # Fail
  <2>1. view.shape = u /\ view.data = index.data
    BY <1>6
  <2>2. view # Fail
    BY <1>5, <2>1, NotFail
  <2>3. Rank(view) = r
    BY <1>5, <2>1 DEF Rank
  <2>4. lead = 0
    BY <1>1, <2>3 DEF r
  <2> QED BY <2>1, <2>2, <2>3, <2>4
<1>8. b = Tensor(s, Value)
  <2>1. ASSUME NEW a \in 1..Rank(view) PROVE view.shape[a] \in {1, s[lead + a]}
    <3>1. a \in 1..r /\ lead + a = a
      BY <1>1, <1>7
    <3>2. CASE a <= 2
      <4>1. a = 1 \/ a = 2
        BY <1>1, <3>1, <3>2
      <4> HIDE DEF lead
      <4> QED BY <1>4, <1>5, <1>7, <3>1, <3>2, <4>1 DEF p, w
    <3>3. CASE ~(a <= 2)
      BY <1>5, <1>7, <3>1, <3>3
    <3> QED BY <3>2, <3>3
  <2>2. ~(lead < 0)
    BY <1>7
  <2> QED BY <1>7, <2>1, <2>2 DEF BroadcastTo, Tensor
<1>9. ASSUME NEW y \in Box(s) PROVE Value(y) = index.data[1 + (y[1] * w + y[2])]
  <2> DEFINE c == [a \in 1..Rank(view) |-> IF view.shape[a] = 1 THEN 0 ELSE y[lead + a]]
             i == y[1]
             j == y[2]
             at == <<i, j>>
             zeros == Repeated(0, r - 2)
  <2>1. y \in Seq(Nat) /\ Len(y) = r /\ \A d \in 1..r : y[d] \in 0..(s[d] - 1)
    BY BoxSeq DEF r
  <2>2. 1 \in 1..r /\ 2 \in 1..r
    BY <1>1 DEF r
  <2>3. i \in 0..(p - 1) /\ j \in 0..(w - 1) /\ i \in Nat /\ j \in Nat /\ p # 0 /\ w # 0
    <3>1. y[1] \in 0..(s[1] - 1) /\ y[2] \in 0..(s[2] - 1)
      BY <2>1, <2>2
    <3>2. i \in 0..(p - 1) /\ j \in 0..(w - 1)
      BY <3>1 DEF p, w
    <3> HIDE DEF i, j
    <3> QED BY <1>1, <3>2
  <2>4. zeros \in Seq(Nat) /\ Len(zeros) = r - 2 /\ \A d \in 1..(r - 2) : zeros[d] = 0
    <3> DEFINE k == r - 2
    <3>1. k \in Nat
      BY <1>1
    <3> HIDE DEF k
    <3>2. Repeated(0, k) \in [1..k -> Nat] /\ \A d \in 1..k : Repeated(0, k)[d] = 0
      BY DEF Repeated
    <3>3. Repeated(0, k) \in Seq(Nat) /\ Len(Repeated(0, k)) = k
      BY <3>1, <3>2, IsSeq
    <3> QED BY <3>2, <3>3 DEF k
  <2> HIDE DEF i, j, zeros
  <2>5. at \in Seq(Nat) /\ Len(at) = 2 /\ at[1] = i /\ at[2] = j
    BY <2>3
  <2> HIDE DEF at
  <2> DEFINE e == at \o zeros
  <2>6. e \in Seq(Nat) /\ Len(e) = Len(at) + Len(zeros)
        /\ \A d \in 1..(Len(at) + Len(zeros)) : e[d] = IF d <= Len(at) THEN at[d] ELSE zeros[d - Len(at)]
    BY <2>4, <2>5, ConcatProperties
  <2> HIDE DEF e
  <2>7. Len(e) = r /\ DOMAIN e = 1..r
    <3>1. Len(e) = r
      BY <1>1, <2>4, <2>5, <2>6
    <3> QED BY <2>6, <3>1, LenProperties
  <2>8. ASSUME NEW d \in 1..r PROVE (IF u[d] = 1 THEN 0 ELSE y[0 + d]) = e[d]
    <3>1. 0 + d = d /\ d \in 1..(Len(at) + Len(zeros))
      BY <1>1, <2>4, <2>5
    <3>2. CASE d = 1
      <4>1. u[1] = two[1] /\ e[1] = at[1]
        <5>1. 1 \in 1..r /\ 1 \in 1..(Len(at) + Len(zeros)) /\ 1 <= 2 /\ 1 <= Len(at)
          BY <2>2, <2>5, <3>1, <3>2
        <5>2. u[1] = two[1]
          BY <1>5, <5>1
        <5>3. e[1] = at[1]
          BY <2>6, <5>1
        <5> QED BY <5>2, <5>3
      <4>2. u[d] = p /\ e[d] = i /\ y[d] = i
        BY <1>4, <2>5, <3>2, <4>1 DEF i
      <4> QED BY <1>1, <2>3, <3>1, <4>2
    <3>3. CASE d = 2
      <4>1. u[2] = two[2] /\ e[2] = at[2]
        <5>1. 2 \in 1..r /\ 2 \in 1..(Len(at) + Len(zeros)) /\ 2 <= 2 /\ 2 <= Len(at)
          BY <2>2, <2>5, <3>1, <3>3
        <5>2. u[2] = two[2]
          BY <1>5, <5>1
        <5>3. e[2] = at[2]
          BY <2>6, <5>1
        <5> QED BY <5>2, <5>3
      <4>2. u[d] = w /\ e[d] = j /\ y[d] = j
        BY <1>4, <2>5, <3>3, <4>1 DEF j
      <4> QED BY <1>1, <2>3, <3>1, <4>2
    <3>4. CASE d > 2
      <4>0. d - 2 \in 1..(r - 2) /\ ~(d <= 2)
        BY <1>1, <3>4
      <4>1. u[d] = 1 /\ d - 2 \in 1..(r - 2) /\ ~(d <= 2)
        BY <1>5, <4>0
      <4>2. e[d] = 0
        BY <2>4, <2>5, <2>6, <3>1, <4>1
      <4> QED BY <4>1, <4>2
    <3> QED BY <1>1, <3>2, <3>3, <3>4
  <2>9. c = e
    <3>1. c = [d \in 1..r |-> IF u[d] = 1 THEN 0 ELSE y[0 + d]]
      <4> HIDE DEF lead
      <4> QED BY <1>7
    <3>2. e = [d \in 1..r |-> e[d]]
      BY <2>6, <2>7
    <3> HIDE DEF c
    <3> QED BY <2>8, <3>1, <3>2
  <2>10. Place(u, e) = i * w + j
    <3>1. zeros \in Seq(Int) /\ at \in Seq(Int)
      BY <2>4, <2>5, Wider
    <3>2. Len(at) = Len(two) /\ Len(zeros) = Len(ones)
      BY <1>2, <1>4, <2>4, <2>5
    <3>3. Place(two \o ones, at \o zeros) = Place(two, at) * Prod(ones) + Place(ones, zeros)
      BY <1>2, <1>4, <3>1, <3>2, PlaceCat
    <3>4. zeros \in Box(ones)
      BY <1>1, <1>2, <2>4 DEF Box
    <3>5. Place(ones, zeros) \in 0..(Prod(ones) - 1)
      BY <1>2, <3>4, PlaceIn
    <3>6. Place(ones, zeros) = 0
      BY <1>3, <3>5
    <3>7. Place(two, at) = i * w + j
      <4>1. i \in Int /\ j \in Int
        BY <2>3
      <4>2. Place(<<p, w>>, <<i, j>>) = i * w + j
        BY <1>1, <4>1, PairPlace
      <4> QED BY <4>2 DEF two, at
    <3> DEFINE x == i * w
    <3>8. x \in Nat /\ x + j \in Nat
      <4>1. x \in Nat
        BY <1>1, <2>3, Products
      <4> HIDE DEF x
      <4> QED BY <2>3, <4>1
    <3> HIDE DEF x
    <3>9. Place(two \o ones, at \o zeros) = x + j
      BY <1>3, <2>3, <3>3, <3>6, <3>7, <3>8 DEF x
    <3> QED BY <3>9 DEF u, e, x
  <2>11. Value(y) = At(view, c)
    OBVIOUS
  <2> HIDE DEF Value, c
  <2>12. At(view, e) = index.data[1 + (i * w + j)]
    BY <1>7, <2>10 DEF At
  <2> QED BY <2>9, <2>11, <2>12 DEF i, j
<1> HIDE DEF Value
<1>10. b = [shape |-> s, data |-> [k \in 1..Prod(s) |-> Value(Coord(s, k - 1))]]
  BY <1>8 DEF Tensor
<1> HIDE DEF b
<1>11. b.shape = s /\ b # Fail
  <2>1. b.shape = s
    BY <1>10
  <2> QED BY <2>1, NotFail
<1>12. ASSUME NEW y \in Box(s) PROVE At(b, y) = index.data[1 + (y[1] * w + y[2])]
  <2> DEFINE k == 1 + Place(s, y)
  <2>1. k \in 1..Prod(s) /\ Coord(s, k - 1) = y
    BY PlaceOf
  <2>2. At(b, y) = b.data[k]
    BY <1>11 DEF At
  <2> HIDE DEF k
  <2>3. b.data[k] = Value(y)
    BY <1>10, <2>1
  <2> QED BY <1>9, <2>2, <2>3
<1>13. b = BroadcastTo(Reshape(index, index.shape \o Repeated(1, Len(s) - 2)), s)
  BY DEF b, view, u, two, ones, p, w, r
<1> HIDE DEF lead
<1> QED BY <1>11, <1>12, <1>13 DEF SpreadsOut, w

\* ReverseSequence: the first elements of every row reversed, for its length.
LEMMA ReverseSequenceExact ==
  ASSUME NEW n, n.op = "ReverseSequence", LegalOperands(n), ReverseSequenceClaim(n)
  PROVE  ReverseSequenceOp(n) = ReverseSequenceMeaning(n) /\ NoFailure(ReverseSequenceOp(n))
<1> DEFINE data == In(n, 1)
           len == In(n, 2)
           s == data.shape
           r == Rank(data)
           b == Axis(Attr(n, "batch_axis", 1), r)
           t == Axis(Attr(n, "time_axis", 0), r)
           perm == AxesFirst(b, t, r)
           inverse == [d \in 1..r |-> CHOOSE i \in 1..r : perm[i] = d]
           first == Transpose(data, perm)
           p == first.shape[1]
           w == first.shape[2]
           index == Map2(LAMBDA x, l : IF x < l THEN l - 1 - x ELSE x,
                         Reshape(Arange(0, w, 1), <<1, w>>), Reshape(len, <<p, 1>>))
           spread == BroadcastTo(Reshape(index, index.shape \o Repeated(1, r - 2)), first.shape)
           taken == TakeAlong(first, spread, 2)
           until(idx) == n.ins[2].data[1 + idx[b]]
           Meant(idx) == At(data, IF idx[t] < until(idx) THEN [idx EXCEPT ![t] = until(idx) - 1 - @] ELSE idx)
<1>1. ArrayOf(n, 1) /\ ArrayOf(n, 2) /\ Attr(n, "batch_axis", 1) \in Int /\ Attr(n, "time_axis", 0) \in Int
  BY DEF LegalOperands
<1>2. /\ data # Fail /\ s \in Seq(Nat) /\ s = n.ins[1].shape /\ r = Len(s) /\ r \in Nat
      /\ len # Fail /\ len = [shape |-> len.shape, data |-> len.data] /\ len.shape \in Seq(Nat)
      /\ len.shape = n.ins[2].shape /\ len.data = n.ins[2].data
  BY <1>1, Operand DEF Rank
<1>3. /\ Len(n.ins[1].info) = r /\ Len(n.ins[1].info) >= 2 /\ Static(n.ins[1].info)
      /\ Len(n.ins[2].info) = 1 /\ UniqueAxes(<<Attr(n, "batch_axis", 1), Attr(n, "time_axis", 0)>>, Len(n.ins[1].info))
      /\ n.ins[2].info[1] = n.ins[1].info[Axis(Attr(n, "batch_axis", 1), Len(n.ins[1].info))]
  <2>1. Len(n.ins[1].info) = r
    BY <1>1, <1>2 DEF ArrayOf, IsOperand
  <2> HIDE DEF r
  <2> QED BY <2>1 DEF ReverseSequenceClaim
<1>4. b \in 1..r /\ t \in 1..r /\ b # t
      /\ AxisAttr(n, "batch_axis", 1, r) = b /\ AxisAttr(n, "time_axis", 0, r) = t
  <2> DEFINE x == Attr(n, "batch_axis", 1)
             y == Attr(n, "time_axis", 0)
             both == <<x, y>>
  <2>1. both[1] = x /\ both[2] = y /\ DOMAIN both = 1..2
    OBVIOUS
  <2> HIDE DEF both, x, y, r
  <2>2. AxisInRange(both[1], r) /\ AxisInRange(both[2], r) /\ (Axis(both[1], r) = Axis(both[2], r) => 1 = 2)
    BY <1>3, <2>1 DEF UniqueAxes, both, x, y
  <2>3. x \in (-r)..(r - 1) /\ y \in (-r)..(r - 1) /\ Axis(x, r) # Axis(y, r)
    <3>1. x \in Int /\ y \in Int
      BY <1>1 DEF x, y
    <3> QED BY <1>2, <2>1, <2>2, <3>1 DEF AxisInRange
  <2>4. Axis(x, r) = 1 + (x % r) /\ Axis(x, r) \in 1..r
    BY <1>2, <2>3, AxisIs
  <2>5. Axis(y, r) = 1 + (y % r) /\ Axis(y, r) \in 1..r
    BY <1>2, <2>3, AxisIs
  <2> QED BY <2>3, <2>4, <2>5 DEF AxisAttr, x, y
<1>5. len.shape = <<s[b]>>
  <2>1. n.ins[1].info \in Seq(Int) /\ n.ins[2].info \in Seq(Int) /\ Len(n.ins[2].shape) = 1
        /\ (\A d \in DOMAIN s : n.ins[1].info[d] \in {-1, s[d]})
        /\ (\A d \in DOMAIN n.ins[2].shape : n.ins[2].info[d] \in {-1, n.ins[2].shape[d]})
    BY <1>1, <1>2, <1>3 DEF ArrayOf, IsOperand
  <2>2. DOMAIN s = 1..r /\ DOMAIN n.ins[1].info = 1..r /\ DOMAIN n.ins[2].shape = 1..1
    <3>1. DOMAIN n.ins[1].info = 1..r
      BY <1>3, <2>1, LenProperties
    <3>2. DOMAIN n.ins[2].shape = 1..1
      BY <1>2, <2>1, LenProperties
    <3> QED BY <1>2, <3>1, <3>2, LenProperties
  <2>3. n.ins[2].info[1] = n.ins[1].info[b]
    BY <1>3
  <2> HIDE DEF b, t, s, r, len
  <2>4. n.ins[1].info[b] >= 0
    BY <1>3, <1>4, <2>2 DEF Static
  <2>5. n.ins[1].info[b] = s[b]
    BY <1>4, <2>1, <2>2, <2>4
  <2>6. n.ins[2].info[1] = n.ins[2].shape[1] /\ n.ins[2].shape[1] = s[b]
    BY <2>1, <2>2, <2>3, <2>4, <2>5
  <2>7. n.ins[2].shape \in Seq(Int) /\ s[b] \in Int
    <3>1. n.ins[2].shape \in Seq(Nat) /\ s[b] \in Nat
      BY <1>2, <1>4, ElementOfSeq
    <3>2. n.ins[2].shape \in Seq(Int)
      BY <3>1, Wider
    <3> QED BY <3>1, <3>2
  <2> QED BY <1>2, <2>1, <2>6, <2>7, Spelled
<1>6. ReverseSequenceOp(n) = <<Transpose(taken, inverse)>>
  BY DEF ReverseSequenceOp
<1>7. ReverseSequenceMeaning(n) = <<Tensor(s, Meant)>>
  <2>1. ReverseSequenceMeaning(n) =
          <<Tensor(s, LAMBDA idx :
              At(data, IF idx[AxisAttr(n, "time_axis", 0, r)] < n.ins[2].data[1 + idx[AxisAttr(n, "batch_axis", 1, r)]]
                       THEN [idx EXCEPT ![AxisAttr(n, "time_axis", 0, r)] =
                                n.ins[2].data[1 + idx[AxisAttr(n, "batch_axis", 1, r)]] - 1 - @]
                       ELSE idx))>>
    BY DEF ReverseSequenceMeaning
  <2> HIDE DEF b, t, s, r, data
  <2> QED BY <1>4, <2>1 DEF Tensor
<1> HIDE DEF b, t
<1>8. Undoes(perm, inverse, r) /\ perm[1] = b /\ perm[2] = t /\ Len(perm) = r
  <2> HIDE DEF r
  <2>1. r \in Nat /\ b \in 1..r /\ t \in 1..r /\ b # t
    BY <1>2, <1>4
  <2>2. /\ Undoes(AxesFirst(b, t, r), Back(AxesFirst(b, t, r), r), r)
        /\ AxesFirst(b, t, r)[1] = b /\ AxesFirst(b, t, r)[2] = t /\ Len(AxesFirst(b, t, r)) = r
    BY <2>1, Ordered
  <2>3. Back(perm, r) = inverse
    BY DEF Back
  <2> HIDE DEF inverse
  <2> QED BY <2>2, <2>3
<1>9. Undoes(inverse, perm, r)
  BY <1>8 DEF Undoes
<1> HIDE DEF perm, inverse, data, len
<1> DEFINE f == first.shape
<1>10. Reordered(data, perm, inverse, r)
  <2> HIDE DEF r
  <2> QED BY <1>2, <1>8, Transposed
<1>11. first # Fail /\ f = [d \in 1..r |-> s[perm[d]]] /\ f \in Seq(Nat) /\ Len(f) = r
       /\ \A idx \in Box(f) : At(first, idx) = At(data, [a \in 1..r |-> idx[inverse[a]]])
  BY <1>10 DEF Reordered
<1>12. r >= 2 /\ p = s[b] /\ w = s[t] /\ p \in Nat /\ w \in Nat /\ f[1] = p /\ f[2] = w
  <2>1. r >= 2
    BY <1>3
  <2>2. 1 \in 1..r /\ 2 \in 1..r
    BY <1>2, <2>1
  <2>3. f[1] = s[perm[1]] /\ f[2] = s[perm[2]] /\ f[1] \in Nat /\ f[2] \in Nat
    <3> HIDE DEF f
    <3> QED BY <1>11, <2>2, ElementOfSeq
  <2> QED BY <1>8, <2>1, <2>3
<1> HIDE DEF first, p, w, f, r
<1>13. Reversals(len, p, w)
  <2>1. len.shape = <<p>>
    BY <1>5, <1>12
  <2> QED BY <1>2, <1>12, <2>1, Countdown
<1>14. index # Fail /\ index.shape = <<p, w>> /\ index = [shape |-> index.shape, data |-> index.data]
       /\ \A k \in 1..(p * w) : index.data[k] = Turned((k - 1) % w, len.data[1 + ((k - 1) \div w)])
  BY <1>13 DEF Reversals
<1> HIDE DEF index
<1>15. SpreadsOut(index, f)
  <2>1. Len(f) >= 2 /\ index.shape = <<f[1], f[2]>>
    BY <1>11, <1>12, <1>14
  <2> QED BY <1>11, <1>14, <2>1, SpreadOut
<1>16. spread # Fail /\ spread.shape = f /\ \A y \in Box(f) : At(spread, y) = index.data[1 + (y[1] * w + y[2])]
  BY <1>11, <1>12, <1>15 DEF SpreadsOut, f
<1> HIDE DEF spread
<1> DEFINE Taking(y) == At(first, With(y, 2, At(spread, y)))
<1>17. taken = Tensor(f, Taking)
  <2>1. FitsAlong(first, spread, 2)
    BY <1>16 DEF FitsAlong, f, Rank
  <2> QED BY <1>11, <1>16, <2>1 DEF TakeAlong, Tensor
<1> HIDE DEF Taking
<1>18. taken = [shape |-> f, data |-> [k \in 1..Prod(f) |-> Taking(Coord(f, k - 1))]]
  BY <1>17 DEF Tensor
<1> HIDE DEF taken
<1>19. taken.shape = f /\ taken # Fail
  <2>1. taken.shape = f
    BY <1>18
  <2> QED BY <1>11, <2>1, NotFail
<1>20. ASSUME NEW y \in Box(f) PROVE At(taken, y) = Taking(y)
  <2> DEFINE k == 1 + Place(f, y)
  <2>1. k \in 1..Prod(f) /\ Coord(f, k - 1) = y
    BY <1>11, PlaceOf
  <2>2. At(taken, y) = taken.data[k]
    BY <1>19 DEF At
  <2> HIDE DEF k
  <2>3. taken.data[k] = Taking(y)
    BY <1>18, <2>1
  <2> QED BY <2>2, <2>3
<1>21. Reordered(taken, inverse, perm, r)
  BY <1>2, <1>9, <1>11, <1>19, Transposed
<1>22. /\ [d \in 1..r |-> f[inverse[d]]] = s
       /\ Transpose(taken, inverse) = Tensor(s, LAMBDA idx : At(taken, [a \in 1..r |-> idx[perm[a]]]))
  <2>1. ASSUME NEW d \in 1..r PROVE f[inverse[d]] = s[d]
    BY <1>8, <1>11 DEF Undoes
  <2>2. s = [d \in 1..r |-> s[d]]
    BY <1>2, LenProperties
  <2>3. [d \in 1..r |-> f[inverse[d]]] = s
    BY <2>1, <2>2
  <2>4. Transpose(taken, inverse) = Tensor([d \in 1..r |-> f[inverse[d]]], LAMBDA idx : At(taken, [a \in 1..r |-> idx[perm[a]]]))
    BY <1>19, <1>21 DEF Reordered, Tensor
  <2> HIDE DEF s
  <2> QED BY <2>3, <2>4 DEF Tensor
<1>23. ASSUME NEW idx \in Box(s) PROVE At(taken, [a \in 1..r |-> idx[perm[a]]]) = Meant(idx)
  <2> DEFINE y == [a \in 1..r |-> idx[perm[a]]]
             l == len.data[1 + idx[b]]
             z == Turned(idx[t], l)
             v == With(y, 2, z)
             e == [a \in 1..r |-> v[inverse[a]]]
  <2>1. idx \in Seq(Nat) /\ Len(idx) = r /\ DOMAIN idx = 1..r /\ \A d \in 1..r : idx[d] \in 0..(s[d] - 1)
    <3>1. idx \in Seq(Nat) /\ Len(idx) = Len(s) /\ \A d \in 1..Len(s) : idx[d] \in 0..(s[d] - 1)
      BY <1>2, BoxSeq
    <3> QED BY <1>2, <3>1, LenProperties
  <2>2. \A d \in 1..r : idx[d] \in Nat /\ s[d] \in Nat /\ idx[d] < s[d]
    <3>1. \A d \in 1..r : s[d] \in Nat
      BY <1>2, ElementOfSeq
    <3> QED BY <2>1, <3>1
  <2>3. perm \in [1..r -> 1..r] /\ inverse \in [1..r -> 1..r] /\ 1 \in 1..r /\ 2 \in 1..r
        /\ \A d \in 1..r : perm[inverse[d]] = d /\ inverse[perm[d]] = d
    BY <1>2, <1>8, <1>12 DEF Undoes
  <2> HIDE DEF s
  <2>4. y \in Box(f) /\ y[1] = idx[b] /\ y[2] = idx[t]
    <3>1. y \in [1..r -> Nat]
      BY <2>2, <2>3
    <3>2. y[1] = idx[b] /\ y[2] = idx[t]
      BY <1>8, <2>3
    <3>3. \A d \in 1..r : y[d] < f[d]
      BY <1>11, <2>2, <2>3
    <3> HIDE DEF y
    <3>4. y \in Seq(Nat) /\ Len(y) = r
      BY <1>2, <3>1, IsSeq
    <3> QED BY <1>11, <3>2, <3>3, <3>4 DEF Box
  <2>5. DOMAIN y = 1..r /\ \A d \in 1..r : y[d] = idx[perm[d]]
    OBVIOUS
  <2> HIDE DEF y
  <2>6. At(spread, y) = z
    <3> DEFINE i == idx[b]
               j == idx[t]
               k == 1 + (i * w + j)
    <3>1. i \in Nat /\ j \in 0..(w - 1) /\ i < p /\ w \in Pos /\ j \in Nat
      <4>1. i \in Nat /\ j \in Nat /\ i < p /\ j < w
        BY <1>4, <1>12, <2>2
      <4> HIDE DEF i, j
      <4> QED BY <1>12, <4>1 DEF Pos
    <3> HIDE DEF i, j
    <3>2. k - 1 = i * w + j /\ k \in 1..(p * w)
      <4> DEFINE x == i * w
                 m == p * w
      <4>1. x \in Nat /\ m \in Nat /\ x + w <= m
        BY <1>12, <3>1, Products
      <4> HIDE DEF x, m
      <4>2. 1 + (x + j) \in 1..m /\ (1 + (x + j)) - 1 = x + j
        BY <1>12, <3>1, <4>1
      <4> QED BY <4>2 DEF x, m
    <3>3. (i * w + j) \div w = i /\ (i * w + j) % w = j
      BY <3>1, OnlyParts
    <3>4. At(spread, y) = index.data[k]
      BY <1>16, <2>4 DEF i, j
    <3> HIDE DEF k
    <3>5. index.data[k] = Turned(j, len.data[1 + i])
      BY <1>14, <3>2, <3>3
    <3> QED BY <3>4, <3>5 DEF i, j
  <2>7. z \in Nat /\ z < s[t]
    <3>1. l \in 0..s[t]
      <4>1. DOMAIN n.ins[2].data = 1..s[b]
        <5>1. DOMAIN n.ins[2].data = 1..Prod(n.ins[2].shape)
          BY <1>1 DEF ArrayOf, IsOperand
        <5>2. Prod(<<s[b]>>) = s[b]
          <6>1. s[b] \in Nat
            BY <1>4, <2>2
          <6> HIDE DEF b
          <6> QED BY <6>1, Pair
        <5> QED BY <1>2, <1>5, <5>1, <5>2
      <4>2. 1 + idx[b] \in DOMAIN n.ins[2].data
        BY <1>4, <2>2, <4>1
      <4>3. \A k \in DOMAIN n.ins[2].data : n.ins[2].data[k] \in 0..n.ins[1].shape[AxisAttr(n, "time_axis", 0, Len(n.ins[1].shape))]
        BY DEF LegalOperands
      <4>4. n.ins[1].shape = s /\ AxisAttr(n, "time_axis", 0, Len(n.ins[1].shape)) = t
        BY <1>2, <1>4
      <4> QED BY <1>2, <4>2, <4>3, <4>4
    <3>2. idx[t] \in Nat /\ s[t] \in Nat /\ idx[t] < s[t]
      BY <1>4, <2>2
    <3> HIDE DEF l
    <3> QED BY <3>1, <3>2 DEF Turned
  <2> HIDE DEF z
  <2>8. v = [d \in 1..r |-> IF d = 2 THEN z ELSE y[d]]
    BY <2>5 DEF With
  <2> HIDE DEF v
  <2>9. v \in Box(f)
    <3>1. y \in Seq(Nat) /\ Len(y) = r /\ \A d \in 1..r : y[d] \in 0..(f[d] - 1)
      BY <1>11, <2>4, BoxSeq
    <3>2. \A d \in 1..r : y[d] \in Nat /\ f[d] \in Nat /\ y[d] < f[d]
      <4>1. \A d \in 1..r : y[d] \in Nat /\ f[d] \in Nat
        BY <1>11, <3>1, ElementOfSeq
      <4> QED BY <3>1, <4>1
    <3>3. v \in [1..r -> Nat]
      BY <2>7, <2>8, <3>2
    <3>4. \A d \in 1..r : v[d] < f[d]
      BY <1>12, <2>7, <2>8, <3>2
    <3>5. v \in Seq(Nat) /\ Len(v) = r
      BY <1>2, <3>3, IsSeq
    <3> QED BY <1>11, <3>4, <3>5 DEF Box
  <2>10. Taking(y) = At(data, e)
    <3>1. Taking(y) = At(first, v)
      BY <2>6 DEF Taking, v
    <3> QED BY <1>11, <2>9, <3>1
  <2>11. e = IF idx[t] < l THEN [idx EXCEPT ![t] = l - 1 - @] ELSE idx
    <3> DEFINE g == IF idx[t] < l THEN [idx EXCEPT ![t] = l - 1 - @] ELSE idx
    <3>1. g = [d \in 1..r |-> g[d]]
      <4>1. DOMAIN g = 1..r
        BY <2>1
      <4>2. idx = [d \in 1..r |-> idx[d]]
        BY <2>1
      <4>3. [idx EXCEPT ![t] = l - 1 - @] = [d \in 1..r |-> [idx EXCEPT ![t] = l - 1 - @][d]]
        BY <2>1
      <4> QED BY <4>2, <4>3
    <3>2. ASSUME NEW a \in 1..r PROVE v[inverse[a]] = g[a]
      <4>1. inverse[a] \in 1..r /\ perm[inverse[a]] = a /\ inverse[t] = 2 /\ (inverse[a] = 2 => a = t)
        BY <1>4, <1>8, <2>3
      <4>2. CASE a = t
        <5>1. v[inverse[a]] = z
          BY <2>8, <4>1, <4>2
        <5>2. g[a] = z
          BY <1>4, <2>1, <4>2 DEF z, Turned
        <5> QED BY <5>1, <5>2
      <4>3. CASE a # t
        <5>1. v[inverse[a]] = y[inverse[a]]
          BY <2>8, <4>1, <4>3
        <5>2. y[inverse[a]] = idx[a]
          BY <2>5, <4>1
        <5>3. g[a] = idx[a]
          BY <2>1, <4>3
        <5> QED BY <5>1, <5>2, <5>3
      <4> QED BY <4>2, <4>3
    <3> HIDE DEF g
    <3>3. e = g
      BY <3>1, <3>2
    <3> QED BY <3>3 DEF g
  <2>12. Meant(idx) = At(data, IF idx[t] < l THEN [idx EXCEPT ![t] = l - 1 - @] ELSE idx)
    BY <1>2
  <2> HIDE DEF e, Meant
  <2> QED BY <1>20, <2>4, <2>10, <2>11, <2>12 DEF y
<1>24. Transpose(taken, inverse) = Tensor(s, Meant)
  <2>1. ASSUME NEW k \in 1..Prod(s) PROVE Coord(s, k - 1) \in Box(s)
    BY <1>2, IndexIn
  <2> DEFINE Got(idx) == At(taken, [a \in 1..r |-> idx[perm[a]]])
  <2>2. ASSUME NEW k \in 1..Prod(s) PROVE Got(Coord(s, k - 1)) = Meant(Coord(s, k - 1))
    <3> DEFINE idx == Coord(s, k - 1)
    <3>1. idx \in Box(s)
      BY <2>1
    <3> HIDE DEF idx, Meant
    <3>2. Got(idx) = Meant(idx)
      BY <1>23, <3>1
    <3> QED BY <3>2 DEF idx
  <2>3. Transpose(taken, inverse) = Tensor(s, Got)
    BY <1>22 DEF Tensor
  <2> HIDE DEF Got, Meant, s
  <2> QED BY <2>2, <2>3 DEF Tensor
<1>25. NoFailure(ReverseSequenceOp(n))
  <2> HIDE DEF Meant
  <2> QED BY <1>2, <1>6, <1>24, OneArray DEF Tensor
<1> QED BY <1>6, <1>7, <1>24, <1>25
-----------------------------------------------------------------------------
(* The entries of these operators, and the steps of the registry. *)

\* Handler, predicate and meaning of each of the operators.
LEMMA Entries ==
  ASSUME NEW n
  PROVE  /\ n.op = "Gather" => Handler(n) = GatherOp(n) /\ Meaning(n) = GatherMeaning(n)
         /\ n.op = "GatherElements" =>
              Handler(n) = GatherElementsOp(n) /\ Meaning(n) = GatherElementsMeaning(n)
         /\ n.op = "GatherND" => Handler(n) = GatherNdOp(n) /\ Meaning(n) = GatherNDMeaning(n)
         /\ n.op = "ScatterElements" =>
              Handler(n) = ScatterElementsOp(n) /\ Meaning(n) = ScatterElementsMeaning(n)
         /\ n.op = "ScatterND" => Handler(n) = ScatterNdOp(n) /\ Meaning(n) = ScatterNDMeaning(n)
                                  /\ Claim(n) = ScatterNdClaim(n)
         /\ n.op = "ReverseSequence" =>
              Handler(n) = ReverseSequenceOp(n) /\ Meaning(n) = ReverseSequenceMeaning(n)
              /\ Claim(n) = ReverseSequenceClaim(n)
<1>1. ASSUME n.op = "Gather"
      PROVE  Handler(n) = GatherOp(n) /\ Meaning(n) = GatherMeaning(n)
  <2>1. n.op \in IndexTypes
    BY <1>1 DEF IndexTypes
  <2>2. Handler(n) = GatherOp(n)
    BY <1>1, <2>1 DEF Handler, IndexHandler
  <2>3. Meaning(n) = GatherMeaning(n)
    BY <1>1, <2>1 DEF Meaning, IndexFamily
  <2> QED BY <2>2, <2>3
<1>2. ASSUME n.op = "GatherElements"
      PROVE  Handler(n) = GatherElementsOp(n) /\ Meaning(n) = GatherElementsMeaning(n)
  <2>1. n.op \in IndexTypes
    BY <1>2 DEF IndexTypes
  <2>2. Handler(n) = GatherElementsOp(n)
    BY <1>2, <2>1 DEF Handler, IndexHandler
  <2>3. Meaning(n) = GatherElementsMeaning(n)
    BY <1>2, <2>1 DEF Meaning, IndexFamily
  <2> QED BY <2>2, <2>3
<1>3. ASSUME n.op = "GatherND"
      PROVE  Handler(n) = GatherNdOp(n) /\ Meaning(n) = GatherNDMeaning(n)
  <2>1. n.op \in IndexTypes
    BY <1>3 DEF IndexTypes
  <2>2. Handler(n) = GatherNdOp(n)
    BY <1>3, <2>1 DEF Handler, IndexHandler
  <2>3. Meaning(n) = GatherNDMeaning(n)
    BY <1>3, <2>1 DEF Meaning, IndexFamily
  <2> QED BY <2>2, <2>3
<1>4. ASSUME n.op = "ScatterElements"
      PROVE  Handler(n) = ScatterElementsOp(n) /\ Meaning(n) = ScatterElementsMeaning(n)
  <2>1. n.op \in IndexTypes
    BY <1>4 DEF IndexTypes
  <2>2. Handler(n) = ScatterElementsOp(n)
    BY <1>4, <2>1 DEF Handler, IndexHandler
  <2>3. Meaning(n) = ScatterElementsMeaning(n)
    BY <1>4, <2>1 DEF Meaning, IndexFamily
  <2> QED BY <2>2, <2>3
<1>5. ASSUME n.op = "ScatterND"
      PROVE  Handler(n) = ScatterNdOp(n) /\ Meaning(n) = ScatterNDMeaning(n) /\ Claim(n) = ScatterNdClaim(n)
  <2>1. n.op \in IndexTypes
    BY <1>5 DEF IndexTypes
  <2>2. Handler(n) = ScatterNdOp(n)
    BY <1>5, <2>1 DEF Handler, IndexHandler
  <2>3. Meaning(n) = ScatterNDMeaning(n)
    BY <1>5, <2>1 DEF Meaning, IndexFamily
  <2>4. Claim(n) = ScatterNdClaim(n)
    BY <1>5, <2>1 DEF Claim, IndexClaim
  <2> QED BY <2>2, <2>3, <2>4
<1>6. ASSUME n.op = "ReverseSequence"
      PROVE  Handler(n) = ReverseSequenceOp(n) /\ Meaning(n) = ReverseSequenceMeaning(n) /\ Claim(n) = ReverseSequenceClaim(n)
  <2>1. n.op \in IndexTypes
    BY <1>6 DEF IndexTypes
  <2>2. Handler(n) = ReverseSequenceOp(n)
    BY <1>6, <2>1 DEF Handler, IndexHandler
  <2>3. Meaning(n) = ReverseSequenceMeaning(n)
    BY <1>6, <2>1 DEF Meaning, IndexFamily
  <2>4. Claim(n) = ReverseSequenceClaim(n)
    BY <1>6, <2>1 DEF Claim, IndexClaim
  <2> QED BY <2>2, <2>3, <2>4
<1> QED BY <1>1, <1>2, <1>3, <1>4, <1>5, <1>6

\* The handlers of the index operators, on a node they may be offered and have claimed.
LEMMA IndexedExact ==
  ASSUME NEW n, n.op \in IndexTypes, LegalOperands(n), Claim(n)
  PROVE  Handler(n) = Meaning(n) /\ NoFailure(Handler(n))
<1>1. CASE n.op = "Gather"
  BY <1>1, Entries, GatherExact
<1>2. CASE n.op = "GatherElements"
  BY <1>2, Entries, GatherElementsExact
<1>3. CASE n.op = "GatherND"
  BY <1>3, Entries, GatherNDExact
<1>4. CASE n.op = "ScatterElements"
  BY <1>4, Entries, ScatterElementsExact
<1>5. CASE n.op = "ScatterND"
  BY <1>5, Entries, ScatterNDExact
<1>6. CASE n.op = "ReverseSequence"
  BY <1>6, Entries, ReverseSequenceExact
<1> QED BY <1>1, <1>2, <1>3, <1>4, <1>5, <1>6 DEF IndexTypes

\* A node offered stays one the host offers; past the predicate it was claimed, and its
\* outputs, or the failure, are its handler's.
Registered ==
  /\ \E op \in OpTypes : node \in Nodes(op)
  /\ phase \in {"claimed", "translated", "failed"} => Claim(node)
  /\ phase = "translated" => out = Handler(node)
  /\ phase = "failed" => ~NoFailure(Handler(node))

\* Registered is inductive.
LEMMA AlwaysRegistered == Spec => []Registered
<1>1. Init => Registered
  BY DEF Init, Registered
<1>2. Registered /\ [Next]_vars => Registered'
  <2> SUFFICES ASSUME Registered, [Next]_vars PROVE Registered'
    OBVIOUS
  <2>1. CASE ClaimDecision
    <3>1. node' = node /\ out' = out /\ phase' = IF Claim(node) THEN "claimed" ELSE "declined"
      BY <2>1 DEF ClaimDecision
    <3>2. Claim(node)' = Claim(node) /\ Handler(node)' = Handler(node)
      BY <3>1
    <3> QED BY <3>1, <3>2 DEF Registered
  <2>2. CASE Translate
    <3> DEFINE values == Handler(node)
               fails == \E i \in DOMAIN values : values[i] = Fail
    <3>1. phase = "claimed" /\ node' = node /\ phase' = (IF fails THEN "failed" ELSE "translated")
          /\ out' = (IF fails THEN <<>> ELSE values)
      BY <2>2 DEF Translate
    <3>2. Claim(node)' = Claim(node) /\ Handler(node)' = Handler(node)
          /\ NoFailure(Handler(node))' = NoFailure(Handler(node))
      BY <3>1
    <3>3. fails <=> ~NoFailure(values)
      BY DEF NoFailure
    <3> HIDE DEF fails
    <3> QED BY <3>1, <3>2, <3>3 DEF Registered
  <2>3. CASE UNCHANGED vars
    <3>1. node' = node /\ phase' = phase /\ out' = out
      BY <2>3 DEF vars
    <3>2. Claim(node)' = Claim(node) /\ Handler(node)' = Handler(node)
          /\ NoFailure(Handler(node))' = NoFailure(Handler(node))
      BY <3>1
    <3> QED BY <3>1, <3>2 DEF Registered
  <2> QED BY <2>1, <2>2, <2>3 DEF Next
<1> QED BY <1>1, <1>2, PTL DEF Spec

\* In such a state the handler of an index operator is exact.
LEMMA RegisteredExact ==
  ASSUME Registered, node.op \in IndexTypes, phase \in {"claimed", "translated", "failed"}
  PROVE  Handler(node) = Meaning(node) /\ NoFailure(Handler(node))
<1>1. LegalOperands(node) /\ Claim(node)
  BY NodesAssumption DEF Registered
<1> QED BY <1>1, IndexedExact

\* Whatever nodes a host offers, a translated Gather, GatherElements, GatherND,
\* ScatterElements, ScatterND or ReverseSequence (ops/shape.rs) has the outputs ONNX
\* defines: for every rank, extent and index, negative ones and repeated targets included.
THEOREM IndexedRight == Spec => []IndexedAsOnnx
<1>1. Registered => IndexedAsOnnx
  <2> SUFFICES ASSUME Registered, phase = "translated", node.op \in IndexTypes PROVE out = Meaning(node)
    BY DEF IndexedAsOnnx, Exact
  <2>1. Handler(node) = Meaning(node)
    BY RegisteredExact
  <2> QED BY <2>1 DEF Registered
<1> QED BY <1>1, AlwaysRegistered, PTL

\* No handler of these operators fails on a node its predicate has claimed.
IndexedTranslates == node.op \in IndexTypes => phase # "failed"

\* ORT has no other provider for a claimed node: the reshapes, broadcasts and gathers these
\* handlers call are always given operands that fit.
THEOREM IndexedNeverFails == Spec => []IndexedTranslates
<1>1. Registered => IndexedTranslates
  <2> SUFFICES ASSUME Registered, phase = "failed", node.op \in IndexTypes PROVE FALSE
    BY DEF IndexedTranslates
  <2>1. NoFailure(Handler(node))
    BY RegisteredExact
  <2> QED BY <2>1 DEF Registered
<1> QED BY <1>1, AlwaysRegistered, PTL

=============================================================================
