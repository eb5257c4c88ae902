------------------------- MODULE TranslateImplements -------------------------
(* That Translate, its flat map of arrays read scope by scope, implements    *)
(* TranslateContract: a call evaluates the graph with lexical scopes.        *)
EXTENDS TranslateProofs, TranslateScopes

USE DEF Scopes

-----------------------------------------------------------------------------
(* The contract's operators are those of the translator. *)

LEMMA SameOperators ==
  /\ \A f, g : Contract!Over(f, g) = Over(f, g)
  /\ \A names, values : Contract!Bind(names, values) = Bind(names, values)
  /\ \A node, args : Contract!Applied(node, args) = Applied(node, args)
  /\ \A g, s : Contract!InitValues(g, s) = InitValues(g, s)
  /\ \A t : Contract!Counter(t) = Counter(t)
  /\ Contract!Yes = Yes
  /\ Contract!NoValue = NoValue
  /\ \A scan, i : Contract!Sliced(scan, i) = Sliced(scan, i)
  /\ \A parts : Contract!Stacked(parts) = Stacked(parts)
  /\ \A x, n : Contract!HostValue(x, n) = HostValue(x, n)
  /\ \A S : Contract!Max(S) = Max(S)
  /\ \A q : Contract!Front(q) = Front(q) /\ Contract!Last(q) = Last(q)
  /\ \A q : Contract!Reverse(q) = Reverse(q)
  /\ \A f : Contract!Range(f) = Range(f)
<1>1. \A f, g : Contract!Over(f, g) = Over(f, g)
  BY DEF Contract!Over, Over
<1>2. \A f : Contract!Range(f) = Range(f)
  BY DEF Contract!Range, Range
<1>3. \A names, values : Contract!Bind(names, values) = Bind(names, values)
  BY <1>2 DEF Contract!Bind, Bind
<1>4. \A op, n, args : Contract!Val(op, n, args) = Val(op, n, args)
  BY Zenon DEF Contract!Val, Val
<1>5. \A node, args : Contract!Applied(node, args) = Applied(node, args)
  BY <1>4, Zenon DEF Contract!Applied, Applied
<1>6. \A g, s : Contract!InitValues(g, s) = InitValues(g, s)
  BY <1>4 DEF Contract!InitValues, InitValues
<1>7. /\ \A t : Contract!Counter(t) = Counter(t)
      /\ Contract!Yes = Yes
      /\ Contract!NoValue = NoValue
      /\ \A scan, i : Contract!Sliced(scan, i) = Sliced(scan, i)
      /\ \A parts : Contract!Stacked(parts) = Stacked(parts)
  BY <1>4, Zenon DEF Contract!Counter, Counter, Contract!Yes, Yes, Contract!NoValue, NoValue,
     Contract!Sliced, Sliced, Contract!Stacked, Stacked
<1>8. \A x, n : Contract!HostValue(x, n) = HostValue(x, n)
  BY Zenon DEF Contract!HostValue, HostValue
<1>9. \A S : Contract!Max(S) = Max(S)
  BY Zenon DEF Contract!Max, Max
<1>10. \A q : Contract!Front(q) = Front(q) /\ Contract!Last(q) = Last(q)
  BY Zenon DEF Contract!Front, Front, Contract!Last, Last
<1>11. \A q : Contract!Reverse(q) = Reverse(q)
  BY Zenon DEF Contract!Reverse, Reverse
<1> QED BY <1>1, <1>2, <1>3, <1>5, <1>6, <1>7, <1>8, <1>9, <1>10, <1>11

-----------------------------------------------------------------------------
(* Places: where the arrays are that a frame saw on top. *)

\* Two maps say the same of a name.
Agrees(f, h, x) == (x \in DOMAIN f <=> x \in DOMAIN h) /\ (x \in DOMAIN f => f[x] = h[x])

LEMMA AgreesOn ==
  /\ \A f, x : Agrees(f, f, x)
  /\ \A f, h, x : Agrees(f, h, x) => Agrees(h, f, x)
  /\ \A f, h, q, x : Agrees(f, h, x) /\ Agrees(h, q, x) => Agrees(f, q, x)
BY DEF Agrees

\* A name is in env if no frame above hides it.
LEMMA PlaceClear ==
  ASSUME NEW g, NEW stk, NEW e, NEW i, NEW x, Clear(g, stk, i, Len(stk), x)
  PROVE  Place(g, stk, e, i, x) = e
<1>1. Hiders(g, stk, i, x) = {}
  BY DEF Clear, Hiders, Own
<1> QED BY <1>1 DEF Place

\* Frame k is the first above frame i that hides the name.
Hides(g, stk, i, k, x) == x \in Own(g, stk, k) /\ Clear(g, stk, i, k - 1, x)

\* It is in what the first one that does has saved.
LEMMA PlaceSaved ==
  ASSUME NEW g, NEW stk, NEW e, Len(stk) \in Nat, NEW i \in Nat, NEW x,
         NEW k \in (i + 1)..Len(stk), Hides(g, stk, i, k, x)
  PROVE  Place(g, stk, e, i, x) = stk[k].saved
<1> DEFINE n == Len(stk)
           hiders == {j \in (i + 1)..n : x \in Own(g, stk, j)}
<1>0. n \in Nat /\ k \in (i + 1)..n /\ x \in Own(g, stk, k) /\ Clear(g, stk, i, k - 1, x)
  BY DEF Hides
<1>1. Place(g, stk, e, i, x) = IF hiders = {} THEN e ELSE stk[Min(hiders)].saved
  BY DEF Place, Hiders, Own
<1> HIDE DEF n
<1>2. k \in hiders
  BY <1>0
<1>3. \A j \in hiders : k <= j
  <2>1. ASSUME NEW j \in hiders, j < k PROVE FALSE
    <3>1. j \in (i + 1)..(k - 1)
      BY <1>0, <2>1
    <3> QED BY <1>0, <2>1, <3>1 DEF Clear
  <2> QED BY <1>0, <2>1
<1>4. \A j \in hiders : j \in Nat
  BY <1>0
<1> HIDE DEF hiders
<1>5. Min(hiders) = k
  <2>1. \A y \in hiders : (\A j \in hiders : y <= j) => y = k
    BY <1>2, <1>3, <1>4
  <2> QED BY <1>2, <1>3, <2>1 DEF Min
<1> QED BY <1>1, <1>2, <1>5

LEMMA PlaceEither ==
  ASSUME NEW g, NEW stk, NEW n \in Nat, NEW i \in Nat, NEW x
  PROVE  Clear(g, stk, i, n, x) \/ \E k \in (i + 1)..n : Hides(g, stk, i, k, x)
<1> DEFINE hiders == {k \in (i + 1)..n : x \in Own(g, stk, k)}
<1>1. Clear(g, stk, i, n, x) <=> hiders = {}
  BY DEF Clear
<1>2. ASSUME hiders # {} PROVE \E k \in (i + 1)..n : Hides(g, stk, i, k, x)
  <2>1. hiders \in SUBSET Nat
    OBVIOUS
  <2>2. PICK k \in hiders : \A j \in hiders : k <= j
    BY <1>2, <2>1, LeastNumber
  <2>3. k \in (i + 1)..n /\ x \in Own(g, stk, k)
    BY <2>2
  <2>4. Clear(g, stk, i, k - 1, x)
    <3>1. ASSUME NEW j \in (i + 1)..(k - 1), x \in Own(g, stk, j) PROVE FALSE
      <4>1. j \in hiders /\ j < k
        BY <2>3, <3>1
      <4> QED BY <2>2, <2>3, <4>1
    <3> QED BY <3>1 DEF Clear
  <2> QED BY <2>3, <2>4 DEF Hides
<1> HIDE DEF hiders
<1> QED BY <1>1, <1>2

LEMMA PlaceTop ==
  ASSUME NEW g, NEW stk, NEW e, Len(stk) \in Nat, NEW x
  PROVE  Place(g, stk, e, Len(stk), x) = e
<1>1. (Len(stk) + 1)..Len(stk) = {}
  OBVIOUS
<1>2. Clear(g, stk, Len(stk), Len(stk), x)
  BY <1>1 DEF Clear
<1> QED BY <1>2, PlaceClear

\* One frame further down.
LEMMA PlaceBelow ==
  ASSUME NEW g, NEW stk, NEW e, Len(stk) \in Nat, NEW i \in 1..Len(stk), NEW x
  PROVE  /\ x \in Own(g, stk, i) => Place(g, stk, e, i - 1, x) = stk[i].saved
         /\ x \notin Own(g, stk, i) => Place(g, stk, e, i - 1, x) = Place(g, stk, e, i, x)
<1> DEFINE h == i - 1
           n == Len(stk)
<1>1. h \in Nat /\ i \in Nat /\ h + 1 = i /\ h = i - 1 /\ i \in (h + 1)..n
  OBVIOUS
<1>2. \A k \in (i + 1)..n : k \in (h + 1)..n /\ k - 1 \in Int
  OBVIOUS
<1>3. n \in Nat /\ n = Len(stk)
  OBVIOUS
<1> HIDE DEF h, n
<1>5. ASSUME x \in Own(g, stk, i) PROVE Place(g, stk, e, h, x) = stk[i].saved
  <2>1. Hides(g, stk, h, i, x)
    BY <1>1, <1>5 DEF Hides, Clear
  <2> QED BY <1>1, <1>3, <2>1, PlaceSaved
<1>6. ASSUME x \notin Own(g, stk, i)
      PROVE  Place(g, stk, e, h, x) = Place(g, stk, e, i, x)
  <2>1. \A j \in Int : Clear(g, stk, h, j, x) <=> Clear(g, stk, i, j, x)
    <3>1. ASSUME NEW j \in Int PROVE Clear(g, stk, h, j, x) <=> Clear(g, stk, i, j, x)
      <4>1. \A k \in i..j : k = i \/ k \in (i + 1)..j
        OBVIOUS
      <4>2. \A k \in (i + 1)..j : k \in i..j
        OBVIOUS
      <4> QED BY <1>1, <1>6, <4>1, <4>2 DEF Clear
    <3> QED BY <3>1
  <2>2. CASE Clear(g, stk, i, n, x)
    <3>1. Clear(g, stk, h, n, x)
      BY <1>3, <2>1, <2>2
    <3> QED BY <1>3, <2>2, <3>1, PlaceClear
  <2>3. CASE \E k \in (i + 1)..n : Hides(g, stk, i, k, x)
    <3>1. PICK k \in (i + 1)..n : Hides(g, stk, i, k, x)
      BY <2>3
    <3>2. k \in (h + 1)..n /\ Hides(g, stk, h, k, x)
      BY <1>2, <2>1, <3>1 DEF Hides
    <3>3. Place(g, stk, e, i, x) = stk[k].saved
      BY <1>1, <1>3, <3>1, PlaceSaved
    <3>4. Place(g, stk, e, h, x) = stk[k].saved
      BY <1>1, <1>3, <3>2, PlaceSaved
    <3> QED BY <3>3, <3>4
  <2> QED BY <1>1, <1>3, <2>2, <2>3, PlaceEither
<1> QED BY <1>1, <1>3, <1>5, <1>6

\* The first m frames have the same scopes, and have saved the same.
SameFrames(stk, stk2, m) ==
  \A k \in 1..m : stk2[k].scope = stk[k].scope /\ stk2[k].saved = stk[k].saved

LEMMA FramesOwn ==
  ASSUME NEW g, NEW stk, NEW stk2, NEW m \in Nat, SameFrames(stk, stk2, m), NEW k \in 1..m
  PROVE  Own(g, stk2, k) = Own(g, stk, k) /\ stk2[k].saved = stk[k].saved
BY DEF SameFrames, Own

LEMMA FramesClear ==
  ASSUME NEW g, NEW stk, NEW stk2, NEW m \in Nat, SameFrames(stk, stk2, m),
         NEW i \in Nat, NEW j \in 0..m, NEW x, Clear(g, stk, i, j, x)
  PROVE  Clear(g, stk2, i, j, x)
<1>1. ASSUME NEW k \in (i + 1)..j PROVE x \notin Own(g, stk2, k)
  <2>1. k \in 1..m
    OBVIOUS
  <2>2. x \notin Own(g, stk, k)
    BY DEF Clear
  <2> QED BY <2>1, <2>2, FramesOwn
<1> QED BY <1>1 DEF Clear

LEMMA FramesHide ==
  ASSUME NEW g, NEW stk, NEW stk2, NEW m \in Nat, SameFrames(stk, stk2, m),
         NEW i \in Nat, NEW k \in (i + 1)..m, NEW x, Hides(g, stk, i, k, x)
  PROVE  Hides(g, stk2, i, k, x)
<1>1. k \in 1..m /\ k - 1 \in 0..m
  OBVIOUS
<1>2. x \in Own(g, stk2, k)
  BY <1>1, FramesOwn DEF Hides
<1>3. Clear(g, stk2, i, k - 1, x)
  <2> DEFINE j == k - 1
  <2>1. j \in 0..m /\ Clear(g, stk, i, j, x)
    BY <1>1 DEF Hides
  <2> HIDE DEF j
  <2>2. Clear(g, stk2, i, j, x)
    BY <2>1, FramesClear
  <2> QED BY <2>2 DEF j
<1> QED BY <1>2, <1>3 DEF Hides

\* The frames stay: a place is env before and after, or what a frame has saved.
LEMMA PlaceSame ==
  ASSUME NEW g, NEW stk, NEW stk2, Len(stk) \in Nat, Len(stk2) = Len(stk),
         SameFrames(stk, stk2, Len(stk)), NEW e, NEW e2, NEW i \in Nat, NEW x
  PROVE  \/ /\ Clear(g, stk, i, Len(stk), x)
            /\ Place(g, stk, e, i, x) = e /\ Place(g, stk2, e2, i, x) = e2
         \/ /\ ~Clear(g, stk, i, Len(stk), x)
            /\ Place(g, stk2, e2, i, x) = Place(g, stk, e, i, x)
<1> DEFINE n == Len(stk)
<1>1. n \in Nat /\ n = Len(stk) /\ Len(stk2) = n /\ SameFrames(stk, stk2, n) /\ n \in 0..n
  OBVIOUS
<1>2. \A k \in (i + 1)..n : k \in 1..n
  OBVIOUS
<1> HIDE DEF n
<1>3. CASE Clear(g, stk, i, n, x)
  <2>1. Clear(g, stk2, i, n, x)
    BY <1>1, <1>3, FramesClear
  <2> QED BY <1>1, <1>3, <2>1, PlaceClear
<1>4. CASE ~Clear(g, stk, i, n, x)
  <2>1. PICK k \in (i + 1)..n : Hides(g, stk, i, k, x)
    BY <1>1, <1>4, PlaceEither
  <2>2. Hides(g, stk2, i, k, x)
    BY <1>1, <2>1, FramesHide
  <2>3. stk2[k].saved = stk[k].saved
    BY <1>1, <1>2, FramesOwn
  <2>4. Place(g, stk, e, i, x) = stk[k].saved
    BY <1>1, <2>1, PlaceSaved
  <2>5. Place(g, stk2, e2, i, x) = stk2[k].saved
    BY <1>1, <2>2, PlaceSaved
  <2> QED BY <1>1, <1>4, <2>3, <2>4, <2>5
<1> QED BY <1>1, <1>3, <1>4

\* A frame more on top, whose body shadows what it has saved.
LEMMA PlaceAcross ==
  ASSUME NEW g, NEW small, NEW big, Len(small) \in Nat, Len(big) = Len(small) + 1,
         SameFrames(small, big, Len(small)), NEW e, NEW e2, NEW x,
         x \in Own(g, big, Len(big)) => Agrees(e, big[Len(big)].saved, x),
         x \notin Own(g, big, Len(big)) => Agrees(e, e2, x), NEW i \in 0..Len(small)
  PROVE  Agrees(Place(g, small, e, i, x), Place(g, big, e2, i, x), x)
<1> DEFINE m == Len(small)
           n == Len(big)
<1>1. /\ m \in Nat /\ m \in 0..m /\ n \in Nat /\ i \in Nat /\ n \in (i + 1)..n /\ n - 1 = m
      /\ m = Len(small) /\ n = Len(big) /\ SameFrames(small, big, m)
  OBVIOUS
<1>2. \A k \in (i + 1)..m : k \in (i + 1)..n /\ k \in 1..m
  OBVIOUS
<1>3. x \in Own(g, big, n) => Agrees(e, big[n].saved, x)
  OBVIOUS
<1>4. x \notin Own(g, big, n) => Agrees(e, e2, x)
  OBVIOUS
<1>5. \A k \in (i + 1)..n : k \in (i + 1)..m \/ k = n
  OBVIOUS
<1> HIDE DEF m, n
<1>6. CASE Clear(g, small, i, m, x)
  <2>1. Place(g, small, e, i, x) = e
    BY <1>1, <1>6, PlaceClear
  <2>2. Clear(g, big, i, m, x)
    BY <1>1, <1>6, FramesClear
  <2>3. CASE x \in Own(g, big, n)
    <3>1. Hides(g, big, i, n, x)
      BY <1>1, <2>2, <2>3 DEF Hides
    <3>2. Place(g, big, e2, i, x) = big[n].saved
      BY <1>1, <3>1, PlaceSaved
    <3> QED BY <1>3, <2>1, <2>3, <3>2
  <2>4. CASE x \notin Own(g, big, n)
    <3>1. Clear(g, big, i, n, x)
      BY <1>5, <2>2, <2>4 DEF Clear
    <3>2. Place(g, big, e2, i, x) = e2
      BY <1>1, <3>1, PlaceClear
    <3> QED BY <1>4, <2>1, <2>4, <3>2
  <2> QED BY <2>3, <2>4
<1>7. CASE ~Clear(g, small, i, m, x)
  <2>1. PICK k \in (i + 1)..m : Hides(g, small, i, k, x)
    BY <1>1, <1>7, PlaceEither
  <2>2. Hides(g, big, i, k, x)
    BY <1>1, <2>1, FramesHide
  <2>3. big[k].saved = small[k].saved
    BY <1>1, <1>2, FramesOwn
  <2>4. Place(g, small, e, i, x) = small[k].saved
    BY <1>1, <2>1, PlaceSaved
  <2>5. Place(g, big, e2, i, x) = big[k].saved
    BY <1>1, <1>2, <2>2, PlaceSaved
  <2> QED BY <2>3, <2>4, <2>5, AgreesOn
<1> QED BY <1>6, <1>7

-----------------------------------------------------------------------------
(* Levels: what a frame has not bound yet it finds as the frame below it.    *)

UnboundAt(g, stk, e, i) ==
  \A x \in Own(g, stk, i) : x \notin BoundBefore(g, stk[i].scope, stk[i].pc) =>
    Agrees(Place(g, stk, e, i, x), stk[i].saved, x)

\* Below the root are the boundary inputs, `ins`; one not read yet is still what the
\* host's memory holds.
Rests(below, x, ins, memory) ==
  IF x \in DOMAIN below THEN x \in CtxInputs /\ below[x] = ins[x]
  ELSE x \in CtxInputs => ins[x] = memory[x]

BottomInv(g, stk, e, ins, memory) == \A x : Rests(Place(g, stk, e, 0, x), x, ins, memory)

Levels(g, stk, e, ins, memory) ==
  /\ \A i \in 1..Len(stk) : UnboundAt(g, stk, e, i)
  /\ BottomInv(g, stk, e, ins, memory)
  /\ Len(stk) # 0 => DOMAIN stk[1].saved = {}

\* Up to frame m every frame sees the same in both.
SamePlaces(g, stk, e, stk2, e2, m) ==
  \A i \in 0..m : \A x : Agrees(Place(g, stk2, e2, i, x), Place(g, stk, e, i, x), x)

LEMMA LevelsStay ==
  ASSUME NEW g, NEW stk, NEW e, NEW ins, NEW memory, Levels(g, stk, e, ins, memory),
         NEW m \in Nat, Len(stk) \in Nat, m <= Len(stk), NEW stk2, NEW e2,
         SamePlaces(g, stk, e, stk2, e2, m), \A i \in 1..m : stk2[i] = stk[i]
  PROVE  /\ \A i \in 1..m : UnboundAt(g, stk2, e2, i)
         /\ BottomInv(g, stk2, e2, ins, memory)
<1>1. ASSUME NEW i \in 1..m PROVE UnboundAt(g, stk2, e2, i)
  <2>1. stk2[i] = stk[i] /\ i \in 1..Len(stk) /\ i \in 0..m
    OBVIOUS
  <2>2. UnboundAt(g, stk, e, i)
    BY <2>1 DEF Levels
  <2>3. ASSUME NEW x \in Own(g, stk2, i), x \notin BoundBefore(g, stk2[i].scope, stk2[i].pc)
        PROVE  Agrees(Place(g, stk2, e2, i, x), stk2[i].saved, x)
    <3>1. Agrees(Place(g, stk, e, i, x), stk[i].saved, x)
      BY <2>1, <2>2, <2>3 DEF UnboundAt, Own
    <3>2. Agrees(Place(g, stk2, e2, i, x), Place(g, stk, e, i, x), x)
      BY <2>1 DEF SamePlaces
    <3> QED BY <2>1, <3>1, <3>2, AgreesOn
  <2> QED BY <2>3 DEF UnboundAt
<1>2. BottomInv(g, stk2, e2, ins, memory)
  <2>1. ASSUME NEW x PROVE Rests(Place(g, stk2, e2, 0, x), x, ins, memory)
    <3>1. Agrees(Place(g, stk2, e2, 0, x), Place(g, stk, e, 0, x), x)
      BY DEF SamePlaces
    <3>2. Rests(Place(g, stk, e, 0, x), x, ins, memory)
      BY DEF Levels, BottomInv
    <3> QED BY <3>1, <3>2 DEF Agrees, Rests
  <2> QED BY <2>1 DEF BottomInv
<1> QED BY <1>1, <1>2

\* Names are bound, those bound before included, and the others keep their arrays.
Puts(e, e2, names) ==
  DOMAIN e2 = DOMAIN e \cup names /\ \A x \in DOMAIN e : x \notin names => e2[x] = e[x]

LEMMA PutsAgree ==
  ASSUME NEW e, NEW e2, NEW names, Puts(e, e2, names), NEW x, x \notin names
  PROVE  Agrees(e2, e, x)
BY DEF Puts, Agrees

LEMMA AdvanceLevels ==
  ASSUME NEW g, WellFormed(g), NEW stk, NEW e, Good(g, stk, e),
         NEW n, n = Len(stk), n # 0, NEW r, r = stk[n].scope, stk[n].pc <= Len(g.nodes[r]),
         NEW stk2, stk2 = MovedOn(stk),
         NEW e2, Puts(e, e2, Range(g.nodes[r][stk[n].pc].outs)),
         NEW ins, NEW memory, Levels(g, stk, e, ins, memory)
  PROVE  Levels(g, stk2, e2, ins, memory) /\ SamePlaces(g, stk, e, stk2, e2, n - 1)
<1> DEFINE m == n - 1
           k == stk[n].pc
           names == Range(g.nodes[r][k].outs)
<1>1. IsSeq(stk) /\ n \in Nat /\ n \in 1..n /\ m \in Nat /\ m + 1 = n
  BY SeqFacts DEF Good, StackInv
<1>2. DOMAIN stk[n] = Fields /\ r \in Scopes /\ k \in 1..(Len(g.nodes[r]) + 1)
  BY <1>1 DEF Good, StackInv
<1>3. /\ IsSeq(stk2) /\ Len(stk2) = n /\ SameBelow(stk, stk2, n)
      /\ stk2[n].pc = k + 1 /\ stk2[n].scope = r /\ stk2[n].saved = stk[n].saved
  BY <1>1, <1>2, AdvancedIs
<1>4. names \subseteq Own(g, stk, n) /\ Puts(e, e2, names) /\ k \in Nat \ {0}
  <2>1. Len(g.nodes[r]) \in Nat
    BY <1>2, NodeFacts
  <2>2. k \in 1..Len(g.nodes[r])
    BY <1>2, <2>1
  <2>3. Range(g.nodes[r][k].outs) \subseteq BodyNames(g, r)
    BY <1>2, <2>2, NodeFacts
  <2>4. names \subseteq Own(g, stk, n)
    BY <2>3 DEF Own
  <2>5. k \in Nat \ {0}
    BY <2>1, <2>2
  <2>6. Puts(e, e2, names)
    OBVIOUS
  <2> QED BY <2>4, <2>5, <2>6
<1>5. SameFrames(stk, stk2, n) /\ \A i \in 1..m : stk2[i] = stk[i]
  <2>1. \A i \in 1..n : i = n \/ (i \in 1..m /\ stk2[i] = stk[i])
    BY <1>1, <1>3 DEF SameBelow
  <2>2. \A i \in 1..m : i \in 1..n /\ i # n
    BY <1>1
  <2>3. stk2[n].scope = stk[n].scope /\ stk2[n].saved = stk[n].saved
    BY <1>3
  <2> HIDE DEF m
  <2>4. SameFrames(stk, stk2, n)
    BY <2>1, <2>3 DEF SameFrames
  <2>5. \A i \in 1..m : stk2[i] = stk[i]
    BY <1>3, <2>2 DEF SameBelow
  <2> QED BY <2>4, <2>5
<1>b. BoundBefore(g, r, k + 1) = BoundBefore(g, r, k) \cup names
  <2>1. k \in Nat \ {0}
    BY <1>4
  <2> HIDE DEF k
  <2>2. BoundBefore(g, r, k + 1) = BoundBefore(g, r, k) \cup Range(g.nodes[r][k].outs)
    BY <2>1, BoundStep
  <2> QED BY <2>2
<1> HIDE DEF m, k, names
<1>6. SamePlaces(g, stk, e, stk2, e2, m)
  <2>1. ASSUME NEW i \in 0..m, NEW x
        PROVE  Agrees(Place(g, stk2, e2, i, x), Place(g, stk, e, i, x), x)
    <3>1. \/ /\ Clear(g, stk, i, n, x)
             /\ Place(g, stk, e, i, x) = e /\ Place(g, stk2, e2, i, x) = e2
          \/ Place(g, stk2, e2, i, x) = Place(g, stk, e, i, x)
      BY <1>1, <1>3, <1>5, PlaceSame
    <3>2. ASSUME Clear(g, stk, i, n, x) PROVE Agrees(e2, e, x)
      <4>1. n \in (i + 1)..n
        BY <1>1
      <4>2. x \notin names
        BY <1>4, <3>2, <4>1 DEF Clear
      <4> QED BY <1>4, <4>2, PutsAgree
    <3> QED BY <3>1, <3>2, AgreesOn
  <2> QED BY <2>1 DEF SamePlaces
<1>7. (\A i \in 1..m : UnboundAt(g, stk2, e2, i)) /\ BottomInv(g, stk2, e2, ins, memory)
  <2>1. m \in Nat /\ m <= Len(stk) /\ Len(stk) \in Nat
    BY <1>1
  <2>2. \A i \in 1..m : stk2[i] = stk[i]
    BY <1>5
  <2> QED BY <1>6, <2>1, <2>2, LevelsStay
<1>8. UnboundAt(g, stk2, e2, n)
  <2>1. ASSUME NEW x \in Own(g, stk2, n), x \notin BoundBefore(g, r, k + 1)
        PROVE  Agrees(Place(g, stk2, e2, n, x), stk2[n].saved, x)
    <3>1. x \in Own(g, stk, n) /\ x \notin BoundBefore(g, r, k) /\ x \notin names
      BY <1>3, <1>b, <2>1 DEF Own
    <3>2. Place(g, stk2, e2, n, x) = e2 /\ Place(g, stk, e, n, x) = e
      BY <1>1, <1>3, PlaceTop
    <3>3. UnboundAt(g, stk, e, n)
      BY <1>1 DEF Levels
    <3>4. Agrees(e, stk[n].saved, x)
      BY <3>1, <3>2, <3>3 DEF UnboundAt, k
    <3>5. Agrees(e2, e, x)
      BY <1>4, <3>1, PutsAgree
    <3> QED BY <1>3, <3>2, <3>4, <3>5, AgreesOn
  <2> QED BY <1>3, <2>1 DEF UnboundAt
<1>9. DOMAIN stk2[1].saved = {}
  <2>1. 1 \in 1..n
    BY <1>1
  <2> QED BY <1>5, <2>1 DEF Levels, SameFrames
<1>10. \A i \in 1..n : i \in 1..m \/ i = n
  BY <1>1
<1> QED BY <1>3, <1>6, <1>7, <1>8, <1>9, <1>10 DEF Levels, m

LEMMA FirstNode ==
  ASSUME NEW g, NEW b
  PROVE  BoundBefore(g, b, 1) = Range(g.formals[b])
<1>1. 1..(1 - 1) = {}
  OBVIOUS
<1> QED BY <1>1 DEF BoundBefore

\* A body is entered: the frames below it see what they saw.
LEMMA PushLevels ==
  ASSUME NEW g, NEW stk, NEW e, Good(g, stk, e), Len(stk) # 0,
         NEW b, NEW frame, Opens(g, b, e, frame), NEW e2, Binds(g, b, e, e2),
         NEW ins, NEW memory, Levels(g, stk, e, ins, memory)
  PROVE  /\ Levels(g, Append(stk, frame), e2, ins, memory)
         /\ SamePlaces(g, stk, e, Append(stk, frame), e2, Len(stk))
<1> DEFINE n == Len(stk)
           stk2 == Append(stk, frame)
           top == n + 1
<1>1. IsSeq(stk) /\ n \in Nat /\ n # 0
  BY SeqFacts DEF Good, StackInv
<1>2. /\ Len(stk2) = top /\ stk2[top] = frame
      /\ \A i \in 1..n : stk2[i] = stk[i]
  BY <1>1, PushedIs
<1>3. top \in Nat /\ top # 0 /\ (\A i \in 1..top : i \in 1..n \/ i = top) /\ 1 \in 1..n
  BY <1>1
<1>4. SameFrames(stk, stk2, n)
  BY <1>2 DEF SameFrames
<1>5. \A x : /\ x \in Own(g, stk2, top) => Agrees(e, stk2[top].saved, x)
             /\ x \notin Range(g.formals[b]) => Agrees(e, e2, x)
             /\ x \in Range(g.formals[b]) => x \in Own(g, stk2, top)
  <2>1. Own(g, stk2, top) = BodyNames(g, b)
    BY <1>2 DEF Opens, Own
  <2>2. Range(g.formals[b]) \subseteq BodyNames(g, b)
    BY DEF BodyNames
  <2>3. stk2[top].saved = frame.saved
    BY <1>2
  <2>4. \A x \in BodyNames(g, b) : Agrees(e, frame.saved, x)
    BY DEF Opens, Agrees
  <2>5. \A x : x \notin Range(g.formals[b]) => Agrees(e, e2, x)
    BY DEF Binds, Agrees
  <2> QED BY <2>1, <2>2, <2>3, <2>4, <2>5
<1> HIDE DEF stk2
<1>6. SamePlaces(g, stk, e, stk2, e2, n)
  <2>1. ASSUME NEW i \in 0..n, NEW x
        PROVE  Agrees(Place(g, stk2, e2, i, x), Place(g, stk, e, i, x), x)
    <3>1. /\ x \in Own(g, stk2, Len(stk2)) => Agrees(e, stk2[Len(stk2)].saved, x)
          /\ x \notin Own(g, stk2, Len(stk2)) => Agrees(e, e2, x)
      BY <1>2, <1>5
    <3>2. Len(stk) \in Nat /\ Len(stk2) = Len(stk) + 1 /\ SameFrames(stk, stk2, Len(stk))
      BY <1>1, <1>2, <1>4
    <3>3. Agrees(Place(g, stk, e, i, x), Place(g, stk2, e2, i, x), x)
      BY <3>1, <3>2, PlaceAcross
    <3> QED BY <3>3, AgreesOn
  <2> QED BY <2>1 DEF SamePlaces
<1>7. (\A i \in 1..n : UnboundAt(g, stk2, e2, i)) /\ BottomInv(g, stk2, e2, ins, memory)
  <2>1. n \in Nat /\ n <= Len(stk) /\ Len(stk) \in Nat
    BY <1>1
  <2> QED BY <1>2, <1>6, <2>1, LevelsStay
<1>8. UnboundAt(g, stk2, e2, top)
  <2>1. stk2[top].scope = b /\ stk2[top].pc = 1
    BY <1>2 DEF Opens
  <2>2. ASSUME NEW x \in Own(g, stk2, top), x \notin BoundBefore(g, b, 1)
        PROVE  Agrees(Place(g, stk2, e2, top, x), stk2[top].saved, x)
    <3>1. x \notin Range(g.formals[b])
      BY <2>2, FirstNode
    <3>2. Agrees(e2, e, x) /\ Agrees(e, stk2[top].saved, x)
      BY <1>5, <2>2, <3>1, AgreesOn
    <3>3. Place(g, stk2, e2, Len(stk2), x) = e2
      BY <1>2, <1>3, PlaceTop
    <3> QED BY <1>2, <3>2, <3>3, AgreesOn
  <2> QED BY <2>1, <2>2 DEF UnboundAt
<1>9. DOMAIN stk2[1].saved = {}
  BY <1>1, <1>2, <1>3 DEF Levels
<1>10. Levels(g, stk2, e2, ins, memory)
  BY <1>2, <1>3, <1>7, <1>8, <1>9 DEF Levels
<1> QED BY <1>6, <1>10 DEF stk2

\* A body is left: the frames below it see what they saw.
LEMMA PopLevels ==
  ASSUME NEW g, NEW stk, NEW e, Good(g, stk, e), Len(stk) # 0, Len(stk) # 1,
         NEW e2, Restores(g, stk, Len(stk), e, e2),
         NEW ins, NEW memory, Levels(g, stk, e, ins, memory)
  PROVE  /\ Levels(g, Front(stk), e2, ins, memory)
         /\ SamePlaces(g, stk, e, Front(stk), e2, Len(stk) - 1)
<1> DEFINE n == Len(stk)
           stk2 == Front(stk)
           m == n - 1
<1>1. IsSeq(stk) /\ n \in Nat /\ n # 0 /\ n # 1
  BY SeqFacts DEF Good, StackInv
<1>2. Len(stk2) = m /\ \A i \in 1..m : stk2[i] = stk[i]
  BY <1>1, PoppedIs
<1>3. m \in Nat /\ m # 0 /\ 1 \in 1..m /\ n = m + 1 /\ n \in 2..n /\ m <= n
  <2> HIDE DEF n
  <2> QED BY <1>1
<1> HIDE DEF stk2, m
<1>4. SameFrames(stk2, stk, m)
  BY <1>2 DEF SameFrames
<1>5. \A x \in DOMAIN stk[n].saved : x \in Own(g, stk, n)
  BY <1>3 DEF Good, ScopedInv
<1>6. \A x : /\ x \in Own(g, stk, n) => Agrees(e2, stk[n].saved, x)
             /\ x \notin Own(g, stk, n) => Agrees(e2, e, x)
  <2>1. \A x \in Own(g, stk, n) : Agrees(e2, stk[n].saved, x)
    BY DEF Restores, Agrees
  <2>2. \A x : x \notin Own(g, stk, n) => Agrees(e2, e, x)
    BY <1>5 DEF Restores, Agrees
  <2> QED BY <2>1, <2>2
<1>7. SamePlaces(g, stk, e, stk2, e2, m)
  <2>1. ASSUME NEW i \in 0..m, NEW x
        PROVE  Agrees(Place(g, stk2, e2, i, x), Place(g, stk, e, i, x), x)
    <3>1. /\ x \in Own(g, stk, Len(stk)) => Agrees(e2, stk[Len(stk)].saved, x)
          /\ x \notin Own(g, stk, Len(stk)) => Agrees(e2, e, x)
      BY <1>6
    <3>2. Len(stk2) \in Nat /\ Len(stk) = Len(stk2) + 1 /\ SameFrames(stk2, stk, Len(stk2))
      BY <1>2, <1>3, <1>4
    <3>3. i \in 0..Len(stk2)
      BY <1>2
    <3> HIDE DEF n
    <3> QED BY <3>1, <3>2, <3>3, PlaceAcross
  <2> QED BY <2>1 DEF SamePlaces
<1>8. (\A i \in 1..m : UnboundAt(g, stk2, e2, i)) /\ BottomInv(g, stk2, e2, ins, memory)
  <2>1. m \in Nat /\ m <= Len(stk) /\ Len(stk) \in Nat
    BY <1>1, <1>3
  <2> QED BY <1>2, <1>7, <2>1, LevelsStay
<1>9. DOMAIN stk2[1].saved = {}
  BY <1>1, <1>2, <1>3 DEF Levels
<1>10. Levels(g, stk2, e2, ins, memory)
  BY <1>2, <1>8, <1>9 DEF Levels
<1> QED BY <1>7, <1>10 DEF stk2, m

\* Names no frame binds, and names only the root has bound.
Free(g, stk, x) == \A i \in 1..Len(stk) : x \notin Own(g, stk, i)

Roots(g, stk, x) ==
  /\ x \in BoundBefore(g, stk[1].scope, stk[1].pc)
  /\ \A i \in 2..Len(stk) : x \notin Own(g, stk, i)

\* A name keeps its array, or has one at the bottom, or is the root's.
Settled(g, stk, e, e2, ins, ins2, memory, x) ==
  \/ Agrees(e2, e, x) /\ (x \in CtxInputs => ins2[x] = ins[x])
  \/ Free(g, stk, x) /\ Rests(e2, x, ins2, memory)
  \/ Roots(g, stk, x) /\ x \in Own(g, stk, 1) /\ (x \in CtxInputs => ins2[x] = ins[x])

LEMMA SetLevels ==
  ASSUME NEW g, NEW stk, NEW e, Len(stk) \in Nat, Len(stk) # 0,
         NEW ins, NEW memory, Levels(g, stk, e, ins, memory),
         NEW e2, NEW ins2, \A x : Settled(g, stk, e, e2, ins, ins2, memory, x)
  PROVE  Levels(g, stk, e2, ins2, memory)
<1> DEFINE n == Len(stk)
<1>1. n \in Nat /\ n # 0 /\ SameFrames(stk, stk, n)
  BY DEF SameFrames
<1>2. ASSUME NEW i \in Nat, NEW x, Agrees(e2, e, x)
      PROVE  Agrees(Place(g, stk, e2, i, x), Place(g, stk, e, i, x), x)
  <2>1. \/ Place(g, stk, e, i, x) = e /\ Place(g, stk, e2, i, x) = e2
        \/ Place(g, stk, e2, i, x) = Place(g, stk, e, i, x)
    BY <1>1, PlaceSame
  <2> QED BY <1>2, <2>1, AgreesOn
<1>3. ASSUME NEW i \in 1..n PROVE UnboundAt(g, stk, e2, i)
  <2>1. ASSUME NEW x \in Own(g, stk, i), x \notin BoundBefore(g, stk[i].scope, stk[i].pc)
        PROVE  Agrees(Place(g, stk, e2, i, x), stk[i].saved, x)
    <3>1. ~Free(g, stk, x)
      BY <2>1 DEF Free
    <3>2. ~Roots(g, stk, x)
      <4>1. i = 1 \/ i \in 2..n
        BY <1>1
      <4> QED BY <2>1, <4>1 DEF Roots
    <3>3. Agrees(e2, e, x)
      BY <3>1, <3>2 DEF Settled
    <3>4. UnboundAt(g, stk, e, i)
      BY DEF Levels
    <3>5. Agrees(Place(g, stk, e, i, x), stk[i].saved, x)
      BY <2>1, <3>4 DEF UnboundAt
    <3>6. Agrees(Place(g, stk, e2, i, x), Place(g, stk, e, i, x), x)
      BY <1>2, <3>3
    <3> QED BY <3>5, <3>6, AgreesOn
  <2> QED BY <2>1 DEF UnboundAt
<1>4. ASSUME NEW x PROVE Rests(Place(g, stk, e2, 0, x), x, ins2, memory)
  <2>1. Rests(Place(g, stk, e, 0, x), x, ins, memory)
    BY DEF Levels, BottomInv
  <2>2. CASE Agrees(e2, e, x) /\ (x \in CtxInputs => ins2[x] = ins[x])
    <3>1. Agrees(Place(g, stk, e2, 0, x), Place(g, stk, e, 0, x), x)
      BY <1>2, <2>2
    <3> QED BY <2>1, <2>2, <3>1 DEF Rests, Agrees
  <2>3. CASE Free(g, stk, x) /\ Rests(e2, x, ins2, memory)
    <3>1. Clear(g, stk, 0, Len(stk), x)
      BY <2>3 DEF Free, Clear
    <3>2. Place(g, stk, e2, 0, x) = e2
      BY <3>1, PlaceClear
    <3> QED BY <2>3, <3>2
  <2>4. CASE Roots(g, stk, x) /\ x \in Own(g, stk, 1) /\ (x \in CtxInputs => ins2[x] = ins[x])
    <3>1. 1 \in (0 + 1)..Len(stk) /\ (0 + 1)..(1 - 1) = {}
      BY <1>1
    <3>2. Hides(g, stk, 0, 1, x)
      BY <2>4, <3>1 DEF Hides, Clear
    <3>3. Place(g, stk, e2, 0, x) = stk[1].saved /\ Place(g, stk, e, 0, x) = stk[1].saved
      BY <1>1, <3>1, <3>2, PlaceSaved
    <3> QED BY <2>1, <2>4, <3>3 DEF Rests
  <2> QED BY <2>2, <2>3, <2>4 DEF Settled
<1>5. DOMAIN stk[1].saved = {}
  BY DEF Levels
<1> QED BY <1>3, <1>4, <1>5 DEF Levels, BottomInv

-----------------------------------------------------------------------------
(* The graphs of the contract.                                               *)

\* What frame i has bound.
Seen(g, stk, e, i) ==
  [x \in BoundBefore(g, stk[i].scope, stk[i].pc) |-> Place(g, stk, e, i, x)[x]]

LEMMA NamesOver ==
  ASSUME NEW g, NEW stk, NEW e, NEW i, NEW s, s = stk[i].scope
  PROVE  NamesAt(g, stk, e, i) = Over(InitValues(g, s), Seen(g, stk, e, i))
BY DEF NamesAt, Seen

LEMMA NamesAre ==
  ASSUME NEW g, NEW stk, NEW e, NEW i
  PROVE  /\ DOMAIN NamesAt(g, stk, e, i) =
              DOMAIN g.inits[stk[i].scope] \cup BoundBefore(g, stk[i].scope, stk[i].pc)
         /\ \A x \in BoundBefore(g, stk[i].scope, stk[i].pc) :
              NamesAt(g, stk, e, i)[x] = Place(g, stk, e, i, x)[x]
         /\ \A x \in DOMAIN g.inits[stk[i].scope] :
              x \notin BoundBefore(g, stk[i].scope, stk[i].pc) =>
                NamesAt(g, stk, e, i)[x] = InitValues(g, stk[i].scope)[x]
<1>1. NamesAt(g, stk, e, i) = Over(InitValues(g, stk[i].scope), Seen(g, stk, e, i))
  BY DEF NamesAt, Seen
<1>2. DOMAIN InitValues(g, stk[i].scope) = DOMAIN g.inits[stk[i].scope]
  BY DEF InitValues
<1>3. /\ DOMAIN Seen(g, stk, e, i) = BoundBefore(g, stk[i].scope, stk[i].pc)
      /\ \A x \in BoundBefore(g, stk[i].scope, stk[i].pc) :
           Seen(g, stk, e, i)[x] = Place(g, stk, e, i, x)[x]
  BY DEF Seen
<1> DEFINE I == InitValues(g, stk[i].scope)
           S == Seen(g, stk, e, i)
<1> HIDE DEF I, S
<1>4. /\ DOMAIN Over(I, S) = DOMAIN I \cup DOMAIN S
      /\ \A x \in DOMAIN S : Over(I, S)[x] = S[x]
      /\ \A x \in DOMAIN I : x \notin DOMAIN S => Over(I, S)[x] = I[x]
  BY OverIs
<1> QED BY <1>1, <1>2, <1>3, <1>4 DEF I, S

\* What a frame has bound is in its place.
LEMMA BoundThere ==
  ASSUME NEW g, NEW stk, NEW e, Good(g, stk, e), NEW i \in 1..Len(stk),
         NEW x \in BoundBefore(g, stk[i].scope, stk[i].pc)
  PROVE  x \in DOMAIN Place(g, stk, e, i, x)
<1> DEFINE n == Len(stk)
<1>1. n \in Nat /\ n = Len(stk) /\ i \in Nat /\ i \in 1..n
  BY SeqFacts DEF Good, StackInv
<1>2. /\ x \in DOMAIN e
      /\ \A j \in (i + 1)..n : x \in Own(g, stk, j) => x \in DOMAIN stk[j].saved
  BY DEF Good, BoundInv
<1> HIDE DEF n
<1>3. CASE Clear(g, stk, i, n, x)
  BY <1>1, <1>2, <1>3, PlaceClear
<1>4. CASE \E k \in (i + 1)..n : Hides(g, stk, i, k, x)
  <2>1. PICK k \in (i + 1)..n : Hides(g, stk, i, k, x)
    BY <1>4
  <2>2. Place(g, stk, e, i, x) = stk[k].saved
    BY <1>1, <2>1, PlaceSaved
  <2>3. x \in Own(g, stk, k)
    BY <2>1 DEF Hides
  <2> QED BY <1>2, <2>2, <2>3
<1> QED BY <1>1, <1>3, <1>4, PlaceEither

LEMMA NamesSame ==
  ASSUME NEW g, NEW stk, NEW e, Good(g, stk, e), NEW m \in 0..Len(stk), NEW i \in 1..m,
         NEW stk2, NEW e2, SamePlaces(g, stk, e, stk2, e2, m),
         stk2[i].scope = stk[i].scope, stk2[i].pc = stk[i].pc
  PROVE  NamesAt(g, stk2, e2, i) = NamesAt(g, stk, e, i)
<1> DEFINE bound == BoundBefore(g, stk[i].scope, stk[i].pc)
<1>1. i \in 1..Len(stk) /\ i \in 0..m
  BY SeqFacts DEF Good, StackInv
<1>2. ASSUME NEW x \in bound PROVE Place(g, stk2, e2, i, x)[x] = Place(g, stk, e, i, x)[x]
  <2>1. x \in DOMAIN Place(g, stk, e, i, x)
    BY <1>1, BoundThere
  <2>2. Agrees(Place(g, stk2, e2, i, x), Place(g, stk, e, i, x), x)
    BY <1>1 DEF SamePlaces
  <2> QED BY <2>1, <2>2 DEF Agrees
<1>3. Seen(g, stk2, e2, i) = [x \in bound |-> Place(g, stk2, e2, i, x)[x]]
  BY DEF Seen
<1>4. Seen(g, stk, e, i) = [x \in bound |-> Place(g, stk, e, i, x)[x]]
  BY DEF Seen
<1> HIDE DEF bound
<1>5. Seen(g, stk2, e2, i) = Seen(g, stk, e, i)
  BY <1>2, <1>3, <1>4
<1> QED BY <1>5, NamesOver

LEMMA GraphSame ==
  ASSUME NEW g, NEW stk, NEW e, NEW i, NEW stk2, NEW e2, stk2[i] = stk[i],
         NamesAt(g, stk2, e2, i) = NamesAt(g, stk, e, i)
  PROVE  GraphAt(g, stk2, e2, i) = GraphAt(g, stk, e, i)
BY DEF GraphAt

LEMMA GraphsSeq ==
  ASSUME NEW g, NEW stk, NEW e, IsSeq(stk)
  PROVE  /\ IsSeq(Graphs(g, stk, e)) /\ Len(Graphs(g, stk, e)) = Len(stk)
         /\ \A i \in 1..Len(stk) : Graphs(g, stk, e)[i] = GraphAt(g, stk, e, i)
<1>1. Len(stk) \in Nat /\ DOMAIN stk = 1..Len(stk)
  BY SeqFacts
<1> DEFINE S == {GraphAt(g, stk, e, i) : i \in 1..Len(stk)}
<1>2. Graphs(g, stk, e) = [i \in 1..Len(stk) |-> GraphAt(g, stk, e, i)]
  BY <1>1 DEF Graphs
<1>3. Graphs(g, stk, e) \in [1..Len(stk) -> S]
  BY <1>2
<1> DEFINE n == Len(stk)
           q == Graphs(g, stk, e)
<1>4. n \in Nat /\ q \in [1..n -> S]
  BY <1>1, <1>3
<1> HIDE DEF n, q, S
<1>5. q \in Seq(S) /\ Len(q) = n
  BY <1>4
<1> QED BY <1>2, <1>5 DEF IsSeq, n, q

LEMMA SameSeq ==
  ASSUME NEW q, IsSeq(q), NEW q2, IsSeq(q2), Len(q) = Len(q2),
         \A i \in 1..Len(q) : q[i] = q2[i]
  PROVE  q = q2
<1>1. q = [i \in 1..Len(q) |-> q[i]] /\ q2 = [i \in 1..Len(q2) |-> q2[i]]
  BY SeqFacts
<1> QED BY <1>1

\* A list with one element replaced.
Set(list, n, v) == [list EXCEPT ![n] = v]

LEMMA ReplacedIs ==
  ASSUME NEW q, IsSeq(q), NEW k \in 1..Len(q), NEW v
  PROVE  /\ IsSeq(Set(q, k, v)) /\ Len(Set(q, k, v)) = Len(q)
         /\ \A i \in 1..Len(q) : Set(q, k, v)[i] = IF i = k THEN v ELSE q[i]
<1>1. PICK S : q \in Seq(S)
  BY DEF IsSeq
<1>2. q \in Seq(S \cup {v})
  BY <1>1
<1> DEFINE q2 == Set(q, k, v)
<1>3. q2 \in Seq(S \cup {v}) /\ Len(q2) = Len(q)
  BY <1>2 DEF Set
<1>4. \A i \in 1..Len(q) : q2[i] = IF i = k THEN v ELSE q[i]
  BY <1>2 DEF Set
<1> QED BY <1>3, <1>4 DEF IsSeq

\* The top frame's names are in env.
LEMMA TopSeen ==
  ASSUME NEW g, NEW stk, NEW e, Len(stk) \in Nat, NEW n, n = Len(stk)
  PROVE  Seen(g, stk, e, n) = Restrict(e, BoundBefore(g, stk[n].scope, stk[n].pc))
<1>1. \A x : Place(g, stk, e, n, x) = e
  BY PlaceTop
<1> QED BY <1>1 DEF Seen, Restrict

LEMMA MovedFields ==
  ASSUME NEW stk, IsSeq(stk), NEW n, n = Len(stk), n # 0, DOMAIN stk[n] = Fields
  PROVE  MovedOn(stk)[n] = [stk[n] EXCEPT !.pc = @ + 1]
<1>1. n \in DOMAIN stk
  BY SeqFacts
<1> QED BY <1>1 DEF MovedOn

\* A graph has bound the outputs of its node.
LEMMA OverOver ==
  ASSUME NEW initial, NEW B, NEW e, \A x \in B : x \in DOMAIN e, NEW bound,
         NEW e2, e2 = Over(e, bound)
  PROVE  Over(initial, Restrict(e2, B \cup DOMAIN bound))
           = Over(Over(initial, Restrict(e, B)), bound)
<1> DEFINE left == Over(initial, Restrict(e2, B \cup DOMAIN bound))
           under == Over(initial, Restrict(e, B))
           right == Over(under, bound)
           D == DOMAIN initial \cup B \cup DOMAIN bound
<1>1. left = [x \in D |-> IF x \in B \cup DOMAIN bound THEN e2[x] ELSE initial[x]]
  BY DEF Over, Restrict
<1>2. under = [x \in DOMAIN initial \cup B |-> IF x \in B THEN e[x] ELSE initial[x]]
  BY DEF Over, Restrict
<1>3. right = [x \in DOMAIN under \cup DOMAIN bound |->
                 IF x \in DOMAIN bound THEN bound[x] ELSE under[x]]
  BY DEF Over
<1>4. /\ \A x \in DOMAIN bound : e2[x] = bound[x]
      /\ \A x \in DOMAIN e : x \notin DOMAIN bound => e2[x] = e[x]
  BY OverIs
<1> HIDE DEF left, right, under
<1>5. DOMAIN under = DOMAIN initial \cup B
  BY <1>2
<1>6. DOMAIN right = D
  BY <1>3, <1>5
<1>7. DOMAIN left = D
  BY <1>1
<1>8. ASSUME NEW x \in D PROVE left[x] = right[x]
  <2>1. CASE x \in DOMAIN bound
    BY <1>1, <1>3, <1>4, <1>5, <2>1
  <2>2. CASE x \notin DOMAIN bound /\ x \in B
    <3>1. left[x] = e[x]
      BY <1>1, <1>4, <2>2
    <3>2. right[x] = under[x]
      BY <1>3, <1>5, <2>2
    <3> QED BY <1>2, <2>2, <3>1, <3>2
  <2>3. CASE x \notin DOMAIN bound /\ x \notin B
    <3>1. left[x] = initial[x]
      BY <1>1, <2>3
    <3>2. right[x] = under[x]
      BY <1>3, <1>5, <2>3
    <3> QED BY <1>2, <1>8, <2>3, <3>1, <3>2
  <2> QED BY <2>1, <2>2, <2>3
<1>9. left = [x \in D |-> left[x]] /\ right = [x \in D |-> right[x]]
  BY <1>1, <1>3, <1>5
<1>10. left = right
  BY <1>8, <1>9
<1> QED BY <1>10 DEF left, right, under

\* A stack is at a node; what the node yields is bound.
AtNode(g, stk, node) ==
  LET top == stk[Len(stk)]
  IN Len(stk) # 0 /\ top.pc <= Len(g.nodes[top.scope]) /\ node = g.nodes[top.scope][top.pc]

Results(e, e2, node, values) == e2 = Over(e, Bind(node.outs, values))

LEMMA AtNodeIs ==
  ASSUME NEW g, WellFormed(g), NEW stk, NEW e, Good(g, stk, e), NEW node, AtNode(g, stk, node)
  PROVE  LET n == Len(stk)
             r == stk[n].scope
             k == stk[n].pc
         IN /\ IsSeq(stk) /\ n \in Nat /\ n # 0 /\ n \in 1..n
            /\ DOMAIN stk[n] = Fields /\ r \in Scopes
            /\ k \in 1..Len(g.nodes[r]) /\ k \in Nat \ {0} /\ node = g.nodes[r][k]
            /\ node \in ANode
<1> DEFINE n == Len(stk)
           r == stk[n].scope
           k == stk[n].pc
<1>1. n # 0 /\ k <= Len(g.nodes[r]) /\ node = g.nodes[r][k]
  BY DEF AtNode
<1>2. IsSeq(stk) /\ n \in Nat
  BY SeqFacts DEF Good, StackInv
<1>3. n \in 1..n
  <2> HIDE DEF n
  <2> QED BY <1>1, <1>2
<1>4. DOMAIN stk[n] = Fields /\ r \in Scopes /\ k \in 1..(Len(g.nodes[r]) + 1)
  BY <1>3 DEF Good, StackInv
<1> HIDE DEF n, r, k
<1>5. Len(g.nodes[r]) \in Nat
  BY <1>4, NodeFacts
<1>6. k \in 1..Len(g.nodes[r]) /\ k \in Nat \ {0}
  BY <1>1, <1>4, <1>5
<1>7. node \in ANode
  BY <1>1, <1>4, <1>6, NodeFacts
<1> QED BY <1>1, <1>2, <1>3, <1>4, <1>6, <1>7 DEF n, r, k

LEMMA ResultsPut ==
  ASSUME NEW e, NEW e2, NEW node, NEW values, Results(e, e2, node, values)
  PROVE  Puts(e, e2, Range(node.outs))
<1> DEFINE bound == Bind(node.outs, values)
<1>1. DOMAIN bound = Range(node.outs)
  BY DEF Bind
<1>2. e2 = Over(e, bound)
  BY DEF Results
<1> HIDE DEF bound
<1>3. /\ DOMAIN Over(e, bound) = DOMAIN e \cup DOMAIN bound
      /\ \A x \in DOMAIN e : x \notin DOMAIN bound => Over(e, bound)[x] = e[x]
  BY OverIs
<1> QED BY <1>1, <1>2, <1>3 DEF Puts

\* A graph whose node has yielded.
Moved(graph, bound) == [graph EXCEPT !.pc = @ + 1, !.names = Over(@, bound)]

LEMMA YieldedIs ==
  ASSUME NEW list, NEW n, n = Len(list), NEW outs,
         outs = p.nodes[list[n].scope][list[n].pc].outs, NEW values
  PROVE  Contract!Yielded(list, values) = Set(list, n, Moved(list[n], Bind(outs, values)))
<1>1. Contract!Bind(outs, values) = Bind(outs, values)
  BY SameOperators
<1>2. \A f, h : Contract!Over(f, h) = Over(f, h)
  BY SameOperators
<1> QED BY <1>1, <1>2 DEF Contract!Yielded, Set, Moved

LEMMA GraphMoves ==
  ASSUME NEW g, NEW stk, NEW e, NEW stk2, NEW e2, NEW n, DOMAIN stk[n] = Fields,
         stk2[n] = [stk[n] EXCEPT !.pc = @ + 1],
         NEW bound, NamesAt(g, stk2, e2, n) = Over(NamesAt(g, stk, e, n), bound)
  PROVE  GraphAt(g, stk2, e2, n) = Moved(GraphAt(g, stk, e, n), bound)
<1> DEFINE N == NamesAt(g, stk, e, n)
           N2 == NamesAt(g, stk2, e2, n)
           f == stk[n]
           f2 == stk2[n]
           G == GraphAt(g, stk, e, n)
           G2 == GraphAt(g, stk2, e2, n)
<1>1. /\ f2.scope = f.scope /\ f2.pc = f.pc + 1 /\ f2.t = f.t /\ f2.trip = f.trip
      /\ f2.state = f.state /\ f2.scan = f.scan /\ f2.emitted = f.emitted
  BY DEF Fields
<1>2. N2 = Over(N, bound)
  OBVIOUS
<1>3. /\ G = [scope |-> f.scope, pc |-> f.pc, names |-> N, t |-> f.t, trip |-> f.trip,
              state |-> f.state, scan |-> f.scan, emitted |-> f.emitted]
      /\ G2 = [scope |-> f2.scope, pc |-> f2.pc, names |-> N2, t |-> f2.t, trip |-> f2.trip,
               state |-> f2.state, scan |-> f2.scan, emitted |-> f2.emitted]
  BY DEF GraphAt
<1> HIDE DEF N, N2, f, f2, G, G2
<1> DEFINE pc == f.pc + 1
           names == Over(N, bound)
           moved == [scope |-> f.scope, pc |-> pc, names |-> names, t |-> f.t,
                     trip |-> f.trip, state |-> f.state, scan |-> f.scan, emitted |-> f.emitted]
<1>4. Moved(G, bound) = [[G EXCEPT !.pc = pc] EXCEPT !.names = names]
  BY <1>3, Zenon DEF Moved
<1> HIDE DEF pc, names
<1>5. [[G EXCEPT !.pc = pc] EXCEPT !.names = names] = moved
  <2> DEFINE H == [G EXCEPT !.pc = pc]
  <2>1. H = [scope |-> f.scope, pc |-> pc, names |-> N, t |-> f.t,
             trip |-> f.trip, state |-> f.state, scan |-> f.scan, emitted |-> f.emitted]
    BY <1>3
  <2> HIDE DEF H
  <2>2. [H EXCEPT !.names = names] = moved
    BY <2>1
  <2> QED BY <2>2 DEF H
<1>6. G2 = moved
  BY <1>1, <1>2, <1>3 DEF pc, names
<1> QED BY <1>4, <1>5, <1>6 DEF G, G2

LEMMA NamesMove ==
  ASSUME NEW g, WellFormed(g), NEW stk, NEW e, Good(g, stk, e), NEW node, AtNode(g, stk, node),
         NEW values, NEW e2, Results(e, e2, node, values),
         NEW stk2, Len(stk2) = Len(stk), stk2[Len(stk)] = [stk[Len(stk)] EXCEPT !.pc = @ + 1]
  PROVE  NamesAt(g, stk2, e2, Len(stk)) = Over(NamesAt(g, stk, e, Len(stk)), Bind(node.outs, values))
<1> DEFINE n == Len(stk)
           r == stk[n].scope
           k == stk[n].pc
           bound == Bind(node.outs, values)
           B == BoundBefore(g, r, k)
           initial == InitValues(g, r)
<1>1. /\ n \in Nat /\ n \in 1..n /\ DOMAIN stk[n] = Fields
      /\ k \in Nat \ {0} /\ node = g.nodes[r][k]
  BY AtNodeIs
<1>2. stk2[n].scope = r /\ stk2[n].pc = k + 1
  BY <1>1 DEF Fields
<1>3. DOMAIN bound = Range(node.outs) /\ e2 = Over(e, bound)
  BY DEF Bind, Results
<1>4. \A x \in B : x \in DOMAIN e
  BY <1>1 DEF Good, BoundInv
<1>5. Len(stk2) = n /\ n = Len(stk) /\ r = stk[n].scope /\ k = stk[n].pc
  OBVIOUS
<1> HIDE DEF n, r, k, bound
<1>6. BoundBefore(g, r, k + 1) = B \cup DOMAIN bound
  BY <1>1, <1>3, BoundStep
<1>7. Seen(g, stk2, e2, n) = Restrict(e2, BoundBefore(g, r, k + 1))
  BY <1>1, <1>2, <1>5, TopSeen
<1>8. Seen(g, stk, e, n) = Restrict(e, B)
  BY <1>1, <1>5, TopSeen
<1> HIDE DEF B
<1>9. NamesAt(g, stk2, e2, n) = Over(initial, Restrict(e2, B \cup DOMAIN bound))
  <2>1. NamesAt(g, stk2, e2, n) = Over(initial, Seen(g, stk2, e2, n))
    BY <1>2, NamesOver
  <2>2. Seen(g, stk2, e2, n) = Restrict(e2, B \cup DOMAIN bound)
    BY <1>6, <1>7
  <2> QED BY <2>1, <2>2
<1>10. NamesAt(g, stk, e, n) = Over(initial, Restrict(e, B))
  BY <1>5, <1>8, NamesOver
<1> HIDE DEF initial
<1>11. NamesAt(g, stk2, e2, n) = Over(NamesAt(g, stk, e, n), bound)
  BY <1>3, <1>4, <1>9, <1>10, OverOver
<1> QED BY <1>11 DEF n, bound

LEMMA AdvanceGraphs ==
  ASSUME WellFormed(p), NEW stk, NEW e, Good(p, stk, e), NEW node, AtNode(p, stk, node),
         NEW values, NEW e2, Results(e, e2, node, values),
         NEW ins, NEW memory, Levels(p, stk, e, ins, memory)
  PROVE  /\ Levels(p, MovedOn(stk), e2, ins, memory)
         /\ Graphs(p, MovedOn(stk), e2) = Contract!Yielded(Graphs(p, stk, e), values)
<1> DEFINE n == Len(stk)
           m == n - 1
           r == stk[n].scope
           k == stk[n].pc
           bound == Bind(node.outs, values)
           stk2 == MovedOn(stk)
           G == Graphs(p, stk, e)
           G2 == Graphs(p, stk2, e2)
           new == Moved(G[n], bound)
<1>1. /\ IsSeq(stk) /\ n \in Nat /\ n # 0 /\ n \in 1..n /\ DOMAIN stk[n] = Fields
      /\ k \in 1..Len(p.nodes[r]) /\ node = p.nodes[r][k]
  BY AtNodeIs
<1>2. n = Len(stk) /\ r = stk[n].scope /\ k = stk[n].pc /\ stk2 = MovedOn(stk)
  OBVIOUS
<1> HIDE DEF n, r, k, stk2, bound
<1>3. m \in Nat /\ m \in 0..n /\ (\A i \in 1..n : i = n \/ i \in 1..m)
  BY <1>1
<1>4. Levels(p, stk2, e2, ins, memory) /\ SamePlaces(p, stk, e, stk2, e2, n - 1)
  <2>1. Puts(e, e2, Range(p.nodes[r][stk[n].pc].outs))
    BY <1>1, <1>2, ResultsPut
  <2>2. stk[n].pc <= Len(p.nodes[r])
    <3>1. Len(p.nodes[r]) \in Nat
      BY <1>1, <1>2, NodeFacts DEF Good, StackInv
    <3> QED BY <1>1, <1>2, <3>1
  <2> QED BY <1>1, <1>2, <2>1, <2>2, AdvanceLevels
<1>5. /\ IsSeq(stk2) /\ Len(stk2) = n /\ SameBelow(stk, stk2, n)
      /\ stk2[n] = [stk[n] EXCEPT !.pc = @ + 1]
  BY <1>1, <1>2, AdvancedIs, MovedFields
<1>6. IsSeq(G) /\ Len(G) = n /\ \A i \in 1..n : G[i] = GraphAt(p, stk, e, i)
  BY <1>1, <1>2, GraphsSeq
<1>7. IsSeq(G2) /\ Len(G2) = n /\ \A i \in 1..n : G2[i] = GraphAt(p, stk2, e2, i)
  BY <1>5, GraphsSeq
<1> HIDE DEF G, G2
<1>8. Contract!Yielded(G, values) = Set(G, n, new)
  <2>1. G[n] = GraphAt(p, stk, e, n)
    BY <1>1, <1>6
  <2>2. G[n].scope = r /\ G[n].pc = k
    BY <1>2, <2>1 DEF GraphAt
  <2>3. node.outs = p.nodes[G[n].scope][G[n].pc].outs
    BY <1>1, <2>2
  <2>4. Contract!Yielded(G, values) = Set(G, n, Moved(G[n], Bind(node.outs, values)))
    BY <1>6, <2>3, YieldedIs
  <2> QED BY <2>4 DEF bound
<1>9. ASSUME NEW i \in 1..n, i # n PROVE G2[i] = G[i]
  <2>1. i \in 1..m /\ stk2[i] = stk[i] /\ m \in 0..Len(stk)
    BY <1>2, <1>3, <1>5, <1>9 DEF SameBelow
  <2>2. SamePlaces(p, stk, e, stk2, e2, m)
    BY <1>4
  <2> HIDE DEF m
  <2>3. NamesAt(p, stk2, e2, i) = NamesAt(p, stk, e, i)
    BY <2>1, <2>2, NamesSame
  <2>4. GraphAt(p, stk2, e2, i) = GraphAt(p, stk, e, i)
    BY <2>1, <2>3, GraphSame
  <2> QED BY <1>6, <1>7, <2>4
<1>10. G2[n] = new
  <2>1. NamesAt(p, stk2, e2, n) = Over(NamesAt(p, stk, e, n), bound)
    BY <1>2, <1>5, NamesMove DEF bound
  <2>2. GraphAt(p, stk2, e2, n) = Moved(GraphAt(p, stk, e, n), bound)
    BY <1>1, <1>5, <2>1, GraphMoves
  <2>3. G[n] = GraphAt(p, stk, e, n) /\ G2[n] = GraphAt(p, stk2, e2, n)
    BY <1>1, <1>6, <1>7
  <2> QED BY <2>2, <2>3
<1> HIDE DEF new
<1>11. G2 = Set(G, n, new)
  <2> DEFINE q == Set(G, n, new)
  <2>1. IsSeq(q) /\ Len(q) = n /\ \A i \in 1..n : q[i] = IF i = n THEN new ELSE G[i]
    BY <1>1, <1>6, ReplacedIs
  <2> HIDE DEF q
  <2>2. \A i \in 1..n : G2[i] = q[i]
    BY <1>9, <1>10, <2>1
  <2>3. G2 = q
    BY <1>7, <2>1, <2>2, SameSeq
  <2> QED BY <2>3 DEF q
<1>12. G2 = Contract!Yielded(G, values)
  BY <1>8, <1>11
<1> QED BY <1>2, <1>4, <1>12 DEF G, G2

\* A graph of the contract that is as far as a frame, its nodes and names aside.
Fits(graph, frame) ==
  \E pc, names :
    graph = [scope |-> frame.scope, pc |-> pc, names |-> names, t |-> frame.t,
             trip |-> frame.trip, state |-> frame.state, scan |-> frame.scan,
             emitted |-> frame.emitted]

LEMMA OpenedIs ==
  ASSUME NEW graph, NEW frame, Fits(graph, frame), NEW args
  PROVE  Contract!Opened(graph, args) =
           [scope |-> frame.scope, pc |-> 1,
            names |-> Over(InitValues(p, frame.scope), Bind(p.formals[frame.scope], args)),
            t |-> frame.t, trip |-> frame.trip, state |-> frame.state, scan |-> frame.scan,
            emitted |-> frame.emitted]
<1> DEFINE names2 == Over(InitValues(p, frame.scope), Bind(p.formals[frame.scope], args))
           H == [graph EXCEPT !.pc = 1]
<1>1. PICK pc, names :
        graph = [scope |-> frame.scope, pc |-> pc, names |-> names, t |-> frame.t,
                 trip |-> frame.trip, state |-> frame.state, scan |-> frame.scan,
                 emitted |-> frame.emitted]
  BY DEF Fits
<1>2. H = [scope |-> frame.scope, pc |-> 1, names |-> names, t |-> frame.t,
           trip |-> frame.trip, state |-> frame.state, scan |-> frame.scan,
           emitted |-> frame.emitted]
  BY <1>1
<1>3. graph.scope = frame.scope
  BY <1>1
<1>4. Contract!Opened(graph, args) =
        [H EXCEPT !.names = Contract!Over(Contract!InitValues(p, graph.scope),
                                          Contract!Bind(p.formals[graph.scope], args))]
  BY Zenon DEF Contract!Opened
<1>5. names2 = Contract!Over(Contract!InitValues(p, graph.scope),
                             Contract!Bind(p.formals[graph.scope], args))
  BY <1>3, SameOperators
<1> HIDE DEF H, names2
<1>6. Contract!Opened(graph, args) = [H EXCEPT !.names = names2]
  BY <1>4, <1>5
<1>7. [H EXCEPT !.names = names2] =
        [scope |-> frame.scope, pc |-> 1, names |-> names2, t |-> frame.t,
         trip |-> frame.trip, state |-> frame.state, scan |-> frame.scan,
         emitted |-> frame.emitted]
  BY <1>2
<1> QED BY <1>6, <1>7 DEF names2

\* What a body has bound at its start.
LEMMA BoundFormals ==
  ASSUME NEW e, NEW names, NEW args, NEW e2, e2 = Over(e, Bind(names, args))
  PROVE  Restrict(e2, Range(names)) = Bind(names, args)
<1> DEFINE bound == Bind(names, args)
<1>1. DOMAIN bound = Range(names) /\ bound = [x \in Range(names) |-> bound[x]]
  BY DEF Bind
<1> HIDE DEF bound
<1>2. \A x \in DOMAIN bound : Over(e, bound)[x] = bound[x]
  BY OverIs
<1>3. \A x \in Range(names) : e2[x] = bound[x]
  BY <1>1, <1>2 DEF bound
<1>4. Restrict(e2, Range(names)) = [x \in Range(names) |-> e2[x]]
  BY DEF Restrict
<1>5. Restrict(e2, Range(names)) = bound
  BY <1>1, <1>3, <1>4
<1> QED BY <1>5 DEF bound

Enters(e, e2, names, args) == e2 = Over(e, Bind(names, args))

LEMMA PushGraphs ==
  ASSUME NEW stk, NEW e, Good(p, stk, e), Len(stk) # 0,
         NEW b, NEW frame, Opens(p, b, e, frame), NEW args,
         NEW e2, Binds(p, b, e, e2), Enters(e, e2, p.formals[b], args),
         NEW graph, Fits(graph, frame),
         NEW ins, NEW memory, Levels(p, stk, e, ins, memory),
         NEW stk2, Pushed(stk, frame, stk2), NEW new, new = Contract!Opened(graph, args)
  PROVE  Pushed(Graphs(p, stk, e), new, Graphs(p, stk2, e2))
<1> DEFINE n == Len(stk)
           top == n + 1
           G == Graphs(p, stk, e)
           G2 == Graphs(p, stk2, e2)
           names == Over(InitValues(p, b), Bind(p.formals[b], args))
<1>1. IsSeq(stk) /\ n \in Nat
  BY SeqFacts DEF Good, StackInv
<1>2. /\ IsSeq(stk2) /\ Len(stk2) = top /\ stk2[top] = frame
      /\ \A i \in 1..n : stk2[i] = stk[i]
  BY <1>1, PushedIs DEF Pushed
<1>3. SamePlaces(p, stk, e, stk2, e2, n)
  <2>1. SamePlaces(p, stk, e, Append(stk, frame), e2, n)
    BY PushLevels
  <2> QED BY <2>1 DEF Pushed
<1>4. n = Len(stk)
  OBVIOUS
<1> HIDE DEF n
<1>5. top \in Nat /\ top \in 1..top /\ n \in 0..n /\ \A i \in 1..top : i = top \/ i \in 1..n
  BY <1>1
<1>6. IsSeq(G) /\ Len(G) = n /\ \A i \in 1..n : G[i] = GraphAt(p, stk, e, i)
  BY <1>1, <1>4, GraphsSeq
<1>7. IsSeq(G2) /\ Len(G2) = top /\ \A i \in 1..top : G2[i] = GraphAt(p, stk2, e2, i)
  BY <1>2, GraphsSeq
<1> HIDE DEF G, G2
<1>8. ASSUME NEW i \in 1..n PROVE G2[i] = G[i]
  <2>1. stk2[i] = stk[i] /\ n \in 0..Len(stk) /\ i \in 1..top
    BY <1>2, <1>4, <1>5
  <2> HIDE DEF top
  <2>2. NamesAt(p, stk2, e2, i) = NamesAt(p, stk, e, i)
    BY <1>3, <2>1, NamesSame
  <2>3. GraphAt(p, stk2, e2, i) = GraphAt(p, stk, e, i)
    BY <2>1, <2>2, GraphSame
  <2> QED BY <1>6, <1>7, <2>1, <2>3
<1> HIDE DEF top
<1>9. G2[top] = new
  <2>1. frame.scope = b /\ frame.pc = 1
    BY DEF Opens
  <2>2. Seen(p, stk2, e2, top) = Restrict(e2, BoundBefore(p, stk2[top].scope, stk2[top].pc))
    BY <1>2, <1>5, TopSeen
  <2>3. BoundBefore(p, stk2[top].scope, stk2[top].pc) = Range(p.formals[b])
    BY <1>2, <2>1, FirstNode
  <2>4. Restrict(e2, Range(p.formals[b])) = Bind(p.formals[b], args)
    BY BoundFormals DEF Enters
  <2>5. Seen(p, stk2, e2, top) = Bind(p.formals[b], args)
    BY <2>2, <2>3, <2>4
  <2>6. NamesAt(p, stk2, e2, top) = Over(InitValues(p, b), Seen(p, stk2, e2, top))
    BY <1>2, <2>1, NamesOver
  <2>7. NamesAt(p, stk2, e2, top) = names
    BY <2>5, <2>6
  <2>8. new = [scope |-> frame.scope, pc |-> 1, names |-> names,
               t |-> frame.t, trip |-> frame.trip, state |-> frame.state, scan |-> frame.scan,
               emitted |-> frame.emitted]
    BY <2>1, OpenedIs
  <2>9. GraphAt(p, stk2, e2, top) =
          [scope |-> frame.scope, pc |-> frame.pc, names |-> names,
           t |-> frame.t, trip |-> frame.trip, state |-> frame.state, scan |-> frame.scan,
           emitted |-> frame.emitted]
    BY <1>2, <2>7 DEF GraphAt
  <2> HIDE DEF names
  <2> QED BY <1>5, <1>7, <2>1, <2>8, <2>9
<1>10. G2 = Append(G, new)
  <2> DEFINE q == Append(G, new)
  <2>1. IsSeq(q) /\ Len(q) = top /\ q[top] = new /\ \A i \in 1..n : q[i] = G[i]
    BY <1>6, PushedIs DEF top
  <2> HIDE DEF q
  <2>2. \A i \in 1..top : G2[i] = q[i]
    BY <1>5, <1>8, <1>9, <2>1
  <2>3. G2 = q
    BY <1>7, <2>1, <2>2, SameSeq
  <2> QED BY <2>3 DEF q
<1> QED BY <1>10 DEF G, G2, Pushed

LEMMA PopGraphs ==
  ASSUME NEW stk, NEW e, Good(p, stk, e), Len(stk) # 0, Len(stk) # 1,
         NEW e2, Restores(p, stk, Len(stk), e, e2),
         NEW ins, NEW memory, Levels(p, stk, e, ins, memory)
  PROVE  Graphs(p, Front(stk), e2) = Front(Graphs(p, stk, e))
<1> DEFINE n == Len(stk)
           m == n - 1
           stk2 == Front(stk)
           G == Graphs(p, stk, e)
           G2 == Graphs(p, stk2, e2)
<1>1. IsSeq(stk) /\ n \in Nat /\ n # 0
  BY SeqFacts DEF Good, StackInv
<1>2. IsSeq(stk2) /\ Len(stk2) = m /\ \A i \in 1..m : stk2[i] = stk[i]
  BY <1>1, PoppedIs
<1>3. SamePlaces(p, stk, e, stk2, e2, m)
  BY PopLevels
<1>4. n = Len(stk)
  OBVIOUS
<1> HIDE DEF n, stk2
<1>5. m \in Nat /\ m \in 0..n /\ \A i \in 1..m : i \in 1..n
  BY <1>1
<1>6. IsSeq(G) /\ Len(G) = n /\ \A i \in 1..n : G[i] = GraphAt(p, stk, e, i)
  BY <1>1, <1>4, GraphsSeq
<1>7. IsSeq(G2) /\ Len(G2) = m /\ \A i \in 1..m : G2[i] = GraphAt(p, stk2, e2, i)
  BY <1>2, GraphsSeq
<1> HIDE DEF G, G2
<1>8. ASSUME NEW i \in 1..m PROVE G2[i] = G[i]
  <2>1. stk2[i] = stk[i] /\ m \in 0..Len(stk) /\ i \in 1..n
    BY <1>2, <1>4, <1>5
  <2> HIDE DEF m
  <2>2. NamesAt(p, stk2, e2, i) = NamesAt(p, stk, e, i)
    BY <1>3, <2>1, NamesSame
  <2>3. GraphAt(p, stk2, e2, i) = GraphAt(p, stk, e, i)
    BY <2>1, <2>2, GraphSame
  <2> QED BY <1>6, <1>7, <2>1, <2>3
<1>9. G2 = Front(G)
  <2> DEFINE q == Front(G)
  <2>1. IsSeq(q) /\ Len(q) = m /\ \A i \in 1..m : q[i] = G[i]
    BY <1>1, <1>6, PoppedIs
  <2> HIDE DEF q, m
  <2>2. \A i \in 1..m : G2[i] = q[i]
    BY <1>8, <2>1
  <2>3. G2 = q
    BY <1>7, <2>1, <2>2, SameSeq
  <2> QED BY <2>3 DEF q
<1> QED BY <1>9 DEF G, G2, stk2

\* What is bound keeps its array.
LEMMA NamesKept ==
  ASSUME NEW g, NEW stk, NEW e, Good(g, stk, e), NEW i \in 1..Len(stk), NEW e2,
         \A x \in BoundBefore(g, stk[i].scope, stk[i].pc) : Agrees(e2, e, x)
  PROVE  NamesAt(g, stk, e2, i) = NamesAt(g, stk, e, i)
<1> DEFINE bound == BoundBefore(g, stk[i].scope, stk[i].pc)
           n == Len(stk)
<1>1. i \in 1..n /\ i \in Nat /\ n \in Nat
  BY SeqFacts DEF Good, StackInv
<1>2. ASSUME NEW x \in bound PROVE Place(g, stk, e2, i, x)[x] = Place(g, stk, e, i, x)[x]
  <2>1. x \in DOMAIN Place(g, stk, e, i, x)
    BY BoundThere
  <2>2. \/ Place(g, stk, e, i, x) = e /\ Place(g, stk, e2, i, x) = e2
        \/ Place(g, stk, e2, i, x) = Place(g, stk, e, i, x)
    <3>1. SameFrames(stk, stk, Len(stk))
      BY DEF SameFrames
    <3> QED BY <1>1, <3>1, PlaceSame
  <2>3. Agrees(e2, e, x)
    OBVIOUS
  <2> QED BY <2>1, <2>2, <2>3 DEF Agrees
<1>3. Seen(g, stk, e2, i) = [x \in bound |-> Place(g, stk, e2, i, x)[x]]
  BY DEF Seen
<1>4. Seen(g, stk, e, i) = [x \in bound |-> Place(g, stk, e, i, x)[x]]
  BY DEF Seen
<1> HIDE DEF bound
<1>5. Seen(g, stk, e2, i) = Seen(g, stk, e, i)
  BY <1>2, <1>3, <1>4
<1> QED BY <1>5, NamesOver

LEMMA BoundOwn ==
  ASSUME NEW g, WellFormed(g), NEW stk, StackInv(g, stk), NEW i \in 1..Len(stk)
  PROVE  BoundBefore(g, stk[i].scope, stk[i].pc) \subseteq Own(g, stk, i)
<1> DEFINE s == stk[i].scope
           k == stk[i].pc
<1>1. s \in Scopes /\ k \in 1..(Len(g.nodes[s]) + 1)
  BY DEF StackInv
<1>2. Own(g, stk, i) = BodyNames(g, s)
  BY DEF Own
<1> HIDE DEF s, k
<1>3. Len(g.nodes[s]) \in Nat
  BY <1>1, NodeFacts
<1>4. \A j \in 1..(k - 1) : j \in 1..Len(g.nodes[s])
  BY <1>1, <1>3
<1>5. \A j \in 1..(k - 1) : Range(g.nodes[s][j].outs) \subseteq BodyNames(g, s)
  BY <1>1, <1>4, NodeFacts
<1>6. Range(g.formals[s]) \subseteq BodyNames(g, s)
  BY DEF BodyNames
<1>7. BoundBefore(g, s, k) \subseteq BodyNames(g, s)
  BY <1>5, <1>6 DEF BoundBefore
<1> QED BY <1>2, <1>7 DEF s, k

-----------------------------------------------------------------------------
(* What a name means.                                                        *)

\* Levels of frames that have not bound a name say the same of it.
LEMMA SeenFrom ==
  ASSUME NEW g, NEW stk, NEW e, Len(stk) \in Nat, NEW ins, NEW memory,
         Levels(g, stk, e, ins, memory), NEW h \in 0..Len(stk), NEW x,
         \A j \in (h + 1)..Len(stk) : x \notin BoundBefore(g, stk[j].scope, stk[j].pc)
  PROVE  Agrees(Place(g, stk, e, h, x), e, x)
<1> DEFINE n == Len(stk)
           T == {j \in h..n : Agrees(Place(g, stk, e, j, x), e, x)}
<1>1. n \in Nat /\ h \in 0..n /\ h \in Nat /\ n \in h..n
  OBVIOUS
<1>2. \A j \in (h + 1)..n : x \notin BoundBefore(g, stk[j].scope, stk[j].pc)
  OBVIOUS
<1>3. Agrees(Place(g, stk, e, n, x), e, x)
  BY PlaceTop, AgreesOn
<1>4. \A j \in 1..n : UnboundAt(g, stk, e, j)
  BY DEF Levels
<1>5. \A j \in 1..n : /\ x \in Own(g, stk, j) => Place(g, stk, e, j - 1, x) = stk[j].saved
                      /\ x \notin Own(g, stk, j) =>
                           Place(g, stk, e, j - 1, x) = Place(g, stk, e, j, x)
  BY PlaceBelow
<1> HIDE DEF n
<1>6. T \in SUBSET Nat /\ n \in T
  BY <1>1, <1>3
<1>7. PICK t \in T : \A j \in T : t <= j
  <2> HIDE DEF T
  <2> QED BY <1>6, LeastNumber
<1>8. t \in h..n /\ Agrees(Place(g, stk, e, t, x), e, x)
  BY <1>7
<1>9. t = h
  <2>1. SUFFICES ASSUME t # h PROVE FALSE
    OBVIOUS
  <2>2. t \in (h + 1)..n /\ t \in 1..n /\ t - 1 \in h..n /\ ~(t <= t - 1)
    BY <1>1, <1>8, <2>1
  <2>3. Agrees(Place(g, stk, e, t - 1, x), e, x)
    <3>1. CASE x \in Own(g, stk, t)
      <4>1. Place(g, stk, e, t - 1, x) = stk[t].saved
        BY <1>5, <2>2, <3>1
      <4>2. Agrees(Place(g, stk, e, t, x), stk[t].saved, x)
        BY <1>2, <1>4, <2>2, <3>1 DEF UnboundAt
      <4>3. Agrees(stk[t].saved, e, x)
        BY <1>8, <4>2, AgreesOn
      <4> QED BY <4>1, <4>3
    <3>2. CASE x \notin Own(g, stk, t)
      <4>1. Place(g, stk, e, t - 1, x) = Place(g, stk, e, t, x)
        BY <1>5, <2>2, <3>2
      <4> QED BY <1>8, <4>1
    <3> QED BY <3>1, <3>2
  <2>4. t - 1 \in T
    BY <2>2, <2>3
  <2> QED BY <1>7, <2>2, <2>4
<1> QED BY <1>8, <1>9

\* Frame i has the name.
Holds(i, x) ==
  x \in DOMAIN p.inits[stack[i].scope] \/ x \in BoundBefore(p, stack[i].scope, stack[i].pc)

LEMMA NamesIn ==
  ASSUME NEW g, NEW stk, NEW e, NEW i, NEW x
  PROVE  x \in DOMAIN NamesAt(g, stk, e, i) <=>
           x \in DOMAIN g.inits[stk[i].scope] \/ x \in BoundBefore(g, stk[i].scope, stk[i].pc)
<1> DEFINE I == InitValues(g, stk[i].scope)
           S == Seen(g, stk, e, i)
<1>1. NamesAt(g, stk, e, i) = Over(I, S)
  BY DEF NamesAt, Seen
<1>2. DOMAIN I = DOMAIN g.inits[stk[i].scope]
  BY DEF InitValues
<1>3. DOMAIN S = BoundBefore(g, stk[i].scope, stk[i].pc)
  BY DEF Seen
<1> HIDE DEF I, S
<1>4. DOMAIN Over(I, S) = DOMAIN I \cup DOMAIN S
  BY OverIs
<1> QED BY <1>1, <1>2, <1>3, <1>4

LEMMA GraphIs ==
  ASSUME NEW g, NEW stk, NEW e, NEW i
  PROVE  /\ GraphAt(g, stk, e, i).names = NamesAt(g, stk, e, i)
         /\ GraphAt(g, stk, e, i).scope = stk[i].scope /\ GraphAt(g, stk, e, i).pc = stk[i].pc
         /\ GraphAt(g, stk, e, i).t = stk[i].t /\ GraphAt(g, stk, e, i).trip = stk[i].trip
         /\ GraphAt(g, stk, e, i).state = stk[i].state /\ GraphAt(g, stk, e, i).scan = stk[i].scan
         /\ GraphAt(g, stk, e, i).emitted = stk[i].emitted
<1> DEFINE N == NamesAt(g, stk, e, i)
           f == stk[i]
<1>1. GraphAt(g, stk, e, i) =
        [scope |-> f.scope, pc |-> f.pc, names |-> N, t |-> f.t, trip |-> f.trip,
         state |-> f.state, scan |-> f.scan, emitted |-> f.emitted]
  BY DEF GraphAt
<1> HIDE DEF N
<1>2. /\ GraphAt(g, stk, e, i).names = N
      /\ GraphAt(g, stk, e, i).scope = stk[i].scope /\ GraphAt(g, stk, e, i).pc = stk[i].pc
      /\ GraphAt(g, stk, e, i).t = stk[i].t /\ GraphAt(g, stk, e, i).trip = stk[i].trip
      /\ GraphAt(g, stk, e, i).state = stk[i].state /\ GraphAt(g, stk, e, i).scan = stk[i].scan
      /\ GraphAt(g, stk, e, i).emitted = stk[i].emitted
  BY <1>1
<1> QED BY <1>2 DEF N

LEMMA HoldersAre ==
  ASSUME TInv, NEW x
  PROVE  Contract!Holders(x) = {i \in 1..Len(stack) : Holds(i, x)}
<1>1. IsSeq(stack)
  BY DEF TInv, Good, StackInv
<1> DEFINE G == Graphs(p, stack, env)
<1>2. IsSeq(G) /\ Len(G) = Len(stack) /\ \A i \in 1..Len(stack) : G[i] = GraphAt(p, stack, env, i)
  BY <1>1, GraphsSeq
<1>3. Contract!Holders(x) = {i \in DOMAIN G : x \in DOMAIN G[i].names}
  BY DEF Contract!Holders
<1> HIDE DEF G
<1>4. DOMAIN G = 1..Len(stack)
  BY <1>2, SeqFacts
<1>5. ASSUME NEW i \in 1..Len(stack) PROVE x \in DOMAIN G[i].names <=> Holds(i, x)
  <2>1. G[i].names = NamesAt(p, stack, env, i)
    BY <1>2, GraphIs
  <2> QED BY <2>1, NamesIn DEF Holds
<1> QED BY <1>3, <1>4, <1>5

\* No graph has the name: it is a boundary input.
LEMMA MeantBelow ==
  ASSUME TInv, NEW x, \A i \in 1..Len(stack) : ~Holds(i, x)
  PROVE  /\ Contract!Meant(x) = Stored(host, writes)[x]
         /\ Contract!Known(x) <=> x \in CtxInputs
<1>1. Contract!Holders(x) = {}
  BY HoldersAre
<1>2. DOMAIN Stored(host, writes) = CtxInputs
  BY DEF Stored, TInv, HostInv
<1> QED BY <1>1, <1>2 DEF Contract!Meant, Contract!Known

\* The innermost graph that has it tells.
LEMMA MeantAt ==
  ASSUME TInv, NEW x, NEW h \in 1..Len(stack), Holds(h, x),
         \A i \in (h + 1)..Len(stack) : ~Holds(i, x)
  PROVE  Contract!Meant(x) = NamesAt(p, stack, env, h)[x] /\ Contract!Known(x)
<1> DEFINE T == Contract!Holders(x)
           n == Len(stack)
           G == Graphs(p, stack, env)
<1>1. IsSeq(stack) /\ n \in Nat
  BY SeqFacts DEF TInv, Good, StackInv
<1>2. T = {i \in 1..n : Holds(i, x)}
  BY HoldersAre
<1>3. IsSeq(G) /\ \A i \in 1..n : G[i] = GraphAt(p, stack, env, i)
  BY <1>1, GraphsSeq
<1>4. T # {} => Contract!Meant(x) = G[Contract!Max(T)].names[x]
  BY DEF Contract!Meant
<1>5. Contract!Known(x) <=> (T # {} \/ x \in DOMAIN Stored(host, writes))
  BY DEF Contract!Known
<1>6. h \in 1..n /\ \A i \in (h + 1)..n : ~Holds(i, x)
  OBVIOUS
<1> HIDE DEF n
<1>7. h \in T /\ T \in SUBSET (1..n) /\ \A i \in T : i <= h
  <2>1. ASSUME NEW i \in T, h < i PROVE FALSE
    <3>1. i \in (h + 1)..n /\ Holds(i, x)
      BY <1>1, <1>2, <1>6, <2>1
    <3> QED BY <1>6, <3>1
  <2> QED BY <1>1, <1>2, <1>6, <2>1
<1> HIDE DEF T
<1>8. Max(T) = h
  <2>1. Max(T) \in T /\ \A y \in T : Max(T) >= y
    BY <1>1, <1>7, GreatestNumber
  <2>2. Max(T) \in 1..n /\ Max(T) >= h /\ Max(T) <= h
    BY <1>7, <2>1
  <2> QED BY <1>1, <1>6, <2>2
<1>9. Contract!Max(T) = h
  BY <1>8, SameOperators
<1>10. G[h].names = NamesAt(p, stack, env, h)
  <2>1. G[h] = GraphAt(p, stack, env, h)
    BY <1>3, <1>6
  <2> QED BY <2>1, GraphIs
<1> QED BY <1>4, <1>5, <1>7, <1>9, <1>10

LEMMA HeldEither ==
  ASSUME TInv, NEW x
  PROVE  \/ \A i \in 1..Len(stack) : ~Holds(i, x)
         \/ \E h \in 1..Len(stack) :
              Holds(h, x) /\ \A i \in (h + 1)..Len(stack) : ~Holds(i, x)
<1> DEFINE n == Len(stack)
           T == {i \in 1..n : Holds(i, x)}
<1>1. n \in Nat
  BY SeqFacts DEF TInv, Good, StackInv
<1> HIDE DEF n
<1>2. ASSUME T # {} PROVE \E h \in 1..n : Holds(h, x) /\ \A i \in (h + 1)..n : ~Holds(i, x)
  <2>1. T \in SUBSET (1..n)
    OBVIOUS
  <2> DEFINE h == Max(T)
  <2>2. h \in T /\ \A y \in T : h >= y
    <3> HIDE DEF T
    <3> QED BY <1>1, <1>2, <2>1, GreatestNumber
  <2> HIDE DEF h
  <2>3. \A i \in (h + 1)..n : i \in 1..n /\ ~(h >= i)
    BY <1>1, <2>1, <2>2
  <2>4. \A i \in (h + 1)..n : ~Holds(i, x)
    BY <2>2, <2>3
  <2> QED BY <2>2, <2>4
<1>3. ASSUME T = {} PROVE \A i \in 1..n : ~Holds(i, x)
  BY <1>3
<1> QED BY <1>2, <1>3 DEF n

-----------------------------------------------------------------------------
(* The invariant of the refinement.                                          *)

\* A node somewhere updates the name in place.
Updates(x) ==
  \E s \in Scopes : \E node \in NodesOf(p, s) : node.kind = "Paged" /\ node.ins[1] = x

NotedInv(list) == \A i \in DOMAIN list : Updates(list[i].name)

\* The arrays kept are the initializers', whatever graph they were first resolved in.
RightCache(kept) ==
  \A k \in DOMAIN kept :
    /\ k.of \in Scopes => kept[k] = InitValues(p, k.of)[k.name]
    /\ k.of = "packed" =>
         \A s \in Scopes : k.name \in PackedNames(p, s) =>
           kept[k] = InitValues(p, InitScopeOf(p, s, k.name))[k.name]

RestInv ==
  /\ NamesDistinct(p)
  /\ host = [x \in CtxInputs |-> host[x]]
  /\ mode = "idle" => stack = <<>> /\ env = <<>> /\ writes = <<>>
  /\ mode = "trace" => writes = <<>>
  /\ NotedInv(writes)

LInv ==
  /\ TInv /\ RestInv /\ RightCache(cache)
  /\ Levels(p, stack, env, Stored(host, writes), host)

\* What the assumption says of the graph.
LEMMA ApartIs ==
  ASSUME TInv
  PROVE  /\ WellFormed(p) /\ NamesApart(p) /\ UpdatesApart(p)
         /\ \A s, t \in Scopes : \A x \in DOMAIN p.inits[t] :
              x \notin BodyNames(p, s) /\ x \notin CtxInputs
         /\ p.formals["root"] = <<>>
<1>1. WellFormed(p)
  BY TranslateAssumption DEF TInv, PlanInv
<1>2. NamesApart(p) /\ UpdatesApart(p)
  BY ScopesAssumption DEF TInv, PlanInv
<1>3. \A s, t \in Scopes : \A x \in DOMAIN p.inits[t] :
        x \notin BodyNames(p, s) /\ x \notin CtxInputs
  BY <1>2 DEF NamesApart
<1>4. p.formals["root"] = <<>>
  BY <1>1 DEF WellFormed, Arities
<1> QED BY <1>1, <1>2, <1>3, <1>4

-----------------------------------------------------------------------------
(* The scopes of the frames.                                                 *)

LEMMA FrameScopes ==
  ASSUME NEW g, WellFormed(g), NEW stk, StackInv(g, stk), NEW i \in 1..Len(stk)
  PROVE  /\ i = 1 => stk[i].scope = "root"
         /\ i # 1 => stk[i].scope \in Scopes \ {"root"} /\ Parent(stk[i].scope) = stk[i - 1].scope
<1> DEFINE n == Len(stk)
<1>1. n \in Nat /\ i \in 1..n
  BY SeqFacts DEF StackInv
<1>2. i = 1 => stk[i].scope = "root"
  BY DEF StackInv
<1>3. ASSUME i # 1
      PROVE  stk[i].scope \in Scopes \ {"root"} /\ Parent(stk[i].scope) = stk[i - 1].scope
  <2> DEFINE h == i - 1
             r == stk[h].scope
             k == stk[h].pc
  <2>1. h \in 1..n
    <3> HIDE DEF n
    <3> QED BY <1>1, <1>3
  <2>2. r \in Scopes /\ k \in 1..(Len(g.nodes[r]) + 1)
    BY <2>1 DEF StackInv
  <2>3. k <= Len(g.nodes[r]) /\ stk[i].scope \in Range(g.nodes[r][k].bodies)
    BY <1>3 DEF StackInv, CallerAt
  <2> HIDE DEF r, k, h
  <2>4. Len(g.nodes[r]) \in Nat /\ DOMAIN g.nodes[r] = 1..Len(g.nodes[r])
    BY <2>2, NodeFacts
  <2>5. k \in DOMAIN g.nodes[r]
    BY <2>2, <2>3, <2>4
  <2>6. \A b \in Range(g.nodes[r][k].bodies) : b # "root" /\ Parent(b) = r
    BY <2>2, <2>5 DEF WellFormed, Nested
  <2>7. stk[i].scope \in Scopes
    BY DEF StackInv
  <2> QED BY <2>3, <2>6, <2>7 DEF r, h
<1> QED BY <1>2, <1>3

\* Every scope around the top frame's has a frame, the outer ones below the inner.
Nests(stk) ==
  /\ \A t \in Within(stk[Len(stk)].scope) : \E h \in 1..Len(stk) : stk[h].scope = t
  /\ \A h, i \in 1..Len(stk) : h < i => stk[h].scope \in Outer(stk[i].scope)

LEMMA ScopeFrames ==
  ASSUME NEW g, WellFormed(g), NEW stk, StackInv(g, stk), Len(stk) # 0
  PROVE  Nests(stk)
<1> DEFINE n == Len(stk)
           at(i) == stk[i].scope
<1>1. n \in Nat /\ n # 0
  BY SeqFacts DEF StackInv
<1>2. \A i \in 1..n : /\ i = 1 => at(i) = "root"
                      /\ i # 1 => at(i) \in Scopes \ {"root"} /\ Parent(at(i)) = at(i - 1)
  BY FrameScopes
<1> HIDE DEF n, at
<1>3. 1 \in 1..n /\ at(1) = "root"
  BY <1>1, <1>2
<1>4. n >= 2 => at(2) \in {"then", "else"} /\ Parent(at(2)) = "root"
  <2>1. SUFFICES ASSUME n >= 2 PROVE at(2) \in {"then", "else"} /\ Parent(at(2)) = "root"
    OBVIOUS
  <2>2. 2 \in 1..n /\ 2 - 1 = 1 /\ 2 # 1
    BY <1>1, <2>1
  <2>3. at(2) \in Scopes \ {"root"} /\ Parent(at(2)) = at(1)
    BY <1>2, <2>2
  <2>4. Parent("inner") # "root"
    BY DEF Parent
  <2> QED BY <1>3, <2>3, <2>4
<1>5. n >= 3 => at(3) = "inner" /\ at(2) = "then"
  <2>1. SUFFICES ASSUME n >= 3 PROVE at(3) = "inner" /\ at(2) = "then"
    OBVIOUS
  <2>2. 3 \in 1..n /\ 3 - 1 = 2 /\ 3 # 1 /\ n >= 2
    BY <1>1, <2>1
  <2>3. at(3) \in Scopes \ {"root"} /\ Parent(at(3)) = at(2)
    BY <1>2, <2>2
  <2>4. \A s \in Scopes \ {"inner"} : Parent(s) = "root"
    BY DEF Parent
  <2> QED BY <1>4, <2>2, <2>3, <2>4 DEF Parent
<1>6. n <= 3
  <2>1. SUFFICES ASSUME n > 3 PROVE FALSE
    BY <1>1
  <2>2. 4 \in 1..n /\ 4 - 1 = 3 /\ n >= 3
    BY <1>1, <2>1
  <2> QED BY <1>2, <1>5, <2>2 DEF Parent
<1>7. n = 1 \/ n = 2 \/ n = 3
  BY <1>1, <1>6
<1>8. \A t \in Within(at(n)) : \E h \in 1..n : at(h) = t
  <2>1. CASE n = 1
    BY <1>3, <2>1 DEF Within, Outer
  <2>2. CASE n = 2
    <3>1. 1 \in 1..n /\ 2 \in 1..n
      BY <2>2
    <3> QED BY <1>3, <1>4, <2>2, <3>1 DEF Within, Outer
  <2>3. CASE n = 3
    <3>1. 1 \in 1..n /\ 2 \in 1..n /\ 3 \in 1..n
      BY <2>3
    <3> QED BY <1>3, <1>5, <2>3, <3>1 DEF Within, Outer, Parent
  <2> QED BY <1>7, <2>1, <2>2, <2>3
<1>9. ASSUME NEW h \in 1..n, NEW i \in 1..n, h < i PROVE at(h) \in Outer(at(i))
  <2>1. \/ n >= 2 /\ h = 1 /\ i = 2
        \/ n >= 3 /\ i = 3 /\ (h = 1 \/ h = 2)
    BY <1>7, <1>9
  <2>2. CASE n >= 2 /\ h = 1 /\ i = 2
    BY <1>3, <1>4, <2>2 DEF Outer
  <2>3. CASE n >= 3 /\ i = 3 /\ (h = 1 \/ h = 2)
    BY <1>3, <1>5, <2>3 DEF Outer, Parent
  <2> QED BY <2>1, <2>2, <2>3
<1> QED BY <1>8, <1>9 DEF n, at, Nests

-----------------------------------------------------------------------------
(* The translator finds what the names mean.                                 *)

LEMMA NamesBound ==
  ASSUME NEW g, NEW stk, NEW e, NEW i, NEW x \in BoundBefore(g, stk[i].scope, stk[i].pc)
  PROVE  NamesAt(g, stk, e, i)[x] = Place(g, stk, e, i, x)[x]
<1> DEFINE I == InitValues(g, stk[i].scope)
           S == Seen(g, stk, e, i)
<1>1. NamesAt(g, stk, e, i) = Over(I, S)
  BY DEF NamesAt, Seen
<1>2. x \in DOMAIN S /\ S[x] = Place(g, stk, e, i, x)[x]
  <2> DEFINE bound == BoundBefore(g, stk[i].scope, stk[i].pc)
  <2>1. x \in bound /\ S = [y \in bound |-> Place(g, stk, e, i, y)[y]]
    BY DEF Seen
  <2> HIDE DEF bound, S
  <2> QED BY <2>1
<1> HIDE DEF I, S
<1>3. \A y \in DOMAIN S : Over(I, S)[y] = S[y]
  BY OverIs
<1>4. Over(I, S)[x] = S[x]
  BY <1>2, <1>3
<1> QED BY <1>1, <1>2, <1>4

LEMMA NamesInit ==
  ASSUME NEW g, NEW stk, NEW e, NEW i, NEW x \in DOMAIN g.inits[stk[i].scope],
         x \notin BoundBefore(g, stk[i].scope, stk[i].pc)
  PROVE  NamesAt(g, stk, e, i)[x] = InitValues(g, stk[i].scope)[x]
<1> DEFINE I == InitValues(g, stk[i].scope)
           S == Seen(g, stk, e, i)
<1>1. NamesAt(g, stk, e, i) = Over(I, S)
  BY DEF NamesAt, Seen
<1>2. x \in DOMAIN I /\ x \notin DOMAIN S
  BY DEF Seen, InitValues
<1> HIDE DEF I, S
<1>3. Over(I, S)[x] = I[x]
  BY <1>2, OverIs
<1> QED BY <1>1, <1>3 DEF I

\* An initializer's name is never bound, and nothing else has it.
LEMMA InitsApart ==
  ASSUME TInv, NEW x, NEW t \in Scopes, x \in DOMAIN p.inits[t]
  PROVE  /\ x \notin CtxInputs
         /\ \A i \in 1..Len(stack) :
              x \notin Own(p, stack, i) /\ x \notin BoundBefore(p, stack[i].scope, stack[i].pc)
<1>1. x \notin CtxInputs /\ \A s \in Scopes : x \notin BodyNames(p, s)
  BY ApartIs
<1>2. StackInv(p, stack)
  BY DEF TInv, Good
<1>3. ASSUME NEW i \in 1..Len(stack)
      PROVE  x \notin Own(p, stack, i) /\ x \notin BoundBefore(p, stack[i].scope, stack[i].pc)
  <2>1. stack[i].scope \in Scopes
    BY <1>2 DEF StackInv
  <2>2. x \notin Own(p, stack, i)
    BY <1>1, <2>1 DEF Own
  <2>3. BoundBefore(p, stack[i].scope, stack[i].pc) \subseteq Own(p, stack, i)
    BY <1>2, ApartIs, BoundOwn
  <2> QED BY <2>2, <2>3
<1> QED BY <1>1, <1>3

\* A frame that has a name of a boundary input or of a graph in translation has bound it.
LEMMA HoldsBound ==
  ASSUME TInv, NEW x, x \in CtxInputs \/ \E j \in 1..Len(stack) : x \in Own(p, stack, j),
         NEW i \in 1..Len(stack)
  PROVE  Holds(i, x) <=> x \in BoundBefore(p, stack[i].scope, stack[i].pc)
<1>1. stack[i].scope \in Scopes
  BY DEF TInv, Good, StackInv
<1>2. x \notin DOMAIN p.inits[stack[i].scope]
  BY <1>1, InitsApart
<1> QED BY <1>2 DEF Holds

LEMMA MeantOfEnv ==
  ASSUME LInv, NEW x \in DOMAIN env
  PROVE  Contract!Known(x) /\ Contract!Meant(x) = env[x]
<1> DEFINE n == Len(stack)
           ins == Stored(host, writes)
<1>1. TInv /\ Levels(p, stack, env, ins, host)
  BY DEF LInv
<1>2. n \in Nat
  BY <1>1, SeqFacts DEF TInv, Good, StackInv
<1>3. \A i \in 1..n : Holds(i, x) <=> x \in BoundBefore(p, stack[i].scope, stack[i].pc)
  <2>1. x \in CtxInputs \/ \E j \in 1..n : x \in Own(p, stack, j)
    BY <1>1 DEF TInv, Good, ScopedInv
  <2> QED BY <1>1, <2>1, HoldsBound
<1>4. ASSUME NEW h \in 0..n, \A i \in (h + 1)..n : ~Holds(i, x)
      PROVE  Agrees(Place(p, stack, env, h, x), env, x)
  <2>1. \A j \in (h + 1)..n : x \notin BoundBefore(p, stack[j].scope, stack[j].pc)
    <3>1. \A j \in (h + 1)..n : j \in 1..n
      BY <1>2
    <3> QED BY <1>3, <1>4, <3>1
  <2> HIDE DEF ins
  <2> QED BY <1>1, <1>2, <2>1, SeenFrom
<1>5. CASE \A i \in 1..n : ~Holds(i, x)
  <2>1. 0 \in 0..n /\ \A i \in (0 + 1)..n : i \in 1..n
    BY <1>2
  <2>2. Agrees(Place(p, stack, env, 0, x), env, x)
    BY <1>4, <1>5, <2>1
  <2>3. Rests(Place(p, stack, env, 0, x), x, ins, host)
    BY <1>1 DEF Levels, BottomInv
  <2>4. x \in CtxInputs /\ env[x] = ins[x]
    BY <2>2, <2>3 DEF Agrees, Rests
  <2> QED BY <1>1, <1>5, <2>4, MeantBelow
<1>6. CASE \E h \in 1..n : Holds(h, x) /\ \A i \in (h + 1)..n : ~Holds(i, x)
  <2>1. PICK h \in 1..n : Holds(h, x) /\ \A i \in (h + 1)..n : ~Holds(i, x)
    BY <1>6
  <2>2. h \in 0..n /\ x \in BoundBefore(p, stack[h].scope, stack[h].pc)
    BY <1>3, <2>1
  <2>3. Agrees(Place(p, stack, env, h, x), env, x)
    BY <1>4, <2>1, <2>2
  <2>4. NamesAt(p, stack, env, h)[x] = Place(p, stack, env, h, x)[x]
    BY <2>2, NamesBound
  <2>5. NamesAt(p, stack, env, h)[x] = env[x]
    BY <2>3, <2>4 DEF Agrees
  <2> QED BY <1>1, <2>1, <2>5, MeantAt
<1> QED BY <1>1, <1>5, <1>6, HeldEither

\* A boundary input not read yet is in the host's memory still.
LEMMA MeantOfHost ==
  ASSUME LInv, NEW x \in CtxInputs, x \notin DOMAIN env
  PROVE  Contract!Known(x) /\ Contract!Meant(x) = host[x]
<1> DEFINE n == Len(stack)
           ins == Stored(host, writes)
<1>1. TInv /\ Levels(p, stack, env, ins, host)
  BY DEF LInv
<1>2. n \in Nat
  BY <1>1, SeqFacts DEF TInv, Good, StackInv
<1>3. \A i \in 1..n : x \notin BoundBefore(p, stack[i].scope, stack[i].pc)
  BY <1>1 DEF TInv, Good, BoundInv
<1>4. \A i \in 1..n : ~Holds(i, x)
  BY <1>1, <1>3, HoldsBound
<1>5. Contract!Known(x) /\ Contract!Meant(x) = ins[x]
  BY <1>1, <1>4, MeantBelow
<1>6. Agrees(Place(p, stack, env, 0, x), env, x)
  <2>1. 0 \in 0..n /\ \A i \in (0 + 1)..n : i \in 1..n
    BY <1>2
  <2>2. \A i \in (0 + 1)..n : x \notin BoundBefore(p, stack[i].scope, stack[i].pc)
    BY <1>3, <2>1
  <2> HIDE DEF ins
  <2> QED BY <1>1, <1>2, <2>1, <2>2, SeenFrom
<1>7. Rests(Place(p, stack, env, 0, x), x, ins, host)
  BY <1>1 DEF Levels, BottomInv
<1>8. ins[x] = host[x]
  BY <1>6, <1>7 DEF Agrees, Rests
<1> QED BY <1>5, <1>8

\* The scope an initializer comes from is the innermost that bears it.
LEMMA BearersAround ==
  ASSUME NEW g, NEW s \in Scopes, NEW x, InitScopeOf(g, s, x) # "none",
         NEW t \in Within(s), x \in DOMAIN g.inits[t]
  PROVE  t \in Within(InitScopeOf(g, s, x))
<1> DEFINE bearers == {r \in Within(s) : x \in DOMAIN g.inits[r]}
<1>1. bearers # {} /\ InitScopeOf(g, s, x) = CHOOSE r \in bearers : bearers \subseteq Within(r)
  BY DEF InitScopeOf
<1>2. \E r \in bearers : bearers \subseteq Within(r)
  BY <1>1 DEF Within, Outer, Parent
<1>3. t \in bearers
  OBVIOUS
<1> HIDE DEF bearers
<1>4. bearers \subseteq Within(InitScopeOf(g, s, x))
  BY <1>1, <1>2
<1> QED BY <1>3, <1>4

\* An initializer is found in the innermost graph that has it.
LEMMA MeantOfInit ==
  ASSUME LInv, mode # "idle", NEW x, NEW t, t = InitScopeOf(p, Top.scope, x), t # "none"
  PROVE  Contract!Known(x) /\ Contract!Meant(x) = InitValues(p, t)[x]
<1> DEFINE n == Len(stack)
           s == Top.scope
<1>1. /\ TInv /\ WellFormed(p) /\ StackInv(p, stack) /\ n \in Nat /\ n # 0
      /\ s = stack[n].scope /\ s \in Scopes
  BY TopIs DEF LInv
<1>2. t \in Within(s) /\ t \in Scopes /\ x \in DOMAIN p.inits[t]
  BY <1>1, BearerFound, ScopeFacts
<1>n. Nests(stack)
  BY <1>1, ScopeFrames
<1>3. \A h, i \in 1..n : h < i => stack[h].scope \in Outer(stack[i].scope)
  BY <1>n DEF Nests
<1>f. \A r \in Within(stack[n].scope) : \E h \in 1..n : stack[h].scope = r
  BY <1>n DEF Nests
<1>4. PICK h \in 1..n : stack[h].scope = t
  BY <1>1, <1>2, <1>f
<1>5. \A i \in 1..n : x \notin BoundBefore(p, stack[i].scope, stack[i].pc)
  BY <1>1, <1>2, InitsApart
<1> HIDE DEF n, s
<1>6. ASSUME NEW i \in (h + 1)..n, Holds(i, x) PROVE FALSE
  <2>1. i \in 1..n /\ h < i /\ i <= n
    BY <1>1, <1>4
  <2> DEFINE r == stack[i].scope
  <2>2. x \in DOMAIN p.inits[r]
    BY <1>5, <1>6, <2>1 DEF Holds
  <2>3. r \in Within(s)
    <3>1. CASE i = n
      BY <1>1, <3>1, ScopeFacts
    <3>2. CASE i # n
      <4>1. i < n /\ n \in 1..n
        BY <1>1, <2>1, <3>2
      <4> QED BY <1>1, <1>3, <2>1, <4>1 DEF Within
    <3> QED BY <3>1, <3>2
  <2>4. t \in Outer(r) /\ r \in Scopes
    <3>1. stack[i].scope \in Scopes
      BY <1>1, <2>1 DEF StackInv, n
    <3> QED BY <1>3, <1>4, <2>1, <3>1
  <2>5. r \in Within(t)
    <3>1. InitScopeOf(p, s, x) = t
      BY DEF s
    <3> HIDE DEF r
    <3> QED BY <1>1, <2>2, <2>3, <3>1, BearersAround
  <2>6. r # t /\ r \notin Outer(t)
    <3> HIDE DEF r
    <3>1. \A u \in Scopes : \A v \in Outer(u) : u # v /\ u \notin Outer(v)
      BY DEF Outer, Parent
    <3> QED BY <2>4, <3>1
  <2> QED BY <2>5, <2>6 DEF Within
<1>7. Holds(h, x)
  BY <1>2, <1>4 DEF Holds
<1>8. NamesAt(p, stack, env, h)[x] = InitValues(p, t)[x]
  BY <1>2, <1>4, <1>5, NamesInit
<1>9. \A i \in (h + 1)..n : ~Holds(i, x)
  BY <1>6
<1> QED BY <1>1, <1>4, <1>7, <1>8, <1>9, MeantAt DEF n

\* What a node takes for a boundary input no graph in translation binds.
LEMMA CtxUnowned ==
  ASSUME TInv, InNode, NEW x \in Range(Node.ins), SourceOf(Top.scope, x) = "CtxInput"
  PROVE  x \in CtxInputs /\ Free(p, stack, x)
<1> DEFINE n == Len(stack)
           s == Top.scope
<1>1. /\ WellFormed(p) /\ StackInv(p, stack) /\ n \in Nat /\ n # 0
      /\ s = stack[n].scope /\ s \in Scopes
  BY TopIs DEF InNode
<1>2. /\ Top.pc \in DOMAIN p.nodes[s] /\ Node = p.nodes[s][Top.pc]
      /\ Source(p, s, x) = "CtxInput"
  BY NodeIs
<1>3. x \in CtxInputs /\ x \notin BodyNames(p, s)
  <2>1. /\ x \in CtxInputs /\ x \notin Produced(p, s)
        /\ s # "root" => x \notin Range(p.formals[s])
    BY <1>2, SourceIs
  <2>2. Range(p.formals["root"]) = {}
    BY ApartIs DEF Range
  <2> QED BY <2>1, <2>2 DEF BodyNames
<1>4. x \notin Around(p, s)
  BY <1>1, <1>2 DEF WellFormed, Ordered
<1>5. \A h, i \in 1..n : h < i => stack[h].scope \in Outer(stack[i].scope)
  BY <1>1, ScopeFrames DEF Nests
<1> HIDE DEF n, s
<1>6. ASSUME NEW i \in 1..n PROVE x \notin Own(p, stack, i)
  <2>1. CASE i = n
    BY <1>1, <1>3, <2>1 DEF Own
  <2>2. CASE i # n
    <3>1. i < n /\ n \in 1..n
      BY <1>1, <2>2
    <3>2. stack[i].scope \in Outer(s)
      BY <1>1, <1>5, <3>1
    <3> QED BY <1>4, <3>2 DEF Around, Own
  <2> QED BY <2>1, <2>2
<1> QED BY <1>3, <1>6 DEF Free, n

\* Every operand means the array it resolves to.
LEMMA OperandMeant ==
  ASSUME LInv, InNode, NEW x \in Range(Node.ins)
  PROVE  Contract!Known(x) /\ Contract!Meant(x) = Resolve(Top.scope, x)
<1> DEFINE s == Top.scope
<1>1. TInv /\ mode # "idle"
  BY DEF LInv, InNode
<1>2. /\ SourceOf(s, x) \in {"Intermediate", "Initializer", "CtxInput"}
      /\ SourceOf(s, x) = "Intermediate" => x \in DOMAIN env
      /\ SourceOf(s, x) = "CtxInput" => x \in CtxInputs
  BY <1>1, OperandIs
<1>3. SourceOf(s, x) = Source(p, s, x) /\ Ref(s, x).of = InitScopeOf(p, s, x)
  BY <1>1, NodeIs
<1>4. CASE SourceOf(s, x) = "Intermediate"
  <2>1. Resolve(s, x) = env[x]
    BY <1>2, <1>4 DEF Resolve
  <2> QED BY <1>2, <1>4, <2>1, MeantOfEnv
<1>5. CASE SourceOf(s, x) = "CtxInput"
  <2>1. CASE x \in DOMAIN env
    <3>1. Resolve(s, x) = env[x]
      BY <1>5, <2>1 DEF Resolve
    <3> QED BY <2>1, <3>1, MeantOfEnv
  <2>2. CASE x \notin DOMAIN env
    <3>1. Resolve(s, x) = host[x]
      BY <1>5, <2>2 DEF Resolve
    <3> QED BY <1>2, <1>5, <2>2, <3>1, MeantOfHost
  <2> QED BY <2>1, <2>2
<1>6. CASE SourceOf(s, x) = "Initializer"
  <2> DEFINE t == InitScopeOf(p, s, x)
             k == Key(s, x)
  <2>1. t # "none"
    BY <1>3, <1>6, SourceIs
  <2>2. Contract!Known(x) /\ Contract!Meant(x) = InitValues(p, t)[x]
    BY <1>1, <2>1, MeantOfInit
  <2>3. InitValue(s, x) = InitValues(p, t)[x]
    BY <1>3 DEF InitValue
  <2>4. k.name = x /\ k.of = t
    BY <1>3 DEF Key
  <2>5. t \in Scopes
    BY <1>1, <1>2, <1>3, <1>6, OperandIs
  <2>6. k \in DOMAIN cache => cache[k] = InitValues(p, t)[x]
    BY <2>4, <2>5 DEF LInv, RightCache
  <2>7. Resolve(s, x) = Cached(k, InitValue(s, x))
    BY <1>6 DEF Resolve
  <2> HIDE DEF k, t
  <2> QED BY <2>2, <2>3, <2>6, <2>7 DEF Cached
<1> QED BY <1>2, <1>4, <1>5, <1>6

\* What is not updated in place is in the host's memory as it was.
LEMMA StoredApart ==
  ASSUME NEW memory, NEW list, NEW x \in DOMAIN memory, \A i \in DOMAIN list : list[i].name # x
  PROVE  Stored(memory, list)[x] = memory[x]
<1>1. {i \in DOMAIN list : list[i].name = x} = {}
  OBVIOUS
<1> QED BY <1>1 DEF Stored

\* What is read in the host's memory is what the name means.
LEMMA HostMeant ==
  ASSUME LInv, InNode, NEW x \in HostRead(Node), x \in Range(Node.ins), HostReadable(Top.scope, x)
  PROVE  Contract!Meant(x) = RawHost(Top.scope, x)
<1> DEFINE s == Top.scope
           ins == Stored(host, writes)
           n == Len(stack)
<1>1. TInv /\ mode # "idle" /\ s \in Scopes /\ n \in Nat
  BY TopIs DEF LInv, InNode
<1>2. SourceOf(s, x) = Source(p, s, x) /\ Ref(s, x).of = InitScopeOf(p, s, x)
  BY <1>1, NodeIs
<1>3. CASE SourceOf(s, x) = "Initializer"
  <2>1. InitScopeOf(p, s, x) # "none"
    BY <1>2, <1>3, SourceIs
  <2>2. RawHost(s, x) = InitValues(p, InitScopeOf(p, s, x))[x]
    BY <1>2, <1>3 DEF RawHost, InitValue
  <2> QED BY <1>1, <2>1, <2>2, MeantOfInit
<1>4. CASE SourceOf(s, x) = "CtxInput"
  <2>1. x \in CtxInputs /\ Free(p, stack, x)
    BY <1>1, <1>4, CtxUnowned
  <2>2. RawHost(s, x) = host[x]
    BY <1>4 DEF RawHost
  <2>3. CASE x \notin DOMAIN env
    BY <2>1, <2>2, <2>3, MeantOfHost
  <2>4. CASE x \in DOMAIN env
    <3>1. Contract!Meant(x) = env[x]
      BY <2>4, MeantOfEnv
    <3>2. Place(p, stack, env, 0, x) = env
      <4>1. Clear(p, stack, 0, n, x)
        BY <2>1 DEF Free, Clear
      <4> QED BY <4>1, PlaceClear
    <3>3. Rests(Place(p, stack, env, 0, x), x, ins, host)
      BY DEF LInv, Levels, BottomInv
    <3>4. env[x] = ins[x]
      BY <2>4, <3>2, <3>3 DEF Rests
    <3>5. ~Updates(x)
      <4>1. Node \in NodesOf(p, s)
        BY <1>1, NodeIs
      <4>2. UpdatesApart(p)
        BY <1>1, ApartIs
      <4> QED BY <1>1, <4>1, <4>2 DEF Updates, UpdatesApart
    <3>6. \A i \in DOMAIN writes : writes[i].name # x
      BY <3>5 DEF LInv, RestInv, NotedInv
    <3>7. ins[x] = host[x]
      BY <1>1, <2>1, <3>6, StoredApart DEF TInv, HostInv
    <3> QED BY <2>2, <3>1, <3>4, <3>7
  <2> QED BY <2>3, <2>4
<1> QED BY <1>3, <1>4 DEF HostReadable

LEMMA ArgumentMeant ==
  ASSUME LInv, InNode, NEW k \in DOMAIN Node.ins, Argument(k) # NoValue
  PROVE  Argument(k) = Contract!Meant(Node.ins[k])
<1> DEFINE s == Top.scope
           x == Node.ins[k]
<1>1. TInv /\ mode # "idle" /\ s \in Scopes
  BY TopIs DEF LInv, InNode
<1>2. x \in Range(Node.ins)
  BY DEF Range
<1>3. CASE Node.kind = "Pack" /\ k = 2
  <2>1. HostRead(Node) = {x}
    BY <1>3 DEF HostRead
  <2>2. CASE SourceOf(s, x) = "Initializer"
    <3> DEFINE key == PackKey(x)
    <3>1. HostReadable(s, x) /\ RawHost(s, x) = InitValue(s, x)
      BY <2>2 DEF HostReadable, RawHost
    <3>2. Contract!Meant(x) = InitValue(s, x)
      BY <1>2, <2>1, <3>1, HostMeant
    <3>3. Argument(k) = Cached(key, InitValue(s, x))
      BY <1>3, <2>2 DEF Argument
    <3>4. key.name = x /\ key.of = "packed"
      BY DEF PackKey
    <3>5. x \in PackedNames(p, s)
      <4>1. Node \in NodesOf(p, s)
        BY <1>1, NodeIs
      <4> QED BY <1>3, <4>1 DEF PackedNames
    <3>6. InitValue(s, x) = InitValues(p, InitScopeOf(p, s, x))[x]
      <4>1. Ref(s, x).of = InitScopeOf(p, s, x)
        BY <1>1, <1>2, NodeIs
      <4> QED BY <4>1 DEF InitValue
    <3> HIDE DEF key
    <3>7. key \in DOMAIN cache => cache[key] = InitValue(s, x)
      BY <1>1, <3>4, <3>5, <3>6 DEF LInv, RightCache
    <3> QED BY <3>2, <3>3, <3>7 DEF Cached
  <2>3. CASE SourceOf(s, x) # "Initializer"
    <3>1. Argument(k) = RawHost(s, x)
      BY <1>3, <2>3 DEF Argument
    <3>2. HostReadable(s, x)
      <4>1. SUFFICES ASSUME ~HostReadable(s, x) PROVE RawHost(s, x) = NoValue
        BY <3>1
      <4>2. SourceOf(s, x) # "CtxInput"
        BY <4>1 DEF HostReadable
      <4> QED BY <2>3, <4>2 DEF RawHost
    <3> QED BY <1>2, <2>1, <3>1, <3>2, HostMeant
  <2> QED BY <2>2, <2>3
<1>4. CASE ~(Node.kind = "Pack" /\ k = 2)
  <2>1. Argument(k) = Resolve(s, x)
    BY <1>4 DEF Argument
  <2> QED BY <1>2, <2>1, OperandMeant
<1> QED BY <1>3, <1>4

\* What a node is given is what its operands mean.
LEMMA ArgumentsMeant ==
  ASSUME LInv, InNode, ~Missing(Arguments)
  PROVE  Contract!MeantAll(Node.ins) = Arguments
<1>1. ASSUME NEW k \in DOMAIN Node.ins PROVE Contract!Meant(Node.ins[k]) = Argument(k)
  <2>1. Argument(k) # NoValue
    BY DEF Missing, Arguments
  <2> QED BY <2>1, ArgumentMeant
<1>2. Contract!MeantAll(Node.ins) = [k \in DOMAIN Node.ins |-> Contract!Meant(Node.ins[k])]
  BY DEF Contract!MeantAll
<1> QED BY <1>1, <1>2 DEF Arguments

-----------------------------------------------------------------------------
(* The graph in evaluation.                                                  *)

LEMMA CurrentIs ==
  ASSUME TInv, mode # "idle"
  PROVE  /\ Len(Graphs(p, stack, env)) = Len(stack) /\ Graphs(p, stack, env) # <<>>
         /\ Contract!Current = GraphAt(p, stack, env, Len(stack))
         /\ Contract!Current.scope = Top.scope /\ Contract!Current.pc = Top.pc
<1> DEFINE n == Len(stack)
           G == Graphs(p, stack, env)
<1>1. IsSeq(stack) /\ n \in Nat /\ n # 0 /\ Top = stack[n]
  BY TopIs
<1>2. Len(G) = n /\ \A i \in 1..n : G[i] = GraphAt(p, stack, env, i)
  BY <1>1, GraphsSeq
<1>3. Contract!Current = G[Len(G)]
  BY DEF Contract!Current
<1> HIDE DEF n, G
<1>4. n \in 1..n
  BY <1>1
<1>5. Contract!Current = GraphAt(p, stack, env, n)
  BY <1>2, <1>3, <1>4
<1>6. G # <<>>
  <2>1. Len(<<>>) = 0
    OBVIOUS
  <2> QED BY <1>1, <1>2, <2>1
<1>7. Contract!Current.scope = Top.scope /\ Contract!Current.pc = Top.pc
  BY <1>1, <1>5, GraphIs
<1> QED BY <1>2, <1>5, <1>6, <1>7 DEF n, G

LEMMA AtIs ==
  ASSUME TInv, InNode
  PROVE  /\ Contract!At = Node /\ Contract!Running
         /\ AtNode(p, stack, Node)
<1>1. mode # "idle" /\ Top.pc <= Len(p.nodes[Top.scope])
  BY DEF InNode
<1>2. /\ Graphs(p, stack, env) # <<>>
      /\ Contract!Current.scope = Top.scope /\ Contract!Current.pc = Top.pc
  BY <1>1, CurrentIs
<1>3. Contract!At = Node
  BY <1>2 DEF Contract!At, Node
<1>4. Contract!Running
  BY <1>1, <1>2 DEF Contract!Running
<1>5. AtNode(p, stack, Node)
  BY <1>1, TopIs DEF AtNode, Node
<1> QED BY <1>3, <1>4, <1>5

\* What is bound keeps its array: the graphs stay.
LEMMA GraphsKept ==
  ASSUME NEW g, NEW stk, NEW e, Good(g, stk, e), NEW e2,
         \A i \in 1..Len(stk) : \A x \in BoundBefore(g, stk[i].scope, stk[i].pc) : Agrees(e2, e, x)
  PROVE  Graphs(g, stk, e2) = Graphs(g, stk, e)
<1> DEFINE G == Graphs(g, stk, e)
           G2 == Graphs(g, stk, e2)
<1>1. IsSeq(stk)
  BY DEF Good, StackInv
<1>2. IsSeq(G) /\ Len(G) = Len(stk) /\ \A i \in 1..Len(stk) : G[i] = GraphAt(g, stk, e, i)
  BY <1>1, GraphsSeq
<1>3. IsSeq(G2) /\ Len(G2) = Len(stk) /\ \A i \in 1..Len(stk) : G2[i] = GraphAt(g, stk, e2, i)
  BY <1>1, GraphsSeq
<1> HIDE DEF G, G2
<1>4. ASSUME NEW i \in 1..Len(stk) PROVE G2[i] = G[i]
  <2>1. NamesAt(g, stk, e2, i) = NamesAt(g, stk, e, i)
    BY NamesKept
  <2>2. GraphAt(g, stk, e2, i) = GraphAt(g, stk, e, i)
    BY <2>1, GraphSame
  <2> QED BY <1>2, <1>3, <2>2
<1>5. G2 = G
  BY <1>2, <1>3, <1>4, SameSeq
<1> QED BY <1>5 DEF G, G2

\* Reading a boundary input changes no graph.
LEMMA WrappedSame ==
  ASSUME LInv, InNode, NEW names \in SUBSET Range(Node.ins), NEW base, base = Wrapped(names)
  PROVE  /\ Levels(p, stack, base, Stored(host, writes), host)
         /\ Graphs(p, stack, base) = Graphs(p, stack, env)
<1> DEFINE read == {x \in names : SourceOf(Top.scope, x) = "CtxInput"}
           ins == Stored(host, writes)
           n == Len(stack)
<1>1. TInv /\ n \in Nat /\ n # 0 /\ Good(p, stack, env) /\ Levels(p, stack, env, ins, host)
  BY TopIs DEF LInv, InNode, TInv
<1>2. base = [x \in read \cup DOMAIN env |-> IF x \in DOMAIN env THEN env[x] ELSE host[x]]
  BY DEF Wrapped
<1>3. \A x \in read : x \in CtxInputs /\ Free(p, stack, x)
  BY <1>1, CtxUnowned
<1> HIDE DEF read, ins
<1>4. \A x \in DOMAIN env : Agrees(base, env, x)
  BY <1>2 DEF Agrees
<1>5. ASSUME NEW x PROVE Settled(p, stack, env, base, ins, ins, host, x)
  <2>1. CASE x \in DOMAIN env
    BY <1>4, <2>1 DEF Settled
  <2>2. CASE x \notin DOMAIN env /\ x \notin read
    <3>1. Agrees(base, env, x)
      BY <1>2, <2>2 DEF Agrees
    <3> QED BY <3>1 DEF Settled
  <2>3. CASE x \notin DOMAIN env /\ x \in read
    <3>1. x \in CtxInputs /\ Free(p, stack, x)
      BY <1>3, <2>3
    <3>2. x \in DOMAIN base /\ base[x] = host[x]
      BY <1>2, <2>3
    <3>3. Place(p, stack, env, 0, x) = env
      <4>1. Clear(p, stack, 0, n, x)
        BY <3>1 DEF Free, Clear
      <4> QED BY <4>1, PlaceClear
    <3>4. Rests(env, x, ins, host)
      BY <1>1, <3>3 DEF Levels, BottomInv
    <3>5. ins[x] = host[x]
      BY <2>3, <3>1, <3>4 DEF Rests
    <3>6. Rests(base, x, ins, host)
      BY <3>1, <3>2, <3>5 DEF Rests
    <3> QED BY <3>1, <3>6 DEF Settled
  <2> QED BY <2>1, <2>2, <2>3
<1>6. Levels(p, stack, base, ins, host)
  BY <1>1, <1>5, SetLevels
<1>7. \A i \in 1..n : \A x \in BoundBefore(p, stack[i].scope, stack[i].pc) : Agrees(base, env, x)
  BY <1>1, <1>4 DEF Good, BoundInv
<1>8. Graphs(p, stack, base) = Graphs(p, stack, env)
  BY <1>1, <1>7, GraphsKept
<1> QED BY <1>6, <1>8 DEF ins

\* What is kept is right.
LEMMA RightKept ==
  ASSUME LInv, InNode, NEW names \in SUBSET Range(Node.ins), NEW packed \in SUBSET Range(Node.ins),
         \A x \in packed : SourceOf(Top.scope, x) = "Initializer" /\ x \in PackedNames(p, Top.scope)
  PROVE  RightCache(Kept(names, packed))
<1> DEFINE s == Top.scope
           initial == {x \in names : SourceOf(s, x) = "Initializer"}
           keys == {Key(s, x) : x \in initial}
           kept == Kept(names, packed)
           right(k) ==
             /\ k.of \in Scopes => kept[k] = InitValues(p, k.of)[k.name]
             /\ k.of = "packed" =>
                  \A t \in Scopes : k.name \in PackedNames(p, t) =>
                    kept[k] = InitValues(p, InitScopeOf(p, t, k.name))[k.name]
<1>1. kept = [k \in DOMAIN cache \cup keys \cup {PackKey(x) : x \in packed} |->
                IF k \in DOMAIN cache THEN cache[k] ELSE InitValue(s, k.name)]
  BY DEF Kept
<1>2. TInv /\ s \in Scopes /\ NamesDistinct(p)
  BY TopIs DEF LInv, RestInv, InNode
<1>3. \A x \in Range(Node.ins) : Ref(s, x).of = InitScopeOf(p, s, x)
  BY <1>2, NodeIs
<1>4. \A x \in initial : Ref(s, x).of \in Scopes
  BY <1>2, OperandIs
<1>5. \A x : /\ Key(s, x).name = x /\ Key(s, x).of = Ref(s, x).of
             /\ PackKey(x).name = x /\ PackKey(x).of = "packed"
  BY DEF Key, PackKey
<1>6. \A x : InitValue(s, x) = InitValues(p, Ref(s, x).of)[x]
  BY DEF InitValue
<1>7. \A x \in packed : x \in Range(Node.ins) /\ x \in PackedNames(p, s)
  OBVIOUS
<1> HIDE DEF s, initial, kept
<1>8. ASSUME NEW k \in DOMAIN kept PROVE right(k)
  <2>1. CASE k \in DOMAIN cache
    <3>1. kept[k] = cache[k]
      BY <1>1, <2>1
    <3> QED BY <2>1, <3>1 DEF LInv, RightCache
  <2>2. CASE k \notin DOMAIN cache
    <3>1. kept[k] = InitValue(s, k.name)
      BY <1>1, <2>2
    <3>2. CASE k \in keys
      <4>1. PICK x \in initial : k = Key(s, x)
        BY <3>2
      <4>2. k.name = x /\ k.of = Ref(s, x).of /\ k.of \in Scopes
        BY <1>4, <1>5, <4>1
      <4>3. kept[k] = InitValues(p, k.of)[k.name]
        BY <1>6, <3>1, <4>2
      <4> QED BY <4>2, <4>3
    <3>3. CASE k \in {PackKey(x) : x \in packed}
      <4>1. PICK x \in packed : k = PackKey(x)
        BY <3>3
      <4>2. k.name = x /\ k.of = "packed"
        BY <1>5, <4>1
      <4>3. kept[k] = InitValues(p, InitScopeOf(p, s, x))[x]
        BY <1>3, <1>6, <1>7, <3>1, <4>2
      <4>4. ASSUME NEW t \in Scopes, x \in PackedNames(p, t)
            PROVE  InitScopeOf(p, t, x) = InitScopeOf(p, s, x)
        BY <1>2, <1>7, <4>4 DEF NamesDistinct
      <4> QED BY <4>2, <4>3, <4>4
    <3> QED BY <1>1, <2>2, <3>2, <3>3
  <2> QED BY <2>1, <2>2
<1> QED BY <1>8 DEF RightCache, kept

LEMMA OverNothing ==
  ASSUME NEW e, e = [x \in DOMAIN e |-> e[x]]
  PROVE  Over(e, <<>>) = e
<1>1. DOMAIN <<>> = {}
  OBVIOUS
<1> QED BY <1>1 DEF Over

LEMMA StoredNone ==
  ASSUME NEW memory, memory = [x \in DOMAIN memory |-> memory[x]]
  PROVE  Stored(memory, <<>>) = memory
<1>1. DOMAIN <<>> = {}
  OBVIOUS
<1>2. \A x : {i \in DOMAIN <<>> : <<>>[i].name = x} = {}
  BY <1>1
<1>3. Stored(memory, <<>>) = [x \in DOMAIN memory |-> memory[x]]
  BY <1>2 DEF Stored
<1> QED BY <1>3

\* One more update.
Noted(list, x, v) == Append(list, [name |-> x, value |-> v])

LEMMA StoredMore ==
  ASSUME NEW memory, NEW list, IsSeq(list), NEW x, NEW v, NEW list2, list2 = Noted(list, x, v)
  PROVE  Stored(memory, list2) = Set(Stored(memory, list), x, v)
<1> DEFINE n == Len(list)
           entry == [name |-> x, value |-> v]
           at(y) == {i \in DOMAIN list : list[i].name = y}
           at2(y) == {i \in DOMAIN list2 : list2[i].name = y}
           value(y) == IF at(y) = {} THEN memory[y] ELSE list[Max(at(y))].value
           value2(y) == IF at2(y) = {} THEN memory[y] ELSE list2[Max(at2(y))].value
<1>1. n \in Nat /\ DOMAIN list = 1..n
  BY SeqFacts
<1>2. /\ IsSeq(list2) /\ Len(list2) = n + 1 /\ list2[n + 1] = entry
      /\ \A i \in 1..n : list2[i] = list[i]
  BY PushedIs DEF Noted
<1>3. DOMAIN list2 = 1..(n + 1)
  BY <1>2, SeqFacts
<1>4. entry.name = x /\ entry.value = v
  OBVIOUS
<1> HIDE DEF n, entry
<1>5. \A i \in 1..(n + 1) : i \in 1..n \/ i = n + 1
  BY <1>1
<1>6. \A y : y # x => at2(y) = at(y)
  BY <1>1, <1>2, <1>3, <1>4, <1>5
<1>7. n + 1 \in at2(x) /\ at2(x) \in SUBSET (1..(n + 1))
  BY <1>1, <1>2, <1>3, <1>4
<1>8. Max(at2(x)) = n + 1
  <2> DEFINE T == at2(x)
             m == n + 1
  <2>1. m \in Nat /\ T \in SUBSET (1..m) /\ m \in T
    BY <1>1, <1>7
  <2> HIDE DEF T, m
  <2>2. Max(T) \in T /\ \A y \in T : Max(T) >= y
    BY <2>1, GreatestNumber
  <2>3. Max(T) \in 1..m /\ Max(T) >= m
    BY <2>1, <2>2
  <2>4. Max(T) = m
    BY <2>1, <2>3
  <2> QED BY <2>4 DEF T, m
<1>9. value2(x) = v
  BY <1>2, <1>4, <1>7, <1>8
<1>10. ASSUME NEW y, y # x PROVE value2(y) = value(y)
  <2>1. at2(y) = at(y)
    BY <1>6, <1>10
  <2>2. CASE at(y) = {}
    BY <2>1, <2>2
  <2>3. CASE at(y) # {}
    <3> DEFINE T == at(y)
    <3>1. T \in SUBSET (1..n) /\ T # {}
      BY <1>1, <2>3
    <3> HIDE DEF T
    <3>2. Max(T) \in T
      BY <1>1, <3>1, GreatestNumber
    <3>3. list2[Max(T)] = list[Max(T)]
      BY <1>2, <3>1, <3>2
    <3>4. list2[Max(at(y))].value = list[Max(at(y))].value
      BY <3>3 DEF T
    <3> QED BY <2>1, <2>3, <3>4
  <2> QED BY <2>2, <2>3
<1>11. /\ Stored(memory, list) = [y \in DOMAIN memory |-> value(y)]
       /\ Stored(memory, list2) = [y \in DOMAIN memory |-> value2(y)]
  BY DEF Stored
<1> HIDE DEF at, at2, value, value2
<1>12. Set(Stored(memory, list), x, v)
         = [y \in DOMAIN memory |-> IF y = x THEN v ELSE value(y)]
  BY <1>11 DEF Set
<1> QED BY <1>9, <1>10, <1>11, <1>12

-----------------------------------------------------------------------------
(* The steps.                                                                *)

\* What a node that reads on the host packs are its packed weights.
LEMMA PacksIs ==
  ASSUME TInv, InNode, Node.bodies = <<>>
  PROVE  \A x \in HostRead(Node) : x \in PackedNames(p, Top.scope) /\ x \in Range(Node.ins)
<1>1. Node.kind \notin {"If", "Loop", "Scan"} /\ Node \in NodesOf(p, Top.scope)
  BY OrdinaryIs, NodeIs
<1>2. CASE Node.kind = "Pack"
  <2>1. HostRead(Node) = {Node.ins[2]}
    BY <1>2 DEF HostRead
  <2>2. Node.ins[2] \in PackedNames(p, Top.scope)
    BY <1>1, <1>2 DEF PackedNames
  <2> QED BY <2>1, <2>2, HostReadIs
<1>3. CASE Node.kind # "Pack"
  <2>1. HostRead(Node) = {}
    BY <1>1, <1>3 DEF HostRead
  <2> QED BY <2>1
<1> QED BY <1>2, <1>3

\* An ordinary node, up to what it updates.
LEMMA TranslateIs ==
  ASSUME LInv, Translate, NEW value, value = Applied(Node, Arguments),
         NEW base, base = Wrapped(Inputs)
  PROVE  /\ InNode /\ Node.bodies = <<>> /\ ~Unwritable
         /\ Contract!At = Node /\ Contract!Ordinary /\ Contract!Computed = value
         /\ AtNode(p, stack, Node) /\ Good(p, stack, base)
         /\ \A x \in DOMAIN env : x \in DOMAIN base
         /\ Levels(p, stack, base, Stored(host, writes), host)
         /\ Graphs(p, stack, base) = Graphs(p, stack, env)
         /\ base = [x \in DOMAIN base |-> base[x]]
         /\ env' = Over(Over(base, Updated(Node, value).env), Bind(Node.outs, <<value>>))
         /\ writes' = Updated(Node, value).writes
         /\ stack' = MovedOn(stack)
         /\ UNCHANGED <<p, plan, host, results, mode, given, status, calls>>
         /\ RightCache(cache')
<1>1. /\ InNode /\ Node.bodies = <<>> /\ ~Unwritable /\ ~Missing(Arguments)
      /\ env' = Over(Over(base, Updated(Node, value).env), Bind(Node.outs, <<value>>))
      /\ writes' = Updated(Node, value).writes
      /\ cache' = Kept(Inputs, {x \in HostRead(Node) : SourceOf(Top.scope, x) = "Initializer"})
      /\ stack' = Advanced
      /\ UNCHANGED <<p, plan, host, results, mode, given, status, calls>>
  BY DEF Translate
<1>2. TInv
  BY DEF LInv
<1>3. Contract!At = Node /\ Contract!Running /\ AtNode(p, stack, Node)
  BY <1>1, <1>2, AtIs
<1>4. \A x \in Range(Node.ins) : Contract!Known(x)
  BY <1>1, OperandMeant
<1>5. Contract!Ordinary
  <2>1. Contract!Range(Node.ins) = Range(Node.ins)
    BY SameOperators
  <2> QED BY <1>1, <1>3, <1>4, <2>1 DEF Contract!Ordinary
<1>6. Contract!Computed = value
  <2>1. Contract!MeantAll(Node.ins) = Arguments
    BY <1>1, ArgumentsMeant
  <2>2. Contract!Applied(Node, Arguments) = Applied(Node, Arguments)
    BY SameOperators
  <2> QED BY <1>3, <2>1, <2>2 DEF Contract!Computed
<1>7. Inputs \in SUBSET Range(Node.ins)
  BY <1>1, <1>2, OrdinaryIs
<1>8. Good(p, stack, base) /\ \A x \in DOMAIN env : x \in DOMAIN base
  BY <1>1, <1>2, <1>7, WrappedIs
<1>9. Levels(p, stack, base, Stored(host, writes), host)
  BY <1>1, <1>7, WrappedSame
<1>10. Graphs(p, stack, base) = Graphs(p, stack, env)
  BY <1>1, <1>7, WrappedSame
<1>11. base = [x \in DOMAIN base |-> base[x]]
  BY DEF Wrapped
<1>12. RightCache(cache')
  <2> DEFINE packed == {x \in HostRead(Node) : SourceOf(Top.scope, x) = "Initializer"}
  <2>1. packed \in SUBSET Range(Node.ins)
    BY <1>1, <1>2, HostReadIs
  <2>2. \A x \in packed : SourceOf(Top.scope, x) = "Initializer" /\ x \in PackedNames(p, Top.scope)
    BY <1>1, <1>2, PacksIs
  <2>3. cache' = Kept(Inputs, packed)
    BY <1>1
  <2> HIDE DEF packed
  <2>4. RightCache(Kept(Inputs, packed))
    BY <1>1, <1>7, <2>1, <2>2, RightKept
  <2> QED BY <2>3, <2>4
<1>13. stack' = MovedOn(stack)
  BY <1>1 DEF Advanced, MovedOn
<1> QED BY <1>1, <1>3, <1>5, <1>6, <1>8, <1>9, <1>10, <1>11, <1>12, <1>13

\* An ordinary node that updates nothing.
LEMMA EvaluateStep ==
  ASSUME LInv, Translate, Node.kind # "Paged"
  PROVE  /\ Contract!Evaluate /\ writes' = writes
         /\ Levels(p, stack', env', Stored(host, writes'), host)
<1> DEFINE value == Applied(Node, Arguments)
           base == Wrapped(Inputs)
           G == Graphs(p, stack, env)
<1>1. /\ Contract!At = Node /\ Contract!Ordinary /\ Contract!Computed = value
      /\ AtNode(p, stack, Node) /\ Good(p, stack, base)
      /\ Levels(p, stack, base, Stored(host, writes), host)
      /\ Graphs(p, stack, base) = Graphs(p, stack, env)
      /\ base = [x \in DOMAIN base |-> base[x]]
      /\ env' = Over(Over(base, Updated(Node, value).env), Bind(Node.outs, <<value>>))
      /\ writes' = Updated(Node, value).writes
      /\ stack' = MovedOn(stack)
      /\ UNCHANGED <<p, host, results, status>>
  BY TranslateIs
<1>2. WellFormed(p)
  BY ApartIs DEF LInv
<1>3. Updated(Node, value).env = <<>> /\ Updated(Node, value).writes = writes
  BY DEF Updated
<1> HIDE DEF value, base, G
<1>4. Over(base, <<>>) = base
  BY <1>1, OverNothing
<1>5. Results(base, env', Node, <<value>>)
  BY <1>1, <1>3, <1>4 DEF Results
<1>6. Levels(p, MovedOn(stack), env', Stored(host, writes), host)
  BY <1>1, <1>2, <1>5, AdvanceGraphs
<1>7. Graphs(p, MovedOn(stack), env') = Contract!Yielded(Graphs(p, stack, base), <<value>>)
  BY <1>1, <1>2, <1>5, AdvanceGraphs
<1>8. Graphs(p', stack', env') = Contract!Yielded(Graphs(p, stack, env), <<value>>)
  BY <1>1, <1>7
<1>9. Stored(host', writes') = Stored(host, writes)
  BY <1>1, <1>3
<1>10. Contract!Evaluate
  BY <1>1, <1>8, <1>9 DEF Contract!Evaluate
<1> QED BY <1>1, <1>3, <1>6, <1>10

\* A graph in which a name has a new value.
Renamed(graph, bound) == [graph EXCEPT !.names = Over(@, bound)]

RenamedAt(list, h, x, v) == Set(list, h, Renamed(list[h], Bind(<<x>>, <<v>>)))

Put(e, x, v) == Over(e, Bind(<<x>>, <<v>>))

LEMMA ReplacedNone ==
  ASSUME TInv, NEW x, NEW v, Contract!Holders(x) = {}
  PROVE  Contract!Replaced(x, v) = Graphs(p, stack, env)
<1> DEFINE G == Graphs(p, stack, env)
<1>1. IsSeq(G)
  BY GraphsSeq DEF TInv, Good, StackInv
<1>2. G = [i \in DOMAIN G |-> G[i]]
  BY DEF Graphs
<1>3. Contract!Replaced(x, v) = [i \in DOMAIN G |-> G[i]]
  BY DEF Contract!Replaced
<1> QED BY <1>2, <1>3

LEMMA ReplacedOne ==
  ASSUME TInv, NEW x, NEW v, NEW h \in 1..Len(stack), Contract!Holders(x) = {h},
         NEW G, G = Graphs(p, stack, env)
  PROVE  Contract!Replaced(x, v) = RenamedAt(G, h, x, v)
<1> DEFINE bound == Bind(<<x>>, <<v>>)
           new == Renamed(G[h], bound)
           n == Len(stack)
<1>1. IsSeq(stack) /\ n \in Nat /\ h \in 1..n
  BY SeqFacts DEF TInv, Good, StackInv
<1>2. Max({h}) = h
  <2>1. {h} \in SUBSET (1..n) /\ {h} # {}
    BY <1>1
  <2> HIDE DEF n
  <2>2. Max({h}) \in {h}
    BY <1>1, <2>1, GreatestNumber
  <2> QED BY <2>2
<1>3. Contract!Max({h}) = h
  BY <1>2, SameOperators
<1>4. \A i : Contract!Over(G[i].names, Contract!Bind(<<x>>, <<v>>)) = Over(G[i].names, bound)
  BY SameOperators
<1> HIDE DEF bound
<1>5. Contract!Replaced(x, v) = [i \in DOMAIN G |-> IF i = h THEN new ELSE G[i]]
  BY <1>3, <1>4 DEF Contract!Replaced, Renamed
<1>6. Set(G, h, new) = [i \in DOMAIN G |-> IF i = h THEN new ELSE G[i]]
  BY DEF Set, Graphs
<1> QED BY <1>5, <1>6 DEF bound, RenamedAt

\* The value of a name of the root is replaced.
LEMMA RootNames ==
  ASSUME NEW g, WellFormed(g), NEW stk, NEW e, Good(g, stk, e), Len(stk) # 0,
         NEW x, Roots(g, stk, x), NEW v, NEW e2, e2 = Over(e, Bind(<<x>>, <<v>>))
  PROVE  NamesAt(g, stk, e2, 1) = Over(NamesAt(g, stk, e, 1), Bind(<<x>>, <<v>>))
<1> DEFINE n == Len(stk)
           bound == Bind(<<x>>, <<v>>)
           old == NamesAt(g, stk, e, 1)
           new == NamesAt(g, stk, e2, 1)
           D == BoundBefore(g, stk[1].scope, stk[1].pc)
           I == DOMAIN g.inits[stk[1].scope]
<1>1. n \in Nat /\ n # 0
  BY SeqFacts DEF Good, StackInv
<1>2. DOMAIN bound = {x} /\ bound[x] = v
  BY BindOne
<1>3. x \in D /\ \A i \in 2..n : x \notin Own(g, stk, i)
  BY DEF Roots
<1> HIDE DEF bound
<1>4. e2 = Over(e, bound)
  BY DEF bound
<1>5. e2[x] = v /\ \A y : y # x => Agrees(e2, e, y)
  BY <1>2, <1>4 DEF Over, Agrees
<1>6. DOMAIN new = I \cup D /\ DOMAIN old = I \cup D
  BY NamesIn
<1>7. new = [y \in DOMAIN new |-> new[y]]
  BY DEF NamesAt, Over
<1>8. Place(g, stk, e2, 1, x) = e2
  <2>1. Clear(g, stk, 1, n, x)
    BY <1>3 DEF Clear
  <2> QED BY <2>1, PlaceClear
<1>9. new[x] = v
  BY <1>3, <1>5, <1>8, NamesBound
<1>10. ASSUME NEW y \in D, y # x PROVE new[y] = old[y]
  <2>1. Agrees(e2, e, y)
    BY <1>5, <1>10
  <2>2. \/ Place(g, stk, e, 1, y) = e /\ Place(g, stk, e2, 1, y) = e2
        \/ Place(g, stk, e2, 1, y) = Place(g, stk, e, 1, y)
    <3>1. SameFrames(stk, stk, Len(stk))
      BY DEF SameFrames
    <3> QED BY <1>1, <3>1, PlaceSame
  <2>3. y \in DOMAIN Place(g, stk, e, 1, y)
    <3>1. 1 \in 1..Len(stk)
      BY <1>1
    <3> QED BY <3>1, BoundThere
  <2>4. Place(g, stk, e2, 1, y)[y] = Place(g, stk, e, 1, y)[y]
    BY <2>1, <2>2, <2>3 DEF Agrees
  <2>5. new[y] = Place(g, stk, e2, 1, y)[y]
    BY NamesBound
  <2>6. old[y] = Place(g, stk, e, 1, y)[y]
    BY NamesBound
  <2> QED BY <2>4, <2>5, <2>6
<1>11. ASSUME NEW y \in I, y \notin D PROVE new[y] = old[y]
  <2>1. new[y] = InitValues(g, stk[1].scope)[y]
    BY <1>11, NamesInit
  <2>2. old[y] = InitValues(g, stk[1].scope)[y]
    BY <1>11, NamesInit
  <2> QED BY <2>1, <2>2
<1> HIDE DEF old, new, D, I
<1>12. Over(old, bound) = [y \in I \cup D |-> IF y = x THEN v ELSE old[y]]
  <2>1. I \cup D = DOMAIN old \cup DOMAIN bound
    BY <1>2, <1>3, <1>6
  <2>2. Over(old, bound) = [y \in DOMAIN old \cup DOMAIN bound |->
                              IF y \in DOMAIN bound THEN bound[y] ELSE old[y]]
    BY DEF Over
  <2> QED BY <1>2, <2>1, <2>2
<1>13. \A y \in I \cup D : new[y] = IF y = x THEN v ELSE old[y]
  BY <1>9, <1>10, <1>11
<1>14. new = Over(old, bound)
  BY <1>6, <1>7, <1>12, <1>13
<1> QED BY <1>14 DEF new, old, bound

LEMMA PutGraphs ==
  ASSUME NEW g, WellFormed(g), NEW stk, NEW e, Good(g, stk, e), Len(stk) # 0,
         NEW x, Roots(g, stk, x), NEW v, NEW e2, e2 = Put(e, x, v),
         NEW G, G = Graphs(g, stk, e)
  PROVE  Graphs(g, stk, e2) = RenamedAt(G, 1, x, v)
<1> DEFINE n == Len(stk)
           bound == Bind(<<x>>, <<v>>)
           G2 == Graphs(g, stk, e2)
           new == Renamed(G[1], bound)
<1>1. IsSeq(stk) /\ n \in Nat /\ n # 0 /\ StackInv(g, stk)
  BY SeqFacts DEF Good, StackInv
<1>2. 1 \in 1..n /\ \A i \in 1..n : i = 1 \/ i \in 2..n
  BY <1>1
<1>3. NamesAt(g, stk, e2, 1) = Over(NamesAt(g, stk, e, 1), bound)
  BY RootNames DEF Put
<1>4. DOMAIN bound = {x}
  BY BindOne
<1>5. \A i \in 2..n : x \notin Own(g, stk, i)
  BY DEF Roots
<1> HIDE DEF bound
<1>6. e2 = Over(e, bound)
  BY DEF bound, Put
<1>7. \A y : y # x => Agrees(e2, e, y)
  BY <1>4, <1>6 DEF Over, Agrees
<1>8. IsSeq(G) /\ Len(G) = n /\ \A i \in 1..n : G[i] = GraphAt(g, stk, e, i)
  BY <1>1, GraphsSeq
<1>9. IsSeq(G2) /\ Len(G2) = n /\ \A i \in 1..n : G2[i] = GraphAt(g, stk, e2, i)
  BY <1>1, GraphsSeq
<1>10. ASSUME NEW i \in 2..n PROVE G2[i] = G[i]
  <2>1. i \in 1..Len(stk)
    BY <1>1
  <2>2. \A y \in BoundBefore(g, stk[i].scope, stk[i].pc) : y \in Own(g, stk, i)
    BY <1>1, <2>1, BoundOwn
  <2>3. \A y \in BoundBefore(g, stk[i].scope, stk[i].pc) : Agrees(e2, e, y)
    BY <1>5, <1>7, <2>2
  <2>4. NamesAt(g, stk, e2, i) = NamesAt(g, stk, e, i)
    BY <2>1, <2>3, NamesKept
  <2>5. GraphAt(g, stk, e2, i) = GraphAt(g, stk, e, i)
    BY <2>4, GraphSame
  <2> QED BY <1>8, <1>9, <2>1, <2>5
<1> HIDE DEF G2
<1>11. G2[1] = new
  <2>1. G2[1] = GraphAt(g, stk, e2, 1) /\ G[1] = GraphAt(g, stk, e, 1)
    BY <1>2, <1>8, <1>9
  <2>2. GraphAt(g, stk, e2, 1) = Renamed(GraphAt(g, stk, e, 1), bound)
    <3> DEFINE old == NamesAt(g, stk, e, 1)
               names2 == NamesAt(g, stk, e2, 1)
    <3>1. GraphAt(g, stk, e, 1) =
            [scope |-> stk[1].scope, pc |-> stk[1].pc, names |-> old, t |-> stk[1].t,
             trip |-> stk[1].trip, state |-> stk[1].state, scan |-> stk[1].scan,
             emitted |-> stk[1].emitted]
      BY DEF GraphAt
    <3>2. GraphAt(g, stk, e2, 1) =
            [scope |-> stk[1].scope, pc |-> stk[1].pc, names |-> names2, t |-> stk[1].t,
             trip |-> stk[1].trip, state |-> stk[1].state, scan |-> stk[1].scan,
             emitted |-> stk[1].emitted]
      BY DEF GraphAt
    <3>3. names2 = Over(old, bound)
      BY <1>3
    <3> HIDE DEF old, names2
    <3> QED BY <3>1, <3>2, <3>3 DEF Renamed
  <2> QED BY <2>1, <2>2
<1>12. /\ IsSeq(Set(G, 1, new)) /\ Len(Set(G, 1, new)) = n
       /\ \A i \in 1..n : Set(G, 1, new)[i] = IF i = 1 THEN new ELSE G[i]
  <2> HIDE DEF new, n
  <2> QED BY <1>2, <1>8, ReplacedIs
<1>13. \A i \in 1..n : G2[i] = Set(G, 1, new)[i]
  <2>1. \A i \in 2..n : i \in 1..n /\ i # 1
    BY <1>1
  <2> QED BY <1>2, <1>10, <1>11, <1>12, <2>1
<1>14. G2 = Set(G, 1, new)
  BY <1>9, <1>12, <1>13, SameSeq
<1> QED BY <1>14 DEF G2, bound, RenamedAt

\* A boundary input is updated: no graph has the name.
LEMMA UpdateInput ==
  ASSUME LInv, InNode, NEW x \in Range(Node.ins), SourceOf(Top.scope, x) = "CtxInput",
         NEW base, Good(p, stack, base), Levels(p, stack, base, Stored(host, writes), host),
         Graphs(p, stack, base) = Graphs(p, stack, env),
         NEW v, NEW mid, mid = Put(base, x, v),
         NEW list, list = Noted(writes, x, v)
  PROVE  /\ Levels(p, stack, mid, Stored(host, list), host)
         /\ Graphs(p, stack, mid) = Contract!Replaced(x, v)
         /\ Contract!Holders(x) = {} /\ Stored(host, list) = Set(Stored(host, writes), x, v)
<1> DEFINE n == Len(stack)
           ins == Stored(host, writes)
           ins2 == Stored(host, list)
           bound == Bind(<<x>>, <<v>>)
<1>1. TInv /\ n \in Nat /\ n # 0 /\ WellFormed(p) /\ StackInv(p, stack)
  BY TopIs DEF LInv, InNode
<1>2. x \in CtxInputs /\ Free(p, stack, x)
  BY <1>1, CtxUnowned
<1>3. DOMAIN ins = CtxInputs /\ IsSeq(writes)
  BY <1>1 DEF Stored, TInv, HostInv, WritesGood
<1>4. ins2 = Set(ins, x, v)
  BY <1>3, StoredMore
<1>5. DOMAIN bound = {x} /\ bound[x] = v
  BY BindOne
<1> HIDE DEF bound
<1>6. mid = Over(base, bound)
  BY DEF bound, Put
<1>7. x \in DOMAIN mid /\ mid[x] = v /\ \A y : y # x => Agrees(mid, base, y)
  BY <1>5, <1>6 DEF Over, Agrees
<1>8. \A i \in 1..n : x \notin BoundBefore(p, stack[i].scope, stack[i].pc)
  BY <1>1, <1>2, BoundOwn DEF Free
<1>9. Contract!Holders(x) = {}
  <2>1. \A i \in 1..n : Holds(i, x) <=> x \in BoundBefore(p, stack[i].scope, stack[i].pc)
    BY <1>1, <1>2, HoldsBound
  <2>2. \A i \in 1..n : ~Holds(i, x)
    BY <1>8, <2>1
  <2>3. Contract!Holders(x) = {i \in 1..n : Holds(i, x)}
    BY <1>1, HoldersAre
  <2> QED BY <2>2, <2>3
<1>10. ins2[x] = v /\ \A y \in CtxInputs : y # x => ins2[y] = ins[y]
  <2> HIDE DEF ins, ins2
  <2> QED BY <1>2, <1>3, <1>4 DEF Set
<1> HIDE DEF ins, ins2
<1>11. ASSUME NEW y PROVE Settled(p, stack, base, mid, ins, ins2, host, y)
  <2>1. CASE y = x
    <3>1. Rests(mid, x, ins2, host)
      BY <1>2, <1>7, <1>10 DEF Rests
    <3> QED BY <1>2, <2>1, <3>1 DEF Settled
  <2>2. CASE y # x
    BY <1>7, <1>10, <2>2 DEF Settled
  <2> QED BY <2>1, <2>2
<1>12. Levels(p, stack, mid, ins2, host)
  <2>1. Levels(p, stack, base, ins, host)
    BY DEF ins
  <2> QED BY <1>1, <1>11, <2>1, SetLevels
<1>13. Graphs(p, stack, mid) = Graphs(p, stack, base)
  <2>1. \A i \in 1..Len(stack) : \A y \in BoundBefore(p, stack[i].scope, stack[i].pc) :
          Agrees(mid, base, y)
    BY <1>7, <1>8
  <2> QED BY <2>1, GraphsKept
<1>14. Contract!Replaced(x, v) = Graphs(p, stack, env)
  BY <1>1, <1>9, ReplacedNone
<1> QED BY <1>4, <1>9, <1>12, <1>13, <1>14 DEF ins, ins2

\* A name of the root is updated.
LEMMA UpdateRoot ==
  ASSUME LInv, InNode, Node.kind = "Paged",
         NEW x \in Range(Node.ins), x = Node.ins[1], SourceOf(Top.scope, x) = "Intermediate",
         NEW base, Good(p, stack, base), Levels(p, stack, base, Stored(host, writes), host),
         Graphs(p, stack, base) = Graphs(p, stack, env),
         NEW v, NEW mid, mid = Put(base, x, v)
  PROVE  /\ Levels(p, stack, mid, Stored(host, writes), host)
         /\ Graphs(p, stack, mid) = Contract!Replaced(x, v)
         /\ Contract!Holders(x) # {}
<1> DEFINE n == Len(stack)
           ins == Stored(host, writes)
           bound == Bind(<<x>>, <<v>>)
<1>1. /\ TInv /\ n \in Nat /\ n # 0 /\ WellFormed(p) /\ StackInv(p, stack)
      /\ Top.scope \in Scopes
  BY TopIs DEF LInv, InNode
<1>2. \A t \in Scopes \ {"root"} : x \notin BodyNames(p, t)
  <2>1. UpdatesApart(p)
    BY <1>1, ApartIs
  <2>2. Node \in NodesOf(p, Top.scope)
    BY <1>1, NodeIs
  <2> QED BY <1>1, <2>1, <2>2 DEF UpdatesApart
<1>3. \A i \in 1..n : i # 1 => stack[i].scope \in Scopes \ {"root"}
  BY <1>1, FrameScopes
<1>4. \A i \in 1..n : i # 1 => x \notin Own(p, stack, i)
  BY <1>2, <1>3 DEF Own
<1>5. PICK j \in 1..n : x \in BoundBefore(p, stack[j].scope, stack[j].pc)
  BY <1>1, OperandBound
<1>6. x \in Own(p, stack, j)
  BY <1>1, <1>5, BoundOwn
<1>7. j = 1
  BY <1>4, <1>6
<1>8. Roots(p, stack, x) /\ x \in Own(p, stack, 1)
  <2>1. \A i \in 2..n : i \in 1..n /\ i # 1
    BY <1>1
  <2> QED BY <1>4, <1>5, <1>6, <1>7, <2>1 DEF Roots
<1>9. Contract!Holders(x) = {1}
  <2>1. \A i \in 1..n : Holds(i, x) <=> x \in BoundBefore(p, stack[i].scope, stack[i].pc)
    BY <1>1, <1>6, HoldsBound
  <2>2. \A i \in 1..n : i # 1 => x \notin BoundBefore(p, stack[i].scope, stack[i].pc)
    BY <1>1, <1>4, BoundOwn
  <2>3. Contract!Holders(x) = {i \in 1..n : Holds(i, x)}
    BY <1>1, HoldersAre
  <2>4. 1 \in 1..n /\ Holds(1, x)
    BY <1>5, <1>7, <2>1
  <2>5. \A i \in 1..n : i # 1 => ~Holds(i, x)
    BY <2>1, <2>2
  <2> HIDE DEF n
  <2> QED BY <2>3, <2>4, <2>5
<1>10. DOMAIN bound = {x}
  BY BindOne
<1> HIDE DEF bound, ins
<1>11. mid = Over(base, bound)
  BY DEF bound, Put
<1>12. \A y : y # x => Agrees(mid, base, y)
  BY <1>10, <1>11 DEF Over, Agrees
<1>13. ASSUME NEW y PROVE Settled(p, stack, base, mid, ins, ins, host, y)
  BY <1>8, <1>12 DEF Settled
<1>14. Levels(p, stack, mid, ins, host)
  <2>1. Levels(p, stack, base, ins, host)
    BY DEF ins
  <2> QED BY <1>1, <1>13, <2>1, SetLevels
<1>15. Graphs(p, stack, mid) = Contract!Replaced(x, v)
  <2> DEFINE G == Graphs(p, stack, env)
             right == RenamedAt(G, 1, x, v)
  <2>1. G = Graphs(p, stack, base)
    OBVIOUS
  <2>2. 1 \in 1..Len(stack)
    BY <1>5, <1>7
  <2>3. G = Graphs(p, stack, env)
    OBVIOUS
  <2> HIDE DEF G
  <2>4. Contract!Replaced(x, v) = right
    BY <1>1, <1>9, <2>2, <2>3, ReplacedOne
  <2>5. Graphs(p, stack, mid) = right
    BY <1>1, <1>8, <2>1, PutGraphs
  <2> QED BY <2>4, <2>5
<1> QED BY <1>9, <1>14, <1>15 DEF ins

\* An update in place.
LEMMA UpdateStep ==
  ASSUME LInv, Translate, Node.kind = "Paged"
  PROVE  /\ Contract!Update /\ mode # "trace" /\ NotedInv(writes')
         /\ Levels(p, stack', env', Stored(host, writes'), host)
<1> DEFINE value == Applied(Node, Arguments)
           base == Wrapped(Inputs)
           x == Node.ins[1]
           mid == Put(base, x, value)
<1>1. /\ InNode /\ Node.bodies = <<>> /\ ~Unwritable
      /\ Contract!At = Node /\ Contract!Ordinary /\ Contract!Computed = value
      /\ AtNode(p, stack, Node) /\ Good(p, stack, base)
      /\ \A y \in DOMAIN env : y \in DOMAIN base
      /\ Levels(p, stack, base, Stored(host, writes), host)
      /\ Graphs(p, stack, base) = Graphs(p, stack, env)
      /\ env' = Over(Over(base, Updated(Node, value).env), Bind(Node.outs, <<value>>))
      /\ writes' = Updated(Node, value).writes
      /\ stack' = MovedOn(stack)
      /\ UNCHANGED <<p, host, results, status>>
  BY TranslateIs
<1>2. TInv /\ WellFormed(p) /\ Top.scope \in Scopes
  BY <1>1, ApartIs, TopIs DEF LInv, InNode
<1>3. /\ Updated(Node, value).env = Bind(<<x>>, <<value>>)
      /\ Updated(Node, value).writes =
           IF SourceOf(Top.scope, x) = "CtxInput" THEN Noted(writes, x, value) ELSE writes
  BY DEF Updated, Noted
<1>4. value # NoValue
  BY <1>1, <1>2, NodeIs, AppliedIs
<1>5. x \in Range(Node.ins) /\ SourceOf(Top.scope, x) # "Initializer"
  BY <1>1, <1>2, OrdinaryIs DEF Unwritable
<1>6. SourceOf(Top.scope, x) = "CtxInput" \/ SourceOf(Top.scope, x) = "Intermediate"
  BY <1>1, <1>2, <1>5, OperandIs
<1>7. Good(p, stack, mid)
  <2>1. Good(p, stack, Over(base, Updated(Node, value).env))
    BY <1>1, <1>2, <1>4, UpdatedKeeps
  <2> QED BY <1>3, <2>1 DEF Put
<1> HIDE DEF value, base, mid
<1>8. mid = Put(base, x, value)
  BY DEF mid
<1>9. Node \in NodesOf(p, Top.scope)
  BY <1>1, <1>2, NodeIs
<1>10. Updates(x)
  BY <1>2, <1>9 DEF Updates
<1>11. mode # "trace"
  BY <1>2, <1>9 DEF TInv, PlanInv, GeneralEnabled, NodesOf, Range
<1>12. IsSeq(writes) /\ NotedInv(writes)
  BY DEF LInv, TInv, HostInv, WritesGood, RestInv
<1> HIDE DEF x
<1>13. /\ Levels(p, stack, mid, Stored(host, writes'), host)
       /\ Graphs(p, stack, mid) = Contract!Replaced(x, value)
       /\ Stored(host, writes') = IF Contract!Holders(x) = {}
                                  THEN Set(Stored(host, writes), x, value) ELSE Stored(host, writes)
       /\ NotedInv(writes')
  <2>1. CASE SourceOf(Top.scope, x) = "CtxInput"
    <3>1. writes' = Noted(writes, x, value)
      BY <1>1, <1>3, <2>1
    <3>2. /\ Levels(p, stack, mid, Stored(host, writes'), host)
          /\ Graphs(p, stack, mid) = Contract!Replaced(x, value)
          /\ Contract!Holders(x) = {} /\ Stored(host, writes') = Set(Stored(host, writes), x, value)
      BY <1>1, <1>5, <1>8, <2>1, <3>1, UpdateInput
    <3>3. NotedInv(writes')
      <4> DEFINE n == Len(writes)
                 entry == [name |-> x, value |-> value]
      <4>1. n \in Nat /\ DOMAIN writes = 1..n
        BY <1>12, SeqFacts
      <4>2. writes' = Append(writes, entry)
        BY <3>1 DEF Noted
      <4>3. entry.name = x
        OBVIOUS
      <4> HIDE DEF entry
      <4>4. /\ IsSeq(writes') /\ Len(writes') = n + 1 /\ writes'[n + 1] = entry
            /\ \A i \in 1..n : writes'[i] = writes[i]
        BY <1>12, <4>2, PushedIs
      <4>5. DOMAIN writes' = 1..(n + 1)
        BY <4>4, SeqFacts
      <4> HIDE DEF n
      <4>6. \A i \in 1..(n + 1) : i \in 1..n \/ i = n + 1
        BY <4>1
      <4>7. ASSUME NEW i \in DOMAIN writes' PROVE Updates(writes'[i].name)
        <5>1. CASE i \in 1..n
          BY <1>12, <4>1, <4>4, <5>1 DEF NotedInv
        <5>2. CASE i = n + 1
          BY <1>10, <4>3, <4>4, <5>2
        <5> QED BY <4>5, <4>6, <5>1, <5>2
      <4> QED BY <4>7 DEF NotedInv
    <3> QED BY <3>2, <3>3
  <2>2. CASE SourceOf(Top.scope, x) = "Intermediate"
    <3>1. writes' = writes
      BY <1>1, <1>3, <2>2
    <3>2. x = Node.ins[1]
      BY DEF x
    <3>3. /\ Levels(p, stack, mid, Stored(host, writes), host)
          /\ Graphs(p, stack, mid) = Contract!Replaced(x, value)
          /\ Contract!Holders(x) # {}
      BY <1>1, <1>5, <1>8, <2>2, <3>2, UpdateRoot
    <3> QED BY <1>12, <3>1, <3>3
  <2> QED BY <1>6, <2>1, <2>2
<1>14. Results(mid, env', Node, <<value>>)
  BY <1>1, <1>3, <1>8 DEF Results, Put
<1>15. Levels(p, MovedOn(stack), env', Stored(host, writes'), host)
  BY <1>1, <1>2, <1>7, <1>13, <1>14, AdvanceGraphs
<1>16. Graphs(p, MovedOn(stack), env') = Contract!Yielded(Graphs(p, stack, mid), <<value>>)
  BY <1>1, <1>2, <1>7, <1>13, <1>14, AdvanceGraphs
<1>17. Graphs(p', stack', env') = Contract!Yielded(Contract!Replaced(x, value), <<value>>)
  BY <1>1, <1>13, <1>16
<1>18. Stored(host', writes') = Stored(host, writes')
  BY <1>1
<1>19. Contract!Update
  <2>1. Contract!At.ins[1] = x
    BY <1>1 DEF x
  <2>2. Set(Stored(host, writes), x, value) = [Stored(host, writes) EXCEPT ![x] = value]
    BY DEF Set
  <2> QED BY <1>1, <1>13, <1>17, <1>18, <2>1, <2>2 DEF Contract!Update
<1> QED BY <1>1, <1>11, <1>13, <1>15, <1>19

-----------------------------------------------------------------------------
(* Bodies.                                                                   *)

LEMMA FitsFrame ==
  ASSUME NEW graph, NEW frame, Fits(graph, frame)
  PROVE  /\ graph.t = frame.t /\ graph.trip = frame.trip /\ graph.state = frame.state
         /\ graph.scan = frame.scan /\ graph.emitted = frame.emitted
         /\ graph.scope = frame.scope
BY DEF Fits

LEMMA FitsOther ==
  ASSUME NEW graph, NEW frame, Fits(graph, frame), NEW other,
         /\ other.scope = frame.scope /\ other.t = frame.t /\ other.trip = frame.trip
         /\ other.state = frame.state /\ other.scan = frame.scan /\ other.emitted = frame.emitted
  PROVE  Fits(graph, other)
BY DEF Fits

LEMMA FitsNew ==
  ASSUME NEW s
  PROVE  Fits(Contract!Graph(s), Frame(s))
<1>1. Contract!NoValue = NoValue
  BY SameOperators
<1>2. Contract!Graph(s) =
        [scope |-> s, pc |-> 1, names |-> <<>>, t |-> 0, trip |-> 0, state |-> <<>>,
         scan |-> NoValue, emitted |-> <<>>]
  BY <1>1 DEF Contract!Graph
<1> QED BY <1>2 DEF Fits, Frame

\* The arguments and the results of the iterations are the translator's.
LEMMA TurnIs ==
  ASSUME NEW node, NEW graph, NEW frame, Fits(graph, frame)
  PROVE  Contract!Turn(node, graph) = Iteration(node, frame)
<1>1. /\ graph.t = frame.t /\ graph.trip = frame.trip /\ graph.state = frame.state
      /\ graph.scan = frame.scan
  BY FitsFrame
<1>2. Contract!Counter(frame.t) = Counter(frame.t) /\ Contract!Yes = Yes
  BY SameOperators
<1>3. \A i : Contract!Sliced(frame.scan, i) = Sliced(frame.scan, i)
  BY SameOperators
<1>4. Contract!Turn(node, graph) =
        IF node.kind = "Loop" THEN <<Contract!Counter(frame.t), Contract!Yes>> \o frame.state
        ELSE Append(frame.state, Contract!Sliced(frame.scan, IF node.reversed THEN frame.trip - 1 - frame.t ELSE frame.t))
  BY <1>1 DEF Contract!Turn
<1> QED BY <1>2, <1>3, <1>4 DEF Iteration

LEMMA EndedIs ==
  ASSUME NEW node, NEW state, NEW emitted
  PROVE  Contract!Ended(node, state, emitted) = Finished(node, state, emitted)
<1>1. Contract!Reverse(emitted) = Reverse(emitted)
  BY SameOperators
<1>2. \A parts : Contract!Stacked(parts) = Stacked(parts)
  BY SameOperators
<1> QED BY <1>1, <1>2 DEF Contract!Ended, Finished

\* A body is entered.
LEMMA EnteredGraphs ==
  ASSUME TInv, mode # "idle", NEW below, NEW base, Good(p, below, base), Len(below) # 0,
         NEW b \in Scopes, NEW frame, DOMAIN frame = Fields, frame.scope = b,
         NEW args, There(args), Len(args) = Len(p.formals[b]),
         Entered(below, frame, args, base), NEW graph, Fits(graph, frame),
         NEW ins, NEW memory, Levels(p, below, base, ins, memory)
  PROVE  /\ Levels(p, stack', env', ins, memory)
         /\ Graphs(p, stack', env') = Append(Graphs(p, below, base), Contract!Opened(graph, args))
<1> DEFINE shadowed == Restrict(base, BodyNames(p, b) \cap DOMAIN base)
           opened == [frame EXCEPT !.pc = 1, !.saved = shadowed]
           e2 == Over(base, Bind(p.formals[b], args))
<1>1. WellFormed(p) /\ plan.own = [s \in Scopes |-> BodyNames(p, s)]
  BY TopIs
<1>2. Saved(frame.scope, base) = shadowed
  BY <1>1 DEF Saved
<1>3. env' = e2 /\ stack' = Append(below, opened)
  BY <1>2 DEF Entered
<1>4. /\ DOMAIN shadowed = BodyNames(p, b) \cap DOMAIN base
      /\ \A x \in DOMAIN shadowed : shadowed[x] = base[x]
  BY DEF Restrict
<1> HIDE DEF shadowed
<1>5. /\ DOMAIN opened = Fields /\ opened.scope = b /\ opened.pc = 1 /\ opened.saved = shadowed
      /\ opened.state = frame.state /\ opened.emitted = frame.emitted
      /\ opened.t = frame.t /\ opened.trip = frame.trip /\ opened.scan = frame.scan
  BY DEF Fields
<1> HIDE DEF opened
<1>6. Opens(p, b, base, opened)
  BY <1>4, <1>5 DEF Opens
<1>7. Binds(p, b, base, e2)
  <2>1. IsSeq(p.formals[b])
    BY <1>1 DEF WellFormed, Typed, IsSeq
  <2> QED BY <2>1, BindsIs
<1>8. Enters(base, e2, p.formals[b], args)
  BY DEF Enters
<1>9. Fits(graph, opened)
  BY <1>5, FitsOther
<1> HIDE DEF e2
<1>10. Levels(p, Append(below, opened), e2, ins, memory)
  BY <1>6, <1>7, PushLevels
<1>11. Graphs(p, Append(below, opened), e2)
         = Append(Graphs(p, below, base), Contract!Opened(graph, args))
  <2> DEFINE stk2 == Append(below, opened)
             new == Contract!Opened(graph, args)
  <2>1. Pushed(below, opened, stk2) /\ new = Contract!Opened(graph, args)
    BY DEF Pushed
  <2> HIDE DEF stk2, new
  <2>2. Pushed(Graphs(p, below, base), new, Graphs(p, stk2, e2))
    BY <1>6, <1>7, <1>8, <1>9, <2>1, PushGraphs
  <2> QED BY <2>2 DEF Pushed, stk2, new
<1> QED BY <1>3, <1>10, <1>11

\* The taken branch is evaluated.
LEMMA ChooseStep ==
  ASSUME LInv, Branch
  PROVE  Contract!Choose /\ Levels(p, stack', env', Stored(host, writes), host)
<1> DEFINE x == Node.ins[1]
           taken == IF RawHost(Top.scope, x).n # 0 THEN 1 ELSE 2
           b == Node.bodies[taken]
           frame == Frame(b)
<1>1. /\ InNode /\ Node.kind = "If" /\ Entered(stack, frame, <<>>, env)
      /\ HostReadable(Top.scope, x) /\ UNCHANGED <<p, host, results, writes, status>>
  BY DEF Branch
<1>2. TInv
  BY DEF LInv
<1>3. /\ WellFormed(p) /\ Len(stack) # 0 /\ mode # "idle" /\ Good(p, stack, env)
      /\ Levels(p, stack, env, Stored(host, writes), host)
  BY <1>1, <1>2, TopIs DEF InNode, TInv, LInv
<1>4. x \in HostRead(Node) /\ x \in Range(Node.ins)
  <2>1. x \in HostRead(Node)
    BY <1>1 DEF HostRead
  <2> QED BY <1>1, <1>2, <2>1, HostReadIs
<1>5. Contract!Known(x) /\ Contract!Meant(x) = RawHost(Top.scope, x)
  <2>1. Contract!Known(x)
    BY <1>1, <1>4, OperandMeant
  <2>2. Contract!Meant(x) = RawHost(Top.scope, x)
    BY <1>1, <1>4, HostMeant
  <2> QED BY <2>1, <2>2
<1>6. Contract!At = Node /\ Contract!Running
  BY <1>1, <1>2, AtIs
<1>7. b \in Scopes /\ Len(p.formals[b]) = 0
  <2>1. taken \in 1..2
    OBVIOUS
  <2> HIDE DEF taken
  <2>2. Node \in ANode /\ Bodies(p, Node, 2, 0, Len(Node.outs))
    BY <1>1, <1>2, NodeIs, ArityIs
  <2>3. Node.bodies[taken] \in Scopes /\ Len(p.formals[Node.bodies[taken]]) = 0
    BY <1>3, <2>1, <2>2, BodyIs
  <2> QED BY <2>3
<1>8. Contract!At.bodies[IF Contract!Meant(Contract!At.ins[1]).n # 0 THEN 1 ELSE 2] = b
  BY <1>5, <1>6
<1>9. DOMAIN frame = Fields /\ frame.scope = b
  BY DEF Frame, Fields
<1>10. There(<<>>) /\ Len(<<>>) = 0
  BY ThereEmpty
<1>11. Fits(Contract!Graph(b), frame)
  BY FitsNew
<1> HIDE DEF b, frame, x
<1>12. /\ Levels(p, stack', env', Stored(host, writes), host)
       /\ Graphs(p, stack', env') = Append(Graphs(p, stack, env), Contract!Opened(Contract!Graph(b), <<>>))
  BY <1>1, <1>2, <1>3, <1>7, <1>9, <1>10, <1>11, EnteredGraphs
<1>13. Graphs(p', stack', env') = Append(Graphs(p, stack, env), Contract!Opened(Contract!Graph(b), <<>>))
  BY <1>1, <1>12
<1>14. Stored(host', writes') = Stored(host, writes)
  BY <1>1
<1>15. Contract!Known(Contract!At.ins[1]) /\ Contract!At.kind = "If"
  BY <1>1, <1>5, <1>6 DEF x
<1>16. Contract!Choose
  BY <1>1, <1>6, <1>8, <1>13, <1>14, <1>15 DEF Contract!Choose
<1> QED BY <1>12, <1>16

\* What a Loop or a Scan starts from.
LEMMA InitiallyIs ==
  ASSUME LInv, InNode, Node.kind \in {"Loop", "Scan"},
         NEW state, state = [k \in DOMAIN Carried(Node) |-> Resolve(Top.scope, Carried(Node)[k])]
  PROVE  Contract!Initially = state
<1> DEFINE c == Carried(Node)
<1>1. TInv
  BY DEF LInv
<1>2. Contract!At = Node /\ Node \in ANode
  BY <1>1, AtIs, NodeIs
<1>3. c = IF Contract!At.kind = "Loop" THEN SubSeq(Contract!At.ins, 3, Len(Contract!At.ins))
          ELSE Contract!Front(Contract!At.ins)
  <2>1. Contract!Front(Node.ins) = Front(Node.ins)
    BY SameOperators
  <2> QED BY <1>2, <2>1 DEF Carried
<1>4. Contract!Initially = [k \in DOMAIN c |-> Contract!Meant(c[k])]
  BY <1>3 DEF Contract!Initially, Contract!MeantAll
<1>5. \A k \in DOMAIN c : c[k] \in Range(Node.ins)
  <2>1. \/ Node.kind = "Loop" /\ Len(Node.ins) >= 2
        \/ Node.kind = "Scan" /\ Len(Node.ins) >= 1
    BY <1>1, ArityIs
  <2> QED BY <1>2, <2>1, CarriedIs
<1> HIDE DEF c
<1>6. \A k \in DOMAIN c : Contract!Meant(c[k]) = Resolve(Top.scope, c[k])
  BY <1>5, OperandMeant
<1>7. state = [k \in DOMAIN c |-> Resolve(Top.scope, c[k])]
  BY DEF c
<1> QED BY <1>4, <1>6, <1>7

\* And how many iterations it has.
LEMMA TripIs ==
  ASSUME LInv, InNode, Node.kind \in {"Loop", "Scan"},
         \A x \in HostRead(Node) : HostReadable(Top.scope, x),
         NEW scan, scan = (IF Node.kind = "Scan" THEN Resolve(Top.scope, Last(Node.ins)) ELSE NoValue),
         NEW trip, trip = (IF Node.kind = "Scan" THEN scan.n
                           ELSE IF RawHost(Top.scope, Node.ins[2]).n # 0
                                THEN RawHost(Top.scope, Node.ins[1]).n ELSE 0)
  PROVE  /\ Contract!Trip = trip
         /\ (IF Contract!At.kind = "Scan" THEN Contract!Meant(Contract!Last(Contract!At.ins))
             ELSE Contract!NoValue) = scan
<1> DEFINE s == Top.scope
<1>1. TInv
  BY DEF LInv
<1>2. Contract!At = Node /\ Node \in ANode
  BY <1>1, AtIs, NodeIs
<1>3. CASE Node.kind = "Scan"
  <2>1. Contract!Last(Node.ins) = Last(Node.ins)
    BY SameOperators
  <2>2. Last(Node.ins) \in Range(Node.ins)
    BY <1>1, <1>2, <1>3, ArityIs, CarriedIs
  <2>3. Contract!Meant(Last(Node.ins)) = Resolve(s, Last(Node.ins))
    BY <2>2, OperandMeant
  <2> QED BY <1>2, <1>3, <2>1, <2>3 DEF Contract!Trip
<1>4. CASE Node.kind = "Loop"
  <2>1. HostRead(Node) = {Node.ins[1], Node.ins[2]}
    BY <1>4 DEF HostRead
  <2>2. Contract!NoValue = NoValue
    BY SameOperators
  <2>3. \A x \in HostRead(Node) : x \in Range(Node.ins)
    BY <1>1, HostReadIs
  <2>4. Contract!Meant(Node.ins[1]) = RawHost(s, Node.ins[1])
    BY <2>1, <2>3, HostMeant
  <2>5. Contract!Meant(Node.ins[2]) = RawHost(s, Node.ins[2])
    BY <2>1, <2>3, HostMeant
  <2> QED BY <1>2, <1>4, <2>2, <2>4, <2>5 DEF Contract!Trip
<1> QED BY <1>3, <1>4

LEMMA FirstFits ==
  ASSUME NEW b, b = Contract!At.bodies[1], NEW trip, Contract!Trip = trip,
         NEW state, Contract!Initially = state,
         NEW scan, (IF Contract!At.kind = "Scan" THEN Contract!Meant(Contract!Last(Contract!At.ins))
                    ELSE Contract!NoValue) = scan,
         NEW frame, frame = [Frame(b) EXCEPT !.trip = trip, !.state = state, !.scan = scan]
  PROVE  Fits(Contract!First, frame)
<1> DEFINE H1 == [Contract!Graph(b) EXCEPT !.trip = trip]
           H2 == [H1 EXCEPT !.state = state]
           H3 == [H2 EXCEPT !.scan = scan]
<1>1. Contract!First = H3
  BY DEF Contract!First
<1>2. Contract!Graph(b) =
        [scope |-> b, pc |-> 1, names |-> <<>>, t |-> 0, trip |-> 0, state |-> <<>>,
         scan |-> NoValue, emitted |-> <<>>]
  <2>1. Contract!NoValue = NoValue
    BY SameOperators
  <2> QED BY <2>1 DEF Contract!Graph
<1>3. H1 = [scope |-> b, pc |-> 1, names |-> <<>>, t |-> 0, trip |-> trip, state |-> <<>>,
            scan |-> NoValue, emitted |-> <<>>]
  BY <1>2
<1> HIDE DEF H1
<1>4. H2 = [scope |-> b, pc |-> 1, names |-> <<>>, t |-> 0, trip |-> trip, state |-> state,
            scan |-> NoValue, emitted |-> <<>>]
  BY <1>3
<1> HIDE DEF H2
<1>5. H3 = [scope |-> b, pc |-> 1, names |-> <<>>, t |-> 0, trip |-> trip, state |-> state,
            scan |-> scan, emitted |-> <<>>]
  BY <1>4
<1> HIDE DEF H3
<1>6. /\ frame.scope = b /\ frame.t = 0 /\ frame.trip = trip /\ frame.state = state
      /\ frame.scan = scan /\ frame.emitted = <<>>
  BY DEF Frame
<1> QED BY <1>1, <1>5, <1>6 DEF Fits

\* A Loop or a Scan starts.
LEMMA RepeatStep ==
  ASSUME LInv, Iterate
  PROVE  /\ Contract!Repeat /\ RightCache(cache')
         /\ Levels(p, stack', env', Stored(host, writes), host)
<1> DEFINE s == Top.scope
           state == [k \in DOMAIN Carried(Node) |-> Resolve(s, Carried(Node)[k])]
           scan == IF Node.kind = "Scan" THEN Resolve(s, Last(Node.ins)) ELSE NoValue
           trip == IF Node.kind = "Scan" THEN scan.n
                   ELSE IF RawHost(s, Node.ins[2]).n # 0 THEN RawHost(s, Node.ins[1]).n ELSE 0
           b == Node.bodies[1]
           frame == [Frame(b) EXCEPT !.trip = trip, !.state = state, !.scan = scan]
           base == Wrapped(Resolved(Node))
           ins == Stored(host, writes)
           G == Graphs(p, stack, env)
<1>1. /\ InNode /\ Node.kind \in {"Loop", "Scan"}
      /\ \A x \in HostRead(Node) : HostReadable(Top.scope, x)
      /\ ~Missing(state)
      /\ IF trip = 0
         THEN /\ env' = Over(base, Bind(Node.outs, Finished(Node, state, <<>>)))
              /\ stack' = MovedOn(stack)
         ELSE Entered(stack, frame, Iteration(Node, frame), base)
      /\ cache' = Kept(Resolved(Node), {})
      /\ UNCHANGED <<p, host, results, writes, status>>
  BY DEF Iterate, Advanced, MovedOn
<1>2. TInv
  BY DEF LInv
<1>3. /\ WellFormed(p) /\ Len(stack) # 0 /\ mode # "idle" /\ Node \in ANode
      /\ Contract!At = Node /\ Contract!Running /\ AtNode(p, stack, Node)
  BY <1>1, <1>2, TopIs, NodeIs, AtIs DEF InNode
<1>4. Contract!Initially = state
  BY <1>1, InitiallyIs
<1>5. scan = scan /\ trip = trip
  OBVIOUS
<1>6. /\ Contract!Trip = trip
      /\ (IF Contract!At.kind = "Scan" THEN Contract!Meant(Contract!Last(Contract!At.ins))
          ELSE Contract!NoValue) = scan
  BY <1>1, TripIs
<1>7. \A x \in Range(Node.ins) : Contract!Known(x)
  BY <1>1, OperandMeant
<1>8. Contract!Range(Node.ins) = Range(Node.ins)
  BY SameOperators
<1> DEFINE count == Len(Node.ins)
<1>9. /\ count \in Nat
      /\ Node.kind = "Loop" => count >= 2 /\ Bodies(p, Node, 1, count, count - 1)
      /\ Node.kind = "Scan" => count >= 1 /\ Bodies(p, Node, 1, count, count)
  BY <1>1, <1>2, ArityIs
<1>10. b \in Scopes /\ Len(p.formals[b]) = count
  <2> HIDE DEF count
  <2>1. PICK outs : Bodies(p, Node, 1, count, outs)
    BY <1>1, <1>9
  <2>2. 1 \in 1..1 /\ WellFormed(p) /\ Node \in ANode
    BY <1>3
  <2> QED BY <2>1, <2>2, BodyIs
<1>11. /\ IsSeq(Carried(Node))
       /\ Len(Carried(Node)) = count - (IF Node.kind = "Loop" THEN 2 ELSE 1)
       /\ Resolved(Node) \in SUBSET Range(Node.ins)
  BY <1>1, <1>3, <1>9, CarriedIs
<1> HIDE DEF count, scan, trip
<1>12. There(state) /\ Len(state) = Len(Carried(Node))
  <2>1. /\ state = [k \in DOMAIN Carried(Node) |-> state[k]]
        /\ \A k \in DOMAIN Carried(Node) : state[k] # NoValue
    BY <1>1 DEF Missing
  <2> HIDE DEF state
  <2> QED BY <1>11, <2>1, ReadIs
<1> HIDE DEF state
<1>13. Good(p, stack, base)
  BY <1>1, <1>2, <1>11, WrappedIs
<1>14. Levels(p, stack, base, Stored(host, writes), host) /\ Graphs(p, stack, base) = G
  BY <1>1, <1>11, WrappedSame
<1>15. RightCache(cache')
  <2>1. RightCache(Kept(Resolved(Node), {}))
    BY <1>1, <1>11, RightKept
  <2> QED BY <1>1, <2>1
<1> HIDE DEF base, G
<1>16. ASSUME trip = 0
       PROVE  /\ Levels(p, stack', env', ins, host)
              /\ Graphs(p, stack', env') = Contract!Yielded(G, Contract!Ended(Node, state, <<>>))
  <2> DEFINE values == Finished(Node, state, <<>>)
  <2>1. env' = Over(base, Bind(Node.outs, values)) /\ stack' = MovedOn(stack)
    BY <1>1, <1>16
  <2>2. values = Contract!Ended(Node, state, <<>>)
    BY EndedIs
  <2> HIDE DEF values
  <2>3. Results(base, env', Node, values)
    BY <2>1 DEF Results
  <2>4. Levels(p, MovedOn(stack), env', Stored(host, writes), host)
    BY <1>3, <1>13, <1>14, <2>3, AdvanceGraphs
  <2>5. Graphs(p, MovedOn(stack), env') = Contract!Yielded(Graphs(p, stack, base), values)
    BY <1>3, <1>13, <1>14, <2>3, AdvanceGraphs
  <2> QED BY <1>14, <2>1, <2>2, <2>4, <2>5
<1>17. ASSUME trip # 0
       PROVE  /\ Levels(p, stack', env', ins, host)
              /\ Graphs(p, stack', env')
                   = Append(G, Contract!Opened(Contract!First, Contract!Turn(Node, Contract!First)))
  <2> DEFINE args == Iteration(Node, frame)
  <2>1. Entered(stack, frame, args, base)
    BY <1>1, <1>17
  <2>2. DOMAIN frame = Fields /\ frame.scope = b /\ frame.state = state
    BY DEF Frame, Fields
  <2>3. Fits(Contract!First, frame)
    <3>1. b = Contract!At.bodies[1]
      BY <1>3
    <3> HIDE DEF b
    <3> QED BY <1>4, <1>6, <3>1, FirstFits
  <2> HIDE DEF frame, b
  <2>4. args = Contract!Turn(Node, Contract!First)
    BY <2>3, TurnIs
  <2>5. /\ There(args)
        /\ Node.kind = "Loop" => Len(args) = Len(frame.state) + 2
        /\ Node.kind = "Scan" => Len(args) = Len(frame.state) + 1
    BY <1>1, <1>12, <2>2, IterationIs
  <2> HIDE DEF args
  <2>6. Len(args) = Len(p.formals[b])
    BY <1>1, <1>9, <1>10, <1>11, <1>12, <2>2, <2>5
  <2>7. /\ Levels(p, stack', env', Stored(host, writes), host)
        /\ Graphs(p, stack', env') = Append(Graphs(p, stack, base), Contract!Opened(Contract!First, args))
    BY <1>2, <1>3, <1>10, <1>13, <1>14, <2>1, <2>2, <2>3, <2>5, <2>6, EnteredGraphs
  <2> QED BY <1>14, <2>4, <2>7
<1>18. Levels(p, stack', env', ins, host)
  BY <1>16, <1>17
<1> DEFINE now == IF trip = 0 THEN Contract!Yielded(G, Contract!Ended(Node, state, <<>>))
                  ELSE Append(G, Contract!Opened(Contract!First, Contract!Turn(Node, Contract!First)))
<1>19. Graphs(p', stack', env') = now
  BY <1>1, <1>16, <1>17
<1>20. Stored(host', writes') = Stored(host, writes)
  BY <1>1
<1>21. now = IF Contract!Trip = 0
             THEN Contract!Yielded(Graphs(p, stack, env), Contract!Ended(Contract!At, Contract!Initially, <<>>))
             ELSE Append(Graphs(p, stack, env), Contract!Opened(Contract!First, Contract!Turn(Contract!At, Contract!First)))
  BY <1>3, <1>4, <1>6, Zenon DEF G
<1> HIDE DEF now
<1>22. Contract!Repeat
  BY <1>1, <1>3, <1>7, <1>8, <1>19, <1>20, <1>21 DEF Contract!Repeat
<1> QED BY <1>15, <1>18, <1>22

\* The graph under the one that ends.
LEMMA UnderIs ==
  ASSUME LInv, InEnd, NEW base, base = Restored(Top)
  PROVE  /\ Good(p, Below, base) /\ Len(Below) # 0
         /\ Levels(p, Below, base, Stored(host, writes), host)
         /\ Contract!Front(Graphs(p, stack, env)) = Graphs(p, Below, base)
         /\ AtNode(p, Below, Caller)
<1> DEFINE n == Len(stack)
<1>1. TInv /\ Levels(p, stack, env, Stored(host, writes), host)
  BY DEF LInv
<1>2. WellFormed(p) /\ n \in Nat /\ n > 1
  BY <1>1, TopIs DEF InEnd
<1>3. n = Len(stack) /\ Below = Front(stack) /\ Good(p, stack, env)
  BY <1>1 DEF Below, TInv
<1> HIDE DEF n
<1>4. n # 0 /\ n # 1
  BY <1>2
<1>5. Restores(p, stack, Len(stack), env, base)
  BY <1>1, RestoredIs
<1>6. Good(p, Below, base)
  BY <1>1, RestoredKeeps
<1>7. Levels(p, Below, base, Stored(host, writes), host)
  <2>1. Levels(p, Front(stack), base, Stored(host, writes), host)
    BY <1>1, <1>3, <1>4, <1>5, PopLevels
  <2> QED BY <1>3, <2>1
<1>8. Contract!Front(Graphs(p, stack, env)) = Graphs(p, Below, base)
  <2>1. Graphs(p, Front(stack), base) = Front(Graphs(p, stack, env))
    BY <1>1, <1>3, <1>4, <1>5, PopGraphs
  <2>2. Contract!Front(Graphs(p, stack, env)) = Front(Graphs(p, stack, env))
    BY SameOperators
  <2> QED BY <1>3, <2>1, <2>2
<1> DEFINE m == Len(Below)
<1>9. /\ m # 0 /\ Below[m].pc <= Len(p.nodes[Below[m].scope])
      /\ Caller = p.nodes[Below[m].scope][Below[m].pc]
  BY <1>1, CallerIs
<1>10. AtNode(p, Below, Caller)
  BY <1>9 DEF AtNode
<1> QED BY <1>6, <1>7, <1>8, <1>9, <1>10

\* The graph whose body ends, and its frame.
Onward(graph, state, emitted) == [graph EXCEPT !.t = @ + 1, !.state = state, !.emitted = emitted]

LEMMA AgainFits ==
  ASSUME TInv, mode # "idle", NEW state, NEW emitted,
         NEW frame, frame = Onward(Top, state, emitted),
         NEW again, again = Onward(Contract!Current, state, emitted)
  PROVE  /\ Fits(again, frame) /\ again.t = frame.t /\ Contract!Current.trip = Top.trip
         /\ Contract!Current.emitted = Top.emitted
         /\ DOMAIN frame = Fields /\ frame.scope = Top.scope /\ frame.state = state
<1> DEFINE N == NamesAt(p, stack, env, Len(stack))
           H0 == Contract!Current
           H1 == [H0 EXCEPT !.t = @ + 1]
           H2 == [H1 EXCEPT !.state = state]
           H3 == [H2 EXCEPT !.emitted = emitted]
<1>1. Top = stack[Len(stack)] /\ DOMAIN Top = Fields
  BY TopIs
<1>2. H0 = GraphAt(p, stack, env, Len(stack))
  BY CurrentIs
<1>3. H0 = [scope |-> Top.scope, pc |-> Top.pc, names |-> N, t |-> Top.t, trip |-> Top.trip,
            state |-> Top.state, scan |-> Top.scan, emitted |-> Top.emitted]
  BY <1>1, <1>2 DEF GraphAt
<1>4. again = H3
  BY DEF Onward
<1> HIDE DEF H0, N
<1>5. H1 = [scope |-> Top.scope, pc |-> Top.pc, names |-> N, t |-> Top.t + 1, trip |-> Top.trip,
            state |-> Top.state, scan |-> Top.scan, emitted |-> Top.emitted]
  BY <1>3
<1>6. H0.trip = Top.trip /\ H0.emitted = Top.emitted
  BY <1>3
<1> HIDE DEF H1
<1>7. H2 = [scope |-> Top.scope, pc |-> Top.pc, names |-> N, t |-> Top.t + 1, trip |-> Top.trip,
            state |-> state, scan |-> Top.scan, emitted |-> Top.emitted]
  BY <1>5
<1> HIDE DEF H2
<1>8. H3 = [scope |-> Top.scope, pc |-> Top.pc, names |-> N, t |-> Top.t + 1, trip |-> Top.trip,
            state |-> state, scan |-> Top.scan, emitted |-> emitted]
  BY <1>7
<1> HIDE DEF H3
<1>9. /\ DOMAIN frame = Fields /\ frame.scope = Top.scope /\ frame.t = Top.t + 1
      /\ frame.trip = Top.trip /\ frame.state = state /\ frame.scan = Top.scan
      /\ frame.emitted = emitted
  BY <1>1 DEF Fields, Onward
<1>10. Fits(again, frame)
  BY <1>4, <1>8, <1>9 DEF Fits
<1>11. again.t = frame.t
  BY <1>4, <1>8, <1>9
<1> QED BY <1>6, <1>9, <1>10, <1>11 DEF H0

\* What the contract's body returns is what the translator's does.
LEMMA ReturnsSame ==
  ASSUME LInv, InEnd, Range(Outs) \subseteq DOMAIN env
  PROVE  /\ \A x \in Contract!Range(p.outs[Contract!Current.scope]) : Contract!Known(x)
         /\ Contract!MeantAll(p.outs[Contract!Current.scope]) = [k \in DOMAIN Outs |-> env[Outs[k]]]
         /\ Len(Graphs(p, stack, env)) > 1
         /\ Contract!Current.pc > Len(p.nodes[Contract!Current.scope])
<1>1. TInv /\ mode # "idle" /\ Len(stack) > 1 /\ Top.pc > Len(p.nodes[Top.scope])
  BY DEF LInv, InEnd
<1>2. /\ Len(Graphs(p, stack, env)) = Len(stack)
      /\ Contract!Current.scope = Top.scope /\ Contract!Current.pc = Top.pc
  BY <1>1, CurrentIs
<1>3. p.outs[Contract!Current.scope] = Outs
  BY <1>2 DEF Outs
<1>4. \A x \in Range(Outs) : Contract!Known(x) /\ Contract!Meant(x) = env[x]
  BY MeantOfEnv
<1>5. Contract!Range(Outs) = Range(Outs)
  BY SameOperators
<1>6. Contract!MeantAll(Outs) = [k \in DOMAIN Outs |-> env[Outs[k]]]
  <2>1. \A k \in DOMAIN Outs : Outs[k] \in Range(Outs)
    BY DEF Range
  <2>2. Contract!MeantAll(Outs) = [k \in DOMAIN Outs |-> Contract!Meant(Outs[k])]
    BY DEF Contract!MeantAll
  <2> QED BY <1>4, <2>1, <2>2
<1> QED BY <1>1, <1>2, <1>3, <1>4, <1>5, <1>6

\* A branch or an iteration ends.
LEMMA ReturnStep ==
  ASSUME LInv, EndBody
  PROVE  /\ Contract!Return
         /\ Levels(p, stack', env', Stored(host, writes), host)
<1> DEFINE outs == [k \in DOMAIN Outs |-> env[Outs[k]]]
           state == CASE Caller.kind = "If" -> outs
                      [] Caller.kind = "Loop" -> Tail(outs)
                      [] OTHER -> Front(outs)
           emitted == IF Caller.kind = "Scan" THEN Append(Top.emitted, Last(outs)) ELSE <<>>
           frame == [Top EXCEPT !.t = @ + 1, !.state = state, !.emitted = emitted]
           again == [Contract!Current EXCEPT !.t = @ + 1, !.state = state, !.emitted = emitted]
           b == Top.scope
           base == Restored(Top)
           G == Graphs(p, Below, base)
           ins == Stored(host, writes)
<1>1. /\ InEnd /\ Range(Outs) \subseteq DOMAIN env
      /\ IF frame.t < Top.trip
         THEN Entered(Below, frame, Iteration(Caller, frame), base)
         ELSE /\ env' = Over(base, Bind(Caller.outs, Finished(Caller, state, emitted)))
              /\ stack' = MovedOn(Below)
      /\ UNCHANGED <<p, host, results, writes, status>>
  BY DEF EndBody, MovedOn
<1>2. TInv /\ WellFormed(p) /\ mode # "idle"
  BY <1>1, ApartIs DEF LInv, InEnd
<1>3. /\ \A x \in Contract!Range(p.outs[Contract!Current.scope]) : Contract!Known(x)
      /\ Contract!MeantAll(p.outs[Contract!Current.scope]) = outs
      /\ Len(Graphs(p, stack, env)) > 1
      /\ Contract!Current.pc > Len(p.nodes[Contract!Current.scope])
  BY <1>1, ReturnsSame
<1>4. /\ Good(p, Below, base) /\ Len(Below) # 0
      /\ Levels(p, Below, base, Stored(host, writes), host)
      /\ Contract!Front(Graphs(p, stack, env)) = G
      /\ AtNode(p, Below, Caller)
  BY <1>1, UnderIs
<1>5. /\ Fits(again, frame) /\ again.t = frame.t /\ Contract!Current.trip = Top.trip
      /\ Contract!Current.emitted = Top.emitted
      /\ DOMAIN frame = Fields /\ frame.scope = Top.scope /\ frame.state = state
  <2>1. frame = Onward(Top, state, emitted) /\ again = Onward(Contract!Current, state, emitted)
    BY DEF Onward
  <2> HIDE DEF frame, again, state, emitted
  <2> QED BY <1>2, <2>1, AgainFits
<1>6. /\ Caller \in ANode /\ b \in Range(Caller.bodies) /\ b \in Scopes
      /\ Carries(Caller, Top) /\ IsSeq(Below)
  BY <1>1, <1>2, CallerIs
<1> DEFINE count == Len(Caller.ins)
<1>7. /\ count \in Nat /\ Caller.kind \in {"If", "Loop", "Scan"}
      /\ Caller.kind = "If" => Len(Outs) = Len(Caller.outs)
      /\ Caller.kind = "Loop" =>
           count >= 2 /\ Len(p.formals[b]) = count /\ Len(Outs) = count - 1
      /\ Caller.kind = "Scan" => count >= 1 /\ Len(p.formals[b]) = count /\ Len(Outs) = count
  BY <1>1, <1>2, CallerArity
<1>8. There(outs) /\ Len(outs) = Len(Outs)
  BY <1>1, <1>2, ReturnedIs
<1>9. p.nodes[Contract!Last(G).scope][Contract!Last(G).pc] = Caller
  <2> DEFINE m == Len(Below)
  <2>1. m \in Nat /\ m \in 1..m
    <3>1. m \in Nat /\ m # 0
      BY <1>4, <1>6, SeqFacts
    <3> HIDE DEF m
    <3> QED BY <3>1
  <2>2. Len(G) = m /\ \A i \in 1..m : G[i] = GraphAt(p, Below, base, i)
    BY <1>6, GraphsSeq
  <2>3. Contract!Last(G) = Last(G)
    BY SameOperators
  <2>4. Last(G) = G[Len(G)]
    BY DEF Last
  <2>5. AtNode(p, Below, Caller) /\ m = Len(Below)
    BY <1>4
  <2> HIDE DEF m, G, base
  <2>6. Contract!Last(G) = GraphAt(p, Below, base, m)
    BY <2>1, <2>2, <2>3, <2>4
  <2>7. Contract!Last(G).scope = Below[m].scope /\ Contract!Last(G).pc = Below[m].pc
    BY <2>6, GraphIs
  <2> QED BY <2>5, <2>7 DEF AtNode
<1> HIDE DEF outs, b, base, count
<1>10. /\ There(state)
       /\ Caller.kind = "Loop" => Len(state) = count - 2
       /\ Caller.kind = "Scan" => Len(state) = count - 1
  <2>1. CASE Caller.kind = "If"
    <3>1. state = outs
      BY <2>1
    <3> QED BY <1>8, <2>1, <3>1
  <2>2. CASE Caller.kind = "Loop"
    <3>1. state = Tail(outs)
      BY <2>2
    <3>2. Len(outs) = count - 1 /\ Len(outs) # 0
      BY <1>7, <1>8, <2>2
    <3>3. There(Tail(outs)) /\ Len(Tail(outs)) = Len(outs) - 1
      BY <1>8, <3>2, ThereLess
    <3> HIDE DEF state
    <3> QED BY <1>7, <2>2, <3>1, <3>2, <3>3
  <2>3. CASE Caller.kind = "Scan"
    <3>1. state = Front(outs)
      BY <2>3
    <3>2. Len(outs) = count /\ Len(outs) # 0
      BY <1>7, <1>8, <2>3
    <3>3. There(Front(outs)) /\ Len(Front(outs)) = Len(outs) - 1
      BY <1>8, <3>2, ThereLess
    <3> HIDE DEF state
    <3> QED BY <1>7, <2>3, <3>1, <3>2, <3>3
  <2> QED BY <1>7, <2>1, <2>2, <2>3
<1>11. /\ state = CASE Caller.kind = "If" -> outs
                    [] Caller.kind = "Loop" -> Tail(outs)
                    [] OTHER -> Contract!Front(outs)
       /\ emitted = IF Caller.kind = "Scan" THEN Append(Contract!Current.emitted, Contract!Last(outs))
                    ELSE <<>>
  <2>1. Contract!Front(outs) = Front(outs) /\ Contract!Last(outs) = Last(outs)
    BY SameOperators
  <2>2. Contract!Current.emitted = Top.emitted
    BY <1>5
  <2> QED BY <2>1, <2>2
<1>12. frame.t < Top.trip => Caller.kind \in {"Loop", "Scan"}
  <2>1. ASSUME Caller.kind = "If", frame.t < Top.trip PROVE FALSE
    <3>1. Top.t = 0 /\ Top.trip = 0
      BY <1>6, <2>1 DEF Carries
    <3>2. Top.t + 1 = frame.t
      <4>1. DOMAIN Top = Fields
        BY <1>2, TopIs
      <4> HIDE DEF state, emitted
      <4> QED BY <4>1 DEF Fields
    <3> HIDE DEF frame
    <3> QED BY <2>1, <3>1, <3>2
  <2> QED BY <1>7, <2>1
<1> HIDE DEF state, emitted, G
<1>13. ASSUME frame.t < Top.trip
       PROVE  /\ Levels(p, stack', env', ins, host)
              /\ Graphs(p, stack', env') = Append(G, Contract!Opened(again, Contract!Turn(Caller, again)))
  <2> DEFINE args == Iteration(Caller, frame)
  <2>1. Entered(Below, frame, args, base)
    BY <1>1, <1>13
  <2>2. /\ DOMAIN frame = Fields /\ frame.scope = b /\ frame.state = state
        /\ Fits(again, frame) /\ Caller.kind \in {"Loop", "Scan"}
    BY <1>5, <1>12, <1>13 DEF b
  <2> HIDE DEF frame, again
  <2>3. args = Contract!Turn(Caller, again)
    BY <2>2, TurnIs
  <2>4. /\ There(args)
        /\ Caller.kind = "Loop" => Len(args) = Len(frame.state) + 2
        /\ Caller.kind = "Scan" => Len(args) = Len(frame.state) + 1
    BY <1>10, <2>2, IterationIs
  <2> HIDE DEF args
  <2>5. Len(args) = Len(p.formals[b])
    BY <1>7, <1>10, <2>2, <2>4
  <2>6. /\ Levels(p, stack', env', Stored(host, writes), host)
        /\ Graphs(p, stack', env') = Append(Graphs(p, Below, base), Contract!Opened(again, args))
    BY <1>2, <1>4, <1>6, <2>1, <2>2, <2>4, <2>5, EnteredGraphs
  <2> QED BY <2>3, <2>6 DEF G
<1>14. ASSUME ~(frame.t < Top.trip)
       PROVE  /\ Levels(p, stack', env', ins, host)
              /\ Graphs(p, stack', env') = Contract!Yielded(G, Contract!Ended(Caller, state, emitted))
  <2> DEFINE values == Finished(Caller, state, emitted)
  <2>1. env' = Over(base, Bind(Caller.outs, values)) /\ stack' = MovedOn(Below)
    BY <1>1, <1>14
  <2>2. values = Contract!Ended(Caller, state, emitted)
    BY EndedIs
  <2> HIDE DEF values
  <2>3. Results(base, env', Caller, values)
    BY <2>1 DEF Results
  <2>4. Levels(p, MovedOn(Below), env', Stored(host, writes), host)
    BY <1>2, <1>4, <2>3, AdvanceGraphs
  <2>5. Graphs(p, MovedOn(Below), env') = Contract!Yielded(Graphs(p, Below, base), values)
    BY <1>2, <1>4, <2>3, AdvanceGraphs
  <2> QED BY <2>1, <2>2, <2>4, <2>5 DEF G
<1>15. Levels(p, stack', env', ins, host)
  BY <1>13, <1>14
<1> DEFINE now == IF again.t < Contract!Current.trip
                  THEN Append(G, Contract!Opened(again, Contract!Turn(Caller, again)))
                  ELSE Contract!Yielded(G, Contract!Ended(Caller, state, emitted))
<1>16. Graphs(p', stack', env') = now
  BY <1>1, <1>5, <1>13, <1>14
<1>17. Stored(host', writes') = Stored(host, writes)
  BY <1>1
<1>18. Contract!Return
  <2> DEFINE outs2 == Contract!MeantAll(p.outs[Contract!Current.scope])
             below2 == Contract!Front(Graphs(p, stack, env))
             caller2 == p.nodes[Contract!Last(below2).scope][Contract!Last(below2).pc]
             state2 == CASE caller2.kind = "If" -> outs2
                         [] caller2.kind = "Loop" -> Tail(outs2)
                         [] OTHER -> Contract!Front(outs2)
             emitted2 == IF caller2.kind = "Scan"
                         THEN Append(Contract!Current.emitted, Contract!Last(outs2)) ELSE <<>>
             again2 == [Contract!Current EXCEPT !.t = @ + 1, !.state = state2, !.emitted = emitted2]
             now2 == IF again2.t < Contract!Current.trip
                     THEN Append(below2, Contract!Opened(again2, Contract!Turn(caller2, again2)))
                     ELSE Contract!Yielded(below2, Contract!Ended(caller2, state2, emitted2))
  <2>1. outs2 = outs /\ below2 = G
    BY <1>3, <1>4
  <2> HIDE DEF outs2, below2
  <2>2. caller2 = Caller
    BY <1>9, <2>1
  <2> HIDE DEF caller2
  <2>3. state2 = state /\ emitted2 = emitted
    BY <1>11, <2>1, <2>2
  <2> HIDE DEF state2, emitted2
  <2>4. again2 = again
    BY <2>3
  <2> HIDE DEF again2, again
  <2>5. now2 = now
    BY <2>1, <2>2, <2>3, <2>4
  <2>6. Graphs(p', stack', env') = now2
    BY <1>16, <2>5
  <2> HIDE DEF now
  <2> QED BY <1>1, <1>3, <1>17, <2>6
       DEF Contract!Return, now2, again2, emitted2, state2, caller2, below2, outs2
<1> QED BY <1>15, <1>18

-----------------------------------------------------------------------------
(* Calls begin and end.                                                      *)

LEMMA EmptyLevels ==
  ASSUME NEW g, NEW memory
  PROVE  Levels(g, <<>>, <<>>, memory, memory) /\ Graphs(g, <<>>, <<>>) = <<>>
<1> DEFINE stk == <<>>
<1>1. Len(stk) = 0 /\ DOMAIN stk = {} /\ stk = <<>>
  OBVIOUS
<1> HIDE DEF stk
<1>2. 1..Len(stk) = {}
  BY <1>1
<1>3. \A x : Place(g, stk, stk, 0, x) = stk
  <2>1. \A x : Place(g, stk, stk, Len(stk), x) = stk
    <3>1. Len(stk) \in Nat
      BY <1>1
    <3> QED BY <3>1, PlaceTop
  <2> QED BY <1>1, <2>1
<1>4. BottomInv(g, stk, stk, memory, memory)
  BY <1>1, <1>3 DEF BottomInv, Rests
<1>5. Levels(g, stk, stk, memory, memory)
  BY <1>1, <1>2, <1>4 DEF Levels
<1>6. Graphs(g, stk, stk) = <<>>
  <2>1. DOMAIN Graphs(g, stk, stk) = {} /\ IsSeq(Graphs(g, stk, stk)) /\ Len(Graphs(g, stk, stk)) = 0
    <3>1. IsSeq(stk)
      BY <1>1 DEF IsSeq
    <3> QED BY <1>1, <1>2, <3>1, GraphsSeq, SeqFacts
  <2>2. IsSeq(stk)
    BY <1>1 DEF IsSeq
  <2>3. \A i \in 1..Len(stk) : Graphs(g, stk, stk)[i] = stk[i]
    BY <1>2
  <2>4. Graphs(g, stk, stk) = stk
    BY <1>1, <1>2, <2>1, <2>2, SameSeq
  <2> QED BY <1>1, <2>4
<1> QED BY <1>5, <1>6 DEF stk

\* A call starts with no boundary input read, or with each as the host has it.
LEMMA StartLevels ==
  ASSUME NEW g, NamesApart(g), g.formals["root"] = <<>>, NEW memory,
         NEW e, \A x \in DOMAIN e : x \in CtxInputs /\ e[x] = memory[x]
  PROVE  Levels(g, <<Frame("root")>>, e, memory, memory)
<1> DEFINE frame == Frame("root")
           stk == <<frame>>
<1>1. frame.scope = "root" /\ DOMAIN frame.saved = {}
  BY DEF Frame
<1> HIDE DEF frame
<1>2. Len(stk) = 1 /\ stk[1] = frame
  OBVIOUS
<1> HIDE DEF stk
<1>3. 1..Len(stk) = {1} /\ Len(stk) \in Nat /\ 1 \in 1..Len(stk) /\ 1 - 1 = 0
  BY <1>2
<1>4. \A x \in Own(g, stk, 1) : x \notin CtxInputs
  <2>1. Range(g.formals["root"]) = {}
    BY DEF Range
  <2> QED BY <1>1, <1>2, <2>1 DEF Own, BodyNames, NamesApart
<1>5. \A x : Place(g, stk, e, 1, x) = e
  <2>1. \A x : Place(g, stk, e, Len(stk), x) = e
    BY <1>3, PlaceTop
  <2> QED BY <1>2, <2>1
<1>6. ASSUME NEW x PROVE Rests(Place(g, stk, e, 0, x), x, memory, memory)
  <2> DEFINE one == 1
  <2>0. one \in 1..Len(stk) /\ one - 1 = 0 /\ one = 1
    BY <1>3
  <2> HIDE DEF one
  <2>1. CASE x \in Own(g, stk, 1)
    <3>1. Place(g, stk, e, 0, x) = stk[1].saved
      <4>1. Place(g, stk, e, one - 1, x) = stk[one].saved
        BY <1>3, <2>0, <2>1, PlaceBelow
      <4> QED BY <2>0, <4>1
    <3>2. x \notin DOMAIN Place(g, stk, e, 0, x)
      BY <1>1, <1>2, <3>1
    <3> QED BY <3>2 DEF Rests
  <2>2. CASE x \notin Own(g, stk, 1)
    <3>1. Place(g, stk, e, 0, x) = e
      <4>1. Place(g, stk, e, one - 1, x) = Place(g, stk, e, one, x)
        BY <1>3, <2>0, <2>2, PlaceBelow
      <4> QED BY <1>5, <2>0, <4>1
    <3> QED BY <3>1 DEF Rests
  <2> QED BY <2>1, <2>2
<1>7. UnboundAt(g, stk, e, 1)
  BY <1>1, <1>2, <1>4, <1>5 DEF UnboundAt, Agrees
<1>8. Levels(g, stk, e, memory, memory)
  BY <1>1, <1>2, <1>3, <1>6, <1>7 DEF Levels, BottomInv
<1> QED BY <1>8 DEF stk, frame

LEMMA StartedIs ==
  ASSUME p.formals["root"] = <<>>, NEW e
  PROVE  Graphs(p, <<Frame("root")>>, e) = Contract!Started
<1> DEFINE frame == Frame("root")
           stk == <<frame>>
           none == [x \in {} |-> e[x]]
           start == Contract!Opened(Contract!Graph("root"), <<>>)
<1>1. /\ frame.scope = "root" /\ frame.pc = 1
      /\ Fits(Contract!Graph("root"), frame)
  BY FitsNew DEF Frame
<1> HIDE DEF frame
<1>2. stk = <<frame>> /\ Len(stk) = 1 /\ stk[1] = frame /\ DOMAIN stk = {1}
  OBVIOUS
<1> HIDE DEF stk
<1>3. Range(<<>>) = {}
  BY DEF Range
<1>4. Bind(<<>>, <<>>) = none
  BY <1>3 DEF Bind
<1>5. BoundBefore(p, "root", 1) = {}
  <2>1. 1..(1 - 1) = {}
    OBVIOUS
  <2> QED BY <1>3, <2>1 DEF BoundBefore
<1>6. NamesAt(p, stk, e, 1) = Over(InitValues(p, "root"), none)
  <2>1. [x \in BoundBefore(p, "root", 1) |-> Place(p, stk, e, 1, x)[x]] = none
    BY <1>5
  <2> HIDE DEF none
  <2> QED BY <1>1, <1>2, <2>1 DEF NamesAt
<1>7. start = [scope |-> frame.scope, pc |-> 1,
               names |-> Over(InitValues(p, "root"), Bind(<<>>, <<>>)),
               t |-> frame.t, trip |-> frame.trip, state |-> frame.state,
               scan |-> frame.scan, emitted |-> frame.emitted]
  <2>1. start = [scope |-> frame.scope, pc |-> 1,
                 names |-> Over(InitValues(p, frame.scope), Bind(p.formals[frame.scope], <<>>)),
                 t |-> frame.t, trip |-> frame.trip, state |-> frame.state,
                 scan |-> frame.scan, emitted |-> frame.emitted]
    BY <1>1, OpenedIs
  <2> QED BY <1>1, <2>1
<1>8. GraphAt(p, stk, e, 1) = start
  <2> DEFINE names == Over(InitValues(p, "root"), none)
  <2>1. start = [scope |-> frame.scope, pc |-> frame.pc, names |-> names,
                 t |-> frame.t, trip |-> frame.trip, state |-> frame.state,
                 scan |-> frame.scan, emitted |-> frame.emitted]
    BY <1>1, <1>4, <1>7
  <2>2. NamesAt(p, stk, e, 1) = names
    BY <1>6
  <2> HIDE DEF names, start
  <2> QED BY <1>2, <2>1, <2>2 DEF GraphAt
<1> HIDE DEF start
<1>9. Graphs(p, stk, e) = <<start>>
  <2>1. Graphs(p, stk, e) = [i \in {1} |-> GraphAt(p, stk, e, i)]
    BY <1>2 DEF Graphs
  <2>2. Graphs(p, stk, e) = [i \in {1} |-> start]
    BY <1>8, <2>1
  <2>3. <<start>> = [i \in {1} |-> start]
    OBVIOUS
  <2> QED BY <2>2, <2>3
<1>10. Contract!Started = <<start>>
  BY DEF Contract!Started, start
<1> QED BY <1>2, <1>9, <1>10 DEF frame

\* The invariant holds when a call starts, and between calls.
LEMMA StartsRight ==
  ASSUME LInv, NEW path \in {"eager", "trace"}, Starts(path), UNCHANGED <<p, host>>
  PROVE  /\ Graphs(p', stack', env') = Contract!Started
         /\ Stored(host', writes') = host
         /\ RestInv' /\ Levels(p, stack, env, Stored(host, writes), host)'
<1>1. /\ stack' = <<Frame("root")>> /\ writes' = <<>> /\ p' = p /\ host' = host
      /\ env' = host \/ env' = <<>>
  BY DEF Starts
<1>2. /\ NamesApart(p) /\ p.formals["root"] = <<>> /\ DOMAIN host = CtxInputs
      /\ NamesDistinct(p) /\ host = [x \in CtxInputs |-> host[x]]
  BY ApartIs DEF LInv, TInv, HostInv, RestInv
<1>3. Stored(host, <<>>) = host
  BY <1>2, StoredNone
<1>4. Levels(p, <<Frame("root")>>, env', host, host)
  <2>1. \A x \in DOMAIN env' : x \in CtxInputs /\ env'[x] = host[x]
    <3>1. DOMAIN <<>> = {}
      OBVIOUS
    <3> QED BY <1>1, <1>2, <3>1
  <2> QED BY <1>2, <2>1, StartLevels
<1>5. Graphs(p, <<Frame("root")>>, env') = Contract!Started
  BY <1>2, StartedIs
<1>6. RestInv'
  <2>1. NotedInv(<<>>)'
    BY DEF NotedInv
  <2>2. NamesDistinct(p)'
    BY <1>1, <1>2 DEF NamesDistinct, PackedNames, NodesOf
  <2>3. mode' # "idle"
    BY DEF Starts
  <2> QED BY <1>1, <1>2, <2>1, <2>2, <2>3 DEF RestInv
<1> QED BY <1>1, <1>3, <1>4, <1>5, <1>6

LEMMA HaltsRight ==
  ASSUME LInv, NEW how, Halted(how), p' = p, host' = [x \in CtxInputs |-> host'[x]]
  PROVE  /\ Graphs(p', stack', env') = <<>>
         /\ Stored(host', writes') = host'
         /\ RestInv' /\ Levels(p, stack, env, Stored(host, writes), host)'
<1>1. mode' = "idle" /\ stack' = <<>> /\ env' = <<>> /\ writes' = <<>>
  BY DEF Halted
<1>2. DOMAIN host' = CtxInputs
  OBVIOUS
<1>3. Stored(host', <<>>) = host'
  BY <1>2, StoredNone
<1>4. Levels(p, <<>>, <<>>, host', host') /\ Graphs(p, <<>>, <<>>) = <<>>
  BY EmptyLevels
<1>5. RestInv'
  <2>1. NotedInv(<<>>)'
    BY DEF NotedInv
  <2>2. NamesDistinct(p)'
    BY DEF LInv, RestInv, NamesDistinct, PackedNames, NodesOf
  <2> QED BY <1>1, <2>1, <2>2 DEF RestInv
<1> QED BY <1>1, <1>3, <1>4, <1>5

LEMMA StillRight ==
  ASSUME LInv, UNCHANGED <<p, cache>>
  PROVE  RightCache(cache)'
BY DEF LInv, RightCache, PackedNames, NodesOf

\* Between calls no graph is in evaluation.
LEMMA IdleIs ==
  ASSUME LInv, mode = "idle"
  PROVE  /\ Graphs(p, stack, env) = <<>> /\ Stored(host, writes) = host
         /\ stack = <<>> /\ env = <<>> /\ writes = <<>>
<1>1. stack = <<>> /\ env = <<>> /\ writes = <<>>
  BY DEF LInv, RestInv
<1>2. Stored(host, <<>>) = host
  BY StoredNone DEF LInv, TInv, HostInv, RestInv
<1> QED BY <1>1, <1>2, EmptyLevels

LEMMA StartStep ==
  ASSUME LInv, Call
  PROVE  /\ Contract!Start /\ RestInv' /\ RightCache(cache)'
         /\ Levels(p, stack, env, Stored(host, writes), host)'
<1>1. /\ mode = "idle" /\ results' = <<>> /\ status' = "none"
      /\ UNCHANGED <<p, cache, host>>
  BY DEF Call
<1>2. PICK path \in {"eager", "trace"} : Starts(path)
  BY DEF Call
<1>3. /\ Graphs(p', stack', env') = Contract!Started
      /\ Stored(host', writes') = host
      /\ RestInv' /\ Levels(p, stack, env, Stored(host, writes), host)'
  BY <1>1, <1>2, StartsRight
<1>4. Graphs(p, stack, env) = <<>> /\ Stored(host, writes) = host
  BY <1>1, IdleIs
<1>5. RightCache(cache)'
  BY <1>1, StillRight
<1>6. Contract!Start
  BY <1>1, <1>3, <1>4 DEF Contract!Start
<1> QED BY <1>3, <1>5, <1>6

LEMMA FailStep ==
  ASSUME LInv, Fails
  PROVE  /\ Contract!Fail /\ RestInv' /\ RightCache(cache)'
         /\ Levels(p, stack, env, Stored(host, writes), host)'
<1>1. UNCHANGED <<p, cache, host, results>>
  BY DEF Fails
<1>2. mode # "idle"
  BY DEF Fails
<1>3. Graphs(p, stack, env) # <<>>
  BY <1>2, CurrentIs DEF LInv
<1>4. RightCache(cache)'
  BY <1>1, StillRight
<1>5. CASE mode = "trace" /\ Starts("eager") /\ UNCHANGED status
  <2>1. /\ Graphs(p', stack', env') = Contract!Started
        /\ Stored(host', writes') = host
        /\ RestInv' /\ Levels(p, stack, env, Stored(host, writes), host)'
    BY <1>1, <1>5, StartsRight
  <2>2. Contract!Fail
    BY <1>1, <1>3, <1>5, <2>1 DEF Contract!Fail
  <2> QED BY <1>4, <2>1, <2>2
<1>6. CASE mode = "eager" /\ Halted("failed")
  <2>1. host' = [x \in CtxInputs |-> host'[x]]
    BY <1>1 DEF LInv, RestInv
  <2>2. /\ Graphs(p', stack', env') = <<>>
        /\ Stored(host', writes') = host'
        /\ RestInv' /\ Levels(p, stack, env, Stored(host, writes), host)'
    BY <1>1, <1>6, <2>1, HaltsRight
  <2>3. status' = "failed"
    BY <1>6 DEF Halted
  <2>4. Contract!Fail
    BY <1>1, <1>3, <2>2, <2>3 DEF Contract!Fail
  <2> QED BY <1>4, <2>2, <2>4
<1> QED BY <1>5, <1>6 DEF Fails

\* The outputs of the graph are bound when its last node is translated.
LEMMA AnswersMeant ==
  ASSUME LInv, AtBoundary, NEW some \in SUBSET p.external
  PROVE  Restrict(env, some) = [x \in some |-> Contract!Meant(x)]
<1> DEFINE n == Len(p.nodes["root"])
<1>1. /\ Len(stack) = 1 /\ Top = stack[1] /\ Top.pc > n
  BY DEF AtBoundary, Top
<1>2. 1 \in 1..Len(stack)
  BY <1>1
<1>3. stack[1].scope = "root" /\ stack[1].pc \in 1..(Len(p.nodes["root"]) + 1)
  BY <1>2 DEF LInv, TInv, Good, StackInv
<1>4. n \in Nat /\ DOMAIN p.nodes["root"] = 1..n
  BY ApartIs, NodeFacts DEF LInv
<1> HIDE DEF n
<1>5. stack[1].pc = n + 1
  <2>1. stack[1].pc \in 1..(n + 1)
    BY <1>3 DEF n
  <2> QED BY <1>1, <1>4, <2>1
<1> DEFINE k == n + 1
<1>6. k = n + 1 /\ 1..(k - 1) = 1..n
  BY <1>4
<1> HIDE DEF k
<1>7. Produced(p, "root") \subseteq BoundBefore(p, "root", k)
  <2>1. Range(p.nodes["root"]) = {p.nodes["root"][j] : j \in 1..n}
    BY <1>4 DEF Range
  <2>2. ASSUME NEW y \in Produced(p, "root") PROVE y \in BoundBefore(p, "root", k)
    <3>1. PICK node \in NodesOf(p, "root") : y \in Range(node.outs)
      BY DEF Produced
    <3>2. PICK j \in 1..n : node = p.nodes["root"][j]
      BY <2>1, <3>1 DEF NodesOf
    <3>3. j \in 1..(k - 1) /\ y \in Range(p.nodes["root"][j].outs)
      BY <1>6, <3>1, <3>2
    <3> QED BY <3>3 DEF BoundBefore
  <2> QED BY <2>2
<1>8. ASSUME NEW x \in some PROVE env[x] = Contract!Meant(x)
  <2>1. x \in BoundBefore(p, stack[1].scope, stack[1].pc)
    BY <1>3, <1>5, <1>6, <1>7, ApartIs DEF LInv, NamesApart
  <2>2. x \in DOMAIN env
    BY <1>2, <2>1 DEF LInv, TInv, Good, BoundInv
  <2> QED BY <2>2, MeantOfEnv
<1> QED BY <1>8 DEF Restrict

LEMMA AnswerStep ==
  ASSUME LInv, FinishBoundary
  PROVE  /\ Contract!Answer /\ RestInv' /\ RightCache(cache)'
         /\ Levels(p, stack, env, Stored(host, writes), host)'
<1> DEFINE ins == Stored(host, writes)
<1>1. AtBoundary /\ mode # "idle" /\ UNCHANGED <<p, cache>>
  BY DEF FinishBoundary, AtBoundary
<1>2. /\ TInv /\ DOMAIN host = CtxInputs /\ host = [x \in CtxInputs |-> host[x]]
      /\ mode \in {"trace", "eager"} /\ (mode = "trace" => writes = <<>>)
  BY <1>1 DEF LInv, TInv, HostInv, ControlInv, RestInv
<1>3. RightCache(cache)'
  BY <1>1, StillRight
<1>4. /\ Len(Graphs(p, stack, env)) = 1
      /\ Contract!Current.pc > Len(p.nodes["root"])
  BY <1>1, <1>2, CurrentIs DEF AtBoundary
<1>5. \/ /\ Halted("ok") /\ results' = [x \in p.external |-> Contract!Meant(x)]
         /\ host' = ins
      \/ /\ Halted("failed")
         /\ \E some \in SUBSET p.external : results' = [x \in some |-> Contract!Meant(x)]
         /\ host' = host
  <2>1. CASE Halted("ok") /\ results' = Restrict(env, p.external)
             /\ host' = Stored(host, IF mode = "eager" THEN writes ELSE <<>>)
    <3>1. host' = ins
      BY <1>2, <2>1
    <3>2. Restrict(env, p.external) = [x \in p.external |-> Contract!Meant(x)]
      BY <1>1, AnswersMeant
    <3> QED BY <2>1, <3>1, <3>2
  <2>2. CASE Halted("failed") /\ host' = host
             /\ \E some \in SUBSET p.external : results' = Restrict(env, some)
    <3>1. PICK some \in SUBSET p.external : results' = Restrict(env, some)
      BY <2>2
    <3>2. Restrict(env, some) = [x \in some |-> Contract!Meant(x)]
      BY <1>1, AnswersMeant
    <3> QED BY <2>2, <3>1, <3>2
  <2> QED BY <2>1, <2>2 DEF FinishBoundary
<1>6. host' = [x \in CtxInputs |-> host'[x]]
  <2>1. ins = [x \in CtxInputs |-> ins[x]]
    BY <1>2 DEF Stored
  <2> HIDE DEF ins
  <2> QED BY <1>2, <1>5, <2>1
<1>7. /\ Graphs(p', stack', env') = <<>>
      /\ Stored(host', writes') = host'
      /\ RestInv' /\ Levels(p, stack, env, Stored(host, writes), host)'
  <2> HIDE DEF ins
  <2> QED BY <1>1, <1>5, <1>6, HaltsRight
<1>8. status' = "ok" \/ status' = "failed"
  BY <1>5 DEF Halted
<1>9. Contract!Answer
  BY <1>1, <1>4, <1>5, <1>7 DEF Contract!Answer, Halted
<1> QED BY <1>3, <1>7, <1>9

LEMMA RebindStep ==
  ASSUME LInv, Refill
  PROVE  /\ Contract!Rebind /\ RestInv' /\ RightCache(cache)'
         /\ Levels(p, stack, env, Stored(host, writes), host)'
<1>1. /\ mode = "idle" /\ status' = "none"
      /\ UNCHANGED <<p, plan, cache, results, mode, stack, env, writes, given, calls>>
  BY DEF Refill
<1>2. PICK x \in CtxInputs, n \in Numbers : host' = [host EXCEPT ![x] = HostValue(x, n)]
  BY DEF Refill
<1>3. /\ Graphs(p, stack, env) = <<>> /\ Stored(host, writes) = host
      /\ stack = <<>> /\ env = <<>> /\ writes = <<>>
  BY <1>1, IdleIs
<1>4. DOMAIN host = CtxInputs
  BY DEF LInv, TInv, HostInv
<1>5. host' = [y \in CtxInputs |-> host'[y]]
  BY <1>2, <1>4
<1>6. DOMAIN host' = CtxInputs
  BY <1>5
<1>7. Stored(host', <<>>) = host'
  BY <1>5, <1>6, StoredNone
<1>8. Stored(host', writes') = host'
  BY <1>1, <1>3, <1>7
<1>9. Graphs(p', stack', env') = <<>>
  BY <1>1, <1>3
<1>10. Levels(p, <<>>, <<>>, host', host')
  BY EmptyLevels
<1>11. Levels(p, stack, env, Stored(host, writes), host)'
  BY <1>1, <1>3, <1>8, <1>10
<1>12. RestInv'
  <2>1. NotedInv(<<>>)'
    BY DEF NotedInv
  <2>2. NamesDistinct(p)'
    BY <1>1 DEF LInv, RestInv, NamesDistinct, PackedNames, NodesOf
  <2> QED BY <1>1, <1>3, <1>5, <2>1, <2>2 DEF RestInv
<1>13. RightCache(cache)'
  BY <1>1, StillRight
<1>14. Contract!Rebind
  <2>1. host' = [host EXCEPT ![x] = Contract!HostValue(x, n)]
    BY <1>2, SameOperators
  <2> QED BY <1>1, <1>3, <1>8, <1>9, <2>1 DEF Contract!Rebind
<1> QED BY <1>11, <1>12, <1>13, <1>14

-----------------------------------------------------------------------------
(* The refinement.                                                           *)

\* A step within a call.
LEMMA WithinCall ==
  ASSUME LInv, mode # "idle", UNCHANGED <<p, host, mode>>, NotedInv(writes'),
         writes' = writes \/ mode # "trace", RightCache(cache'),
         Levels(p, stack', env', Stored(host, writes'), host)
  PROVE  /\ RestInv' /\ RightCache(cache)'
         /\ Levels(p, stack, env, Stored(host, writes), host)'
<1>1. NotedInv(writes)'
  BY DEF NotedInv, Updates, NodesOf
<1>2. NamesDistinct(p)'
  BY DEF LInv, RestInv, NamesDistinct, PackedNames, NodesOf
<1>3. host' = [x \in CtxInputs |-> host'[x]]
  BY DEF LInv, RestInv
<1>4. mode' # "idle" /\ (mode' = "trace" => writes' = <<>>)
  BY DEF LInv, RestInv
<1>5. RestInv'
  BY <1>1, <1>2, <1>3, <1>4 DEF RestInv
<1>6. RightCache(cache)'
  BY DEF RightCache, PackedNames, NodesOf
<1> QED BY <1>5, <1>6

LEMMA LInvStart ==
  ASSUME SharedNames = FALSE, Init
  PROVE  LInv /\ Contract!CInit
<1>1. TInv
  BY TInvStart
<1>2. /\ p \in Programs /\ NamesDistinct(p) /\ cache = <<>> /\ results = <<>> /\ status = "none"
      /\ mode = "idle" /\ stack = <<>> /\ env = <<>> /\ writes = <<>>
  BY DEF Init
<1>3. PICK n \in [CtxInputs -> Numbers] : host = [x \in CtxInputs |-> HostValue(x, n[x])]
  BY DEF Init
<1>4. DOMAIN host = CtxInputs /\ host = [x \in CtxInputs |-> host[x]]
  BY <1>3
<1>5. Stored(host, <<>>) = host
  BY <1>4, StoredNone
<1>6. RestInv
  BY <1>2, <1>4 DEF RestInv, NotedInv
<1>7. RightCache(cache)
  <2>1. DOMAIN <<>> = {}
    OBVIOUS
  <2> QED BY <1>2, <2>1 DEF RightCache
<1>8. Levels(p, <<>>, <<>>, host, host) /\ Graphs(p, <<>>, <<>>) = <<>>
  BY EmptyLevels
<1>9. LInv
  BY <1>1, <1>2, <1>5, <1>6, <1>7, <1>8 DEF LInv
<1>10. Contract!CInit
  <2>1. host = [x \in CtxInputs |-> Contract!HostValue(x, n[x])]
    BY <1>3, SameOperators
  <2>2. Graphs(p, stack, env) = <<>> /\ Stored(host, writes) = host
    BY <1>2, <1>5, <1>8
  <2> QED BY <1>2, <2>1, <2>2 DEF Contract!CInit
<1> QED BY <1>9, <1>10

LEMMA LInvStep ==
  ASSUME LInv, [Next]_vars
  PROVE  LInv' /\ [Contract!CNext]_Contract!cvars
<1> DEFINE RightNext == /\ RestInv' /\ RightCache(cache)'
                        /\ Levels(p, stack, env, Stored(host, writes), host)'
<1>1. TInv'
  BY TInvStep DEF LInv
<1>2. RightCache(cache) /\ NotedInv(writes)
  BY DEF LInv, RestInv
<1>3. CASE Call
  <2>1. RightNext /\ Contract!Start
    BY <1>3, StartStep
  <2> QED BY <1>1, <2>1 DEF LInv, Contract!CNext
<1>4. CASE Translate
  <2>1. mode # "idle" /\ UNCHANGED <<p, host, mode>>
    BY <1>4 DEF Translate, InNode
  <2>2. RightCache(cache')
    BY <1>4, TranslateIs
  <2>3. CASE Node.kind = "Paged"
    <3>1. /\ Contract!Update /\ mode # "trace" /\ NotedInv(writes')
          /\ Levels(p, stack', env', Stored(host, writes'), host)
      BY <1>4, <2>3, UpdateStep
    <3>2. RightNext
      BY <2>1, <2>2, <3>1, WithinCall
    <3> QED BY <1>1, <3>1, <3>2 DEF LInv, Contract!CNext
  <2>4. CASE Node.kind # "Paged"
    <3>1. /\ Contract!Evaluate /\ writes' = writes
          /\ Levels(p, stack', env', Stored(host, writes'), host)
      BY <1>4, <2>4, EvaluateStep
    <3>2. NotedInv(writes')
      BY <1>2, <3>1
    <3>3. RightNext
      BY <2>1, <2>2, <3>1, <3>2, WithinCall
    <3> QED BY <1>1, <3>1, <3>3 DEF LInv, Contract!CNext
  <2> QED BY <2>3, <2>4
<1>5. CASE Branch
  <2>1. mode # "idle" /\ UNCHANGED <<p, cache, host, mode, writes>>
    BY <1>5 DEF Branch, InNode
  <2>2. Contract!Choose /\ Levels(p, stack', env', Stored(host, writes), host)
    BY <1>5, ChooseStep
  <2>3. /\ Levels(p, stack', env', Stored(host, writes'), host)
        /\ NotedInv(writes') /\ RightCache(cache')
    BY <1>2, <2>1, <2>2
  <2>4. RightNext
    BY <2>1, <2>3, WithinCall
  <2> QED BY <1>1, <2>2, <2>4 DEF LInv, Contract!CNext
<1>6. CASE Iterate
  <2>1. mode # "idle" /\ UNCHANGED <<p, host, mode, writes>>
    BY <1>6 DEF Iterate, InNode
  <2>2. /\ Contract!Repeat /\ RightCache(cache')
        /\ Levels(p, stack', env', Stored(host, writes), host)
    BY <1>6, RepeatStep
  <2>3. Levels(p, stack', env', Stored(host, writes'), host) /\ NotedInv(writes')
    BY <1>2, <2>1, <2>2
  <2>4. RightNext
    BY <2>1, <2>2, <2>3, WithinCall
  <2> QED BY <1>1, <2>2, <2>4 DEF LInv, Contract!CNext
<1>7. CASE EndBody
  <2>1. mode # "idle" /\ UNCHANGED <<p, cache, host, mode, writes>>
    BY <1>7 DEF EndBody, InEnd
  <2>2. Contract!Return /\ Levels(p, stack', env', Stored(host, writes), host)
    BY <1>7, ReturnStep
  <2>3. /\ Levels(p, stack', env', Stored(host, writes'), host)
        /\ NotedInv(writes') /\ RightCache(cache')
    BY <1>2, <2>1, <2>2
  <2>4. RightNext
    BY <2>1, <2>3, WithinCall
  <2> QED BY <1>1, <2>2, <2>4 DEF LInv, Contract!CNext
<1>8. CASE TranslateFails \/ ControlFails \/ EndBodyFails
  <2>1. Fails
    BY <1>8 DEF TranslateFails, ControlFails, EndBodyFails
  <2>2. RightNext /\ Contract!Fail
    BY <2>1, FailStep
  <2> QED BY <1>1, <2>2 DEF LInv, Contract!CNext
<1>9. CASE FinishBoundary
  <2>1. RightNext /\ Contract!Answer
    BY <1>9, AnswerStep
  <2> QED BY <1>1, <2>1 DEF LInv, Contract!CNext
<1>10. CASE Refill
  <2>1. RightNext /\ Contract!Rebind
    BY <1>10, RebindStep
  <2> QED BY <1>1, <2>1 DEF LInv, Contract!CNext
<1>11. CASE Done \/ UNCHANGED vars
  <2>1. UNCHANGED <<p, cache, host, results, mode, stack, env, writes, status>>
    BY <1>11 DEF Done, vars
  <2>2. RestInv'
    BY <2>1 DEF LInv, RestInv, NamesDistinct, PackedNames, NodesOf, NotedInv, Updates
  <2>3. RightCache(cache)'
    BY <2>1, StillRight
  <2>4. Graphs(p', stack', env') = Graphs(p, stack, env) /\ Stored(host', writes') = Stored(host, writes)
    BY <2>1
  <2>5. Levels(p, stack, env, Stored(host, writes), host)'
    BY <2>1, <2>4 DEF LInv
  <2>6. UNCHANGED Contract!cvars
    BY <2>1, <2>4 DEF Contract!cvars
  <2> QED BY <1>1, <2>2, <2>3, <2>5, <2>6 DEF LInv
<1> QED BY <1>3, <1>4, <1>5, <1>6, <1>7, <1>8, <1>9, <1>10, <1>11 DEF Next

\* Whatever the graph, the call and the failures: the translator's one flat map, in which
\* bodies shadow names and give them back, its cache of initializers that outlives the
\* calls and its list of updates that waits for the boundary evaluate the graph as
\* lexical scopes do, and a call that fails has changed no input (engine.rs:958-1031,
\* 1722-1790, 2086-2094).  The premise is that no two bodies name different packed
\* weights alike; without it the run `translate_names` has a counterexample.
THEOREM ScopesKept ==
  ASSUME SharedNames = FALSE
  PROVE  Spec => KeepsScopes
<1>1. Init => LInv /\ Contract!CInit
  BY LInvStart
<1>2. LInv /\ [Next]_vars => LInv' /\ [Contract!CNext]_Contract!cvars
  BY LInvStep
<1> QED BY <1>1, <1>2, PTL DEF Spec, KeepsScopes, Contract!CSpec
=============================================================================
