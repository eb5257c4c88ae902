-------------------------- MODULE SpecializeProofs --------------------------
(* Proofs about Specialize, for any nesting of control flow, any limit on   *)
(* specializations and any decisions.                                       *)
EXTENDS Specialize, FiniteSetTheorems, WellFoundedInduction, TLAPS

\* A set of numbers that is not empty has a least element.
LEMMA LeastNumber ==
  ASSUME NEW T \in SUBSET Nat, T # {}
  PROVE  \E x \in T : \A y \in T : x <= y
<1> DEFINE R == {p \in Nat \X Nat : p[1] < p[2]}
<1>1. IsWellFoundedOn(R, Nat)
  BY NatLessThanWellFounded DEF OpToRel
<1> HIDE DEF R
<1>2. PICK x \in T : \A y \in T : ~(<<y, x>> \in R)
  BY <1>1, WFMin
<1>3. \A y \in T : x <= y
  <2> TAKE y \in T
  <2>1. x \in Nat /\ y \in Nat /\ ~(y < x)
    BY <1>2 DEF R
  <2> QED BY <2>1
<1> QED BY <1>3

Before(i, d) == {j \in Decided(d) : j < i}

\* Two decided nodes never share an ordinal.
LEMMA OrdinalGrows ==
  ASSUME NEW d, NEW i \in Decided(d), NEW k \in Decided(d), i < k
  PROVE  /\ Ordinal(i, d) \in Nat /\ Ordinal(k, d) \in Nat
         /\ Ordinal(i, d) < Ordinal(k, d)
<1>1. Decided(d) \subseteq 1..M /\ IsFiniteSet(1..M)
  BY MAssumption, FS_Interval DEF Decided, Walked, Op
<1>2. IsFiniteSet(Before(k, d)) /\ IsFiniteSet(Before(i, d))
  BY <1>1, FS_Subset DEF Before
<1>3. Before(i, d) \subseteq Before(k, d)
  BY <1>1, MAssumption DEF Before
<1>4. i \in Before(k, d) /\ i \notin Before(i, d)
  BY <1>1, MAssumption DEF Before
<1>5. /\ Cardinality(Before(i, d)) <= Cardinality(Before(k, d))
      /\ Cardinality(Before(i, d)) # Cardinality(Before(k, d))
  BY <1>2, <1>3, <1>4, FS_Subset
<1>6. Cardinality(Before(i, d)) \in Nat /\ Cardinality(Before(k, d)) \in Nat
  BY <1>2, FS_CardinalityType
<1>7. /\ Ordinal(i, d) = Cardinality(Before(i, d))
      /\ Ordinal(k, d) = Cardinality(Before(k, d))
  BY DEF Ordinal, Before
<1> QED BY <1>5, <1>6, <1>7

LEMMA OrdinalInjective ==
  ASSUME NEW d, NEW i \in Decided(d), NEW k \in Decided(d),
         Ordinal(i, d) = Ordinal(k, d)
  PROVE  i = k
<1>1. i \in Int /\ k \in Int
  BY MAssumption DEF Decided, Walked, Op
<1>2. ~(i < k) /\ ~(k < i)
  <2>1. ~(i < k)
    <3>1. SUFFICES ASSUME i < k PROVE FALSE
      OBVIOUS
    <3> QED BY <3>1, OrdinalGrows
  <2>2. ~(k < i)
    <3>1. SUFFICES ASSUME k < i PROVE FALSE
      OBVIOUS
    <3> QED BY <3>1, OrdinalGrows
  <2> QED BY <2>1, <2>2
<1> QED BY <1>1, <1>2

\* The walk goes into the same bodies of a node that has the same entry.
LEMMA EntryDecidesBodies ==
  ASSUME NEW c, NEW d, NEW p \in Op \X Bodies,
         kind[p[1]] # "Scan" => Entry(p[1], c) = Entry(p[1], d)
  PROVE  Enters(p, c) <=> Enters(p, d)
<1>1. kind[p[1]] \in {"If", "Loop", "Scan"}
  BY KindAssumption
<1>2. CASE kind[p[1]] = "Scan"
  BY <1>2 DEF Enters
<1>3. CASE kind[p[1]] = "If"
  <2>1. c[p[1]].cond = d[p[1]].cond
    BY <1>3 DEF Entry
  <2> QED BY <1>3, <2>1 DEF Enters
<1>4. CASE kind[p[1]] = "Loop"
  <2>1. c[p[1]].cond = d[p[1]].cond /\ c[p[1]].trip = d[p[1]].trip
    BY <1>4 DEF Entry
  <2> QED BY <1>4, <2>1 DEF Enters
<1> QED BY <1>1, <1>2, <1>3, <1>4

\* Decisions c and d are told apart at node i: one walk meets it and the other
\* does not, or both do and read different values there.
Differ(c, d, i) ==
  \/ ~(i \in Walked(c) <=> i \in Walked(d))
  \/ i \in Decided(c) /\ Entry(i, c) # Entry(i, d)

\* If nothing before node i tells c from d, the walk of c meets i only if that
\* of d does.
LEMMA WalkAgrees ==
  ASSUME NEW c, NEW d, NEW i \in Walked(c),
         \A j \in Op : j < i => ~Differ(c, d, j)
  PROVE  i \in Walked(d)
<1>1. i \in Op
  BY DEF Walked
<1>2. ASSUME NEW p \in above[i] PROVE Enters(p, d)
  <2>1. /\ p \in Op \X Bodies
        /\ p[1] \in Op /\ p[1] < i
        /\ above[p[1]] \subseteq above[i]
    BY <1>1, <1>2, AboveAssumption
  <2>2. p[1] \in Walked(c)
    BY <2>1 DEF Walked
  <2>3. kind[p[1]] # "Scan" => Entry(p[1], c) = Entry(p[1], d)
    BY <2>1, <2>2 DEF Differ, Decided
  <2>4. Enters(p, c)
    BY <1>2 DEF Walked
  <2> QED BY <2>1, <2>3, <2>4, EntryDecidesBodies
<1> QED BY <1>1, <1>2 DEF Walked

LEMMA DifferSymmetric ==
  ASSUME NEW c, NEW d, NEW i, ~Differ(c, d, i)
  PROVE  ~Differ(d, c, i)
BY DEF Differ, Decided

\* Decisions with the same key are told apart nowhere.
LEMMA KeyDetermines ==
  ASSUME NEW c, NEW d, Key(c) = Key(d)
  PROVE  \A i \in Op : ~Differ(c, d, i)
<1> DEFINE T == {i \in Op : Differ(c, d, i)}
<1> SUFFICES ASSUME T # {} PROVE FALSE
  OBVIOUS
<1>1. T \subseteq Nat
  BY MAssumption DEF Op
<1>2. PICK i \in T : \A y \in T : i <= y
  BY <1>1, LeastNumber
<1>3. i \in Op /\ i \in Nat /\ Op \subseteq Nat
  BY <1>1, <1>2, MAssumption DEF Op
<1>4. \A j \in Op : j < i => ~Differ(c, d, j)
  BY <1>2, <1>3
<1>5. \A j \in Op : j < i => ~Differ(d, c, j)
  BY <1>4, DifferSymmetric
<1>6. i \in Walked(c) <=> i \in Walked(d)
  BY <1>4, <1>5, WalkAgrees
<1>7. i \in Decided(c) /\ i \in Decided(d) /\ Entry(i, c) # Entry(i, d)
  BY <1>2, <1>6 DEF Differ, Decided
<1>8. Before(i, c) = Before(i, d)
  <2>1. \A j \in Op : j < i => (j \in Decided(c) <=> j \in Decided(d))
    BY <1>4 DEF Differ, Decided
  <2>2. Decided(c) \subseteq Op /\ Decided(d) \subseteq Op
    BY DEF Decided, Walked
  <2> QED BY <2>1, <2>2 DEF Before
<1>9. Ordinal(i, c) = Ordinal(i, d)
  BY <1>8 DEF Ordinal, Before
<1>10. <<Ordinal(i, c), Entry(i, c)>> \in Key(d)
  BY <1>7 DEF Key
<1>11. PICK k \in Decided(d) :
         <<Ordinal(i, c), Entry(i, c)>> = <<Ordinal(k, d), Entry(k, d)>>
  BY <1>10 DEF Key
<1>12. Ordinal(k, d) = Ordinal(i, d) /\ Entry(k, d) = Entry(i, c)
  BY <1>9, <1>11
<1>13. k = i
  BY <1>7, <1>12, OrdinalInjective
<1> QED BY <1>7, <1>12, <1>13

\* What a translation unrolls depends on the key and the shapes only.
THEOREM KeyUnrolls ==
  ASSUME NEW s, NEW c, NEW d, Key(c) = Key(d)
  PROVE  Unrolled(s, c) = Unrolled(s, d)
<1>1. \A i \in Op : ~Differ(c, d, i) /\ ~Differ(d, c, i)
  BY KeyDetermines
<1>2. Ran(s, c) \subseteq Walked(c) /\ Ran(s, d) \subseteq Walked(d)
  BY DEF Ran, Walked
<1>3. Walked(c) \subseteq Op /\ Walked(d) \subseteq Op
  BY DEF Walked
<1>4. Walked(c) = Walked(d)
  BY <1>1, <1>3 DEF Differ
<1>5. Ran(s, c) = Ran(s, d)
  BY <1>2, <1>4 DEF Ran, Walked
<1>6. ASSUME NEW i \in Ran(s, c) PROVE Times(i, s, c) = Times(i, s, d)
  <2>1. i \in Op /\ i \in Walked(c)
    BY <1>2, <1>3
  <2>2. CASE kind[i] = "Scan"
    BY <2>2 DEF Times
  <2>3. CASE kind[i] # "Scan"
    <3>1. Entry(i, c) = Entry(i, d)
      BY <1>1, <2>1, <2>3 DEF Differ, Decided
    <3>2. CASE kind[i] = "Loop"
      <4>1. c[i].cond = d[i].cond /\ c[i].trip = d[i].trip
        BY <3>1, <3>2 DEF Entry
      <4> QED BY <3>2, <4>1 DEF Times
    <3>3. CASE kind[i] = "If"
      <4>1. c[i].cond = d[i].cond
        BY <3>1, <3>3 DEF Entry
      <4> QED BY <3>3, <4>1 DEF Times
    <3> QED BY <2>1, <2>3, <3>2, <3>3, KindAssumption
  <2> QED BY <2>2, <2>3
<1> QED BY <1>5, <1>6 DEF Unrolled

-----------------------------------------------------------------------------
(* ReplayIsCurrent is not inductive: it says nothing of the traces a later   *)
(* call may be served.  TraceInv does, and rests on TokenInv.                *)

\* Tokens are numbered in the order they are handed out, and never shared.
TokenInv ==
  /\ IsFiniteSet(DOMAIN specs)
  /\ Cardinality(DOMAIN specs) <= Cap
  /\ specs \in [DOMAIN specs -> 1..Cardinality(DOMAIN specs)]
  /\ \A j, k \in DOMAIN specs : specs[j] = specs[k] => j = k
  /\ DOMAIN specs \subseteq {Key(d) : d \in Decisions} \ {{}}

HeldToken(d) == IF Key(d) = {} THEN 0 ELSE specs[Key(d)]

\* A trace is what every decision with its token unrolls to.
TraceInv ==
  \A t \in DOMAIN traces :
    /\ t \in Lengths \X (0..Cardinality(DOMAIN specs))
    /\ \A d \in Decisions :
         Known(d) /\ HeldToken(d) = t[2] => traces[t] = Unrolled(t[1], d)

LastInv ==
  /\ slot \in {"untried", "valid", "off"}
  /\ last.status \in {"none", "ok", "refused", "fail"}
  /\ last.status # "none" => last.len \in Lengths /\ last.d \in Decisions

IInv == TokenInv /\ TraceInv /\ LastInv /\ ReplayIsCurrent /\ TracesReadable

\* What handing out the token of a call does to the tokens.
TokenStep(d) ==
  /\ DOMAIN specs \subseteq DOMAIN specs'
  /\ \A k \in DOMAIN specs : specs'[k] = specs[k]
  /\ \A k \in DOMAIN specs' : k \notin DOMAIN specs => specs'[k] > Cardinality(DOMAIN specs)
  /\ Cardinality(DOMAIN specs) <= Cardinality(DOMAIN specs')
  /\ Known(d)'
  /\ Token(d) = HeldToken(d)'

LEMMA TokenAssigned ==
  ASSUME TokenInv, NEW d \in Decisions, Keyed(d), specs' = Specialized(d)
  PROVE  TokenInv' /\ TokenStep(d)
<1> DEFINE n == Cardinality(DOMAIN specs)
<1>1. n \in Nat
  BY FS_CardinalityType DEF TokenInv
<1>2. CASE Known(d)
  <2>1. specs' = specs
    BY <1>2 DEF Specialized
  <2>2. TokenInv'
    BY <2>1 DEF TokenInv
  <2>3. Known(d)' /\ Token(d) = HeldToken(d)'
    BY <1>2, <2>1 DEF Known, Token, HeldToken, Specialized
  <2> QED BY <1>1, <2>1, <2>2, <2>3 DEF TokenStep
<1>3. CASE ~Known(d)
  <2>1. Key(d) # {} /\ Key(d) \notin DOMAIN specs /\ n < Cap
    BY <1>3 DEF Known, Keyed
  <2>2. /\ DOMAIN specs' = DOMAIN specs \cup {Key(d)}
        /\ \A k \in DOMAIN specs : specs'[k] = specs[k]
        /\ specs'[Key(d)] = n + 1
        /\ specs' = [k \in DOMAIN specs' |-> specs'[k]]
    BY <1>3, <2>1 DEF Specialized
  <2>3. IsFiniteSet(DOMAIN specs') /\ Cardinality(DOMAIN specs') = n + 1
    BY <2>1, <2>2, FS_AddElement DEF TokenInv
  <2>4. \A k \in DOMAIN specs : specs[k] \in 1..n
    BY DEF TokenInv
  <2> HIDE DEF n
  <2>5. \A k \in DOMAIN specs' : specs'[k] \in 1..(n + 1)
    BY <1>1, <2>2, <2>4
  <2>6. \A j, k \in DOMAIN specs' : specs'[j] = specs'[k] => j = k
    BY <1>1, <2>2, <2>4 DEF TokenInv
  <2>7. DOMAIN specs' \subseteq {Key(e) : e \in Decisions} \ {{}}
    BY <2>1, <2>2 DEF TokenInv
  <2>8. n + 1 <= Cap
    BY <1>1, <2>1, CapAssumption
  <2>9. specs' \in [DOMAIN specs' -> 1..(n + 1)]
    BY <2>2, <2>5
  <2>10. TokenInv'
    BY <2>3, <2>6, <2>7, <2>8, <2>9 DEF TokenInv
  <2>11. Known(d)' /\ Token(d) = HeldToken(d)'
    BY <2>1, <2>2 DEF Known, Token, HeldToken
  <2>12. TokenStep(d)
    BY <1>1, <2>2, <2>3, <2>11 DEF TokenStep, n
  <2> QED BY <2>10, <2>12
<1> QED BY <1>2, <1>3

\* A fresh token has no traces, so the traces stay those of their tokens.
LEMMA TracesStay ==
  ASSUME TokenInv, TokenInv', TraceInv, NEW d, TokenStep(d), NEW t \in DOMAIN traces
  PROVE  /\ t \in Lengths \X (0..Cardinality(DOMAIN specs'))
         /\ \A c \in Decisions :
              Known(c)' /\ HeldToken(c)' = t[2] => traces[t] = Unrolled(t[1], c)
<1>1. /\ Cardinality(DOMAIN specs) \in Nat
      /\ Cardinality(DOMAIN specs') \in Nat
      /\ Cardinality(DOMAIN specs) <= Cardinality(DOMAIN specs')
  BY FS_CardinalityType DEF TokenInv, TokenStep
<1>2. t \in Lengths \X (0..Cardinality(DOMAIN specs))
  BY DEF TraceInv
<1>3. t[2] \in Nat /\ t[2] <= Cardinality(DOMAIN specs)
  BY <1>1, <1>2
<1>4. ASSUME NEW c \in Decisions, Known(c)', HeldToken(c)' = t[2]
      PROVE  traces[t] = Unrolled(t[1], c)
  <2>1. Known(c) /\ HeldToken(c) = t[2]
    <3>1. CASE Key(c) = {}
      BY <1>4, <3>1 DEF Known, HeldToken
    <3>2. CASE Key(c) \in DOMAIN specs
      BY <1>4, <3>2 DEF Known, HeldToken, TokenStep
    <3>3. CASE Key(c) # {} /\ Key(c) \notin DOMAIN specs
      <4>1. Key(c) \in DOMAIN specs' /\ specs'[Key(c)] = t[2]
        BY <1>4, <3>3 DEF Known, HeldToken
      <4>2. t[2] > Cardinality(DOMAIN specs)
        BY <3>3, <4>1 DEF TokenStep
      <4> QED BY <1>1, <1>3, <4>2
    <3> QED BY <3>1, <3>2, <3>3
  <2> QED BY <2>1 DEF TraceInv
<1> QED BY <1>1, <1>2, <1>4

\* Decisions that hold the same token have the same key.
LEMMA TokenDetermines ==
  ASSUME TokenInv', NEW c, NEW d, Known(c)', Known(d)', HeldToken(c)' = HeldToken(d)'
  PROVE  Key(c) = Key(d)
<1>1. \A k \in DOMAIN specs' : specs'[k] # 0
  <2>1. Cardinality(DOMAIN specs') \in Nat
    BY FS_CardinalityType DEF TokenInv
  <2> QED BY <2>1 DEF TokenInv
<1>2. CASE Key(c) = {}
  BY <1>1, <1>2 DEF Known, HeldToken
<1>3. CASE Key(d) = {}
  BY <1>1, <1>3 DEF Known, HeldToken
<1>4. CASE Key(c) # {} /\ Key(d) # {}
  BY <1>4 DEF Known, HeldToken, TokenInv
<1> QED BY <1>2, <1>3, <1>4

LEMMA InitInv == Init => IInv
<1> SUFFICES ASSUME Init PROVE IInv
  OBVIOUS
<1>1. DOMAIN specs = {} /\ DOMAIN traces = {}
  BY DEF Init
<1>2. TokenInv
  BY <1>1, FS_EmptySet, CapAssumption DEF TokenInv, Init
<1> QED BY <1>1, <1>2 DEF Init, IInv, TraceInv, LastInv, ReplayIsCurrent, TracesReadable

\* An eager answer is current by itself.
LEMMA EagerIsCurrent ==
  ASSUME NEW s \in Lengths, NEW d \in Decisions, Eagerly(s, d)
  PROVE  /\ last'.status \in {"ok", "refused"}
         /\ last'.len = s /\ last'.d = d /\ last'.graph = Unrolled(s, d)
BY DEF Eagerly, Answer

\* A call that keeps traces and answers for its own decisions keeps IInv.
LEMMA QuietStep ==
  ASSUME IInv, NEW s \in Lengths, NEW d \in Decisions,
         specs' = specs \/ (Keyed(d) /\ specs' = Specialized(d)),
         slot' \in {"untried", "valid", "off"},
         traces' = traces,
         last'.status \in {"ok", "refused", "fail"},
         last'.len = s, last'.d = d,
         last'.status = "ok" => last'.graph = Unrolled(s, d)
  PROVE  IInv'
<1>1. TokenInv' /\ TraceInv'
  <2>1. CASE specs' = specs
    BY <2>1 DEF IInv, TokenInv, TraceInv, Known, HeldToken
  <2>2. CASE Keyed(d) /\ specs' = Specialized(d)
    <3>1. TokenInv' /\ TokenStep(d)
      BY <2>2, TokenAssigned DEF IInv
    <3>2. TraceInv'
      BY <3>1, TracesStay DEF IInv, TraceInv
    <3> QED BY <3>1, <3>2
  <2> QED BY <2>1, <2>2
<1>2. LastInv' /\ ReplayIsCurrent' /\ TracesReadable'
  BY DEF IInv, LastInv, ReplayIsCurrent, TracesReadable
<1> QED BY <1>1, <1>2 DEF IInv

LEMMA StepInv == IInv /\ [Next]_vars => IInv'
<1> SUFFICES ASSUME IInv, [Next]_vars PROVE IInv'
  OBVIOUS
<1>1. ASSUME NEW s \in Lengths, NEW d \in Decisions, Unkeyed(s, d)
      PROVE  IInv'
  <2>1. slot' = slot /\ specs' = specs /\ traces' = traces /\ Eagerly(s, d)
    BY <1>1 DEF Unkeyed
  <2> QED BY <2>1, EagerIsCurrent, QuietStep DEF IInv, LastInv
<1>2. ASSUME NEW s \in Lengths, NEW d \in Decisions, Decline(s, d)
      PROVE  IInv'
  <2>1. /\ Keyed(d) /\ specs' = Specialized(d) /\ traces' = traces
        /\ slot' \in {"valid", "off"} /\ Eagerly(s, d)
    BY <1>2 DEF Decline
  <2> QED BY <2>1, EagerIsCurrent, QuietStep
<1>3. ASSUME NEW s \in Lengths, NEW d \in Decisions, Replay(s, d)
      PROVE  IInv'
  <2>1. /\ Keyed(d) /\ specs' = Specialized(d) /\ traces' = traces /\ slot' = "valid"
        /\ <<s, Token(d)>> \in DOMAIN traces
        /\ Answer(s, d, traces[<<s, Token(d)>>], "ok")
    BY <1>3 DEF Replay, Applies
  <2>2. TokenInv' /\ TokenStep(d)
    BY <2>1, TokenAssigned DEF IInv
  <2>3. traces[<<s, Token(d)>>] = Unrolled(s, d)
    <3>1. Known(d)' /\ HeldToken(d)' = <<s, Token(d)>>[2] /\ <<s, Token(d)>>[1] = s
      BY <2>2 DEF TokenStep
    <3> QED BY <2>1, <2>2, <3>1, TracesStay DEF IInv
  <2>4. last'.status = "ok" /\ last'.len = s /\ last'.d = d /\ last'.graph = Unrolled(s, d)
    BY <2>1, <2>3 DEF Answer
  <2> QED BY <2>1, <2>4, QuietStep
<1>4. ASSUME NEW s \in Lengths, NEW d \in Decisions, Trace(s, d)
      PROVE  IInv'
  <2> DEFINE t0 == <<s, Token(d)>>
  <2>1. /\ Keyed(d) /\ specs' = Specialized(d) /\ slot' = "valid"
        /\ t0 \notin DOMAIN traces
        /\ Answer(s, d, Unrolled(s, d), "ok")
    BY <1>4 DEF Trace, Applies
  <2>2. /\ DOMAIN traces' = DOMAIN traces \cup {t0}
        /\ \A t \in DOMAIN traces : traces'[t] = traces[t]
        /\ traces'[t0] = Unrolled(s, d)
    BY <1>4 DEF Trace
  <2>3. TokenInv' /\ TokenStep(d)
    BY <2>1, TokenAssigned DEF IInv
  <2>4. t0 \in Lengths \X (0..Cardinality(DOMAIN specs'))
    <3>1. Cardinality(DOMAIN specs') \in Nat
      BY <2>3, FS_CardinalityType DEF TokenInv
    <3>2. HeldToken(d)' \in 0..Cardinality(DOMAIN specs')
      BY <2>3, <3>1 DEF TokenStep, TokenInv, Known, HeldToken
    <3> QED BY <2>3, <3>2 DEF TokenStep
  <2>5. ASSUME NEW c \in Decisions, Known(c)', HeldToken(c)' = t0[2]
        PROVE  Unrolled(s, d) = Unrolled(s, c)
    <3>1. Known(d)' /\ HeldToken(c)' = HeldToken(d)'
      BY <2>3, <2>5 DEF TokenStep
    <3>2. Key(c) = Key(d)
      BY <2>3, <2>5, <3>1, TokenDetermines
    <3> QED BY <3>2, KeyUnrolls
  <2>6. TraceInv'
    <3>1. \A t \in DOMAIN traces :
            /\ t \in Lengths \X (0..Cardinality(DOMAIN specs'))
            /\ \A c \in Decisions :
                 Known(c)' /\ HeldToken(c)' = t[2] => traces[t] = Unrolled(t[1], c)
      BY <2>3, TracesStay DEF IInv
    <3>2. t0[1] = s
      OBVIOUS
    <3> HIDE DEF t0
    <3> QED BY <2>2, <2>4, <2>5, <3>1, <3>2 DEF TraceInv
  <2>7. TracesReadable'
    <3>1. DOMAIN Unrolled(s, d) \subseteq Walked(d)
      BY DEF Unrolled, Ran, Walked
    <3>2. \A i \in DOMAIN Unrolled(s, d) : kind[i] # "Scan" => Readable(i)
      BY <2>1, <3>1 DEF Keyed, Decided
    <3> HIDE DEF t0
    <3> QED BY <2>2, <3>2 DEF IInv, TracesReadable
  <2>8. LastInv' /\ ReplayIsCurrent'
    BY <2>1 DEF Answer, LastInv, ReplayIsCurrent
  <2> QED BY <2>3, <2>6, <2>7, <2>8 DEF IInv
<1>5. ASSUME NEW s \in Lengths, NEW d \in Decisions, ApplyFails(s, d)
      PROVE  IInv'
  <2>1. /\ Keyed(d) /\ specs' = Specialized(d) /\ traces' = traces
        /\ slot' = "off" /\ Eagerly(s, d)
    BY <1>5 DEF ApplyFails, Applies
  <2> QED BY <2>1, EagerIsCurrent, QuietStep
<1>6. ASSUME NEW s \in Lengths, NEW d \in Decisions, ReadFails(s, d)
      PROVE  IInv'
  <2>1. /\ Keyed(d) /\ specs' = Specialized(d) /\ traces' = traces /\ slot' = "valid"
        /\ last'.status = "fail" /\ last'.len = s /\ last'.d = d
    BY <1>6 DEF ReadFails, Answer
  <2> QED BY <2>1, QuietStep
<1>7. CASE UNCHANGED vars
  BY <1>7 DEF vars, IInv, TokenInv, TraceInv, LastInv, ReplayIsCurrent, TracesReadable,
              Known, HeldToken
<1> QED BY <1>1, <1>2, <1>3, <1>4, <1>5, <1>6, <1>7 DEF Next

LEMMA Invariant == Spec => []IInv
BY InitInv, StepInv, PTL DEF Spec

\* Specialize is type correct for every nesting and every limit.
THEOREM TypeCorrect == Spec => []TypeOK
<1>1. IInv => TypeOK
  <2> SUFFICES ASSUME IInv PROVE TypeOK
    OBVIOUS
  <2>1. Cardinality(DOMAIN specs) \in Nat /\ Cardinality(DOMAIN specs) <= Cap
    BY FS_CardinalityType DEF IInv, TokenInv
  <2>2. specs \in [DOMAIN specs -> 1..Cap]
    <3>1. specs = [k \in DOMAIN specs |-> specs[k]]
      BY DEF IInv, TokenInv
    <3>2. \A k \in DOMAIN specs : specs[k] \in 1..Cap
      BY <2>1, CapAssumption DEF IInv, TokenInv
    <3> QED BY <3>1, <3>2
  <2>3. DOMAIN traces \subseteq Lengths \X (0..Cap)
    BY <2>1, CapAssumption DEF IInv, TraceInv
  <2> QED BY <2>2, <2>3 DEF IInv, TokenInv, LastInv, TypeOK
<1> QED BY <1>1, Invariant, PTL

\* A call that succeeds evaluates the graph its own decisions unroll to, never
\* one traced under others (compiled.rs:202-205).
THEOREM ReplaysAreCurrent == Spec => []ReplayIsCurrent
<1>1. IInv => ReplayIsCurrent
  BY DEF IInv
<1> QED BY <1>1, Invariant, PTL

\* Every kept trace was made under decisions the host can read.
THEOREM KeptTracesReadable == Spec => []TracesReadable
<1>1. IInv => TracesReadable
  BY DEF IInv
<1> QED BY <1>1, Invariant, PTL

=============================================================================
