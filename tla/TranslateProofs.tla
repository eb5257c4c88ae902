--------------------------- MODULE TranslateProofs ---------------------------
(* Proofs about Translate, for any graphs ONNX allows, nested two deep, any  *)
(* boundary inputs and any number of calls.                                  *)
EXTENDS Translate, SequenceTheorems, WellFoundedInduction, TLAPS

-----------------------------------------------------------------------------
(* Numbers and recursion. *)

\* A set of numbers that is not empty has a least element.
LEMMA LeastNumber ==
  ASSUME NEW T \in SUBSET Nat, T # {}
  PROVE  \E x \in T : \A y \in T : x <= y
<1> DEFINE R == {q \in Nat \X Nat : q[1] < q[2]}
<1>1. IsWellFoundedOn(R, Nat)
  BY NatLessThanWellFounded DEF OpToRel
<1> HIDE DEF R
<1>2. PICK x \in T : \A y \in T : ~(<<y, x>> \in R)
  BY <1>1, WFMin
<1>3. \A y \in T : x <= y
  <2> TAKE y \in T
  <2>1. x \in Nat /\ y \in Nat /\ ~(y < x)
    BY <1>2 DEF R
  <2> QED BY <2>1
<1> QED BY <1>3

\* A bounded set of numbers has a greatest element.
LEMMA GreatestNumber ==
  ASSUME NEW n \in Nat, NEW T \in SUBSET (1..n), T # {}
  PROVE  Max(T) \in T /\ \A y \in T : Max(T) >= y
<1> DEFINE R == {q \in Nat : \A y \in T : y <= q}
<1>1. R \in SUBSET Nat /\ n \in R
  OBVIOUS
<1>2. PICK x \in R : \A y \in R : x <= y
  BY <1>1, LeastNumber
<1>3. x \in Nat /\ \A y \in T : y <= x
  BY <1>2
<1>4. x \in T
  <2>1. SUFFICES ASSUME x \notin T PROVE FALSE
    OBVIOUS
  <2>2. \A y \in T : y \in 1..n /\ y <= x /\ y # x
    BY <1>3, <2>1
  <2>3. x - 1 \in Nat
    <3>1. PICK y \in T : TRUE
      OBVIOUS
    <3>2. y \in Nat /\ 1 <= y /\ y <= x
      BY <2>2, <3>1
    <3> QED BY <1>3, <3>2
  <2>4. x - 1 \in R
    BY <1>3, <2>2, <2>3
  <2>5. x <= x - 1
    BY <1>2, <2>4
  <2> QED BY <1>3, <2>3, <2>5
<1>5. \A y \in T : x >= y
  BY <1>3
<1> QED BY <1>4, <1>5 DEF Max

\* What is given for the first of n + 1 and stepwise for the others exists.
Recurs(f, n, D, first, step) ==
  /\ f \in [1..(n + 1) -> D]
  /\ f[1] = first
  /\ \A i \in 1..n : f[i + 1] = step[<<i, f[i]>>]

LEMMA Recursion ==
  ASSUME NEW n \in Nat, NEW D, NEW first \in D, NEW step \in [(1..n) \X D -> D]
  PROVE  \E f : Recurs(f, n, D, first, step)
<1> DEFINE Upto(m) == \E f : Recurs(f, m, D, first, step)
<1> DEFINE Bad == {m \in 0..n : ~Upto(m)}
<1>1. SUFFICES Bad = {}
  <2>1. Upto(n)
    <3>1. n \in 0..n
      OBVIOUS
    <3> HIDE DEF Upto
    <3> QED BY <1>1, <3>1
  <2> QED BY <2>1
<1>2. SUFFICES ASSUME Bad # {} PROVE FALSE
  OBVIOUS
<1>3. Bad \in SUBSET Nat
  OBVIOUS
<1> HIDE DEF Bad
<1>4. PICK m \in Bad : \A y \in Bad : m <= y
  BY <1>2, <1>3, LeastNumber
<1>5. m \in 0..n /\ ~Upto(m)
  BY <1>4 DEF Bad
<1>6. CASE m = 0
  <2> DEFINE f == [i \in 1..(m + 1) |-> first]
  <2>1. f \in [1..(m + 1) -> D] /\ f[1] = first /\ 1..m = {}
    BY <1>6
  <2>2. Recurs(f, m, D, first, step)
    BY <2>1 DEF Recurs
  <2> QED BY <1>5, <2>2
<1>7. CASE m # 0
  <2>1. m - 1 \in 0..n /\ m - 1 < m /\ m \in 1..n
    BY <1>5, <1>7
  <2>2. Upto(m - 1)
    <3>1. m - 1 \notin Bad
      <4>1. m \in Int /\ ~(m <= m - 1)
        BY <1>5
      <4> QED BY <1>4, <4>1
    <3> HIDE DEF Upto
    <3> QED BY <2>1, <3>1 DEF Bad
  <2>3. PICK f \in [1..m -> D] :
               f[1] = first /\ \A i \in 1..(m - 1) : f[i + 1] = step[<<i, f[i]>>]
    <3>1. PICK f : Recurs(f, m - 1, D, first, step)
      BY <2>2
    <3>2. m - 1 + 1 = m
      BY <2>1
    <3>3. f \in [1..m -> D] /\ f[1] = first /\ \A i \in 1..(m - 1) : f[i + 1] = step[<<i, f[i]>>]
      BY <3>1, <3>2 DEF Recurs
    <3> QED BY <3>3
  <2> DEFINE h == [i \in 1..(m + 1) |-> IF i = m + 1 THEN step[<<m, f[m]>>] ELSE f[i]]
  <2>4. step[<<m, f[m]>>] \in D
    BY <2>1, <2>3
  <2>5. h \in [1..(m + 1) -> D]
    BY <2>1, <2>3, <2>4
  <2>6. h[1] = first
    BY <2>1, <2>3
  <2>7. \A i \in 1..m : h[i + 1] = step[<<i, h[i]>>]
    <3>1. ASSUME NEW i \in 1..m PROVE h[i + 1] = step[<<i, h[i]>>]
      <4>1. h[i] = f[i] /\ i + 1 \in 1..(m + 1)
        BY <2>1
      <4>2. CASE i = m
        BY <2>1, <4>1, <4>2
      <4>3. CASE i # m
        <5>1. i \in 1..(m - 1) /\ i + 1 # m + 1
          BY <2>1, <4>3
        <5>2. h[i + 1] = f[i + 1]
          BY <4>1, <5>1
        <5> QED BY <2>3, <4>1, <5>1, <5>2
      <4> QED BY <4>2, <4>3
    <3> QED BY <3>1
  <2> HIDE DEF h
  <2>8. Recurs(h, m, D, first, step)
    BY <2>5, <2>6, <2>7 DEF Recurs
  <2> QED BY <1>5, <2>8
<1> QED BY <1>6, <1>7

-----------------------------------------------------------------------------
(* Scopes and the plan. *)

USE DEF Scopes

LEMMA ScopeFacts ==
  /\ \A s \in Scopes : Parent(s) \in {"root", "then"} /\ Outer(s) \subseteq Scopes
  /\ \A s \in Scopes : Within(s) \subseteq Scopes /\ s \in Within(s)
  /\ \A s \in Scopes : \A t \in Outer(s) : Outer(t) \subseteq Outer(s) /\ s \notin Outer(t)
BY DEF Parent, Outer, Within

\* The scope an initializer comes from bears it.
LEMMA BearerFound ==
  ASSUME NEW g, NEW s \in Scopes, NEW x, InitScopeOf(g, s, x) # "none"
  PROVE  InitScopeOf(g, s, x) \in Within(s) /\ x \in DOMAIN g.inits[InitScopeOf(g, s, x)]
<1> DEFINE bearers == {t \in Within(s) : x \in DOMAIN g.inits[t]}
<1>1. bearers # {} /\ InitScopeOf(g, s, x) = CHOOSE t \in bearers : bearers \subseteq Within(t)
  BY DEF InitScopeOf
<1>2. \E t \in bearers : bearers \subseteq Within(t)
  BY <1>1 DEF Within, Outer, Parent
<1> HIDE DEF bearers
<1>3. InitScopeOf(g, s, x) \in bearers
  BY <1>1, <1>2
<1> QED BY <1>3 DEF bearers

\* A name some scope from s outwards gives a value to is found there.
LEMMA BearerSought ==
  ASSUME NEW g, NEW s \in Scopes, NEW x, NEW t \in Within(s), x \in DOMAIN g.inits[t]
  PROVE  InitScopeOf(g, s, x) # "none"
<1> DEFINE bearers == {r \in Within(s) : x \in DOMAIN g.inits[r]}
<1>1. bearers # {} /\ InitScopeOf(g, s, x) = CHOOSE r \in bearers : bearers \subseteq Within(r)
  BY DEF InitScopeOf
<1>2. \E r \in bearers : bearers \subseteq Within(r)
  BY <1>1 DEF Within, Outer, Parent
<1> HIDE DEF bearers
<1>3. InitScopeOf(g, s, x) \in bearers
  BY <1>1, <1>2
<1> QED BY <1>3, ScopeFacts DEF bearers

\* The names fixed after node k of scope s, from those fixed before it.
After(g, s, k, fixed) ==
  fixed \cup (IF Derives(g, s, g.nodes[s][k], fixed) THEN Range(g.nodes[s][k].outs) ELSE {})

\* The marking of one scope, node by node.
LEMMA MarkedStep ==
  ASSUME NEW g, Typed(g), NEW s \in Scopes, NEW start
  PROVE  /\ Marked(g, s, start)[1] = start
         /\ \A k \in DOMAIN g.nodes[s] :
              Marked(g, s, start)[k + 1] = After(g, s, k, Marked(g, s, start)[k])
<1> DEFINE size == Len(g.nodes[s])
           Sets == SUBSET (start \cup Produced(g, s))
           after(i, d) == d \cup (IF Derives(g, s, g.nodes[s][i], d)
                                  THEN Range(g.nodes[s][i].outs) ELSE {})
           rule == [w \in (1..size) \X Sets |-> after(w[1], w[2])]
           body(f) == [i \in 1..(size + 1) |-> IF i = 1 THEN start ELSE after(i - 1, f[i - 1])]
<1>1. size \in Nat /\ DOMAIN g.nodes[s] = 1..size
  BY DEF Typed
<1>2. start \in Sets
  OBVIOUS
<1>3. \A i \in 1..size, d \in Sets : after(i, d) \in Sets
  <2>1. \A i \in 1..size : Range(g.nodes[s][i].outs) \subseteq Produced(g, s)
    BY <1>1 DEF Produced, NodesOf, Range
  <2> QED BY <2>1
<1> HIDE DEF size, Sets, after
<1>4. rule \in [(1..size) \X Sets -> Sets]
  BY <1>3
<1>5. \A i \in 1..size, d \in Sets : rule[<<i, d>>] = after(i, d)
  OBVIOUS
<1> HIDE DEF rule, body
<1>6. PICK f : Recurs(f, size, Sets, start, rule)
  BY <1>1, <1>2, <1>4, Recursion
<1>6a. /\ f \in [1..(size + 1) -> Sets] /\ f[1] = start
       /\ \A i \in 1..size : f[i + 1] = rule[<<i, f[i]>>]
  BY <1>6 DEF Recurs
<1>7. f = body(f)
  <2>1. \A i \in 1..(size + 1) : f[i] = body(f)[i]
    <3>1. ASSUME NEW i \in 1..(size + 1), i # 1 PROVE f[i] = after(i - 1, f[i - 1])
      <4>1. i - 1 \in 1..size /\ i - 1 + 1 = i /\ i - 1 \in 1..(size + 1)
        BY <1>1, <3>1
      <4>2. f[i - 1] \in Sets
        BY <1>6a, <4>1
      <4> QED BY <1>5, <1>6a, <4>1, <4>2
    <3> QED BY <1>6a, <3>1 DEF body
  <2> QED BY <1>6a, <2>1 DEF body
<1>8. Marked(g, s, start) = CHOOSE h : h = body(h)
  BY DEF Marked, size, after, body
<1>9. Marked(g, s, start) = body(Marked(g, s, start))
  BY <1>7, <1>8
<1> DEFINE m == Marked(g, s, start)
<1> HIDE DEF m
<1>10. m = body(m)
  BY <1>9 DEF m
<1>11. m[1] = start
  <2>1. body(m)[1] = start
    BY <1>1 DEF body
  <2> QED BY <1>10, <2>1
<1>12. \A k \in 1..size : m[k + 1] = after(k, m[k])
  <2>1. ASSUME NEW k \in 1..size PROVE m[k + 1] = after(k, m[k])
    <3>1. k + 1 \in 1..(size + 1) /\ k + 1 # 1 /\ k + 1 - 1 = k
      BY <1>1
    <3>2. body(m)[k + 1] = after(k + 1 - 1, m[k + 1 - 1])
      BY <3>1 DEF body
    <3>3. body(m)[k + 1] = after(k, m[k])
      BY <3>1, <3>2
    <3> QED BY <1>10, <3>3
  <2> QED BY <2>1
<1>13. \A k \in 1..size : \A d : after(k, d) = After(g, s, k, d)
  BY DEF after, After
<1> QED BY <1>1, <1>11, <1>12, <1>13 DEF m

\* The marking of every scope from that of the scope around it.
LEMMA FixedIs ==
  ASSUME NEW g, NEW s \in Scopes
  PROVE  Fixed(g)[s] =
           Marked(g, s, IF s = "root" THEN DOMAIN g.inits[s]
                        ELSE Fixed(g)[Parent(s)][CallerOf(g, s)] \ Rebound(g, s))
<1> DEFINE inherited(r, outer) == outer[CallerOf(g, r)] \ Rebound(g, r)
           rule(f) == [r \in Scopes |->
                         Marked(g, r, IF r = "root" THEN DOMAIN g.inits[r]
                                      ELSE inherited(r, f[Parent(r)]))]
           fRoot == Marked(g, "root", DOMAIN g.inits["root"])
           fThen == Marked(g, "then", inherited("then", fRoot))
           fElse == Marked(g, "else", inherited("else", fRoot))
           fInner == Marked(g, "inner", inherited("inner", fThen))
           all == [r \in Scopes |-> CASE r = "root" -> fRoot [] r = "then" -> fThen
                                      [] r = "else" -> fElse [] OTHER -> fInner]
<1>1. Fixed(g) = CHOOSE f : f = rule(f)
  BY DEF Fixed
<1> HIDE DEF inherited
<1>2. /\ all["root"] = fRoot /\ all["then"] = fThen /\ all["else"] = fElse
      /\ all["inner"] = fInner
  OBVIOUS
<1>3. all = rule(all)
  <2> HIDE DEF all
  <2>1. /\ rule(all)["root"] = fRoot /\ rule(all)["then"] = fThen /\ rule(all)["else"] = fElse
        /\ rule(all)["inner"] = fInner
    BY <1>2 DEF Parent
  <2>2. \A r \in Scopes : all[r] = rule(all)[r]
    <3> HIDE DEF rule, fRoot, fThen, fElse, fInner
    <3> QED BY <1>2, <2>1
  <2>3. DOMAIN all = Scopes /\ all = [r \in Scopes |-> all[r]]
    BY DEF all
  <2> QED BY <2>2, <2>3
<1> HIDE DEF all, rule
<1>4. Fixed(g) = rule(Fixed(g))
  BY <1>1, <1>3
<1>5. rule(Fixed(g))[s] = Marked(g, s, IF s = "root" THEN DOMAIN g.inits[s]
                                       ELSE inherited(s, Fixed(g)[Parent(s)]))
  BY DEF rule
<1> QED BY <1>4, <1>5 DEF inherited

LEMMA FixedStep ==
  ASSUME NEW g, WellFormed(g), NEW s \in Scopes, NEW k \in DOMAIN g.nodes[s]
  PROVE  Fixed(g)[s][k + 1] = After(g, s, k, Fixed(g)[s][k])
<1> DEFINE start == IF s = "root" THEN DOMAIN g.inits[s]
                    ELSE Fixed(g)[Parent(s)][CallerOf(g, s)] \ Rebound(g, s)
<1>1. Fixed(g)[s] = Marked(g, s, start)
  BY FixedIs
<1>2. Typed(g)
  BY DEF WellFormed
<1> HIDE DEF start
<1>3. Marked(g, s, start)[k + 1] = After(g, s, k, Marked(g, s, start)[k])
  BY <1>2, MarkedStep
<1> QED BY <1>1, <1>3

\* The names fixed before the first node.
LEMMA FixedFirst ==
  ASSUME NEW g, WellFormed(g), NEW s \in Scopes
  PROVE  Fixed(g)[s][1] = IF s = "root" THEN DOMAIN g.inits[s]
                          ELSE Fixed(g)[Parent(s)][CallerOf(g, s)] \ Rebound(g, s)
<1>1. Typed(g)
  BY DEF WellFormed
<1> DEFINE start == IF s = "root" THEN DOMAIN g.inits[s]
                    ELSE Fixed(g)[Parent(s)][CallerOf(g, s)] \ Rebound(g, s)
<1>2. Fixed(g)[s] = Marked(g, s, start)
  BY FixedIs
<1> HIDE DEF start
<1>3. Marked(g, s, start)[1] = start
  BY <1>1, MarkedStep
<1> QED BY <1>2, <1>3 DEF start

-----------------------------------------------------------------------------
(* The inductive invariant.  Most of it is about a stack of frames and the   *)
(* arrays of a graph g; frame i sees through the frames above it, by what    *)
(* they saved, the arrays it had when it was on top.                         *)

IsSeq(sequence) == \E S : sequence \in Seq(S)

Fields == {"scope", "pc", "saved", "t", "trip", "state", "scan", "emitted"}

\* The names the body in frame i binds, and its caller.
Own(g, stk, i) == BodyNames(g, stk[i].scope)

CallerAt(g, stk, i) == g.nodes[stk[i - 1].scope][stk[i - 1].pc]

\* A frame above the root is a body of the node the frame below it is at.
StackInv(g, stk) ==
  /\ IsSeq(stk)
  /\ \A i \in 1..Len(stk) :
       /\ DOMAIN stk[i] = Fields
       /\ stk[i].scope \in Scopes
       /\ stk[i].pc \in 1..(Len(g.nodes[stk[i].scope]) + 1)
       /\ i = 1 => stk[i].scope = "root"
       /\ i # 1 =>
            /\ stk[i - 1].pc <= Len(g.nodes[stk[i - 1].scope])
            /\ stk[i].scope \in Range(CallerAt(g, stk, i).bodies)

\* A frame of the node has in its state what the node carries; a branch has one turn.
Carries(node, frame) ==
  /\ IsSeq(frame.state) /\ IsSeq(frame.emitted)
  /\ \A k \in DOMAIN frame.state : frame.state[k] # NoValue
  /\ node.kind \in {"Loop", "Scan"} => Len(frame.state) = Len(Carried(node))
  /\ node.kind = "If" => frame.t = 0 /\ frame.trip = 0

StateInv(g, stk) == \A i \in 2..Len(stk) : Carries(CallerAt(g, stk, i), stk[i])

\* No array is missing that has a name.
PresentInv(stk, e) ==
  /\ \A x \in DOMAIN e : e[x] # NoValue
  /\ \A i \in 1..Len(stk) : \A x \in DOMAIN stk[i].saved : stk[i].saved[x] # NoValue

\* The names a frame may find: boundary inputs, and those of the frames up to it.
ScopedInv(g, stk, e) ==
  /\ \A x \in DOMAIN e : x \in CtxInputs \/ \E i \in 1..Len(stk) : x \in Own(g, stk, i)
  /\ \A j \in 2..Len(stk) : \A x \in DOMAIN stk[j].saved :
       /\ x \in Own(g, stk, j)
       /\ x \in CtxInputs \/ \E i \in 1..(j - 1) : x \in Own(g, stk, i)

\* What a frame has bound is there, and a body that binds it too has saved it.
BoundInv(g, stk, e) ==
  \A i \in 1..Len(stk) : \A x \in BoundBefore(g, stk[i].scope, stk[i].pc) :
    /\ x \in DOMAIN e
    /\ \A j \in (i + 1)..Len(stk) : x \in Own(g, stk, j) => x \in DOMAIN stk[j].saved

\* Frames i + 1 to j leave the name alone.
Clear(g, stk, i, j, x) == \A k \in (i + 1)..j : x \notin Own(g, stk, k)

FixedAt(g, stk, i) == Fixed(g)[stk[i].scope][stk[i].pc]

\* The name is the root's initializer, all the way up to frame i.
Initial(g, stk, i, x) == x \in DOMAIN g.inits["root"] /\ Clear(g, stk, 1, i, x)

\* What frame i sees under the name does not depend on the host's data.
SeenFixed(g, stk, e, i, x) ==
  /\ Clear(g, stk, i, Len(stk), x) => x \in DOMAIN e /\ ~e[x].live
  /\ \A j \in (i + 1)..Len(stk) :
       (x \in Own(g, stk, j) /\ Clear(g, stk, i, j - 1, x))
         => x \in DOMAIN stk[j].saved /\ ~stk[j].saved[x].live

FixedInv(g, stk, e) ==
  \A i \in 1..Len(stk) : \A x \in FixedAt(g, stk, i) :
    \/ Initial(g, stk, i, x)
    \/ SeenFixed(g, stk, e, i, x) /\ \E j \in 1..i : x \in Own(g, stk, j)

\* What is fixed in a frame is fixed in those above it that leave the name alone; a
\* frame's own names are fixed only once they are bound.
InheritInv(g, stk) ==
  \A i \in 1..Len(stk) : \A x \in FixedAt(g, stk, i) :
    /\ \A j \in (i + 1)..Len(stk) : Clear(g, stk, i, j, x) => x \in FixedAt(g, stk, j)
    /\ x \in Own(g, stk, i) =>
         \/ \E k \in 1..(stk[i].pc - 1) : x \in Range(g.nodes[stk[i].scope][k].outs)
         \/ i = 1 /\ x \in DOMAIN g.inits["root"]

Good(g, stk, e) ==
  /\ StackInv(g, stk) /\ StateInv(g, stk) /\ PresentInv(stk, e) /\ ScopedInv(g, stk, e)
  /\ BoundInv(g, stk, e) /\ FixedInv(g, stk, e) /\ InheritInv(g, stk)

PlanInv ==
  /\ p \in Programs
  /\ plan = Plan(p)
  /\ AxesFixed(p) \/ HostAxes
  /\ mode = "trace" => GeneralEnabled

\* The arrays kept do not depend on the host's data.
CacheGood(kept) ==
  \A k \in DOMAIN kept :
    k.of \in Scopes \cup {"packed"} /\ kept[k] # NoValue /\ ~kept[k].live

WritesGood(list) == IsSeq(list) /\ \A i \in DOMAIN list : list[i].value # NoValue

HostInv ==
  /\ DOMAIN host = CtxInputs
  /\ \A x \in CtxInputs : host[x] # NoValue
  /\ WritesGood(writes)

ControlInv ==
  /\ mode \in {"idle", "trace", "eager"}
  /\ status \in {"none", "ok", "failed"}
  /\ calls \in 0..MaxCalls
  /\ DOMAIN results \subseteq p.external
  /\ mode # "idle" => stack # <<>>

TInv == PlanInv /\ CacheGood(cache) /\ HostInv /\ ControlInv /\ Good(p, stack, env)

-----------------------------------------------------------------------------
(* Graphs, sequences and bindings. *)

LEMMA SeqFacts ==
  ASSUME NEW q, IsSeq(q)
  PROVE  Len(q) \in Nat /\ DOMAIN q = 1..Len(q) /\ q = [i \in 1..Len(q) |-> q[i]]
<1>1. PICK S : q \in Seq(S)
  BY DEF IsSeq
<1> QED BY <1>1

LEMMA NodeFacts ==
  ASSUME NEW g, WellFormed(g), NEW s \in Scopes
  PROVE  /\ Len(g.nodes[s]) \in Nat /\ DOMAIN g.nodes[s] = 1..Len(g.nodes[s])
         /\ \A k \in 1..Len(g.nodes[s]) :
              /\ g.nodes[s][k] \in ANode /\ g.nodes[s][k] \in NodesOf(g, s)
              /\ Range(g.nodes[s][k].outs) \subseteq Produced(g, s)
              /\ Range(g.nodes[s][k].outs) \subseteq BodyNames(g, s)
<1>1. g.nodes[s] \in Seq(ANode)
  BY DEF WellFormed, Typed
<1>2. Len(g.nodes[s]) \in Nat /\ DOMAIN g.nodes[s] = 1..Len(g.nodes[s])
  BY <1>1
<1>3. ASSUME NEW k \in 1..Len(g.nodes[s])
      PROVE  /\ g.nodes[s][k] \in ANode /\ g.nodes[s][k] \in NodesOf(g, s)
             /\ Range(g.nodes[s][k].outs) \subseteq Produced(g, s)
             /\ Range(g.nodes[s][k].outs) \subseteq BodyNames(g, s)
  <2>1. g.nodes[s][k] \in ANode /\ g.nodes[s][k] \in NodesOf(g, s)
    BY <1>1, <1>2 DEF NodesOf, Range
  <2>2. Range(g.nodes[s][k].outs) \subseteq Produced(g, s)
    BY <2>1 DEF Produced
  <2> QED BY <2>1, <2>2 DEF BodyNames
<1> QED BY <1>2, <1>3

LEMMA NodeSeqs ==
  ASSUME NEW node \in ANode
  PROVE  /\ node.ins \in Seq(STRING) /\ node.outs \in Seq(STRING) /\ node.bodies \in Seq(Scopes)
         /\ IsSeq(node.ins) /\ IsSeq(node.outs) /\ node.kind \in Kinds /\ node.id # "missing"
BY DEF ANode, IsSeq

\* A name is bound to one of the values.
LEMMA BindIs ==
  ASSUME NEW names, IsSeq(names), NEW values, IsSeq(values), Len(names) = Len(values)
  PROVE  /\ DOMAIN Bind(names, values) = Range(names)
         /\ \A x \in Range(names) :
              \E i \in DOMAIN values : Bind(names, values)[x] = values[i]
<1>1. DOMAIN names = DOMAIN values
  BY SeqFacts
<1>2. ASSUME NEW x \in Range(names)
      PROVE  \E i \in DOMAIN values : Bind(names, values)[x] = values[i]
  <2> DEFINE at == CHOOSE i \in DOMAIN names : names[i] = x
  <2>1. \E i \in DOMAIN names : names[i] = x
    BY DEF Range
  <2>2. at \in DOMAIN names
    BY <2>1
  <2>3. Bind(names, values)[x] = values[at]
    BY DEF Bind
  <2> HIDE DEF at
  <2> QED BY <1>1, <2>2, <2>3
<1> QED BY <1>2 DEF Bind

LEMMA BindOne ==
  ASSUME NEW x, NEW v
  PROVE  DOMAIN Bind(<<x>>, <<v>>) = {x} /\ Bind(<<x>>, <<v>>)[x] = v
<1> DEFINE names == <<x>>
           values == <<v>>
<1>1. DOMAIN names = {1} /\ names[1] = x /\ values[1] = v
  OBVIOUS
<1> HIDE DEF names, values
<1>2. Range(names) = {x}
  BY <1>1 DEF Range
<1>3. Bind(names, values) = [y \in {x} |-> values[CHOOSE i \in {1} : names[i] = y]]
  BY <1>1, <1>2 DEF Bind
<1>4. (CHOOSE i \in {1} : names[i] = x) = 1
  BY <1>1
<1>5. DOMAIN Bind(names, values) = {x} /\ Bind(names, values)[x] = v
  BY <1>1, <1>3, <1>4
<1> QED BY <1>5 DEF names, values

LEMMA OverIs ==
  ASSUME NEW below, NEW above
  PROVE  /\ DOMAIN Over(below, above) = DOMAIN below \cup DOMAIN above
         /\ \A x \in DOMAIN above : Over(below, above)[x] = above[x]
         /\ \A x \in DOMAIN below : x \notin DOMAIN above => Over(below, above)[x] = below[x]
BY DEF Over

-----------------------------------------------------------------------------
(* What keeps the invariant. *)

\* Arrays are added for boundary inputs, or replaced under names not fixed.
LEMMA EnvKeeps ==
  ASSUME NEW g, NEW stk, NEW e, NEW e2, Good(g, stk, e), Len(stk) # 0,
         \A x \in DOMAIN e : x \in DOMAIN e2 /\ (e2[x] = e[x] \/ x \notin FixedAt(g, stk, Len(stk))),
         \A x \in DOMAIN e2 : e2[x] # NoValue /\ (x \in DOMAIN e \/ x \in CtxInputs)
  PROVE  Good(g, stk, e2)
<1>1. StackInv(g, stk) /\ StateInv(g, stk) /\ InheritInv(g, stk)
  BY DEF Good
<1>2. Len(stk) \in Nat
  BY <1>1, SeqFacts DEF StackInv
<1>3. PresentInv(stk, e2)
  BY DEF Good, PresentInv
<1>4. ScopedInv(g, stk, e2)
  BY DEF Good, ScopedInv
<1>5. BoundInv(g, stk, e2)
  BY DEF Good, BoundInv
<1>6. FixedInv(g, stk, e2)
  <2>1. ASSUME NEW i \in 1..Len(stk), NEW x \in FixedAt(g, stk, i), ~Initial(g, stk, i, x)
        PROVE  SeenFixed(g, stk, e2, i, x) /\ \E j \in 1..i : x \in Own(g, stk, j)
    <3>1. SeenFixed(g, stk, e, i, x) /\ \E j \in 1..i : x \in Own(g, stk, j)
      BY <2>1 DEF Good, FixedInv
    <3>2. ASSUME Clear(g, stk, i, Len(stk), x) PROVE x \in DOMAIN e2 /\ ~e2[x].live
      <4>1. x \in DOMAIN e /\ ~e[x].live
        BY <3>1, <3>2 DEF SeenFixed
      <4>2. x \in FixedAt(g, stk, Len(stk))
        <5>1. CASE i = Len(stk)
          BY <5>1
        <5>2. CASE i # Len(stk)
          <6>1. Len(stk) \in (i + 1)..Len(stk)
            BY <1>2, <5>2
          <6> QED BY <1>1, <3>2, <6>1 DEF InheritInv
        <5> QED BY <5>1, <5>2
      <4> QED BY <4>1, <4>2
    <3> QED BY <3>1, <3>2 DEF SeenFixed
  <2> QED BY <2>1 DEF FixedInv
<1> QED BY <1>1, <1>3, <1>4, <1>5, <1>6 DEF Good

\* The frames below the top stay, the top one may move on.
SameBelow(stk, stk2, n) == \A i \in 1..n : i # n => stk2[i] = stk[i]

\* The top frame goes on to its next node.
MovedOn(stk) == [stk EXCEPT ![Len(stk)].pc = @ + 1]

LEMMA AdvancedIs ==
  ASSUME NEW stk, IsSeq(stk), NEW n, n = Len(stk), n # 0, DOMAIN stk[n] = Fields,
         NEW stk2, stk2 = MovedOn(stk)
  PROVE  /\ IsSeq(stk2) /\ Len(stk2) = n /\ SameBelow(stk, stk2, n)
         /\ DOMAIN stk2[n] = Fields /\ stk2[n].pc = stk[n].pc + 1
         /\ stk2[n].scope = stk[n].scope /\ stk2[n].saved = stk[n].saved
         /\ \A node : Carries(node, stk[n]) => Carries(node, stk2[n])
<1>1. n \in 1..n /\ n \in Nat /\ DOMAIN stk = 1..n
  BY SeqFacts
<1>2. PICK S : stk \in Seq(S)
  BY DEF IsSeq
<1> DEFINE top == [stk[n] EXCEPT !.pc = @ + 1]
<1>3. stk2 = [stk EXCEPT ![n] = top]
  BY DEF MovedOn
<1>4. /\ DOMAIN top = Fields /\ top.pc = stk[n].pc + 1
      /\ top.scope = stk[n].scope /\ top.saved = stk[n].saved
      /\ top.state = stk[n].state /\ top.emitted = stk[n].emitted
      /\ top.t = stk[n].t /\ top.trip = stk[n].trip
  BY DEF Fields
<1> HIDE DEF top
<1>5. stk2 \in Seq(S \cup {top}) /\ Len(stk2) = n
  <2>1. stk \in Seq(S \cup {top})
    BY <1>2
  <2> QED BY <1>1, <1>3, <2>1
<1>6. stk2[n] = top /\ SameBelow(stk, stk2, n)
  BY <1>1, <1>3 DEF SameBelow
<1>7. \A node : Carries(node, stk[n]) => Carries(node, top)
  BY <1>4 DEF Carries
<1> QED BY <1>4, <1>5, <1>6, <1>7 DEF IsSeq

\* What frame i is in does not change when only its node number does.
LEMMA SameOwn ==
  ASSUME NEW g, NEW stk, NEW stk2, NEW n \in Nat, SameBelow(stk, stk2, n),
         n # 0 => stk2[n].scope = stk[n].scope
  PROVE  /\ \A i \in 1..n : Own(g, stk2, i) = Own(g, stk, i)
         /\ \A i \in 2..n : CallerAt(g, stk2, i) = CallerAt(g, stk, i)
         /\ \A i \in 1..n : \A j \in 0..n : \A x : Clear(g, stk2, i, j, x) <=> Clear(g, stk, i, j, x)
         /\ \A i \in 1..n : \A x : Initial(g, stk2, i, x) <=> Initial(g, stk, i, x)
         /\ \A i \in 1..n : i # n => FixedAt(g, stk2, i) = FixedAt(g, stk, i)
<1>1. \A i \in 1..n : stk2[i].scope = stk[i].scope
  BY DEF SameBelow
<1>2. \A i \in 1..n : Own(g, stk2, i) = Own(g, stk, i)
  BY <1>1 DEF Own
<1>3. \A i \in 2..n : CallerAt(g, stk2, i) = CallerAt(g, stk, i)
  <2>1. ASSUME NEW i \in 2..n PROVE CallerAt(g, stk2, i) = CallerAt(g, stk, i)
    <3>1. i - 1 \in 1..n /\ i - 1 # n
      OBVIOUS
    <3>2. stk2[i - 1] = stk[i - 1]
      BY <3>1 DEF SameBelow
    <3> QED BY <3>2 DEF CallerAt
  <2> QED BY <2>1
<1>4. \A i \in 1..n : \A j \in 0..n : \A x : Clear(g, stk2, i, j, x) <=> Clear(g, stk, i, j, x)
  <2>1. \A i \in 1..n, j \in 0..n : \A k \in (i + 1)..j : k \in 1..n
    OBVIOUS
  <2> QED BY <1>2, <2>1 DEF Clear
<1>5. \A i \in 1..n : \A x : Initial(g, stk2, i, x) <=> Initial(g, stk, i, x)
  <2>1. \A i \in 1..n : \A x : Clear(g, stk2, 1, i, x) <=> Clear(g, stk, 1, i, x)
    <3>1. \A i \in 1..n : 1 \in 1..n /\ i \in 0..n
      OBVIOUS
    <3> QED BY <1>4, <3>1
  <2> QED BY <2>1 DEF Initial
<1>6. \A i \in 1..n : i # n => FixedAt(g, stk2, i) = FixedAt(g, stk, i)
  BY DEF SameBelow, FixedAt
<1> QED BY <1>2, <1>3, <1>4, <1>5, <1>6

\* The top frame's node is done.
LEMMA AdvanceStacks ==
  ASSUME NEW g, WellFormed(g), NEW stk, StackInv(g, stk), StateInv(g, stk),
         NEW n, n = Len(stk), n # 0, stk[n].pc <= Len(g.nodes[stk[n].scope]),
         NEW stk2, stk2 = MovedOn(stk)
  PROVE  StackInv(g, stk2) /\ StateInv(g, stk2)
<1>1. IsSeq(stk) /\ n \in Nat /\ DOMAIN stk[n] = Fields /\ stk[n].scope \in Scopes
      /\ stk[n].pc \in 1..(Len(g.nodes[stk[n].scope]) + 1)
  BY SeqFacts DEF StackInv
<1>2. /\ IsSeq(stk2) /\ Len(stk2) = n /\ SameBelow(stk, stk2, n)
      /\ DOMAIN stk2[n] = Fields /\ stk2[n].pc = stk[n].pc + 1
      /\ stk2[n].scope = stk[n].scope /\ stk2[n].saved = stk[n].saved
      /\ \A node : Carries(node, stk[n]) => Carries(node, stk2[n])
  BY <1>1, AdvancedIs
<1>3. \A i \in 2..n : CallerAt(g, stk2, i) = CallerAt(g, stk, i)
  BY <1>1, <1>2, SameOwn
<1>4. StackInv(g, stk2)
  <2>1. ASSUME NEW i \in 1..n
        PROVE  /\ DOMAIN stk2[i] = Fields
               /\ stk2[i].scope \in Scopes
               /\ stk2[i].pc \in 1..(Len(g.nodes[stk2[i].scope]) + 1)
               /\ i = 1 => stk2[i].scope = "root"
    <3>1. CASE i = n
      <4>1. Len(g.nodes[stk[n].scope]) \in Nat
        BY <1>1, NodeFacts
      <4>2. stk[n].pc + 1 \in 1..(Len(g.nodes[stk[n].scope]) + 1)
        BY <1>1, <4>1
      <4> QED BY <1>1, <1>2, <3>1, <4>2 DEF StackInv
    <3>2. CASE i # n
      BY <1>2, <3>2 DEF StackInv, SameBelow
    <3> QED BY <3>1, <3>2
  <2>2. ASSUME NEW i \in 1..n, i # 1
        PROVE  /\ stk2[i - 1].pc <= Len(g.nodes[stk2[i - 1].scope])
               /\ stk2[i].scope \in Range(CallerAt(g, stk2, i).bodies)
    <3>1. i \in 2..n /\ i - 1 \in 1..n /\ i - 1 # n
      BY <1>1, <2>2
    <3>2. stk2[i - 1] = stk[i - 1] /\ stk2[i].scope = stk[i].scope
      BY <1>2, <3>1 DEF SameBelow
    <3>3. CallerAt(g, stk2, i) = CallerAt(g, stk, i)
      BY <1>3, <3>1
    <3>4. /\ stk[i - 1].pc <= Len(g.nodes[stk[i - 1].scope])
          /\ stk[i].scope \in Range(CallerAt(g, stk, i).bodies)
      BY <2>2 DEF StackInv
    <3> QED BY <3>2, <3>3, <3>4
  <2> QED BY <1>2, <2>1, <2>2 DEF StackInv
<1>5. StateInv(g, stk2)
  <2>1. ASSUME NEW i \in 2..Len(stk2)
        PROVE  Carries(CallerAt(g, stk2, i), stk2[i])
    <3>1. i \in 2..n /\ i \in 1..n
      BY <1>2
    <3>2. Carries(CallerAt(g, stk2, i), stk[i])
      BY <1>3, <3>1 DEF StateInv
    <3> QED BY <1>2, <3>1, <3>2 DEF SameBelow
  <2> QED BY <2>1 DEF StateInv
<1> QED BY <1>4, <1>5

LEMMA BoundStep ==
  ASSUME NEW g, NEW s, NEW k \in Nat \ {0}
  PROVE  BoundBefore(g, s, k + 1) = BoundBefore(g, s, k) \cup Range(g.nodes[s][k].outs)
<1>1. 1..(k + 1 - 1) = 1..(k - 1) \cup {k}
  OBVIOUS
<1> QED BY <1>1 DEF BoundBefore

\* A node of scope r is done: its outputs are there, and derived ones do not depend on
\* the host's data.
Yields(g, r, node, fixed, e, e2) ==
  /\ DOMAIN e2 = DOMAIN e \cup Range(node.outs)
  /\ \A x \in DOMAIN e : x \notin Range(node.outs) => e2[x] = e[x]
  /\ \A x \in Range(node.outs) :
       /\ e2[x] # NoValue
       /\ Derives(g, r, node, fixed) => ~e2[x].live

LEMMA AdvanceKeeps ==
  ASSUME NEW g, WellFormed(g), NEW stk, NEW e, Good(g, stk, e),
         NEW n, n = Len(stk), n # 0, NEW r, r = stk[n].scope,
         stk[n].pc <= Len(g.nodes[r]), NEW node, node = g.nodes[r][stk[n].pc],
         NEW stk2, stk2 = MovedOn(stk),
         NEW e2, Yields(g, r, node, FixedAt(g, stk, n), e, e2)
  PROVE  Good(g, stk2, e2)
<1> DEFINE derives == Derives(g, r, node, FixedAt(g, stk, n))
<1>1. StackInv(g, stk) /\ StateInv(g, stk)
  BY DEF Good
<1>a. IsSeq(stk)
  BY <1>1 DEF StackInv
<1>b. n \in Nat
  BY <1>a, SeqFacts
<1>c. n \in 1..n
  BY <1>b
<1>d. DOMAIN stk[n] = Fields /\ r \in Scopes /\ stk[n].pc \in 1..(Len(g.nodes[r]) + 1)
  BY <1>1, <1>c DEF StackInv
<1>e. Len(g.nodes[r]) \in Nat
  BY <1>d, NodeFacts
<1>2. IsSeq(stk) /\ n \in Nat /\ n \in 1..n /\ DOMAIN stk[n] = Fields /\ r \in Scopes
      /\ stk[n].pc \in 1..Len(g.nodes[r]) /\ Len(g.nodes[r]) \in Nat
  BY <1>a, <1>b, <1>c, <1>d, <1>e
<1>3. /\ IsSeq(stk2) /\ Len(stk2) = n /\ SameBelow(stk, stk2, n)
      /\ stk2[n].pc = stk[n].pc + 1 /\ stk2[n].scope = r /\ stk2[n].saved = stk[n].saved
  BY <1>2, AdvancedIs
<1>4. StackInv(g, stk2) /\ StateInv(g, stk2)
  BY <1>1, AdvanceStacks
<1>5. /\ \A i \in 1..n : Own(g, stk2, i) = Own(g, stk, i)
      /\ \A i \in 1..n : \A j \in 0..n : \A x : Clear(g, stk2, i, j, x) <=> Clear(g, stk, i, j, x)
      /\ \A i \in 1..n : \A x : Initial(g, stk2, i, x) <=> Initial(g, stk, i, x)
      /\ \A i \in 1..n : i # n => FixedAt(g, stk2, i) = FixedAt(g, stk, i)
  BY <1>2, <1>3, SameOwn
<1>6. \A i \in 1..n : stk2[i].saved = stk[i].saved
  BY <1>3 DEF SameBelow
<1>7. Range(node.outs) \subseteq Own(g, stk, n)
  BY <1>2, NodeFacts DEF Own
<1>8. FixedAt(g, stk2, n) = FixedAt(g, stk, n) \cup (IF derives THEN Range(node.outs) ELSE {})
  <2>1. stk[n].pc \in DOMAIN g.nodes[r]
    BY <1>2, NodeFacts
  <2>2. Fixed(g)[r][stk[n].pc + 1] = After(g, r, stk[n].pc, Fixed(g)[r][stk[n].pc])
    BY <1>2, <2>1, FixedStep
  <2> QED BY <1>3, <2>2 DEF FixedAt, After
<1> HIDE DEF derives
<1>y. /\ DOMAIN e2 = DOMAIN e \cup Range(node.outs)
      /\ \A x \in DOMAIN e : x \notin Range(node.outs) => e2[x] = e[x]
  BY DEF Yields
<1>9. PresentInv(stk2, e2)
  <2>1. \A x \in DOMAIN e2 : e2[x] # NoValue
    BY DEF Good, PresentInv, Yields
  <2>2. \A i \in 1..n : \A x \in DOMAIN stk2[i].saved : stk2[i].saved[x] # NoValue
    BY <1>6 DEF Good, PresentInv
  <2> QED BY <1>3, <2>1, <2>2 DEF PresentInv
<1>10. ScopedInv(g, stk2, e2)
  <2>1. ASSUME NEW x \in DOMAIN e2
        PROVE  x \in CtxInputs \/ \E i \in 1..n : x \in Own(g, stk2, i)
    <3>1. CASE x \in Range(node.outs)
      BY <1>2, <1>5, <1>7, <3>1
    <3>2. CASE x \in DOMAIN e
      BY <1>5, <3>2 DEF Good, ScopedInv
    <3> QED BY <2>1, <3>1, <3>2, <1>y
  <2>2. ASSUME NEW j \in 2..n, NEW x \in DOMAIN stk2[j].saved
        PROVE  /\ x \in Own(g, stk2, j)
               /\ x \in CtxInputs \/ \E i \in 1..(j - 1) : x \in Own(g, stk2, i)
    <3>1. j \in 1..n /\ \A i \in 1..(j - 1) : i \in 1..n
      BY <1>2
    <3>2. x \in DOMAIN stk[j].saved
      BY <1>6, <3>1
    <3>3. /\ x \in Own(g, stk, j)
          /\ x \in CtxInputs \/ \E i \in 1..(j - 1) : x \in Own(g, stk, i)
      BY <3>2 DEF Good, ScopedInv
    <3> QED BY <1>5, <3>1, <3>3
  <2> QED BY <1>3, <2>1, <2>2 DEF ScopedInv
<1>11. BoundInv(g, stk2, e2)
  <2>1. ASSUME NEW i \in 1..n, NEW x \in BoundBefore(g, stk2[i].scope, stk2[i].pc)
        PROVE  /\ x \in DOMAIN e2
               /\ \A j \in (i + 1)..n : x \in Own(g, stk2, j) => x \in DOMAIN stk2[j].saved
    <3>1. \A j \in (i + 1)..n : j \in 1..n
      BY <1>2
    <3>2. CASE x \in BoundBefore(g, stk[i].scope, stk[i].pc)
      <4>1. /\ x \in DOMAIN e
            /\ \A j \in (i + 1)..n : x \in Own(g, stk, j) => x \in DOMAIN stk[j].saved
        BY <3>2 DEF Good, BoundInv
      <4>2. x \in DOMAIN e2
        BY <1>y, <4>1
      <4>3. \A j \in (i + 1)..n : x \in Own(g, stk2, j) => x \in DOMAIN stk2[j].saved
        BY <1>5, <1>6, <3>1, <4>1
      <4> QED BY <4>2, <4>3
    <3>3. CASE x \notin BoundBefore(g, stk[i].scope, stk[i].pc)
      <4>1. i = n
        BY <1>3, <3>3 DEF SameBelow
      <4>2. x \in Range(node.outs)
        <5> DEFINE k == stk[n].pc
        <5>1. k \in Nat \ {0} /\ node = g.nodes[r][k]
          BY <1>2
        <5> HIDE DEF k
        <5>2. BoundBefore(g, r, k + 1) = BoundBefore(g, r, k) \cup Range(g.nodes[r][k].outs)
          BY ONLY <5>1, BoundStep
        <5>2a. BoundBefore(g, r, stk[n].pc + 1) = BoundBefore(g, r, stk[n].pc) \cup Range(node.outs)
          BY <5>1, <5>2 DEF k
        <5>3. x \in BoundBefore(g, r, stk[n].pc + 1) /\ x \notin BoundBefore(g, r, stk[n].pc)
          BY <1>3, <3>3, <4>1
        <5> QED BY <5>2a, <5>3
      <4>3. x \in DOMAIN e2
        BY <1>y, <4>2
      <4>4. (n + 1)..n = {}
        BY <1>2
      <4> QED BY <4>1, <4>3, <4>4
    <3> QED BY <3>2, <3>3
  <2> QED BY <1>3, <2>1 DEF BoundInv
<1>12. InheritInv(g, stk2)
  <2>1. ASSUME NEW i \in 1..n, NEW x \in FixedAt(g, stk2, i), NEW j \in (i + 1)..n,
               Clear(g, stk2, i, j, x)
        PROVE  x \in FixedAt(g, stk2, j)
    <3>1. i # n /\ j \in 1..n /\ j \in 0..n
      BY <1>2
    <3>2. x \in FixedAt(g, stk, i) /\ Clear(g, stk, i, j, x)
      BY <1>5, <2>1, <3>1
    <3>3. x \in FixedAt(g, stk, j)
      BY <3>2 DEF Good, InheritInv
    <3> QED BY <1>5, <1>8, <3>1, <3>3
  <2>2. ASSUME NEW i \in 1..n, NEW x \in FixedAt(g, stk2, i), x \in Own(g, stk2, i)
        PROVE  \/ \E k \in 1..(stk2[i].pc - 1) : x \in Range(g.nodes[stk2[i].scope][k].outs)
               \/ i = 1 /\ x \in DOMAIN g.inits["root"]
    <3>1. CASE x \in FixedAt(g, stk, i)
      <4>1. x \in Own(g, stk, i)
        BY <1>5, <2>2
      <4>2. \/ \E k \in 1..(stk[i].pc - 1) : x \in Range(g.nodes[stk[i].scope][k].outs)
            \/ i = 1 /\ x \in DOMAIN g.inits["root"]
        BY <3>1, <4>1 DEF Good, InheritInv
      <4>3. CASE i = n
        <5>1. \A k \in 1..(stk[n].pc - 1) : k \in 1..(stk2[n].pc - 1)
          BY <1>2, <1>3
        <5> QED BY <1>3, <4>2, <4>3, <5>1
      <4>4. CASE i # n
        BY <1>3, <4>2, <4>4 DEF SameBelow
      <4> QED BY <4>3, <4>4
    <3>2. CASE x \notin FixedAt(g, stk, i)
      <4>1. i = n /\ x \in Range(node.outs)
        BY <1>5, <1>8, <3>2
      <4>2. stk[n].pc \in 1..(stk2[n].pc - 1)
        BY <1>2, <1>3
      <4> QED BY <1>3, <4>1, <4>2
    <3> QED BY <3>1, <3>2
  <2> QED BY <1>3, <2>1, <2>2 DEF InheritInv
<1>13. FixedInv(g, stk2, e2)
  <2>1. ASSUME NEW i \in 1..n, NEW x \in FixedAt(g, stk, i), x \in FixedAt(g, stk2, i),
               i = n => x \notin Range(node.outs)
        PROVE  \/ Initial(g, stk2, i, x)
               \/ SeenFixed(g, stk2, e2, i, x) /\ \E j \in 1..i : x \in Own(g, stk2, j)
    <3>1. CASE Initial(g, stk, i, x)
      BY <1>5, <3>1
    <3>2. CASE SeenFixed(g, stk, e, i, x) /\ \E j \in 1..i : x \in Own(g, stk, j)
      <4>1. \E j \in 1..i : x \in Own(g, stk2, j)
        <5>1. \A j \in 1..i : j \in 1..n
          BY <1>2
        <5> QED BY <1>5, <3>2, <5>1
      <4>2. ASSUME Clear(g, stk2, i, n, x) PROVE x \in DOMAIN e2 /\ ~e2[x].live
        <5>1. Clear(g, stk, i, n, x)
          BY <1>2, <1>5, <4>2
        <5>2. x \in DOMAIN e /\ ~e[x].live
          BY <3>2, <5>1 DEF SeenFixed
        <5>3. x \notin Range(node.outs)
          <6>1. CASE i = n
            BY <2>1, <6>1
          <6>2. CASE i # n
            <7>1. n \in (i + 1)..n
              BY <1>2, <6>2
            <7>2. x \notin Own(g, stk, n)
              BY <5>1, <7>1 DEF Clear
            <7> QED BY <1>7, <7>2
          <6> QED BY <6>1, <6>2
        <5> QED BY <5>2, <5>3, <1>y
      <4>3. ASSUME NEW j \in (i + 1)..n, x \in Own(g, stk2, j), Clear(g, stk2, i, j - 1, x)
            PROVE  x \in DOMAIN stk2[j].saved /\ ~stk2[j].saved[x].live
        <5>1. j \in 1..n /\ j - 1 \in 0..n
          BY <1>2
        <5>2. x \in Own(g, stk, j) /\ Clear(g, stk, i, j - 1, x)
          BY <1>5, <4>3, <5>1
        <5>3. x \in DOMAIN stk[j].saved /\ ~stk[j].saved[x].live
          BY <3>2, <5>2 DEF SeenFixed
        <5> QED BY <1>6, <5>1, <5>3
      <4> QED BY <1>3, <4>1, <4>2, <4>3 DEF SeenFixed
    <3> QED BY <3>1, <3>2 DEF Good, FixedInv
  <2>2. ASSUME NEW x \in FixedAt(g, stk2, n), x \in Range(node.outs)
        PROVE  SeenFixed(g, stk2, e2, n, x) /\ \E j \in 1..n : x \in Own(g, stk2, j)
    <3>1. derives
      <4>1. SUFFICES ASSUME ~derives PROVE FALSE
        OBVIOUS
      <4>2. x \in FixedAt(g, stk, n) /\ x \in Own(g, stk, n)
        BY <1>7, <1>8, <2>2, <4>1
      <4>3. \/ \E k \in 1..(stk[n].pc - 1) : x \in Range(g.nodes[r][k].outs)
            \/ n = 1 /\ x \in DOMAIN g.inits["root"]
        BY <1>2, <4>2 DEF Good, InheritInv
      <4>4. CASE \E k \in 1..(stk[n].pc - 1) : x \in Range(g.nodes[r][k].outs)
        <5>1. PICK k \in 1..(stk[n].pc - 1) : x \in Range(g.nodes[r][k].outs)
          BY <4>4
        <5>2. k # stk[n].pc /\ k \in 1..Len(g.nodes[r]) /\ stk[n].pc \in 1..Len(g.nodes[r])
          BY <1>2
        <5>3. k \in DOMAIN g.nodes[r] /\ stk[n].pc \in DOMAIN g.nodes[r]
          BY <1>2, <5>2, NodeFacts
        <5>4. Range(g.nodes[r][k].outs) \cap Range(g.nodes[r][stk[n].pc].outs) = {}
          BY <1>2, <5>2, <5>3 DEF WellFormed, SingleAssignment
        <5> QED BY <2>2, <5>1, <5>4
      <4>5. CASE n = 1 /\ x \in DOMAIN g.inits["root"]
        <5>1. r = "root"
          BY <1>1, <1>2, <4>5 DEF StackInv
        <5>2. x \in Produced(g, "root")
          BY <1>2, <2>2, <5>1, NodeFacts
        <5> QED BY <4>5, <5>2 DEF WellFormed, SingleAssignment
      <4> QED BY <4>3, <4>4, <4>5
    <3>2. x \in DOMAIN e2 /\ ~e2[x].live
      BY <2>2, <3>1, <1>y DEF derives, Yields
    <3>3. (n + 1)..n = {}
      BY <1>2
    <3> QED BY <1>2, <1>3, <1>5, <1>7, <2>2, <3>2, <3>3 DEF SeenFixed
  <2>3. ASSUME NEW i \in 1..n, NEW x \in FixedAt(g, stk2, i)
        PROVE  \/ Initial(g, stk2, i, x)
               \/ SeenFixed(g, stk2, e2, i, x) /\ \E j \in 1..i : x \in Own(g, stk2, j)
    <3>1. CASE i = n /\ x \in Range(node.outs)
      BY <2>2, <3>1
    <3>2. CASE ~(i = n /\ x \in Range(node.outs))
      <4>1. x \in FixedAt(g, stk, i)
        BY <1>5, <1>8, <3>2
      <4> QED BY <2>1, <3>2, <4>1
    <3> QED BY <3>1, <3>2
  <2> QED BY <1>3, <2>3 DEF FixedInv
<1> QED BY <1>4, <1>9, <1>10, <1>11, <1>12, <1>13 DEF Good

\* The first node of body b is reached with what is fixed at its caller, less what the
\* body binds.
LEMMA FixedEntry ==
  ASSUME NEW g, WellFormed(g), NEW r \in Scopes, NEW k \in DOMAIN g.nodes[r],
         NEW b \in Range(g.nodes[r][k].bodies)
  PROVE  /\ b \in Scopes /\ b # "root" /\ Parent(b) = r
         /\ Fixed(g)[b][1] = Fixed(g)[r][k] \ BodyNames(g, b)
<1>1. /\ b # "root" /\ Parent(b) = r
      /\ \A j \in DOMAIN g.nodes[r] : b \in Range(g.nodes[r][j].bodies) => j = k
  BY DEF WellFormed, Nested
<1>2. b \in Scopes
  <2>1. g.nodes[r][k] \in ANode
    BY NodeFacts
  <2>2. g.nodes[r][k].bodies \in Seq(Scopes)
    BY <2>1, NodeSeqs
  <2> QED BY <2>2 DEF Range
<1>3. CallerOf(g, b) = k
  BY <1>1 DEF CallerOf
<1>4. Fixed(g)[b][1] = IF b = "root" THEN DOMAIN g.inits[b]
                       ELSE Fixed(g)[Parent(b)][CallerOf(g, b)] \ Rebound(g, b)
  BY <1>2, FixedFirst
<1> QED BY <1>1, <1>2, <1>3, <1>4 DEF Rebound

\* A frame at the start of body b, with what the body shadows of e.
Opens(g, b, e, frame) ==
  /\ DOMAIN frame = Fields /\ frame.scope = b /\ frame.pc = 1
  /\ DOMAIN frame.saved = BodyNames(g, b) \cap DOMAIN e
  /\ \A x \in DOMAIN frame.saved : frame.saved[x] = e[x]

\* The formals of body b are bound.
Binds(g, b, e, e2) ==
  /\ DOMAIN e2 = DOMAIN e \cup Range(g.formals[b])
  /\ \A x \in DOMAIN e : x \notin Range(g.formals[b]) => e2[x] = e[x]
  /\ \A x \in Range(g.formals[b]) : e2[x] # NoValue

\* A frame is put on top.
Pushed(stk, frame, stk2) == stk2 = Append(stk, frame)

\* The frames below a new one stay as they are.
LEMMA PushedIs ==
  ASSUME NEW stk, IsSeq(stk), NEW frame
  PROVE  /\ IsSeq(Append(stk, frame)) /\ Len(Append(stk, frame)) = Len(stk) + 1
         /\ Append(stk, frame)[Len(stk) + 1] = frame
         /\ \A i \in 1..Len(stk) : Append(stk, frame)[i] = stk[i]
<1>1. PICK S : stk \in Seq(S)
  BY DEF IsSeq
<1>2. stk \in Seq(S \cup {frame})
  BY <1>1
<1> DEFINE stk2 == Append(stk, frame)
<1>3. stk2 \in Seq(S \cup {frame}) /\ Len(stk2) = Len(stk) + 1
  BY <1>2
<1>4. stk2[Len(stk) + 1] = frame /\ \A i \in 1..Len(stk) : stk2[i] = stk[i]
  BY <1>2
<1> QED BY <1>3, <1>4 DEF IsSeq

LEMMA PushKeeps ==
  ASSUME NEW g, WellFormed(g), NEW stk, NEW e, Good(g, stk, e),
         NEW n, n = Len(stk), n # 0, NEW r, r = stk[n].scope,
         stk[n].pc <= Len(g.nodes[r]), NEW node, node = g.nodes[r][stk[n].pc],
         NEW b \in Range(node.bodies), NEW frame, Opens(g, b, e, frame), Carries(node, frame),
         NEW stk2, Pushed(stk, frame, stk2), NEW e2, Binds(g, b, e, e2)
  PROVE  Good(g, stk2, e2)
<1>1. StackInv(g, stk) /\ StateInv(g, stk)
  BY DEF Good
<1>a. IsSeq(stk)
  BY <1>1 DEF StackInv
<1>b. n \in Nat
  BY <1>a, SeqFacts
<1>c. n \in 1..n
  BY <1>b
<1>d. r \in Scopes /\ stk[n].pc \in 1..(Len(g.nodes[r]) + 1)
  BY <1>1, <1>c DEF StackInv
<1>e. Len(g.nodes[r]) \in Nat /\ DOMAIN g.nodes[r] = 1..Len(g.nodes[r])
  BY <1>d, NodeFacts
<1>2. IsSeq(stk) /\ n \in Nat /\ n \in 1..n /\ r \in Scopes
      /\ stk[n].pc \in DOMAIN g.nodes[r]
  BY <1>a, <1>b, <1>c, <1>d, <1>e
<1>3. /\ b \in Scopes /\ b # "root"
      /\ Fixed(g)[b][1] = Fixed(g)[r][stk[n].pc] \ BodyNames(g, b)
  <2> DEFINE k == stk[n].pc
  <2>1. k \in DOMAIN g.nodes[r] /\ b \in Range(g.nodes[r][k].bodies)
    BY <1>2
  <2> HIDE DEF k
  <2>2. WellFormed(g) /\ r \in Scopes
    BY <1>d
  <2> HIDE DEF Scopes
  <2>3. /\ b \in Scopes /\ b # "root"
        /\ Fixed(g)[b][1] = Fixed(g)[r][k] \ BodyNames(g, b)
    BY ONLY <2>1, <2>2, FixedEntry
  <2> QED BY <2>3 DEF k
<1>4. /\ IsSeq(stk2) /\ Len(stk2) = n + 1 /\ stk2[n + 1] = frame
      /\ \A i \in 1..n : stk2[i] = stk[i]
  <2>1. /\ IsSeq(Append(stk, frame)) /\ Len(Append(stk, frame)) = Len(stk) + 1
        /\ Append(stk, frame)[Len(stk) + 1] = frame
        /\ \A i \in 1..Len(stk) : Append(stk, frame)[i] = stk[i]
    BY ONLY <1>a, PushedIs
  <2> QED BY <2>1 DEF Pushed
<1>5. /\ \A i \in 1..n : Own(g, stk2, i) = Own(g, stk, i)
      /\ \A i \in 2..n : CallerAt(g, stk2, i) = CallerAt(g, stk, i)
      /\ \A i \in 1..n : \A j \in 0..n : \A x : Clear(g, stk2, i, j, x) <=> Clear(g, stk, i, j, x)
      /\ \A i \in 1..n : \A x : Initial(g, stk2, i, x) <=> Initial(g, stk, i, x)
  <2>1. SameBelow(stk, stk2, n) /\ stk2[n].scope = stk[n].scope
    BY <1>2, <1>4 DEF SameBelow
  <2> QED BY <1>2, <2>1, SameOwn
<1>6. /\ \A i \in 1..n : FixedAt(g, stk2, i) = FixedAt(g, stk, i)
      /\ FixedAt(g, stk2, n + 1) = FixedAt(g, stk, n) \ BodyNames(g, b)
      /\ Own(g, stk2, n + 1) = BodyNames(g, b)
      /\ CallerAt(g, stk2, n + 1) = node
  <2>1. frame.scope = b /\ frame.pc = 1
    BY DEF Opens
  <2>2. n + 1 - 1 = n
    BY <1>2
  <2>3. \A i \in 1..n : FixedAt(g, stk2, i) = FixedAt(g, stk, i)
    BY <1>4 DEF FixedAt
  <2>4. stk2[n + 1].scope = b /\ stk2[n + 1].pc = 1 /\ stk2[n + 1 - 1] = stk[n]
    BY <1>2, <1>4, <2>1, <2>2
  <2>5. FixedAt(g, stk2, n + 1) = Fixed(g)[b][1] /\ FixedAt(g, stk, n) = Fixed(g)[r][stk[n].pc]
    BY <2>4 DEF FixedAt
  <2>6. FixedAt(g, stk2, n + 1) = FixedAt(g, stk, n) \ BodyNames(g, b)
    BY <1>3, <2>5
  <2>7. Own(g, stk2, n + 1) = BodyNames(g, b) /\ CallerAt(g, stk2, n + 1) = node
    BY <2>4 DEF Own, CallerAt
  <2> QED BY <2>3, <2>6, <2>7
<1>7. \A i \in 1..(n + 1) : i \in 1..n \/ i = n + 1
  BY <1>2
<1>8. \A i \in 1..n : \A x : Clear(g, stk2, i, n + 1, x) <=> (Clear(g, stk, i, n, x) /\ x \notin BodyNames(g, b))
  <2>1. ASSUME NEW i \in 1..n, NEW x
        PROVE  Clear(g, stk2, i, n + 1, x) <=> (Clear(g, stk2, i, n, x) /\ x \notin Own(g, stk2, n + 1))
    <3>1. (i + 1)..(n + 1) = (i + 1)..n \cup {n + 1}
      BY <1>2
    <3> QED BY <3>1 DEF Clear
  <2>2. n \in 0..n
    BY <1>2
  <2> QED BY <1>5, <1>6, <2>1, <2>2
<1>9. StackInv(g, stk2)
  <2>1. ASSUME NEW i \in 1..n
        PROVE  /\ DOMAIN stk2[i] = Fields
               /\ stk2[i].scope \in Scopes
               /\ stk2[i].pc \in 1..(Len(g.nodes[stk2[i].scope]) + 1)
               /\ i = 1 => stk2[i].scope = "root"
               /\ i # 1 =>
                    /\ stk2[i - 1].pc <= Len(g.nodes[stk2[i - 1].scope])
                    /\ stk2[i].scope \in Range(CallerAt(g, stk2, i).bodies)
    <3>1. i # 1 => i - 1 \in 1..n /\ i \in 2..n
      BY <1>2
    <3> QED BY <1>1, <1>4, <1>5, <3>1 DEF StackInv
  <2>2. /\ DOMAIN frame = Fields
        /\ frame.scope \in Scopes
        /\ frame.pc \in 1..(Len(g.nodes[frame.scope]) + 1)
        /\ n + 1 # 1
        /\ stk2[n + 1 - 1].pc <= Len(g.nodes[stk2[n + 1 - 1].scope])
        /\ frame.scope \in Range(CallerAt(g, stk2, n + 1).bodies)
    <3>1. DOMAIN frame = Fields /\ frame.scope = b /\ frame.pc = 1
      BY DEF Opens
    <3>2. 1 \in 1..(Len(g.nodes[b]) + 1)
      <4>1. Len(g.nodes[b]) \in Nat
        BY <1>3, NodeFacts
      <4> QED BY <4>1
    <3>3. n + 1 # 1 /\ n + 1 - 1 = n
      BY <1>2
    <3>4. stk2[n + 1 - 1] = stk[n]
      BY <1>2, <1>4, <3>3
    <3>5. frame.scope \in Range(CallerAt(g, stk2, n + 1).bodies)
      BY <1>6, <3>1
    <3> QED BY <1>3, <3>1, <3>2, <3>3, <3>4, <3>5
  <2>3. ASSUME NEW i \in 1..(n + 1)
        PROVE  /\ DOMAIN stk2[i] = Fields
               /\ stk2[i].scope \in Scopes
               /\ stk2[i].pc \in 1..(Len(g.nodes[stk2[i].scope]) + 1)
               /\ i = 1 => stk2[i].scope = "root"
               /\ i # 1 =>
                    /\ stk2[i - 1].pc <= Len(g.nodes[stk2[i - 1].scope])
                    /\ stk2[i].scope \in Range(CallerAt(g, stk2, i).bodies)
    <3>1. CASE i = n + 1
      <4>1. stk2[i] = frame /\ i # 1
        BY <1>4, <2>2, <3>1
      <4>2. stk2[i - 1].pc <= Len(g.nodes[stk2[i - 1].scope])
        <5>1. i - 1 = n /\ stk2[n] = stk[n]
          BY <1>2, <1>4, <3>1
        <5>2. stk[n].pc <= Len(g.nodes[stk[n].scope])
          OBVIOUS
        <5> QED BY <5>1, <5>2
      <4>3. frame.scope \in Range(CallerAt(g, stk2, i).bodies)
        BY ONLY <2>2, <3>1
      <4> QED BY ONLY <2>2, <4>1, <4>2, <4>3
    <3>2. CASE i \in 1..n
      BY ONLY <2>1, <3>2
    <3> QED BY <1>7, <3>1, <3>2
  <2> QED BY <1>4, <2>3 DEF StackInv
<1>10. StateInv(g, stk2)
  <2>1. ASSUME NEW i \in 2..(n + 1)
        PROVE  Carries(CallerAt(g, stk2, i), stk2[i])
    <3>1. CASE i = n + 1
      BY <1>4, <1>6, <3>1
    <3>2. CASE i \in 2..n
      <4>1. i \in 1..n
        BY <3>2
      <4> QED BY <1>1, <1>4, <1>5, <3>2, <4>1 DEF StateInv
    <3> QED BY <1>2, <3>1, <3>2
  <2> QED BY <1>4, <2>1 DEF StateInv
<1>11. PresentInv(stk2, e2)
  <2>1. \A x \in DOMAIN e2 : e2[x] # NoValue
    BY DEF Good, PresentInv, Binds
  <2>2. \A x \in DOMAIN frame.saved : frame.saved[x] # NoValue
    BY DEF Good, PresentInv, Opens
  <2>3. \A i \in 1..n : \A x \in DOMAIN stk2[i].saved : stk2[i].saved[x] # NoValue
    BY <1>4 DEF Good, PresentInv
  <2> QED BY <1>4, <1>7, <2>1, <2>2, <2>3 DEF PresentInv
<1>12. /\ DOMAIN e2 = DOMAIN e \cup Range(g.formals[b])
       /\ \A x \in DOMAIN e : x \notin BodyNames(g, b) => e2[x] = e[x]
       /\ Range(g.formals[b]) \subseteq BodyNames(g, b)
       /\ DOMAIN frame.saved = BodyNames(g, b) \cap DOMAIN e
       /\ \A x \in DOMAIN frame.saved : frame.saved[x] = e[x]
  BY DEF Binds, Opens, BodyNames
<1>13. ScopedInv(g, stk2, e2)
  <2>0. n + 1 \in 1..(n + 1) /\ \A i \in 1..n : i \in 1..(n + 1)
    BY <1>2
  <2>1. \A x \in DOMAIN e : x \in CtxInputs \/ \E i \in 1..n : x \in Own(g, stk2, i)
    BY <1>5 DEF Good, ScopedInv
  <2>2. \A x \in DOMAIN e2 : x \in CtxInputs \/ \E i \in 1..(n + 1) : x \in Own(g, stk2, i)
    BY <1>6, <1>12, <2>0, <2>1
  <2>3. ASSUME NEW j \in 2..(n + 1), NEW x \in DOMAIN stk2[j].saved
        PROVE  /\ x \in Own(g, stk2, j)
               /\ x \in CtxInputs \/ \E i \in 1..(j - 1) : x \in Own(g, stk2, i)
    <3>1. CASE j = n + 1
      <4>1. x \in BodyNames(g, b) /\ x \in DOMAIN e /\ j - 1 = n
        BY <1>2, <1>4, <1>12, <3>1
      <4> QED BY <1>6, <2>1, <3>1, <4>1
    <3>2. CASE j \in 2..n
      <4>1. j \in 1..n /\ \A i \in 1..(j - 1) : i \in 1..n
        BY <3>2
      <4>2. x \in DOMAIN stk[j].saved
        BY <1>4, <4>1
      <4>3. /\ x \in Own(g, stk, j)
            /\ x \in CtxInputs \/ \E i \in 1..(j - 1) : x \in Own(g, stk, i)
        BY <3>2, <4>2 DEF Good, ScopedInv
      <4> QED BY <1>5, <4>1, <4>3
    <3> QED BY <1>2, <3>1, <3>2
  <2> QED BY <1>4, <2>2, <2>3 DEF ScopedInv
<1>14. BoundInv(g, stk2, e2)
  <2>1. ASSUME NEW i \in 1..n, NEW x \in BoundBefore(g, stk2[i].scope, stk2[i].pc)
        PROVE  /\ x \in DOMAIN e2
               /\ \A j \in (i + 1)..(n + 1) : x \in Own(g, stk2, j) => x \in DOMAIN stk2[j].saved
    <3>1. x \in BoundBefore(g, stk[i].scope, stk[i].pc)
      BY <1>4
    <3>2. /\ x \in DOMAIN e
          /\ \A j \in (i + 1)..n : x \in Own(g, stk, j) => x \in DOMAIN stk[j].saved
      BY <3>1 DEF Good, BoundInv
    <3>3. ASSUME NEW j \in (i + 1)..(n + 1), x \in Own(g, stk2, j) PROVE x \in DOMAIN stk2[j].saved
      <4>1. CASE j = n + 1
        BY <1>4, <1>6, <1>12, <3>2, <3>3, <4>1
      <4>2. CASE j \in (i + 1)..n
        <5>1. j \in 1..n
          BY <4>2
        <5> QED BY <1>4, <1>5, <3>2, <3>3, <4>2, <5>1
      <4> QED BY <1>2, <4>1, <4>2
    <3> QED BY <1>12, <3>2, <3>3
  <2>2. ASSUME NEW x \in BoundBefore(g, b, 1) PROVE x \in DOMAIN e2
    <3>1. 1..(1 - 1) = {}
      OBVIOUS
    <3>2. x \in Range(g.formals[b])
      BY <3>1 DEF BoundBefore
    <3> QED BY <1>12, <3>2
  <2>3. (n + 1 + 1)..(n + 1) = {} /\ frame.scope = b /\ frame.pc = 1
    BY <1>2 DEF Opens
  <2> QED BY <1>4, <1>7, <2>1, <2>2, <2>3 DEF BoundInv
<1>15. InheritInv(g, stk2)
  <2>1. ASSUME NEW i \in 1..n, NEW x \in FixedAt(g, stk, i), NEW j \in (i + 1)..(n + 1),
               Clear(g, stk2, i, j, x)
        PROVE  x \in FixedAt(g, stk2, j)
    <3>1. CASE j \in (i + 1)..n
      <4>1. j \in 1..n /\ j \in 0..n
        BY <3>1
      <4>2. Clear(g, stk, i, j, x)
        BY <1>5, <2>1, <4>1
      <4> QED BY <1>6, <3>1, <4>1, <4>2 DEF Good, InheritInv
    <3>2. CASE j = n + 1
      <4>1. Clear(g, stk, i, n, x) /\ x \notin BodyNames(g, b)
        BY <1>8, <2>1, <3>2
      <4>2. x \in FixedAt(g, stk, n)
        <5>1. CASE i = n
          BY <5>1
        <5>2. CASE i # n
          <6>1. n \in (i + 1)..n
            BY <1>2, <5>2
          <6> QED BY <4>1, <6>1 DEF Good, InheritInv
        <5> QED BY <5>1, <5>2
      <4> QED BY <1>6, <3>2, <4>1, <4>2
    <3> QED BY <1>2, <3>1, <3>2
  <2>2. ASSUME NEW i \in 1..n, NEW x \in FixedAt(g, stk, i), x \in Own(g, stk, i)
        PROVE  \/ \E k \in 1..(stk2[i].pc - 1) : x \in Range(g.nodes[stk2[i].scope][k].outs)
               \/ i = 1 /\ x \in DOMAIN g.inits["root"]
    BY <1>4, <2>2 DEF Good, InheritInv
  <2>3. ASSUME NEW x \in FixedAt(g, stk2, n + 1) PROVE x \notin Own(g, stk2, n + 1)
    BY <1>6
  <2>4. (n + 1 + 1)..(n + 1) = {}
    BY <1>2
  <2> QED BY <1>4, <1>5, <1>6, <1>7, <2>1, <2>2, <2>3, <2>4 DEF InheritInv
<1>16. FixedInv(g, stk2, e2)
  <2>1. ASSUME NEW i \in 1..n, NEW x \in FixedAt(g, stk, i)
        PROVE  \/ Initial(g, stk2, i, x)
               \/ SeenFixed(g, stk2, e2, i, x) /\ \E j \in 1..i : x \in Own(g, stk2, j)
    <3>1. CASE Initial(g, stk, i, x)
      BY <1>5, <3>1
    <3>2. CASE SeenFixed(g, stk, e, i, x) /\ \E j \in 1..i : x \in Own(g, stk, j)
      <4>1. \E j \in 1..i : x \in Own(g, stk2, j)
        <5>1. \A j \in 1..i : j \in 1..n
          BY <1>2
        <5> QED BY <1>5, <3>2, <5>1
      <4>2. ASSUME Clear(g, stk2, i, n + 1, x) PROVE x \in DOMAIN e2 /\ ~e2[x].live
        <5>1. Clear(g, stk, i, n, x) /\ x \notin BodyNames(g, b)
          BY <1>8, <4>2
        <5>2. x \in DOMAIN e /\ ~e[x].live
          BY <3>2, <5>1 DEF SeenFixed
        <5> QED BY <1>12, <5>1, <5>2
      <4>3. ASSUME NEW j \in (i + 1)..(n + 1), x \in Own(g, stk2, j), Clear(g, stk2, i, j - 1, x)
            PROVE  x \in DOMAIN stk2[j].saved /\ ~stk2[j].saved[x].live
        <5>1. j - 1 \in 0..n
          BY <1>2
        <5>2. Clear(g, stk, i, j - 1, x)
          BY <1>5, <4>3, <5>1
        <5>3. CASE j = n + 1
          <6>1. j - 1 = n
            BY <1>2, <5>3
          <6>2. x \in DOMAIN e /\ ~e[x].live
            BY <3>2, <5>2, <6>1 DEF SeenFixed
          <6>3. x \in DOMAIN frame.saved /\ frame.saved[x] = e[x]
            BY <1>6, <1>12, <4>3, <5>3, <6>2
          <6> QED BY <1>4, <5>3, <6>2, <6>3
        <5>4. CASE j \in (i + 1)..n
          <6>1. j \in 1..n
            BY <5>4
          <6>2. x \in DOMAIN stk[j].saved /\ ~stk[j].saved[x].live
            BY <1>5, <3>2, <4>3, <5>2, <5>4, <6>1 DEF SeenFixed
          <6> QED BY <1>4, <6>1, <6>2
        <5> QED BY <1>2, <5>3, <5>4
      <4> QED BY <1>4, <4>1, <4>2, <4>3 DEF SeenFixed
    <3> QED BY <3>1, <3>2 DEF Good, FixedInv
  <2>2. ASSUME NEW x \in FixedAt(g, stk2, n + 1)
        PROVE  \/ Initial(g, stk2, n + 1, x)
               \/ SeenFixed(g, stk2, e2, n + 1, x) /\ \E j \in 1..(n + 1) : x \in Own(g, stk2, j)
    <3>1. x \in FixedAt(g, stk, n) /\ x \notin BodyNames(g, b)
      BY <1>6
    <3>2. CASE Initial(g, stk, n, x)
      <4>1. Clear(g, stk, 1, n, x) /\ x \in DOMAIN g.inits["root"] /\ 1 \in 1..n
        BY <1>2, <3>2 DEF Initial
      <4> QED BY <1>8, <3>1, <4>1 DEF Initial
    <3>3. CASE SeenFixed(g, stk, e, n, x) /\ \E j \in 1..n : x \in Own(g, stk, j)
      <4>1. Clear(g, stk, n, n, x)
        <5>1. (n + 1)..n = {}
          BY <1>2
        <5> QED BY <5>1 DEF Clear
      <4>2. x \in DOMAIN e /\ ~e[x].live
        BY <3>3, <4>1 DEF SeenFixed
      <4>3. x \in DOMAIN e2 /\ ~e2[x].live
        BY <1>12, <3>1, <4>2
      <4>4. (n + 1 + 1)..(n + 1) = {} /\ \A j \in 1..n : j \in 1..(n + 1)
        BY <1>2
      <4> QED BY <1>4, <1>5, <3>3, <4>3, <4>4 DEF SeenFixed
    <3> QED BY <1>2, <3>1, <3>2, <3>3 DEF Good, FixedInv
  <2> QED BY <1>4, <1>6, <1>7, <2>1, <2>2 DEF FixedInv
<1> QED BY <1>9, <1>10, <1>11, <1>13, <1>14, <1>15, <1>16 DEF Good

\* What the body in frame n bound is gone, and what it shadowed is back.
Restores(g, stk, n, e, e2) ==
  /\ DOMAIN e2 = (DOMAIN e \ Own(g, stk, n)) \cup DOMAIN stk[n].saved
  /\ \A x \in DOMAIN stk[n].saved : e2[x] = stk[n].saved[x]
  /\ \A x \in DOMAIN e : x \notin Own(g, stk, n) => e2[x] = e[x]

LEMMA PoppedIs ==
  ASSUME NEW stk, IsSeq(stk), Len(stk) # 0
  PROVE  /\ IsSeq(Front(stk)) /\ Len(Front(stk)) = Len(stk) - 1
         /\ \A i \in 1..(Len(stk) - 1) : Front(stk)[i] = stk[i]
<1>1. PICK S : stk \in Seq(S)
  BY DEF IsSeq
<1> DEFINE m == Len(stk) - 1
<1>2. m \in Nat /\ \A i \in 1..m : i \in 1..Len(stk)
  BY <1>1
<1>3. Front(stk) = [i \in 1..m |-> stk[i]]
  <2>1. \A i \in 1..m : 1 + i - 1 = i
    BY <1>2
  <2> QED BY <1>1, <1>2, <2>1 DEF Front
<1>4. Front(stk) \in Seq(S)
  BY <1>1, <1>2, <1>3
<1>5. Len(Front(stk)) = m
  BY <1>2, <1>3
<1> QED BY <1>3, <1>4, <1>5 DEF IsSeq

LEMMA PopKeeps ==
  ASSUME NEW g, WellFormed(g), NEW stk, NEW e, Good(g, stk, e),
         NEW n, n = Len(stk), n # 0, n # 1,
         NEW stk2, stk2 = Front(stk), NEW e2, Restores(g, stk, n, e, e2)
  PROVE  Good(g, stk2, e2)
<1>1. StackInv(g, stk) /\ StateInv(g, stk)
  BY DEF Good
<1>a. IsSeq(stk)
  BY <1>1 DEF StackInv
<1>b. n \in Nat
  BY <1>a, SeqFacts
<1> DEFINE m == n - 1
<1>c. m \in Nat /\ m \in 1..m /\ n \in 1..n /\ n \in 2..n /\ m < n
  BY <1>b
<1>2. /\ IsSeq(stk2) /\ Len(stk2) = m
      /\ \A i \in 1..m : stk2[i] = stk[i]
  <2>1. /\ IsSeq(Front(stk)) /\ Len(Front(stk)) = Len(stk) - 1
        /\ \A i \in 1..(Len(stk) - 1) : Front(stk)[i] = stk[i]
    <3>1. Len(stk) # 0
      OBVIOUS
    <3> QED BY ONLY <1>a, <3>1, PoppedIs
  <2> QED BY <2>1
<1>3. \A i \in 1..m : i \in 1..n /\ n \in (i + 1)..n /\ i # n
  BY <1>b
<1> HIDE DEF m
<1>4. /\ \A i \in 1..m : Own(g, stk2, i) = Own(g, stk, i)
      /\ \A i \in 2..m : CallerAt(g, stk2, i) = CallerAt(g, stk, i)
      /\ \A i \in 1..m : \A j \in 0..m : \A x : Clear(g, stk2, i, j, x) <=> Clear(g, stk, i, j, x)
      /\ \A i \in 1..m : \A x : Initial(g, stk2, i, x) <=> Initial(g, stk, i, x)
  <2>1. SameBelow(stk, stk2, m) /\ stk2[m].scope = stk[m].scope
    BY <1>c, <1>2 DEF SameBelow
  <2> QED BY <1>c, <2>1, SameOwn
<1>5. \A i \in 1..m : FixedAt(g, stk2, i) = FixedAt(g, stk, i)
  BY <1>2 DEF FixedAt
<1>6. /\ DOMAIN e2 = (DOMAIN e \ Own(g, stk, n)) \cup DOMAIN stk[n].saved
      /\ \A x \in DOMAIN stk[n].saved : e2[x] = stk[n].saved[x]
      /\ \A x \in DOMAIN e : x \notin Own(g, stk, n) => e2[x] = e[x]
  BY DEF Restores
<1>7. DOMAIN stk[n].saved \subseteq Own(g, stk, n)
  BY <1>c DEF Good, ScopedInv
<1>8. StackInv(g, stk2)
  <2>1. ASSUME NEW i \in 1..m
        PROVE  /\ DOMAIN stk2[i] = Fields
               /\ stk2[i].scope \in Scopes
               /\ stk2[i].pc \in 1..(Len(g.nodes[stk2[i].scope]) + 1)
               /\ i = 1 => stk2[i].scope = "root"
               /\ i # 1 =>
                    /\ stk2[i - 1].pc <= Len(g.nodes[stk2[i - 1].scope])
                    /\ stk2[i].scope \in Range(CallerAt(g, stk2, i).bodies)
    <3>1. i # 1 => i - 1 \in 1..m /\ i \in 2..m
      BY <1>c
    <3> QED BY <1>1, <1>2, <1>3, <1>4, <3>1 DEF StackInv
  <2> QED BY <1>2, <2>1 DEF StackInv
<1>9. StateInv(g, stk2)
  <2>1. ASSUME NEW i \in 2..m
        PROVE  /\ i \in 2..Len(stk) /\ CallerAt(g, stk2, i) = CallerAt(g, stk, i)
               /\ stk2[i] = stk[i]
    <3>1. i \in 1..m /\ i \in 2..n
      BY <1>b, <1>c
    <3> QED BY <1>2, <1>4, <3>1
  <2> QED BY <1>1, <1>2, <2>1 DEF StateInv
<1>10. PresentInv(stk2, e2)
  <2>1. \A x \in DOMAIN stk[n].saved : stk[n].saved[x] # NoValue
    BY <1>c DEF Good, PresentInv
  <2>2. \A x \in DOMAIN e2 : e2[x] # NoValue
    BY <1>6, <2>1 DEF Good, PresentInv
  <2>3. \A i \in 1..m : \A x \in DOMAIN stk2[i].saved : stk2[i].saved[x] # NoValue
    BY <1>2, <1>3 DEF Good, PresentInv
  <2> QED BY <1>2, <2>2, <2>3 DEF PresentInv
<1>11. ScopedInv(g, stk2, e2)
  <2>1. ASSUME NEW x \in DOMAIN e2
        PROVE  x \in CtxInputs \/ \E i \in 1..m : x \in Own(g, stk2, i)
    <3>1. CASE x \in DOMAIN stk[n].saved
      <4>1. x \in CtxInputs \/ \E i \in 1..m : x \in Own(g, stk, i)
        BY <1>c, <3>1 DEF Good, ScopedInv, m
      <4> QED BY <1>4, <4>1
    <3>2. CASE x \in DOMAIN e \ Own(g, stk, n)
      <4>1. x \in CtxInputs \/ \E i \in 1..n : x \in Own(g, stk, i)
        BY <3>2 DEF Good, ScopedInv
      <4>2. \A i \in 1..n : i = n \/ i \in 1..m
        BY <1>b DEF m
      <4> QED BY <1>4, <3>2, <4>1, <4>2
    <3> QED BY <1>6, <3>1, <3>2
  <2>2. ASSUME NEW j \in 2..m, NEW x \in DOMAIN stk2[j].saved
        PROVE  /\ x \in Own(g, stk2, j)
               /\ x \in CtxInputs \/ \E i \in 1..(j - 1) : x \in Own(g, stk2, i)
    <3>1. j \in 1..m /\ j \in 2..n /\ \A i \in 1..(j - 1) : i \in 1..m
      BY <1>b, <1>c
    <3>2. x \in DOMAIN stk[j].saved
      BY <1>2, <3>1
    <3>3. /\ x \in Own(g, stk, j)
          /\ x \in CtxInputs \/ \E i \in 1..(j - 1) : x \in Own(g, stk, i)
      BY <3>1, <3>2 DEF Good, ScopedInv
    <3> QED BY <1>4, <3>1, <3>3
  <2> QED BY <1>2, <2>1, <2>2 DEF ScopedInv
<1>12. BoundInv(g, stk2, e2)
  <2>1. ASSUME NEW i \in 1..m, NEW x \in BoundBefore(g, stk2[i].scope, stk2[i].pc)
        PROVE  /\ x \in DOMAIN e2
               /\ \A j \in (i + 1)..m : x \in Own(g, stk2, j) => x \in DOMAIN stk2[j].saved
    <3>1. x \in BoundBefore(g, stk[i].scope, stk[i].pc)
      BY <1>2
    <3>2. /\ x \in DOMAIN e
          /\ \A j \in (i + 1)..n : x \in Own(g, stk, j) => x \in DOMAIN stk[j].saved
      BY <1>3, <3>1 DEF Good, BoundInv
    <3>3. x \in DOMAIN e2
      BY <1>3, <1>6, <3>2
    <3>4. \A j \in (i + 1)..m : j \in 1..m /\ j \in (i + 1)..n
      BY <1>b, <1>c
    <3> QED BY <1>2, <1>4, <3>2, <3>3, <3>4
  <2> QED BY <1>2, <2>1 DEF BoundInv
<1>13. InheritInv(g, stk2)
  <2>1. ASSUME NEW i \in 1..m, NEW x \in FixedAt(g, stk, i), NEW j \in (i + 1)..m,
               Clear(g, stk2, i, j, x)
        PROVE  x \in FixedAt(g, stk2, j)
    <3>1. j \in 1..m /\ j \in 0..m /\ j \in (i + 1)..n
      BY <1>b, <1>c
    <3>2. Clear(g, stk, i, j, x)
      BY <1>4, <2>1, <3>1
    <3> QED BY <1>3, <1>5, <3>1, <3>2 DEF Good, InheritInv
  <2>2. ASSUME NEW i \in 1..m, NEW x \in FixedAt(g, stk, i), x \in Own(g, stk, i)
        PROVE  \/ \E k \in 1..(stk2[i].pc - 1) : x \in Range(g.nodes[stk2[i].scope][k].outs)
               \/ i = 1 /\ x \in DOMAIN g.inits["root"]
    BY <1>2, <1>3, <2>2 DEF Good, InheritInv
  <2> QED BY <1>2, <1>4, <1>5, <2>1, <2>2 DEF InheritInv
<1>14. FixedInv(g, stk2, e2)
  <2>1. ASSUME NEW i \in 1..m, NEW x \in FixedAt(g, stk, i)
        PROVE  \/ Initial(g, stk2, i, x)
               \/ SeenFixed(g, stk2, e2, i, x) /\ \E j \in 1..i : x \in Own(g, stk2, j)
    <3>1. CASE Initial(g, stk, i, x)
      BY <1>4, <3>1
    <3>2. CASE SeenFixed(g, stk, e, i, x) /\ \E j \in 1..i : x \in Own(g, stk, j)
      <4>1. \E j \in 1..i : x \in Own(g, stk2, j)
        <5>1. \A j \in 1..i : j \in 1..m
          BY <1>c
        <5> QED BY <1>4, <3>2, <5>1
      <4>2. ASSUME Clear(g, stk2, i, m, x) PROVE x \in DOMAIN e2 /\ ~e2[x].live
        <5>1. Clear(g, stk, i, m, x) /\ n - 1 = m
          BY <1>c, <1>4, <4>2 DEF m
        <5>2. CASE x \in Own(g, stk, n)
          <6>1. x \in DOMAIN stk[n].saved /\ ~stk[n].saved[x].live
            BY <1>3, <3>2, <5>1, <5>2 DEF SeenFixed
          <6> QED BY <1>6, <6>1
        <5>3. CASE x \notin Own(g, stk, n)
          <6>1. Clear(g, stk, i, n, x)
            <7>1. (i + 1)..n = (i + 1)..m \cup {n}
              BY <1>b, <1>c DEF m
            <7> QED BY <5>1, <5>3, <7>1 DEF Clear
          <6>2. x \in DOMAIN e /\ ~e[x].live
            BY <3>2, <6>1 DEF SeenFixed
          <6>3. x \notin DOMAIN stk[n].saved
            BY <1>7, <5>3
          <6> QED BY <1>6, <5>3, <6>2, <6>3
        <5> QED BY <5>2, <5>3
      <4>3. ASSUME NEW j \in (i + 1)..m, x \in Own(g, stk2, j), Clear(g, stk2, i, j - 1, x)
            PROVE  x \in DOMAIN stk2[j].saved /\ ~stk2[j].saved[x].live
        <5>1. j \in 1..m /\ j \in (i + 1)..n /\ j - 1 \in 0..m
          BY <1>b, <1>c
        <5>2. Clear(g, stk, i, j - 1, x) /\ x \in Own(g, stk, j)
          BY <1>4, <4>3, <5>1
        <5>3. x \in DOMAIN stk[j].saved /\ ~stk[j].saved[x].live
          BY <3>2, <5>1, <5>2 DEF SeenFixed
        <5> QED BY <1>2, <5>1, <5>3
      <4> QED BY <1>2, <4>1, <4>2, <4>3 DEF SeenFixed
    <3> QED BY <1>3, <3>1, <3>2 DEF Good, FixedInv
  <2> QED BY <1>2, <1>5, <2>1 DEF FixedInv
<1> QED BY <1>8, <1>9, <1>10, <1>11, <1>12, <1>13, <1>14 DEF Good

\* The frames below frame n are in the scopes around it, each at the node whose body
\* is above it.
Chained(g, stk, n) ==
  /\ \A j \in 1..(n - 1) : stk[j].scope \in Outer(stk[n].scope)
  /\ \A t \in Outer(stk[n].scope) : \A m \in DOMAIN g.nodes[t] :
       Range(g.nodes[t][m].bodies) \cap Within(stk[n].scope) # {} =>
         \E i \in 1..(n - 1) : stk[i].scope = t /\ stk[i].pc = m

LEMMA Chain ==
  ASSUME NEW g, WellFormed(g), NEW stk, StackInv(g, stk), NEW n, n = Len(stk), n # 0
  PROVE  Chained(g, stk, n)
<1>1. IsSeq(stk)
  BY DEF StackInv
<1>2. n \in Nat
  BY <1>1, SeqFacts
<1>n. \A t \in Scopes : \A m \in DOMAIN g.nodes[t] : \A b \in Range(g.nodes[t][m].bodies) :
        /\ b # "root" /\ Parent(b) = t
        /\ \A j \in DOMAIN g.nodes[t] : b \in Range(g.nodes[t][j].bodies) => j = m
  BY DEF WellFormed, Nested
<1> DEFINE at(i) == stk[i].scope
<1>3. at(1) = "root" /\ \A i \in 1..n : at(i) \in Scopes
  <2>1. 1 \in 1..n
    BY <1>2
  <2> QED BY <2>1 DEF StackInv
<1>4. ASSUME NEW i \in 1..n, i # 1
      PROVE  /\ at(i) # "root" /\ Parent(at(i)) = at(i - 1)
             /\ stk[i - 1].pc \in DOMAIN g.nodes[at(i - 1)]
             /\ at(i) \in Range(g.nodes[at(i - 1)][stk[i - 1].pc].bodies)
  <2>1. i - 1 \in 1..n
    BY <1>2, <1>4
  <2>2. stk[i - 1].pc \in 1..Len(g.nodes[at(i - 1)])
    <3>1. Len(g.nodes[at(i - 1)]) \in Nat
      BY <1>3, <2>1, NodeFacts
    <3>2. stk[i - 1].pc \in 1..(Len(g.nodes[at(i - 1)]) + 1) /\ stk[i - 1].pc <= Len(g.nodes[at(i - 1)])
      BY <1>4, <2>1 DEF StackInv
    <3> QED BY <3>1, <3>2
  <2>3. stk[i - 1].pc \in DOMAIN g.nodes[at(i - 1)]
    BY <1>3, <2>1, <2>2, NodeFacts
  <2>4. at(i) \in Range(g.nodes[at(i - 1)][stk[i - 1].pc].bodies)
    BY <1>4 DEF StackInv, CallerAt
  <2>5. at(i - 1) \in Scopes
    BY <1>3, <2>1
  <2>6. at(i) # "root" /\ Parent(at(i)) = at(i - 1)
    <3> HIDE DEF at, Scopes
    <3> QED BY <1>n, <2>3, <2>4, <2>5
  <2> QED BY <2>3, <2>4, <2>6
\* A node with a body around or at frame i + 1 is the one frame i is at.
<1>5. ASSUME NEW i \in 1..n, i # 1, NEW m \in DOMAIN g.nodes[at(i - 1)],
             at(i) \in Range(g.nodes[at(i - 1)][m].bodies)
      PROVE  stk[i - 1].pc = m
  <2>1. i - 1 \in 1..n
    BY <1>2, <1>5
  <2>2. at(i - 1) \in Scopes
    BY <1>3, <2>1
  <2>3. \A j \in DOMAIN g.nodes[at(i - 1)] :
          at(i) \in Range(g.nodes[at(i - 1)][j].bodies) => j = m
    <3> HIDE DEF at, Scopes
    <3> QED BY <1>n, <1>5, <2>2
  <2> QED BY <1>4, <1>5, <2>3
<1> HIDE DEF at
<1>6. CASE n = 1
  <2>1. 1..(n - 1) = {}
    BY <1>6
  <2>2. Outer(at(n)) = {}
    BY <1>3, <1>6 DEF Outer
  <2> QED BY <2>1, <2>2 DEF at, Chained
<1>7. CASE n = 2
  <2>1. 2 \in 1..n /\ 2 - 1 = 1 /\ 1 \in 1..(n - 1) /\ \A j \in 1..(n - 1) : j = 1
    BY <1>7
  <2>2. at(2) \in {"then", "else"}
    BY <1>3, <1>4, <2>1 DEF Parent
  <2>3. Outer(at(2)) = {"root"} /\ Within(at(2)) = {at(2), "root"}
    BY <2>2 DEF Outer, Parent, Within
  <2>4. ASSUME NEW m \in DOMAIN g.nodes["root"],
               Range(g.nodes["root"][m].bodies) \cap Within(at(2)) # {}
        PROVE  stk[1].pc = m
    <3>1. at(2) \in Range(g.nodes["root"][m].bodies)
      BY <1>n, <2>3, <2>4
    <3> QED BY <1>3, <1>5, <2>1, <3>1
  <2> QED BY <1>3, <1>7, <2>1, <2>3, <2>4 DEF at, Chained
<1>8. CASE n >= 3
  <2>1. 2 \in 1..n /\ 3 \in 1..n /\ 2 - 1 = 1 /\ 3 - 1 = 2
    BY <1>2, <1>8
  <2>2. at(2) = "then" /\ at(3) = "inner"
    <3>1. Parent(at(2)) = "root" /\ Parent(at(3)) = at(2) /\ at(2) # "root"
      BY <1>3, <1>4, <2>1
    <3> QED BY <1>3, <2>1, <3>1 DEF Parent
  <2>3. n = 3
    <3>1. SUFFICES ASSUME n # 3 PROVE FALSE
      OBVIOUS
    <3>2. 4 \in 1..n /\ 4 - 1 = 3
      BY <1>2, <1>8, <3>1
    <3>3. Parent(at(4)) = "inner"
      BY <1>4, <2>2, <3>2
    <3> QED BY <3>3 DEF Parent
  <2>4. Outer(at(3)) = {"then", "root"} /\ Within(at(3)) = {"inner", "then", "root"}
    BY <2>2 DEF Outer, Parent, Within
  <2>5. ASSUME NEW m \in DOMAIN g.nodes["root"],
               Range(g.nodes["root"][m].bodies) \cap Within(at(3)) # {}
        PROVE  stk[1].pc = m
    <3>1. "then" \in Range(g.nodes["root"][m].bodies)
      BY <1>n, <2>4, <2>5 DEF Parent
    <3> QED BY <1>3, <1>5, <2>1, <2>2, <3>1
  <2>6. ASSUME NEW m \in DOMAIN g.nodes["then"],
               Range(g.nodes["then"][m].bodies) \cap Within(at(3)) # {}
        PROVE  stk[2].pc = m
    <3>1. "inner" \in Range(g.nodes["then"][m].bodies)
      BY <1>n, <2>4, <2>6 DEF Parent
    <3> QED BY <1>5, <2>1, <2>2, <3>1
  <2>7. 1 \in 1..(n - 1) /\ 2 \in 1..(n - 1) /\ \A j \in 1..(n - 1) : j = 1 \/ j = 2
    BY <2>3
  <2> QED BY <1>3, <2>2, <2>3, <2>4, <2>5, <2>6, <2>7 DEF at, Chained
<1> QED BY <1>2, <1>6, <1>7, <1>8

-----------------------------------------------------------------------------
(* Values, and the operands of a node. *)

LEMMA LeafIs ==
  ASSUME NEW op, NEW n
  PROVE  Val(op, n, <<>>).op = op /\ ~Val(op, n, <<>>).live
<1>1. DOMAIN <<>> = {}
  OBVIOUS
<1> QED BY <1>1 DEF Val

LEMMA OpMatters ==
  ASSUME NEW op, NEW n, NEW args, op # "missing"
  PROVE  Val(op, n, args) # NoValue
<1>1. Val(op, n, args).op = op /\ NoValue.op = "missing"
  BY DEF Val, NoValue
<1> QED BY <1>1

\* A boundary input depends on the host's data, and is never missing.
LEMMA HostIs ==
  ASSUME NEW x, NEW n
  PROVE  HostValue(x, n) # NoValue
<1>1. HostValue(x, n).live = TRUE
  BY DEF HostValue
<1>2. ~NoValue.live
  BY LeafIs DEF NoValue
<1> QED BY <1>1, <1>2

\* An initializer is there and does not depend on the host's data.
LEMMA InitIs ==
  ASSUME NEW g, WellFormed(g), NEW s \in Scopes, NEW x, InitScopeOf(g, s, x) # "none"
  PROVE  /\ InitScopeOf(g, s, x) \in Scopes
         /\ InitValues(g, InitScopeOf(g, s, x))[x] # NoValue
         /\ ~InitValues(g, InitScopeOf(g, s, x))[x].live
<1> DEFINE of == InitScopeOf(g, s, x)
<1>1. of \in Within(s) /\ x \in DOMAIN g.inits[of]
  BY BearerFound
<1>2. of \in Scopes
  BY <1>1, ScopeFacts
<1>3. x # "missing"
  BY <1>1, <1>2 DEF WellFormed, Typed
<1> HIDE DEF of
<1>4. InitValues(g, of)[x] = Val(x, g.inits[of][x], <<>>)
  BY <1>1 DEF InitValues
<1> QED BY <1>2, <1>3, <1>4, LeafIs, OpMatters DEF of

\* What a node computes from shapes, or from what does not depend on the host's data,
\* does not depend on them.
LEMMA AppliedIs ==
  ASSUME NEW node \in ANode, NEW args
  PROVE  /\ Applied(node, args) # NoValue
         /\ (node.kind = "Shape" \/ (node.kind # "Random" /\ \A i \in DOMAIN args : ~args[i].live))
              => ~Applied(node, args).live
<1>1. node.id # "missing"
  BY NodeSeqs
<1>2. Applied(node, args).op = node.id /\ NoValue.op = "missing"
  BY DEF Applied, Val, NoValue
<1>3. CASE node.kind = "Shape"
  <2>1. Applied(node, args).live = FALSE
    BY <1>3 DEF Applied, Val
  <2> QED BY <1>1, <1>2, <2>1
<1>4. CASE node.kind # "Shape"
  <2>1. ASSUME node.kind # "Random", \A i \in DOMAIN args : ~args[i].live
        PROVE  ~Applied(node, args).live
    <3>1. Applied(node, args).live = ((\E i \in DOMAIN args : args[i].live) \/ node.kind = "Random")
      BY <1>4 DEF Applied, Val
    <3> QED BY <2>1, <3>1
  <2> QED BY <1>1, <1>2, <1>4, <2>1
<1> QED BY <1>3, <1>4

LEMMA SourceIs ==
  ASSUME NEW g, NEW s, NEW x
  PROVE  /\ Source(g, s, x) \in {"Intermediate", "Initializer", "CtxInput", "Unresolved"}
         /\ Source(g, s, x) = "Initializer" => InitScopeOf(g, s, x) # "none"
         /\ Source(g, s, x) = "CtxInput" =>
              /\ x \in CtxInputs /\ InitScopeOf(g, s, x) = "none" /\ x \notin Produced(g, s)
              /\ s # "root" => x \notin Range(g.formals[s])
         /\ Source(g, s, x) = "Intermediate" =>
              \/ x \in Produced(g, s) \/ (s # "root" /\ x \in Range(g.formals[s]))
              \/ InitScopeOf(g, s, x) = "none"
<1>1. CASE x \in Produced(g, s) \/ (s # "root" /\ x \in Range(g.formals[s]))
  <2>1. Source(g, s, x) = "Intermediate"
    BY <1>1 DEF Source
  <2> QED BY <1>1, <2>1
<1>2. CASE /\ ~(x \in Produced(g, s) \/ (s # "root" /\ x \in Range(g.formals[s])))
           /\ InitScopeOf(g, s, x) # "none"
  <2>1. Source(g, s, x) = "Initializer"
    BY <1>2 DEF Source
  <2> QED BY <1>2, <2>1
<1>3. CASE /\ ~(x \in Produced(g, s) \/ (s # "root" /\ x \in Range(g.formals[s])))
           /\ InitScopeOf(g, s, x) = "none"
  <2>1. CASE x \in CtxInputs
    <3>1. Source(g, s, x) = "CtxInput"
      BY <1>3, <2>1 DEF Source
    <3> QED BY <1>3, <2>1, <3>1
  <2>2. CASE x \notin CtxInputs
    <3>1. Source(g, s, x) = "Intermediate" \/ Source(g, s, x) = "Unresolved"
      BY <1>3, <2>2 DEF Source
    <3> QED BY <1>3, <3>1
  <2> QED BY <2>1, <2>2
<1> QED BY <1>1, <1>2, <1>3

\* The top frame, and the plan of its graph.
LEMMA TopIs ==
  ASSUME TInv, mode # "idle"
  PROVE  /\ WellFormed(p) /\ IsSeq(stack) /\ Len(stack) \in Nat /\ Len(stack) # 0
         /\ StackInv(p, stack)
         /\ Top = stack[Len(stack)] /\ Top.scope \in Scopes /\ DOMAIN Top = Fields
         /\ Top.pc \in 1..(Len(p.nodes[Top.scope]) + 1)
         /\ plan.own = [s \in Scopes |-> BodyNames(p, s)]
<1>1. WellFormed(p)
  BY TranslateAssumption DEF TInv, PlanInv
<1>2. StackInv(p, stack) /\ stack # <<>>
  BY DEF TInv, Good, ControlInv
<1>3. IsSeq(stack)
  BY <1>2 DEF StackInv
<1>4. Len(stack) \in Nat /\ Len(stack) # 0
  <2>1. PICK S : stack \in Seq(S)
    BY <1>3 DEF IsSeq
  <2> QED BY <1>2, <2>1
<1>5. Len(stack) \in 1..Len(stack)
  BY <1>4
<1>6. Top = stack[Len(stack)]
  BY DEF Top
<1>7. plan.own = [s \in Scopes |-> BodyNames(p, s)]
  BY DEF TInv, PlanInv, Plan
<1> QED BY <1>1, <1>2, <1>3, <1>4, <1>5, <1>6, <1>7 DEF StackInv

LEMMA NodeIs ==
  ASSUME TInv, InNode
  PROVE  /\ Top.pc \in DOMAIN p.nodes[Top.scope]
         /\ Node = p.nodes[Top.scope][Top.pc] /\ Node \in ANode /\ Node \in NodesOf(p, Top.scope)
         /\ plan.fixed[Top.scope][Top.pc] = FixedAt(p, stack, Len(stack))
         /\ \A x \in Range(Node.ins) :
              /\ SourceOf(Top.scope, x) = Source(p, Top.scope, x)
              /\ Ref(Top.scope, x).of = InitScopeOf(p, Top.scope, x)
<1>1. mode # "idle" /\ Top.pc <= Len(p.nodes[Top.scope])
  BY DEF InNode
<1>2. /\ WellFormed(p) /\ Top = stack[Len(stack)] /\ Top.scope \in Scopes
      /\ Top.pc \in 1..(Len(p.nodes[Top.scope]) + 1)
  BY <1>1, TopIs
<1>3. /\ Len(p.nodes[Top.scope]) \in Nat
      /\ DOMAIN p.nodes[Top.scope] = 1..Len(p.nodes[Top.scope])
  BY <1>2, NodeFacts
<1>4. Top.pc \in DOMAIN p.nodes[Top.scope] /\ Top.pc \in 1..Len(p.nodes[Top.scope])
  BY <1>1, <1>2, <1>3
<1>5. Node = p.nodes[Top.scope][Top.pc]
  BY DEF Node
<1>6. Node \in ANode /\ Node \in NodesOf(p, Top.scope)
  BY <1>2, <1>4, <1>5, NodeFacts
<1>7. plan = Plan(p)
  BY DEF TInv, PlanInv
<1>8. plan.fixed[Top.scope][Top.pc] = FixedAt(p, stack, Len(stack))
  <2>1. plan.fixed = [s \in Scopes |-> [i \in DOMAIN p.nodes[s] |-> Fixed(p)[s][i]]]
    BY <1>7 DEF Plan
  <2> QED BY <1>2, <1>4, <2>1 DEF FixedAt
<1>9. ASSUME NEW x \in Range(Node.ins)
      PROVE  /\ SourceOf(Top.scope, x) = Source(p, Top.scope, x)
             /\ Ref(Top.scope, x).of = InitScopeOf(p, Top.scope, x)
  <2> DEFINE used(s) == UNION {Range(node.ins) : node \in NodesOf(p, s)} \cup Range(p.outs[s])
  <2>1. plan.ref = [s \in Scopes |-> [y \in used(s) |->
                      [source |-> Source(p, s, y), of |-> InitScopeOf(p, s, y)]]]
    BY <1>7 DEF Plan
  <2>2. x \in used(Top.scope)
    BY <1>6, <1>9
  <2> HIDE DEF used
  <2>3. Ref(Top.scope, x) = [source |-> Source(p, Top.scope, x), of |-> InitScopeOf(p, Top.scope, x)]
    BY <1>2, <2>1, <2>2 DEF Ref
  <2> QED BY <2>3 DEF SourceOf
<1> QED BY <1>4, <1>5, <1>6, <1>8, <1>9

\* An intermediate operand is bound by a graph in translation.
LEMMA OperandBound ==
  ASSUME TInv, InNode, NEW x \in Range(Node.ins), SourceOf(Top.scope, x) = "Intermediate"
  PROVE  \E i \in 1..Len(stack) : x \in BoundBefore(p, stack[i].scope, stack[i].pc)
<1> DEFINE s == Top.scope
           n == Len(stack)
<1>1. /\ WellFormed(p) /\ StackInv(p, stack) /\ n \in Nat /\ n # 0 /\ s = stack[n].scope
      /\ s \in Scopes
  BY TopIs DEF InNode
<1>2. /\ Top.pc \in DOMAIN p.nodes[s] /\ Node = p.nodes[s][Top.pc]
      /\ Source(p, s, x) = "Intermediate"
  BY NodeIs
<1>3. Top.pc = stack[n].pc
  BY DEF Top
<1> HIDE DEF s
<1>4. \/ x \in BoundBefore(p, s, Top.pc)
      \/ \E t \in Outer(s) : \E m \in DOMAIN p.nodes[t] :
           /\ Range(p.nodes[t][m].bodies) \cap Within(s) # {}
           /\ x \in BoundBefore(p, t, m)
  BY <1>1, <1>2 DEF WellFormed, Ordered
<1>5. Chained(p, stack, n)
  BY <1>1, Chain
<1> HIDE DEF n
<1>6. CASE x \in BoundBefore(p, s, Top.pc)
  <2>1. n \in 1..n
    BY <1>1
  <2>2. \E i \in 1..n : x \in BoundBefore(p, stack[i].scope, stack[i].pc)
    BY <1>1, <1>3, <1>6, <2>1
  <2> QED BY <2>2 DEF n
<1>7. CASE \E t \in Outer(s) : \E m \in DOMAIN p.nodes[t] :
             /\ Range(p.nodes[t][m].bodies) \cap Within(s) # {}
             /\ x \in BoundBefore(p, t, m)
  <2>1. PICK t \in Outer(s) : \E m \in DOMAIN p.nodes[t] :
               /\ Range(p.nodes[t][m].bodies) \cap Within(s) # {}
               /\ x \in BoundBefore(p, t, m)
    BY <1>7
  <2>2. PICK m \in DOMAIN p.nodes[t] :
               /\ Range(p.nodes[t][m].bodies) \cap Within(s) # {}
               /\ x \in BoundBefore(p, t, m)
    BY <2>1
  <2>3. PICK i \in 1..(n - 1) : stack[i].scope = t /\ stack[i].pc = m
    BY <1>1, <1>5, <2>2 DEF Chained
  <2>4. i \in 1..n
    BY <1>1
  <2> QED BY <2>2, <2>3, <2>4 DEF n
<1> QED BY <1>4, <1>6, <1>7

\* Every operand has a source, and an intermediate one is there.
LEMMA OperandIs ==
  ASSUME TInv, InNode, NEW x \in Range(Node.ins)
  PROVE  /\ SourceOf(Top.scope, x) \in {"Intermediate", "Initializer", "CtxInput"}
         /\ SourceOf(Top.scope, x) = "Intermediate" => x \in DOMAIN env /\ env[x] # NoValue
         /\ SourceOf(Top.scope, x) = "Initializer" =>
              /\ Ref(Top.scope, x).of \in Scopes
              /\ InitValue(Top.scope, x) # NoValue /\ ~InitValue(Top.scope, x).live
         /\ SourceOf(Top.scope, x) = "CtxInput" => x \in CtxInputs
<1> DEFINE s == Top.scope
           n == Len(stack)
<1>1. /\ WellFormed(p) /\ StackInv(p, stack) /\ n \in Nat /\ n # 0 /\ s = stack[n].scope
      /\ s \in Scopes
  BY TopIs DEF InNode
<1>2. /\ Top.pc \in DOMAIN p.nodes[s] /\ Node = p.nodes[s][Top.pc]
      /\ SourceOf(s, x) = Source(p, s, x) /\ Ref(s, x).of = InitScopeOf(p, s, x)
  BY NodeIs
<1>3. Top.pc = stack[n].pc
  BY DEF Top
<1> HIDE DEF s, n
<1>4. Source(p, s, x) # "Unresolved"
  BY <1>1, <1>2 DEF WellFormed, Ordered
<1>5. ASSUME Source(p, s, x) = "Intermediate" PROVE x \in DOMAIN env
  BY <1>2, <1>5, OperandBound DEF TInv, Good, BoundInv, s
<1>6. \A y \in DOMAIN env : env[y] # NoValue
  BY DEF TInv, Good, PresentInv
<1>7. ASSUME Source(p, s, x) = "Initializer"
      PROVE  /\ InitScopeOf(p, s, x) \in Scopes
             /\ InitValue(s, x) # NoValue /\ ~InitValue(s, x).live
  <2>1. InitScopeOf(p, s, x) # "none"
    BY <1>7, SourceIs
  <2> QED BY <1>1, <1>2, <2>1, InitIs DEF InitValue
<1> QED BY <1>2, <1>4, <1>5, <1>6, <1>7, SourceIs DEF s

\* A fixed operand is no boundary input, and what is seen under its name does not
\* depend on the host's data.
LEMMA FixedSeen ==
  ASSUME TInv, InNode, NEW x \in Range(Node.ins), x \in FixedAt(p, stack, Len(stack))
  PROVE  /\ SourceOf(Top.scope, x) # "CtxInput"
         /\ SourceOf(Top.scope, x) = "Intermediate" => ~env[x].live
<1> DEFINE s == Top.scope
           n == Len(stack)
<1>1. /\ WellFormed(p) /\ StackInv(p, stack) /\ n \in Nat /\ n # 0 /\ s = stack[n].scope
      /\ s \in Scopes
  BY TopIs DEF InNode
<1>2. /\ Top.pc \in DOMAIN p.nodes[s] /\ Node = p.nodes[s][Top.pc]
      /\ SourceOf(s, x) = Source(p, s, x)
  BY NodeIs
<1>3. n \in 1..n /\ x \in FixedAt(p, stack, n)
  BY <1>1
<1> HIDE DEF s, n
<1>4. \/ Initial(p, stack, n, x)
      \/ SeenFixed(p, stack, env, n, x) /\ \E j \in 1..n : x \in Own(p, stack, j)
  BY <1>3 DEF TInv, Good, FixedInv, n
<1>5. CASE Initial(p, stack, n, x)
  <2>1. x \in DOMAIN p.inits["root"] /\ Clear(p, stack, 1, n, x)
    BY <1>5 DEF Initial
  <2>2. "root" \in Within(s)
    BY <1>1 DEF Within, Outer
  <2>3. InitScopeOf(p, s, x) # "none"
    BY <1>1, <2>1, <2>2, BearerSought
  <2>4. x \notin Produced(p, s) /\ (s # "root" => x \notin Range(p.formals[s]))
    <3>1. CASE n = 1
      <4>1. s = "root"
        BY <1>1, <1>3, <3>1 DEF StackInv, n
      <4>2. Produced(p, "root") \cap DOMAIN p.inits["root"] = {}
        BY <1>1 DEF WellFormed, SingleAssignment
      <4> QED BY <2>1, <4>1, <4>2
    <3>2. CASE n # 1
      <4>1. n \in (1 + 1)..n
        BY <1>1, <3>2
      <4>2. x \notin BodyNames(p, s)
        BY <1>1, <2>1, <4>1 DEF Clear, Own
      <4> QED BY <4>2 DEF BodyNames
    <3> QED BY <3>1, <3>2
  <2>5. Source(p, s, x) = "Initializer"
    BY <2>3, <2>4 DEF Source
  <2> QED BY <1>2, <2>5 DEF s
<1>6. CASE SeenFixed(p, stack, env, n, x) /\ \E j \in 1..n : x \in Own(p, stack, j)
  <2>1. ~env[x].live
    <3>1. (n + 1)..n = {}
      BY <1>1
    <3>2. Clear(p, stack, n, n, x)
      BY <3>1 DEF Clear
    <3> QED BY <1>6, <3>2 DEF SeenFixed, n
  <2>2. Source(p, s, x) # "CtxInput"
    <3>1. SUFFICES ASSUME Source(p, s, x) = "CtxInput" PROVE FALSE
      OBVIOUS
    <3>2. x \notin Produced(p, s) /\ (s # "root" => x \notin Range(p.formals[s]))
      BY <3>1, SourceIs
    <3>3. x \notin Around(p, s)
      BY <1>1, <1>2, <3>1 DEF WellFormed, Ordered
    <3>4. x \notin BodyNames(p, s)
      <4>1. p.formals["root"] = <<>>
        BY <1>1 DEF WellFormed, Arities
      <4>2. Range(<<>>) = {}
        BY DEF Range
      <4> QED BY <3>2, <4>1, <4>2 DEF BodyNames
    <3>5. PICK j \in 1..n : x \in BodyNames(p, stack[j].scope)
      BY <1>6 DEF Own
    <3>6. CASE j = n
      BY <1>1, <3>4, <3>5, <3>6
    <3>7. CASE j # n
      <4>1. j \in 1..(n - 1)
        BY <1>1, <3>7
      <4>2. Chained(p, stack, n)
        BY <1>1, Chain DEF n
      <4>3. stack[j].scope \in Outer(s)
        BY <1>1, <4>1, <4>2 DEF Chained
      <4> QED BY <3>3, <3>5, <4>3 DEF Around
    <3> QED BY <3>6, <3>7
  <2> QED BY <1>2, <2>1, <2>2 DEF s
<1> QED BY <1>4, <1>5, <1>6

\* Every operand is found, and does not depend on the host's data if it is fixed.
LEMMA ResolvedIs ==
  ASSUME TInv, InNode, NEW x \in Range(Node.ins)
  PROVE  /\ Resolve(Top.scope, x) # NoValue
         /\ (SourceOf(Top.scope, x) = "Initializer" \/ x \in FixedAt(p, stack, Len(stack)))
              => ~Resolve(Top.scope, x).live
<1>1. CASE SourceOf(Top.scope, x) = "Intermediate"
  <2>1. Resolve(Top.scope, x) = env[x] /\ env[x] # NoValue
    BY <1>1, OperandIs DEF Resolve
  <2> QED BY <1>1, <2>1, FixedSeen
<1>2. CASE SourceOf(Top.scope, x) = "Initializer"
  <2>1. Resolve(Top.scope, x) = Cached(Key(Top.scope, x), InitValue(Top.scope, x))
    BY <1>2 DEF Resolve
  <2>2. \A k \in DOMAIN cache : cache[k] # NoValue /\ ~cache[k].live
    BY DEF TInv, CacheGood
  <2>3. InitValue(Top.scope, x) # NoValue /\ ~InitValue(Top.scope, x).live
    BY <1>2, OperandIs
  <2>4. CASE Key(Top.scope, x) \in DOMAIN cache
    BY <2>1, <2>2, <2>4 DEF Cached
  <2>5. CASE Key(Top.scope, x) \notin DOMAIN cache
    BY <2>1, <2>3, <2>5 DEF Cached
  <2> QED BY <2>4, <2>5
<1>3. CASE SourceOf(Top.scope, x) = "CtxInput"
  <2>1. Resolve(Top.scope, x) = IF x \in DOMAIN env THEN env[x] ELSE host[x]
    BY <1>3 DEF Resolve
  <2>2. \A y \in DOMAIN env : env[y] # NoValue
    BY DEF TInv, Good, PresentInv
  <2>3. host[x] # NoValue
    BY <1>3, OperandIs DEF TInv, HostInv
  <2> QED BY <1>3, <2>1, <2>2, <2>3, FixedSeen
<1> QED BY <1>1, <1>2, <1>3, OperandIs

\* The arguments of a node are found, those read on the host if they are there.
LEMMA ArgumentIs ==
  ASSUME TInv, InNode, NEW k \in DOMAIN Node.ins
  PROVE  /\ Node.ins[k] \in Range(Node.ins)
         /\ (\A x \in HostRead(Node) : HostReadable(Top.scope, x)) => Argument(k) # NoValue
         /\ (/\ Argument(k) # NoValue
             /\ \/ SourceOf(Top.scope, Node.ins[k]) = "Initializer"
                \/ Node.ins[k] \in FixedAt(p, stack, Len(stack))) => ~Argument(k).live
<1> DEFINE x == Node.ins[k]
<1>1. x \in Range(Node.ins)
  BY DEF Range
<1>2. CASE Node.kind = "Pack" /\ k = 2
  <2> DEFINE y == Node.ins[2]
  <2>0. y = x
    BY <1>2
  <2>1. CASE SourceOf(Top.scope, y) = "Initializer"
    <3>1. Argument(k) = Cached(PackKey(y), InitValue(Top.scope, y))
      BY <1>2, <2>1 DEF Argument
    <3>2. \A l \in DOMAIN cache : cache[l] # NoValue /\ ~cache[l].live
      BY DEF TInv, CacheGood
    <3>3. InitValue(Top.scope, y) # NoValue /\ ~InitValue(Top.scope, y).live
      BY <1>1, <2>0, <2>1, OperandIs
    <3>4. CASE PackKey(y) \in DOMAIN cache
      BY <1>1, <3>1, <3>2, <3>4 DEF Cached
    <3>5. CASE PackKey(y) \notin DOMAIN cache
      BY <1>1, <3>1, <3>3, <3>5 DEF Cached
    <3> QED BY <3>4, <3>5
  <2>2. CASE SourceOf(Top.scope, y) = "CtxInput"
    <3>1. Argument(k) = host[y]
      BY <1>2, <2>2 DEF Argument, RawHost
    <3>2. host[y] # NoValue
      BY <1>1, <2>0, <2>2, OperandIs DEF TInv, HostInv
    <3> QED BY <1>1, <2>0, <2>2, <3>1, <3>2, FixedSeen
  <2>3. CASE SourceOf(Top.scope, y) = "Intermediate"
    <3>1. Argument(k) = NoValue
      BY <1>2, <2>3 DEF Argument, RawHost
    <3>2. ~HostReadable(Top.scope, y) /\ y \in HostRead(Node)
      BY <1>2, <2>3 DEF HostReadable, HostRead
    <3> QED BY <1>1, <3>1, <3>2
  <2> QED BY <1>1, <2>0, <2>1, <2>2, <2>3, OperandIs
<1>3. CASE ~(Node.kind = "Pack" /\ k = 2)
  <2>1. Argument(k) = Resolve(Top.scope, x)
    BY <1>3 DEF Argument
  <2> QED BY <1>1, <2>1, ResolvedIs
<1> QED BY <1>2, <1>3

\* What a node derives from initializers and shapes does not depend on the host's data.
LEMMA DerivedIs ==
  ASSUME TInv, InNode, ~Missing(Arguments),
         Derives(p, Top.scope, Node, FixedAt(p, stack, Len(stack)))
  PROVE  ~Applied(Node, Arguments).live
<1>1. Node \in ANode /\ \A x \in Range(Node.ins) : SourceOf(Top.scope, x) = Source(p, Top.scope, x)
  BY NodeIs
<1>2. CASE Node.kind = "Shape"
  BY <1>1, <1>2, AppliedIs
<1>3. CASE Node.kind # "Shape"
  <2>1. /\ Node.kind # "Random"
        /\ \A x \in Range(Node.ins) :
             SourceOf(Top.scope, x) = "Initializer" \/ x \in FixedAt(p, stack, Len(stack))
    BY <1>1, <1>3 DEF Derives
  <2>2. ASSUME NEW k \in DOMAIN Arguments PROVE ~Arguments[k].live
    <3>1. k \in DOMAIN Node.ins /\ Arguments[k] = Argument(k)
      BY DEF Arguments
    <3>2. Argument(k) # NoValue
      BY <2>2, <3>1 DEF Missing
    <3> QED BY <2>1, <3>1, <3>2, ArgumentIs
  <2> QED BY <1>1, <2>1, <2>2, AppliedIs
<1> QED BY <1>2, <1>3

-----------------------------------------------------------------------------
(* Sequences of values that are there. *)

There(values) == IsSeq(values) /\ \A i \in DOMAIN values : values[i] # NoValue

LEMMA ThereEmpty == There(<<>>) /\ Len(<<>>) = 0
BY DEF There, IsSeq

LEMMA ThereOne ==
  ASSUME NEW v, v # NoValue
  PROVE  There(<<v>>) /\ Len(<<v>>) = 1
<1>1. <<v>> \in Seq({v}) /\ Len(<<v>>) = 1 /\ \A i \in DOMAIN <<v>> : <<v>>[i] = v
  OBVIOUS
<1> DEFINE one == <<v>>
<1> HIDE DEF one
<1>2. IsSeq(one) /\ Len(one) = 1 /\ \A i \in DOMAIN one : one[i] = v
  BY <1>1 DEF IsSeq, one
<1>3. There(one)
  BY <1>2 DEF There
<1> QED BY <1>2, <1>3 DEF one

LEMMA ThereMore ==
  ASSUME NEW values, There(values), NEW v, v # NoValue
  PROVE  There(Append(values, v)) /\ Len(Append(values, v)) = Len(values) + 1
<1>1. IsSeq(values) /\ \A i \in DOMAIN values : values[i] # NoValue
  BY DEF There
<1>2. /\ IsSeq(Append(values, v)) /\ Len(Append(values, v)) = Len(values) + 1
      /\ Append(values, v)[Len(values) + 1] = v
      /\ \A i \in 1..Len(values) : Append(values, v)[i] = values[i]
  BY <1>1, PushedIs
<1>3. Len(values) \in Nat /\ DOMAIN values = 1..Len(values)
  BY <1>1, SeqFacts
<1>4. DOMAIN Append(values, v) = 1..(Len(values) + 1)
  BY <1>2, SeqFacts
<1>5. \A i \in 1..(Len(values) + 1) : i \in 1..Len(values) \/ i = Len(values) + 1
  BY <1>3
<1> HIDE DEF There
<1>6. \A i \in DOMAIN Append(values, v) : Append(values, v)[i] # NoValue
  BY <1>1, <1>2, <1>3, <1>4, <1>5
<1> QED BY <1>2, <1>6 DEF There

LEMMA ThereJoined ==
  ASSUME NEW a, There(a), NEW b, There(b)
  PROVE  There(a \o b) /\ Len(a \o b) = Len(a) + Len(b)
<1>1. PICK S : a \in Seq(S)
  BY DEF There, IsSeq
<1>2. PICK T : b \in Seq(T)
  BY DEF There, IsSeq
<1>3. a \in Seq(S \cup T) /\ b \in Seq(S \cup T)
  BY <1>1, <1>2
<1>4. /\ a \o b \in Seq(S \cup T) /\ Len(a \o b) = Len(a) + Len(b)
      /\ \A i \in 1..(Len(a) + Len(b)) : (a \o b)[i] = IF i <= Len(a) THEN a[i] ELSE b[i - Len(a)]
  BY <1>3, ConcatProperties
<1>5. Len(a) \in Nat /\ Len(b) \in Nat /\ DOMAIN a = 1..Len(a) /\ DOMAIN b = 1..Len(b)
  BY <1>1, <1>2
<1>6. ASSUME NEW i \in DOMAIN (a \o b) PROVE (a \o b)[i] # NoValue
  <2>1. i \in 1..(Len(a) + Len(b))
    BY <1>4, <1>6
  <2>2. CASE i <= Len(a)
    <3>1. i \in DOMAIN a
      BY <1>5, <2>1, <2>2
    <3> QED BY <1>4, <2>1, <2>2, <3>1 DEF There
  <2>3. CASE ~(i <= Len(a))
    <3>1. i - Len(a) \in DOMAIN b
      BY <1>5, <2>1, <2>3
    <3> QED BY <1>4, <2>1, <2>3, <3>1 DEF There
  <2> QED BY <2>2, <2>3
<1> QED BY <1>4, <1>6 DEF There, IsSeq

LEMMA ThereLess ==
  ASSUME NEW values, There(values), Len(values) # 0
  PROVE  /\ There(Front(values)) /\ Len(Front(values)) = Len(values) - 1
         /\ There(Tail(values)) /\ Len(Tail(values)) = Len(values) - 1
         /\ Last(values) # NoValue
<1>1. PICK S : values \in Seq(S)
  BY DEF There, IsSeq
<1>2. IsSeq(values) /\ Len(values) \in Nat /\ DOMAIN values = 1..Len(values)
  BY <1>1 DEF IsSeq
<1>3. /\ IsSeq(Front(values)) /\ Len(Front(values)) = Len(values) - 1
      /\ \A i \in 1..(Len(values) - 1) : Front(values)[i] = values[i]
  BY <1>2, PoppedIs
<1>4. There(Front(values))
  <2>1. DOMAIN Front(values) = 1..(Len(values) - 1)
    BY <1>3, SeqFacts
  <2>2. \A i \in 1..(Len(values) - 1) : i \in DOMAIN values
    BY <1>2
  <2> QED BY <1>3, <2>1, <2>2 DEF There
<1>5. values # <<>>
  BY <1>1
<1>6. /\ Tail(values) \in Seq(S) /\ Len(Tail(values)) = Len(values) - 1
      /\ \A i \in 1..Len(Tail(values)) : Tail(values)[i] = values[i + 1]
  BY <1>1, <1>5, HeadTailProperties
<1>7. There(Tail(values))
  <2>1. DOMAIN Tail(values) = 1..Len(Tail(values))
    BY <1>6
  <2>2. \A i \in 1..Len(Tail(values)) : i + 1 \in DOMAIN values
    BY <1>2, <1>6
  <2> QED BY <1>6, <2>1, <2>2 DEF There, IsSeq
<1>8. Last(values) # NoValue
  <2>1. Len(values) \in DOMAIN values
    BY <1>2
  <2> QED BY <2>1 DEF Last, There
<1> QED BY <1>3, <1>4, <1>6, <1>7, <1>8

\* What a Loop or a Scan carries are operands of it.
LEMMA CarriedIs ==
  ASSUME NEW node \in ANode,
         \/ node.kind = "Loop" /\ Len(node.ins) >= 2
         \/ node.kind = "Scan" /\ Len(node.ins) >= 1
  PROVE  /\ IsSeq(Carried(node))
         /\ Len(Carried(node)) = Len(node.ins) - (IF node.kind = "Loop" THEN 2 ELSE 1)
         /\ \A i \in DOMAIN Carried(node) : Carried(node)[i] \in Range(node.ins)
         /\ Resolved(node) \subseteq Range(node.ins)
         /\ node.kind = "Scan" => Last(node.ins) \in Range(node.ins)
<1> DEFINE ins == node.ins
<1>1. ins \in Seq(STRING) /\ IsSeq(ins) /\ Len(ins) \in Nat /\ DOMAIN ins = 1..Len(ins)
  BY NodeSeqs
<1>2. \A i \in 1..Len(ins) : ins[i] \in Range(ins)
  BY <1>1 DEF Range
<1>3. CASE node.kind = "Loop"
  <2>1. Carried(node) = SubSeq(ins, 3, Len(ins))
    BY <1>3 DEF Carried
  <2>2. \A i \in 3..Len(ins) : ins[i] \in STRING
    BY <1>1
  <2>3. /\ SubSeq(ins, 3, Len(ins)) \in Seq(STRING)
        /\ Len(SubSeq(ins, 3, Len(ins))) = IF 3 <= Len(ins) THEN Len(ins) - 3 + 1 ELSE 0
        /\ \A i \in 1..(Len(ins) - 3 + 1) : SubSeq(ins, 3, Len(ins))[i] = ins[3 + i - 1]
    <3>1. 3 \in Int /\ Len(ins) \in Int
      BY <1>1
    <3> QED BY <2>2, <3>1, SubSeqProperties
  <2> DEFINE rest == SubSeq(ins, 3, Len(ins))
  <2>4. Len(ins) >= 2
    BY <1>3
  <2> HIDE DEF ins, rest
  <2>5. rest \in Seq(STRING) /\ Len(rest) = Len(ins) - 2
    BY <1>1, <2>3, <2>4 DEF rest
  <2>6. ASSUME NEW i \in DOMAIN rest PROVE rest[i] \in Range(ins)
    <3>1. i \in 1..(Len(ins) - 3 + 1)
      BY <1>1, <2>5
    <3>2. rest[i] = ins[3 + i - 1] /\ 3 + i - 1 \in 1..Len(ins)
      BY <1>1, <2>3, <3>1 DEF rest
    <3> QED BY <1>2, <3>2
  <2>7. Range(rest) \subseteq Range(ins)
    BY <2>6 DEF Range
  <2>8. Resolved(node) = Range(rest) /\ Carried(node) = rest
    BY <1>3, <2>1 DEF Resolved, rest
  <2> QED BY <1>3, <2>5, <2>6, <2>7, <2>8 DEF IsSeq, ins
<1>4. CASE node.kind = "Scan"
  <2>1. Carried(node) = Front(ins) /\ Resolved(node) = Range(ins)
    BY <1>4 DEF Carried, Resolved
  <2>2. Len(ins) # 0 /\ Len(ins) >= 1
    BY <1>1, <1>4
  <2>3. /\ IsSeq(Front(ins)) /\ Len(Front(ins)) = Len(ins) - 1
        /\ \A i \in 1..(Len(ins) - 1) : Front(ins)[i] = ins[i]
    BY <1>1, <2>2, PoppedIs
  <2>4. DOMAIN Front(ins) = 1..(Len(ins) - 1)
    BY <2>3, SeqFacts
  <2>5. \A i \in DOMAIN Front(ins) : Front(ins)[i] \in Range(ins)
    BY <1>1, <1>2, <2>3, <2>4
  <2>6. Last(ins) \in Range(ins)
    BY <1>1, <1>2, <2>2 DEF Last
  <2> HIDE DEF ins
  <2> QED BY <1>4, <2>1, <2>3, <2>5, <2>6 DEF ins
<1> QED BY <1>3, <1>4

\* The inputs of an iteration, and the outputs after the last one.
LEMMA IterationIs ==
  ASSUME NEW node, node.kind \in {"Loop", "Scan"}, NEW frame, There(frame.state)
  PROVE  /\ There(Iteration(node, frame))
         /\ node.kind = "Loop" => Len(Iteration(node, frame)) = Len(frame.state) + 2
         /\ node.kind = "Scan" => Len(Iteration(node, frame)) = Len(frame.state) + 1
<1>1. Len(frame.state) \in Nat
  BY SeqFacts DEF There
<1>2. CASE node.kind = "Loop"
  <2> DEFINE first == <<Counter(frame.t), Yes>>
  <2>1. Counter(frame.t) # NoValue /\ Yes # NoValue
    BY OpMatters DEF Counter, Yes
  <2>2. There(first) /\ Len(first) = 2
    <3>1. There(<<Counter(frame.t)>>) /\ Len(<<Counter(frame.t)>>) = 1
      BY <2>1, ThereOne
    <3>2. /\ There(Append(<<Counter(frame.t)>>, Yes))
          /\ Len(Append(<<Counter(frame.t)>>, Yes)) = Len(<<Counter(frame.t)>>) + 1
      BY <2>1, <3>1, ThereMore
    <3>3. first = Append(<<Counter(frame.t)>>, Yes)
      OBVIOUS
    <3> HIDE DEF first
    <3> QED BY <3>1, <3>2, <3>3
  <2> HIDE DEF first
  <2>3. There(first \o frame.state) /\ Len(first \o frame.state) = 2 + Len(frame.state)
    BY <2>2, ThereJoined
  <2>4. Iteration(node, frame) = first \o frame.state
    BY <1>2 DEF Iteration, first
  <2> QED BY <1>1, <1>2, <2>3, <2>4
<1>3. CASE node.kind = "Scan"
  <2> DEFINE slice == Sliced(frame.scan, IF node.reversed THEN frame.trip - 1 - frame.t ELSE frame.t)
  <2>1. slice # NoValue
    BY OpMatters DEF Sliced
  <2>2. Iteration(node, frame) = Append(frame.state, slice)
    BY <1>3 DEF Iteration
  <2> HIDE DEF slice
  <2> QED BY <1>3, <2>1, <2>2, ThereMore
<1> QED BY <1>2, <1>3

LEMMA FinishedIs ==
  ASSUME NEW node, NEW state, There(state), NEW emitted
  PROVE  /\ There(Finished(node, state, emitted))
         /\ Len(Finished(node, state, emitted)) = Len(state) + (IF node.kind = "Scan" THEN 1 ELSE 0)
<1>1. Len(state) \in Nat
  BY SeqFacts DEF There
<1>2. CASE node.kind # "Scan"
  BY <1>1, <1>2 DEF Finished
<1>3. CASE node.kind = "Scan"
  <2> DEFINE stacked == Stacked(IF node.outReversed THEN Reverse(emitted) ELSE emitted)
  <2>1. stacked # NoValue
    BY OpMatters DEF Stacked
  <2>2. Finished(node, state, emitted) = Append(state, stacked)
    BY <1>3 DEF Finished
  <2> HIDE DEF stacked
  <2> QED BY <1>3, <2>1, <2>2, ThereMore
<1> QED BY <1>2, <1>3

-----------------------------------------------------------------------------
(* The steps of a call. *)

\* The outputs of a node are bound.
LEMMA YieldsIs ==
  ASSUME NEW g, NEW r, NEW node \in ANode, NEW fixed, NEW e, NEW values, There(values),
         Len(values) = Len(node.outs),
         Derives(g, r, node, fixed) => \A i \in DOMAIN values : ~values[i].live
  PROVE  Yields(g, r, node, fixed, e, Over(e, Bind(node.outs, values)))
<1> DEFINE bound == Bind(node.outs, values)
           e2 == Over(e, bound)
<1>1. IsSeq(node.outs) /\ IsSeq(values)
  BY NodeSeqs DEF There
<1>2. /\ DOMAIN bound = Range(node.outs)
      /\ \A x \in Range(node.outs) : \E i \in DOMAIN values : bound[x] = values[i]
  BY <1>1, BindIs
<1> HIDE DEF bound
<1>3. /\ DOMAIN e2 = DOMAIN e \cup DOMAIN bound
      /\ \A x \in DOMAIN bound : e2[x] = bound[x]
      /\ \A x \in DOMAIN e : x \notin DOMAIN bound => e2[x] = e[x]
  BY OverIs
<1> HIDE DEF e2
<1>4. ASSUME NEW x \in Range(node.outs)
      PROVE  e2[x] # NoValue /\ (Derives(g, r, node, fixed) => ~e2[x].live)
  <2>1. PICK i \in DOMAIN values : bound[x] = values[i]
    BY <1>2
  <2>2. e2[x] = values[i]
    BY <1>2, <1>3, <2>1
  <2>3. values[i] # NoValue
    BY DEF There
  <2> QED BY <2>2, <2>3
<1>5. Yields(g, r, node, fixed, e, e2)
  BY <1>2, <1>3, <1>4 DEF Yields
<1> QED BY <1>5 DEF e2, bound

\* The formals of a body are bound.
LEMMA BindsIs ==
  ASSUME NEW g, NEW b, IsSeq(g.formals[b]), NEW e, NEW values, There(values),
         Len(values) = Len(g.formals[b])
  PROVE  Binds(g, b, e, Over(e, Bind(g.formals[b], values)))
<1> DEFINE bound == Bind(g.formals[b], values)
           e2 == Over(e, bound)
<1>1. IsSeq(values)
  BY DEF There
<1>2. /\ DOMAIN bound = Range(g.formals[b])
      /\ \A x \in Range(g.formals[b]) : \E i \in DOMAIN values : bound[x] = values[i]
  BY <1>1, BindIs
<1> HIDE DEF bound
<1>3. /\ DOMAIN e2 = DOMAIN e \cup DOMAIN bound
      /\ \A x \in DOMAIN bound : e2[x] = bound[x]
      /\ \A x \in DOMAIN e : x \notin DOMAIN bound => e2[x] = e[x]
  BY OverIs
<1> HIDE DEF e2
<1>4. ASSUME NEW x \in Range(g.formals[b]) PROVE e2[x] # NoValue
  <2>1. PICK i \in DOMAIN values : bound[x] = values[i]
    BY <1>2
  <2>2. values[i] # NoValue
    BY DEF There
  <2> QED BY <1>2, <1>3, <2>1, <2>2
<1>5. Binds(g, b, e, e2)
  BY <1>2, <1>3, <1>4 DEF Binds
<1> QED BY <1>5 DEF e2, bound

\* A body is entered from the node a stack is at.
LEMMA EnteredKeeps ==
  ASSUME TInv, mode # "idle", NEW below, NEW base, Good(p, below, base),
         NEW n, n = Len(below), n # 0, NEW r, r = below[n].scope,
         below[n].pc <= Len(p.nodes[r]), NEW node, node = p.nodes[r][below[n].pc],
         NEW b \in Scopes, b \in Range(node.bodies), NEW frame, DOMAIN frame = Fields, frame.scope = b,
         Carries(node, frame), NEW args, There(args), Len(args) = Len(p.formals[b]),
         Entered(below, frame, args, base)
  PROVE  Good(p, stack', env')
<1> DEFINE shadowed == Restrict(base, BodyNames(p, b) \cap DOMAIN base)
           opened == [frame EXCEPT !.pc = 1, !.saved = shadowed]
<1>1. WellFormed(p) /\ plan.own = [s \in Scopes |-> BodyNames(p, s)]
  BY TopIs
<1>2. Saved(frame.scope, base) = shadowed
  BY <1>1 DEF Saved
<1>3. /\ env' = Over(base, Bind(p.formals[b], args))
      /\ stack' = Append(below, opened)
  BY <1>2 DEF Entered
<1>4. /\ DOMAIN shadowed = BodyNames(p, b) \cap DOMAIN base
      /\ \A x \in DOMAIN shadowed : shadowed[x] = base[x]
  BY DEF Restrict
<1> HIDE DEF shadowed
<1>5. /\ DOMAIN opened = Fields /\ opened.scope = b /\ opened.pc = 1 /\ opened.saved = shadowed
      /\ opened.state = frame.state /\ opened.emitted = frame.emitted
      /\ opened.t = frame.t /\ opened.trip = frame.trip
  BY DEF Fields
<1> HIDE DEF opened
<1>6. Opens(p, b, base, opened)
  BY <1>4, <1>5 DEF Opens
<1>7. Carries(node, opened)
  BY <1>5 DEF Carries
<1>8. Binds(p, b, base, env')
  <2>1. IsSeq(p.formals[b])
    BY <1>1 DEF WellFormed, Typed, IsSeq
  <2> QED BY <1>3, <2>1, BindsIs
<1>9. Pushed(below, opened, stack')
  BY <1>3 DEF Pushed
<1> QED BY <1>1, <1>6, <1>7, <1>8, <1>9, PushKeeps

\* Resolving reads boundary inputs into env.
LEMMA WrappedIs ==
  ASSUME TInv, InNode, NEW names \in SUBSET Range(Node.ins)
  PROVE  /\ Good(p, stack, Wrapped(names))
         /\ \A x \in DOMAIN env : x \in DOMAIN Wrapped(names) /\ Wrapped(names)[x] = env[x]
<1> DEFINE read == {x \in names : SourceOf(Top.scope, x) = "CtxInput"}
           e2 == Wrapped(names)
<1>1. e2 = [x \in read \cup DOMAIN env |-> IF x \in DOMAIN env THEN env[x] ELSE host[x]]
  BY DEF Wrapped
<1>2. \A x \in read : x \in CtxInputs /\ host[x] # NoValue
  BY OperandIs DEF TInv, HostInv
<1>3. \A x \in DOMAIN env : env[x] # NoValue
  BY DEF TInv, Good, PresentInv
<1> HIDE DEF read, e2
<1>4. /\ \A x \in DOMAIN env : x \in DOMAIN e2 /\ e2[x] = env[x]
      /\ \A x \in DOMAIN e2 : e2[x] # NoValue /\ (x \in DOMAIN env \/ x \in CtxInputs)
  BY <1>1, <1>2, <1>3
<1>5. Good(p, stack, env) /\ Len(stack) # 0
  BY TopIs DEF TInv, InNode
<1>6. \A x \in DOMAIN env : x \in DOMAIN e2 /\ (e2[x] = env[x] \/ x \notin FixedAt(p, stack, Len(stack)))
  BY <1>4
<1>7. Good(p, stack, e2)
  BY <1>4, <1>5, <1>6, EnvKeeps
<1> QED BY <1>4, <1>7 DEF e2

\* Resolving keeps the arrays of initializers, packing those of weights.
LEMMA KeptIs ==
  ASSUME TInv, InNode, NEW names \in SUBSET Range(Node.ins), NEW packed \in SUBSET Range(Node.ins),
         \A x \in packed : SourceOf(Top.scope, x) = "Initializer"
  PROVE  CacheGood(Kept(names, packed))
<1> DEFINE s == Top.scope
           initial == {x \in names : SourceOf(s, x) = "Initializer"}
           keys == {Key(s, x) : x \in initial}
           kept == Kept(names, packed)
<1>1. kept = [k \in DOMAIN cache \cup keys \cup {PackKey(x) : x \in packed} |->
                IF k \in DOMAIN cache THEN cache[k] ELSE InitValue(s, k.name)]
  BY DEF Kept
<1>2. \A k \in DOMAIN cache :
        k.of \in Scopes \cup {"packed"} /\ cache[k] # NoValue /\ ~cache[k].live
  BY DEF TInv, CacheGood
<1>3. \A x \in initial \cup packed :
        Ref(s, x).of \in Scopes /\ InitValue(s, x) # NoValue /\ ~InitValue(s, x).live
  BY OperandIs
<1>4. \A x : /\ Key(s, x).name = x /\ Key(s, x).of = Ref(s, x).of
             /\ PackKey(x).name = x /\ PackKey(x).of = "packed"
  BY DEF Key, PackKey
<1> HIDE DEF s, initial, kept
<1>5. ASSUME NEW k \in DOMAIN kept
      PROVE  k.of \in Scopes \cup {"packed"} /\ kept[k] # NoValue /\ ~kept[k].live
  <2>1. CASE k \in DOMAIN cache
    <3>1. kept[k] = cache[k]
      BY <1>1, <2>1
    <3> QED BY <1>2, <2>1, <3>1
  <2>2. CASE k \notin DOMAIN cache
    <3>1. kept[k] = InitValue(s, k.name)
      BY <1>1, <2>2
    <3>2. CASE k \in keys
      <4>1. PICK x \in initial : k = Key(s, x)
        BY <3>2
      <4> QED BY <1>3, <1>4, <3>1, <4>1
    <3>3. CASE k \in {PackKey(x) : x \in packed}
      <4>1. PICK x \in packed : k = PackKey(x)
        BY <3>3
      <4> QED BY <1>3, <1>4, <3>1, <4>1
    <3> QED BY <1>1, <2>2, <3>2, <3>3
  <2> QED BY <2>1, <2>2
<1> QED BY <1>5 DEF CacheGood, kept

\* What the operator of the node says of its operands, results and bodies.
LEMMA ArityIs ==
  ASSUME TInv, InNode
  PROVE  LET ins == Len(Node.ins)
         IN /\ ins \in Nat
            /\ Node.kind = "If" => ins = 1 /\ Bodies(p, Node, 2, 0, Len(Node.outs))
            /\ Node.kind = "Loop" =>
                 ins >= 2 /\ Bodies(p, Node, 1, ins, ins - 1) /\ Len(Node.outs) = ins - 2
            /\ Node.kind = "Scan" =>
                 ins >= 1 /\ Bodies(p, Node, 1, ins, ins) /\ Len(Node.outs) = ins
            /\ Node.kind \notin {"If", "Loop", "Scan"} =>
                 ins >= 1 /\ Node.bodies = <<>> /\ Len(Node.outs) = 1
<1>1. WellFormed(p) /\ Top.scope \in Scopes
  BY TopIs DEF InNode
<1>2. Node \in ANode /\ Node \in NodesOf(p, Top.scope)
  BY NodeIs
<1>3. Len(Node.ins) \in Nat
  BY <1>2, NodeSeqs
<1> QED BY <1>1, <1>2, <1>3 DEF WellFormed, Arities

\* Its node done, the graph on top goes on.
LEMMA NodeDone ==
  ASSUME TInv, InNode, NEW base, Good(p, stack, base), NEW values, There(values),
         Len(values) = Len(Node.outs),
         Derives(p, Top.scope, Node, FixedAt(p, stack, Len(stack))) =>
           \A i \in DOMAIN values : ~values[i].live,
         env' = Over(base, Bind(Node.outs, values)), stack' = Advanced
  PROVE  Good(p, stack', env')
<1> DEFINE n == Len(stack)
           r == Top.scope
<1>1. WellFormed(p) /\ n # 0 /\ r = stack[n].scope
  BY TopIs DEF InNode
<1>2. Top = stack[n] /\ stack[n].pc <= Len(p.nodes[r]) /\ Node = p.nodes[r][stack[n].pc] /\ Node \in ANode
  BY NodeIs DEF InNode, Top
<1>3. stack' = MovedOn(stack)
  BY DEF Advanced, MovedOn
<1>4. Yields(p, r, Node, FixedAt(p, stack, n), base, Over(base, Bind(Node.outs, values)))
  BY <1>2, YieldsIs
<1> HIDE DEF n, r
<1>5. Yields(p, r, Node, FixedAt(p, stack, n), base, env')
  BY <1>4
<1> QED BY <1>1, <1>2, <1>3, <1>5, AdvanceKeeps DEF n

\* What is read on the host are operands.
LEMMA HostReadIs ==
  ASSUME TInv, InNode
  PROVE  HostRead(Node) \subseteq Range(Node.ins)
<1>1. Node \in ANode /\ Node \in NodesOf(p, Top.scope)
  BY NodeIs
<1>2. WellFormed(p) /\ Top.scope \in Scopes
  BY TopIs DEF InNode
<1>3. /\ Node.kind = "If" => Len(Node.ins) = 1
      /\ Node.kind \in {"Loop", "Pack"} => Len(Node.ins) >= 2
  BY <1>1, <1>2 DEF WellFormed, Arities
<1>4. Len(Node.ins) \in Nat /\ DOMAIN Node.ins = 1..Len(Node.ins)
  BY <1>1, NodeSeqs, SeqFacts
<1>5. \A k \in 1..Len(Node.ins) : Node.ins[k] \in Range(Node.ins)
  BY <1>4 DEF Range
<1>6. /\ Len(Node.ins) >= 1 => Node.ins[1] \in Range(Node.ins)
      /\ Len(Node.ins) >= 2 => Node.ins[2] \in Range(Node.ins)
  BY <1>4, <1>5
<1>7. CASE Node.kind = "If"
  BY <1>3, <1>6, <1>7 DEF HostRead
<1>8. CASE Node.kind = "Loop"
  BY <1>3, <1>4, <1>6, <1>8 DEF HostRead
<1>9. CASE Node.kind = "Pack"
  BY <1>3, <1>6, <1>9 DEF HostRead
<1>10. CASE Node.kind \notin {"If", "Loop", "Pack"}
  BY <1>10 DEF HostRead
<1> QED BY <1>7, <1>8, <1>9, <1>10

\* An ordinary node has an operand and a result.
LEMMA OrdinaryIs ==
  ASSUME TInv, InNode, Node.bodies = <<>>
  PROVE  /\ Len(Node.ins) >= 1 /\ Len(Node.outs) = 1 /\ Node.kind \notin {"If", "Loop", "Scan"}
         /\ Node.ins[1] \in Range(Node.ins) /\ Inputs \in SUBSET Range(Node.ins)
<1>1. Node.kind \notin {"If", "Loop", "Scan"}
  <2>1. Len(Node.bodies) = 0
    OBVIOUS
  <2> QED BY <2>1, ArityIs DEF Bodies
<1>2. Len(Node.ins) >= 1 /\ Len(Node.outs) = 1
  BY <1>1, ArityIs
<1>3. Node.ins[1] \in Range(Node.ins)
  <2>1. IsSeq(Node.ins)
    BY NodeIs, NodeSeqs
  <2>2. 1 \in DOMAIN Node.ins
    BY <1>2, <2>1, SeqFacts
  <2> QED BY <2>2 DEF Range
<1>4. Inputs \subseteq Range(Node.ins)
  BY DEF Inputs, Range
<1> QED BY <1>1, <1>2, <1>3, <1>4

\* What is updated in place is not fixed.
LEMMA UpdatedKeeps ==
  ASSUME TInv, InNode, Node.bodies = <<>>, ~Unwritable, NEW value, value # NoValue,
         NEW base, Good(p, stack, base), \A x \in DOMAIN env : x \in DOMAIN base
  PROVE  Good(p, stack, Over(base, Updated(Node, value).env))
<1> DEFINE update == Updated(Node, value)
           x1 == Node.ins[1]
           e2 == Over(base, update.env)
<1>1. x1 \in Range(Node.ins)
  BY OrdinaryIs
<1>2. \A x \in DOMAIN update.env :
        /\ update.env[x] # NoValue
        /\ x \in DOMAIN base \/ x \in CtxInputs
        /\ x \notin FixedAt(p, stack, Len(stack))
  <2>1. CASE Node.kind # "Paged"
    <3>1. update.env = <<>>
      BY <2>1 DEF Updated
    <3>2. DOMAIN <<>> = {}
      OBVIOUS
    <3> HIDE DEF update
    <3> QED BY <3>1, <3>2
  <2>2. CASE Node.kind = "Paged"
    <3> DEFINE u == Bind(<<x1>>, <<value>>)
    <3>1. update.env = u
      BY <2>2 DEF Updated
    <3>2. DOMAIN u = {x1} /\ u[x1] # NoValue
      <4>1. DOMAIN Bind(<<x1>>, <<value>>) = {x1} /\ Bind(<<x1>>, <<value>>)[x1] = value
        BY BindOne
      <4> QED BY <4>1
    <3>3. SourceOf(Top.scope, x1) # "Initializer"
      BY <2>2 DEF Unwritable
    <3>4. x1 \in DOMAIN base \/ x1 \in CtxInputs
      BY <1>1, <3>3, OperandIs
    <3>5. x1 \notin FixedAt(p, stack, Len(stack))
      <4>1. CASE SourceOf(Top.scope, x1) = "CtxInput"
        BY <1>1, <4>1, FixedSeen
      <4>2. CASE SourceOf(Top.scope, x1) = "Intermediate"
        <5>1. /\ Top.pc \in DOMAIN p.nodes[Top.scope] /\ Node = p.nodes[Top.scope][Top.pc]
              /\ Source(p, Top.scope, x1) = "Intermediate"
          BY <1>1, <4>2, NodeIs
        <5>2. WellFormed(p) /\ Top.scope \in Scopes /\ Top = stack[Len(stack)]
          BY TopIs DEF InNode
        <5>3. x1 \notin Fixed(p)[Top.scope][Top.pc]
          BY <2>2, <5>1, <5>2 DEF WellFormed, UpdatesUnknown
        <5> QED BY <5>2, <5>3 DEF FixedAt
      <4> QED BY <1>1, <3>3, <4>1, <4>2, OperandIs
    <3> HIDE DEF u, update
    <3> QED BY <3>1, <3>2, <3>4, <3>5
  <2> QED BY <2>1, <2>2
<1> HIDE DEF update
<1>3. /\ DOMAIN e2 = DOMAIN base \cup DOMAIN update.env
      /\ \A x \in DOMAIN update.env : e2[x] = update.env[x]
      /\ \A x \in DOMAIN base : x \notin DOMAIN update.env => e2[x] = base[x]
  BY OverIs
<1> HIDE DEF e2
<1>4. \A x \in DOMAIN base : x \in DOMAIN e2 /\ (e2[x] = base[x] \/ x \notin FixedAt(p, stack, Len(stack)))
  BY <1>2, <1>3
<1>5. \A x \in DOMAIN base : base[x] # NoValue
  BY DEF Good, PresentInv
<1>6. \A x \in DOMAIN e2 : e2[x] # NoValue /\ (x \in DOMAIN base \/ x \in CtxInputs)
  BY <1>2, <1>3, <1>5
<1>7. Len(stack) # 0
  BY TopIs DEF InNode
<1>8. Good(p, stack, e2)
  BY <1>4, <1>6, <1>7, EnvKeeps
<1> QED BY <1>8 DEF e2, update

LEMMA TranslateKeeps ==
  ASSUME TInv, Translate
  PROVE  Good(p, stack', env') /\ CacheGood(cache') /\ WritesGood(writes')
<1> DEFINE value == Applied(Node, Arguments)
           update == Updated(Node, value)
           base == Wrapped(Inputs)
           x1 == Node.ins[1]
<1>1. /\ InNode /\ Node.bodies = <<>> /\ ~Unwritable /\ ~Missing(Arguments)
      /\ env' = Over(Over(base, update.env), Bind(Node.outs, <<value>>))
      /\ writes' = update.writes
      /\ cache' = Kept(Inputs, {x \in HostRead(Node) : SourceOf(Top.scope, x) = "Initializer"})
      /\ stack' = Advanced
  BY DEF Translate
<1>2. Len(Node.outs) = 1
  BY <1>1, OrdinaryIs
<1>3. Inputs \in SUBSET Range(Node.ins)
  BY <1>1, OrdinaryIs
<1>4. /\ value # NoValue
      /\ Derives(p, Top.scope, Node, FixedAt(p, stack, Len(stack))) => ~value.live
  <2>1. Node \in ANode
    BY <1>1, NodeIs
  <2>2. value # NoValue
    BY <2>1, AppliedIs
  <2> QED BY <1>1, <2>2, DerivedIs
<1>5. /\ Good(p, stack, base)
      /\ \A x \in DOMAIN env : x \in DOMAIN base /\ base[x] = env[x]
  BY <1>1, <1>3, WrappedIs
<1> HIDE DEF value, base
<1>6. WritesGood(writes')
  <2>1. WritesGood(writes)
    BY DEF TInv, HostInv
  <2> DEFINE entry == [name |-> x1, value |-> value]
  <2>2. writes' = writes \/ writes' = Append(writes, entry)
    BY <1>1 DEF Updated
  <2>3. entry.value # NoValue
    BY <1>4
  <2> HIDE DEF entry
  <2>4. ASSUME writes' = Append(writes, entry) PROVE WritesGood(writes')
    <3>1. IsSeq(writes) /\ Len(writes) \in Nat /\ DOMAIN writes = 1..Len(writes)
      BY <2>1, SeqFacts DEF WritesGood
    <3>2. /\ IsSeq(writes') /\ Len(writes') = Len(writes) + 1
          /\ writes'[Len(writes) + 1] = entry
          /\ \A i \in 1..Len(writes) : writes'[i] = writes[i]
      BY <2>4, <3>1, PushedIs
    <3>3. DOMAIN writes' = 1..(Len(writes) + 1)
      BY <3>2, SeqFacts
    <3>4. \A i \in 1..(Len(writes) + 1) : i \in 1..Len(writes) \/ i = Len(writes) + 1
      BY <3>1
    <3>5. \A i \in 1..Len(writes) : writes[i].value # NoValue
      BY <2>1, <3>1 DEF WritesGood
    <3>6. \A i \in DOMAIN writes' : writes'[i].value # NoValue
      BY <2>3, <3>2, <3>3, <3>4, <3>5
    <3> QED BY <3>2, <3>6 DEF WritesGood
  <2> QED BY <2>1, <2>2, <2>4
<1>7. Good(p, stack, Over(base, update.env))
  BY <1>1, <1>4, <1>5, UpdatedKeeps
<1> HIDE DEF update
<1> DEFINE e2 == Over(base, update.env)
<1>8. env' = Over(e2, Bind(Node.outs, <<value>>))
  BY <1>1
<1>9. Good(p, stack, e2)
  BY <1>7
<1> HIDE DEF e2
<1>10. Good(p, stack', env')
  <2> DEFINE values == <<value>>
  <2>1. There(values) /\ Len(values) = Len(Node.outs)
    BY <1>2, <1>4, ThereOne
  <2>2. Derives(p, Top.scope, Node, FixedAt(p, stack, Len(stack))) =>
          \A i \in DOMAIN values : ~values[i].live
    <3>1. \A i \in DOMAIN values : values[i] = value
      OBVIOUS
    <3> HIDE DEF values
    <3> QED BY <1>4, <3>1
  <2>3. env' = Over(e2, Bind(Node.outs, values))
    BY <1>8
  <2> HIDE DEF values
  <2> QED BY <1>1, <1>9, <2>1, <2>2, <2>3, NodeDone
<1>11. CacheGood(cache')
  <2> DEFINE packed == {x \in HostRead(Node) : SourceOf(Top.scope, x) = "Initializer"}
  <2>1. packed \in SUBSET Range(Node.ins) /\ \A x \in packed : SourceOf(Top.scope, x) = "Initializer"
    BY <1>1, HostReadIs
  <2>2. cache' = Kept(Inputs, packed)
    BY <1>1
  <2> HIDE DEF packed
  <2>3. CacheGood(Kept(Inputs, packed))
    BY <1>1, <1>3, <2>1, KeptIs
  <2> QED BY <2>2, <2>3
<1> QED BY <1>6, <1>10, <1>11

\* Before a call, and at its start.
LEMMA EmptyKeeps ==
  ASSUME NEW g
  PROVE  Good(g, <<>>, <<>>)
<1> DEFINE stk == <<>>
<1>1. IsSeq(stk) /\ Len(stk) = 0 /\ DOMAIN stk = {}
  BY DEF IsSeq
<1> HIDE DEF stk
<1>2. 1..Len(stk) = {} /\ 2..Len(stk) = {}
  BY <1>1
<1>3. Good(g, stk, stk)
  BY <1>1, <1>2 DEF Good, StackInv, StateInv, PresentInv, ScopedInv, BoundInv, FixedInv, InheritInv
<1> QED BY <1>3 DEF stk

LEMMA StartKeeps ==
  ASSUME NEW g, WellFormed(g), NEW e, \A x \in DOMAIN e : x \in CtxInputs /\ e[x] # NoValue
  PROVE  Good(g, <<Frame("root")>>, e)
<1> DEFINE frame == Frame("root")
           stk == <<frame>>
<1>1. /\ DOMAIN frame = Fields /\ frame.scope = "root" /\ frame.pc = 1
      /\ DOMAIN frame.saved = {}
  BY DEF Frame, Fields
<1> HIDE DEF frame
<1>2. IsSeq(stk) /\ Len(stk) = 1 /\ stk[1] = frame
  <2>1. stk \in Seq({frame}) /\ Len(stk) = 1 /\ stk[1] = frame
    OBVIOUS
  <2> QED BY <2>1 DEF IsSeq
<1> HIDE DEF stk
<1>3. 1..Len(stk) = {1} /\ 2..Len(stk) = {} /\ (1 + 1)..Len(stk) = {} /\ (1 + 1)..1 = {}
  BY <1>2
<1>4. "root" \in Scopes /\ Len(g.nodes["root"]) \in Nat
  BY NodeFacts DEF Scopes
<1>5. StackInv(g, stk) /\ StateInv(g, stk)
  BY <1>1, <1>2, <1>3, <1>4 DEF StackInv, StateInv
<1>6. PresentInv(stk, e) /\ ScopedInv(g, stk, e)
  BY <1>1, <1>2, <1>3 DEF PresentInv, ScopedInv
<1>7. BoundBefore(g, "root", 1) = {}
  <2>1. g.formals["root"] = <<>>
    BY DEF WellFormed, Arities
  <2>2. Range(g.formals["root"]) = {}
    BY <2>1 DEF Range
  <2>3. 1..(1 - 1) = {}
    OBVIOUS
  <2> QED BY <2>2, <2>3 DEF BoundBefore
<1>8. BoundInv(g, stk, e)
  BY <1>1, <1>2, <1>3, <1>7 DEF BoundInv
<1>9. FixedAt(g, stk, 1) = DOMAIN g.inits["root"]
  BY <1>1, <1>2, <1>4, FixedFirst DEF FixedAt
<1>10. \A x \in FixedAt(g, stk, 1) : Initial(g, stk, 1, x)
  BY <1>3, <1>9 DEF Initial, Clear
<1>11. FixedInv(g, stk, e)
  BY <1>3, <1>10 DEF FixedInv
<1>12. InheritInv(g, stk)
  BY <1>3, <1>9 DEF InheritInv
<1>13. Good(g, stk, e)
  BY <1>5, <1>6, <1>8, <1>11, <1>12 DEF Good
<1> QED BY <1>13 DEF stk, frame

\* A body of the node has this many formals and outputs.
LEMMA BodyIs ==
  ASSUME NEW g, WellFormed(g), NEW node \in ANode, NEW n, NEW formals, NEW outs,
         Bodies(g, node, n, formals, outs), NEW i \in 1..n
  PROVE  /\ node.bodies[i] \in Range(node.bodies) /\ node.bodies[i] \in Scopes
         /\ Len(g.formals[node.bodies[i]]) = formals
<1>1. node.bodies \in Seq(Scopes) /\ Len(node.bodies) = n
  BY NodeSeqs DEF Bodies
<1>2. i \in DOMAIN node.bodies
  BY <1>1
<1>3. node.bodies[i] \in Range(node.bodies) /\ node.bodies[i] \in Scopes
  BY <1>1, <1>2 DEF Range
<1> QED BY <1>3 DEF Bodies

LEMMA BranchKeeps ==
  ASSUME TInv, Branch
  PROVE  Good(p, stack', env')
<1> DEFINE taken == IF RawHost(Top.scope, Node.ins[1]).n # 0 THEN 1 ELSE 2
           b == Node.bodies[taken]
           frame == Frame(b)
           n == Len(stack)
<1>1. InNode /\ Node.kind = "If" /\ Entered(stack, frame, <<>>, env)
  BY DEF Branch
<1>2. taken \in 1..2
  OBVIOUS
<1> HIDE DEF taken
<1>3. WellFormed(p) /\ n # 0 /\ Top = stack[n] /\ mode # "idle"
  BY <1>1, TopIs DEF InNode
<1>4. Node \in ANode /\ Node = p.nodes[Top.scope][Top.pc]
  BY <1>1, NodeIs
<1>5. Bodies(p, Node, 2, 0, Len(Node.outs))
  BY <1>1, ArityIs
<1>6. b \in Range(Node.bodies) /\ b \in Scopes /\ Len(p.formals[b]) = 0
  <2>1. Node \in ANode
    BY <1>4
  <2>2. /\ Node.bodies[taken] \in Range(Node.bodies) /\ Node.bodies[taken] \in Scopes
        /\ Len(p.formals[Node.bodies[taken]]) = 0
    BY <1>2, <1>3, <1>5, <2>1, BodyIs
  <2> QED BY <2>2
<1>7. DOMAIN frame = Fields /\ frame.scope = b /\ Carries(Node, frame)
  <2>1. /\ DOMAIN frame = Fields /\ frame.scope = b
        /\ frame.state = <<>> /\ frame.emitted = <<>> /\ frame.t = 0 /\ frame.trip = 0
    BY DEF Frame, Fields
  <2>2. There(<<>>)
    BY ThereEmpty
  <2> HIDE DEF frame
  <2> QED BY <1>1, <2>1, <2>2 DEF Carries, There
<1>8. There(<<>>) /\ Len(<<>>) = 0
  BY ThereEmpty
<1>9. Top.pc <= Len(p.nodes[Top.scope]) /\ Good(p, stack, env)
  BY <1>1 DEF InNode, TInv
<1> HIDE DEF b, frame
<1> QED BY <1>1, <1>3, <1>4, <1>6, <1>7, <1>8, <1>9, EnteredKeeps

\* As many values as names.
LEMMA ReadIs ==
  ASSUME NEW names, IsSeq(names),
         NEW values, values = [k \in DOMAIN names |-> values[k]],
         \A k \in DOMAIN names : values[k] # NoValue
  PROVE  There(values) /\ Len(values) = Len(names)
<1>1. Len(names) \in Nat /\ DOMAIN names = 1..Len(names)
  BY SeqFacts
<1> DEFINE S == {values[k] : k \in DOMAIN names}
<1>2. values \in [1..Len(names) -> S]
  BY <1>1
<1>3. values \in Seq(S) /\ Len(values) = Len(names)
  BY <1>1, <1>2
<1> QED BY <1>1, <1>3 DEF There, IsSeq

LEMMA IterateKeeps ==
  ASSUME TInv, Iterate
  PROVE  Good(p, stack', env') /\ CacheGood(cache')
<1> DEFINE s == Top.scope
           state == [k \in DOMAIN Carried(Node) |-> Resolve(s, Carried(Node)[k])]
           scan == IF Node.kind = "Scan" THEN Resolve(s, Last(Node.ins)) ELSE NoValue
           trip == IF Node.kind = "Scan" THEN scan.n
                   ELSE IF RawHost(s, Node.ins[2]).n # 0 THEN RawHost(s, Node.ins[1]).n ELSE 0
           b == Node.bodies[1]
           frame == [Frame(b) EXCEPT !.trip = trip, !.state = state, !.scan = scan]
           base == Wrapped(Resolved(Node))
<1>1. /\ InNode /\ Node.kind \in {"Loop", "Scan"}
      /\ ~Missing(state)
      /\ IF trip = 0
         THEN /\ env' = Over(base, Bind(Node.outs, Finished(Node, state, <<>>)))
              /\ stack' = Advanced
         ELSE Entered(stack, frame, Iteration(Node, frame), base)
      /\ cache' = Kept(Resolved(Node), {})
  BY DEF Iterate
<1> HIDE DEF scan, trip
<1>2. /\ WellFormed(p) /\ Len(stack) # 0 /\ Top = stack[Len(stack)] /\ mode # "idle"
      /\ Node \in ANode /\ Node = p.nodes[s][Top.pc] /\ Top.pc <= Len(p.nodes[s])
  BY <1>1, TopIs, NodeIs DEF InNode
<1> DEFINE ins == Len(Node.ins)
<1>3. /\ ins \in Nat
      /\ Node.kind = "Loop" =>
           ins >= 2 /\ Bodies(p, Node, 1, ins, ins - 1) /\ Len(Node.outs) = ins - 2
      /\ Node.kind = "Scan" =>
           ins >= 1 /\ Bodies(p, Node, 1, ins, ins) /\ Len(Node.outs) = ins
  BY <1>1, ArityIs
<1> HIDE DEF ins
<1>4. b \in Range(Node.bodies) /\ b \in Scopes /\ Len(p.formals[b]) = ins
  <2>1. \E outs : Bodies(p, Node, 1, ins, outs)
    BY <1>1, <1>3
  <2>2. PICK outs : Bodies(p, Node, 1, ins, outs)
    BY <2>1
  <2>3. 1 \in 1..1 /\ WellFormed(p) /\ Node \in ANode
    BY <1>2
  <2> QED BY <2>2, <2>3, BodyIs
<1> HIDE DEF b
<1>5. /\ IsSeq(Carried(Node))
      /\ Len(Carried(Node)) = ins - (IF Node.kind = "Loop" THEN 2 ELSE 1)
      /\ Resolved(Node) \in SUBSET Range(Node.ins)
  BY <1>1, <1>2, <1>3, CarriedIs DEF ins
<1>6. There(state) /\ Len(state) = Len(Carried(Node))
  <2>1. /\ state = [k \in DOMAIN Carried(Node) |-> state[k]]
        /\ \A k \in DOMAIN Carried(Node) : state[k] # NoValue
    BY <1>1 DEF Missing
  <2> HIDE DEF state
  <2> QED BY <1>5, <2>1, ReadIs
<1> HIDE DEF state
<1>7. Good(p, stack, base)
  BY <1>1, <1>5, WrappedIs
<1> HIDE DEF base
<1>8. ASSUME trip = 0 PROVE Good(p, stack', env')
  <2> DEFINE values == Finished(Node, state, <<>>)
  <2>1. There(values) /\ Len(values) = Len(state) + (IF Node.kind = "Scan" THEN 1 ELSE 0)
    BY <1>6, FinishedIs
  <2>2. Len(values) = Len(Node.outs)
    BY <1>1, <1>3, <1>5, <1>6, <2>1
  <2>3. ~Derives(p, s, Node, FixedAt(p, stack, Len(stack)))
    <3>1. Node.bodies # <<>>
      <4>1. DOMAIN <<>> = {} /\ Range(<<>>) = {}
        BY DEF Range
      <4> QED BY <1>4, <4>1
    <3> QED BY <3>1 DEF Derives
  <2>4. env' = Over(base, Bind(Node.outs, values)) /\ stack' = Advanced
    BY <1>1, <1>8
  <2> HIDE DEF values
  <2> QED BY <1>1, <1>7, <2>1, <2>2, <2>3, <2>4, NodeDone
<1>9. ASSUME trip # 0 PROVE Good(p, stack', env')
  <2>1. /\ DOMAIN frame = Fields /\ frame.scope = b /\ frame.state = state /\ frame.emitted = <<>>
    BY DEF Frame, Fields
  <2>2. Entered(stack, frame, Iteration(Node, frame), base)
    BY <1>1, <1>9
  <2> HIDE DEF frame
  <2>3. Carries(Node, frame)
    <3>1. There(<<>>)
      BY ThereEmpty
    <3> QED BY <1>1, <1>6, <2>1, <3>1 DEF Carries, There
  <2> DEFINE args == Iteration(Node, frame)
  <2>4. /\ There(args)
        /\ Node.kind = "Loop" => Len(args) = Len(frame.state) + 2
        /\ Node.kind = "Scan" => Len(args) = Len(frame.state) + 1
    <3>1. There(frame.state) /\ Node.kind \in {"Loop", "Scan"}
      BY <1>1, <1>6, <2>1
    <3> QED BY <3>1, IterationIs
  <2>5. Len(args) = Len(p.formals[b])
    BY <1>1, <1>3, <1>4, <1>5, <1>6, <2>1, <2>4
  <2>6. Entered(stack, frame, args, base)
    BY <2>2
  <2> HIDE DEF args
  <2> QED BY <1>1, <1>2, <1>4, <1>7, <2>1, <2>3, <2>4, <2>5, <2>6, EnteredKeeps
<1>10. CacheGood(cache')
  BY <1>1, <1>5, KeptIs
<1> QED BY <1>8, <1>9, <1>10

\* The node whose body ends.
LEMMA CallerIs ==
  ASSUME TInv, InEnd, NEW m, m = Len(Below), NEW r, r = Below[m].scope
  PROVE  /\ IsSeq(Below) /\ m \in Nat /\ m # 0 /\ r \in Scopes
         /\ Below[m].pc <= Len(p.nodes[r]) /\ Caller = p.nodes[r][Below[m].pc]
         /\ Caller \in ANode /\ Caller \in NodesOf(p, r)
         /\ Top.scope \in Range(Caller.bodies) /\ Top.scope \in Scopes /\ DOMAIN Top = Fields
         /\ Carries(Caller, Top) /\ Caller.bodies # <<>>
<1> DEFINE n == Len(stack)
<1>1. /\ WellFormed(p) /\ IsSeq(stack) /\ n \in Nat /\ n > 1 /\ StackInv(p, stack)
      /\ Top = stack[n] /\ Top.scope \in Scopes /\ DOMAIN Top = Fields
  BY TopIs DEF InEnd
<1>2. /\ IsSeq(Front(stack)) /\ Len(Front(stack)) = Len(stack) - 1
      /\ \A i \in 1..(Len(stack) - 1) : Front(stack)[i] = stack[i]
  <2>1. Len(stack) # 0
    BY <1>1
  <2> QED BY <1>1, <2>1, PoppedIs
<1>3. /\ IsSeq(Below) /\ m = n - 1 /\ m \in Nat /\ m # 0 /\ Below[m] = stack[m]
  BY <1>1, <1>2 DEF Below
<1>4. Caller = CallerAt(p, stack, n)
  <2>1. Last(Below) = stack[n - 1]
    BY <1>3 DEF Last
  <2> QED BY <2>1 DEF Caller, CallerAt
<1>5. /\ stack[m].scope \in Scopes /\ stack[m].pc \in 1..(Len(p.nodes[r]) + 1)
      /\ stack[m].pc <= Len(p.nodes[r])
      /\ Top.scope \in Range(CallerAt(p, stack, n).bodies)
  <2>1. m \in 1..n /\ n \in 1..n /\ n # 1
    BY <1>1, <1>3
  <2> QED BY <1>1, <1>3, <2>1 DEF StackInv
<1>6. Carries(CallerAt(p, stack, n), stack[n])
  <2>1. n \in 2..n
    BY <1>1
  <2> QED BY <2>1 DEF TInv, Good, StateInv
<1> HIDE DEF n
<1>7. r \in Scopes /\ Below[m].pc \in 1..Len(p.nodes[r])
  <2>1. Len(p.nodes[r]) \in Nat
    BY <1>1, <1>3, <1>5, NodeFacts
  <2> QED BY <1>3, <1>5, <2>1
<1>8. Caller = p.nodes[r][Below[m].pc]
  BY <1>3, <1>4 DEF CallerAt
<1>9. Caller \in ANode /\ Caller \in NodesOf(p, r)
  BY <1>1, <1>7, <1>8, NodeFacts
<1>10. Caller.bodies # <<>>
  <2>1. Range(<<>>) = {}
    BY DEF Range
  <2> QED BY <1>4, <1>5, <2>1
<1> QED BY <1>1, <1>3, <1>4, <1>5, <1>6, <1>7, <1>8, <1>9, <1>10

LEMMA CallerArity ==
  ASSUME TInv, InEnd
  PROVE  LET ins == Len(Caller.ins)
             formals == Len(p.formals[Top.scope])
             outs == Len(Outs)
         IN /\ ins \in Nat /\ Caller.kind \in {"If", "Loop", "Scan"}
            /\ Caller.kind = "If" => outs = Len(Caller.outs)
            /\ Caller.kind = "Loop" =>
                 ins >= 2 /\ formals = ins /\ outs = ins - 1 /\ Len(Caller.outs) = ins - 2
            /\ Caller.kind = "Scan" =>
                 ins >= 1 /\ formals = ins /\ outs = ins /\ Len(Caller.outs) = ins
<1> DEFINE r == Below[Len(Below)].scope
<1>1. /\ r \in Scopes /\ Caller \in ANode /\ Caller \in NodesOf(p, r)
      /\ Top.scope \in Range(Caller.bodies) /\ Caller.bodies # <<>>
  BY CallerIs
<1> HIDE DEF r
<1>2. WellFormed(p)
  BY TopIs DEF InEnd
<1>3. Len(Caller.ins) \in Nat
  BY <1>1, NodeSeqs
<1>4. LET ins == Len(Caller.ins)
      IN /\ Caller.kind = "If" => ins = 1 /\ Bodies(p, Caller, 2, 0, Len(Caller.outs))
         /\ Caller.kind = "Loop" =>
              ins >= 2 /\ Bodies(p, Caller, 1, ins, ins - 1) /\ Len(Caller.outs) = ins - 2
         /\ Caller.kind = "Scan" =>
              ins >= 1 /\ Bodies(p, Caller, 1, ins, ins) /\ Len(Caller.outs) = ins
         /\ Caller.kind \notin {"If", "Loop", "Scan"} => Caller.bodies = <<>>
  BY <1>1, <1>2 DEF WellFormed, Arities
<1> QED BY <1>1, <1>3, <1>4 DEF Bodies, Outs

\* What the ended body returns.
LEMMA ReturnedIs ==
  ASSUME TInv, InEnd, Range(Outs) \subseteq DOMAIN env,
         NEW outs, outs = [k \in DOMAIN Outs |-> env[Outs[k]]]
  PROVE  There(outs) /\ Len(outs) = Len(Outs)
<1>1. IsSeq(Outs)
  <2>1. WellFormed(p) /\ Top.scope \in Scopes
    BY TopIs DEF InEnd
  <2>2. Outs \in Seq(STRING)
    BY <2>1 DEF WellFormed, Typed, Outs
  <2> QED BY <2>2 DEF IsSeq
<1>2. \A k \in DOMAIN Outs : outs[k] # NoValue
  BY DEF TInv, Good, PresentInv, Range
<1>3. outs = [k \in DOMAIN Outs |-> outs[k]]
  OBVIOUS
<1> QED BY <1>1, <1>2, <1>3, ReadIs

\* The names the body bound are gone.
LEMMA RestoredIs ==
  ASSUME TInv, InEnd
  PROVE  Restores(p, stack, Len(stack), env, Restored(Top))
<1> DEFINE n == Len(stack)
           e2 == Restored(Top)
           outer == Restrict(env, DOMAIN env \ plan.own[Top.scope])
<1>1. /\ WellFormed(p) /\ n \in Nat /\ n > 1 /\ Top = stack[n] /\ Top.scope \in Scopes
      /\ plan.own = [s \in Scopes |-> BodyNames(p, s)]
  BY TopIs DEF InEnd
<1>2. plan.own[Top.scope] = Own(p, stack, n)
  BY <1>1 DEF Own
<1>3. /\ DOMAIN outer = DOMAIN env \ Own(p, stack, n)
      /\ \A x \in DOMAIN outer : outer[x] = env[x]
  BY <1>2 DEF Restrict
<1>4. e2 = Over(outer, stack[n].saved)
  BY <1>1 DEF Restored
<1> HIDE DEF outer
<1>5. /\ DOMAIN e2 = DOMAIN outer \cup DOMAIN stack[n].saved
      /\ \A x \in DOMAIN stack[n].saved : e2[x] = stack[n].saved[x]
      /\ \A x \in DOMAIN outer : x \notin DOMAIN stack[n].saved => e2[x] = outer[x]
  <2>1. LET over == Over(outer, stack[n].saved)
        IN /\ DOMAIN over = DOMAIN outer \cup DOMAIN stack[n].saved
           /\ \A x \in DOMAIN stack[n].saved : over[x] = stack[n].saved[x]
           /\ \A x \in DOMAIN outer : x \notin DOMAIN stack[n].saved => over[x] = outer[x]
    BY OverIs
  <2> HIDE DEF e2
  <2> QED BY <1>4, <2>1
<1> HIDE DEF e2
<1>6. \A x \in DOMAIN stack[n].saved : x \in Own(p, stack, n)
  <2>1. n \in 2..Len(stack)
    BY <1>1
  <2> QED BY <2>1 DEF TInv, Good, ScopedInv
<1>7. Restores(p, stack, n, env, e2)
  BY <1>3, <1>5, <1>6 DEF Restores
<1> QED BY <1>7 DEF n, e2

LEMMA RestoredKeeps ==
  ASSUME TInv, InEnd
  PROVE  Good(p, Below, Restored(Top))
<1> DEFINE n == Len(stack)
           e2 == Restored(Top)
<1>1. WellFormed(p) /\ n \in Nat /\ n > 1
  BY TopIs DEF InEnd
<1>2. Restores(p, stack, n, env, e2)
  BY RestoredIs
<1>3. n = Len(stack) /\ Below = Front(stack) /\ Good(p, stack, env)
  BY DEF Below, TInv
<1> HIDE DEF n, e2
<1>4. n # 0 /\ n # 1
  BY <1>1
<1>5. Good(p, Below, e2)
  BY <1>1, <1>2, <1>3, <1>4, PopKeeps
<1> QED BY <1>5 DEF e2

LEMMA EndBodyKeeps ==
  ASSUME TInv, EndBody
  PROVE  Good(p, stack', env')
<1> DEFINE outs == [k \in DOMAIN Outs |-> env[Outs[k]]]
           state == CASE Caller.kind = "If" -> outs
                      [] Caller.kind = "Loop" -> Tail(outs)
                      [] OTHER -> Front(outs)
           emitted == IF Caller.kind = "Scan" THEN Append(Top.emitted, Last(outs)) ELSE <<>>
           frame == [Top EXCEPT !.t = @ + 1, !.state = state, !.emitted = emitted]
           b == Top.scope
           m == Len(Below)
           r == Below[m].scope
           base == Restored(Top)
<1>1. /\ InEnd /\ Range(Outs) \subseteq DOMAIN env
      /\ IF frame.t < Top.trip
         THEN Entered(Below, frame, Iteration(Caller, frame), base)
         ELSE /\ env' = Over(base, Bind(Caller.outs, Finished(Caller, state, emitted)))
              /\ stack' = MovedOn(Below)
  BY DEF EndBody, MovedOn
<1>2. /\ WellFormed(p) /\ mode # "idle" /\ Good(p, Below, base)
  BY <1>1, TopIs, RestoredKeeps DEF InEnd
<1>3. /\ IsSeq(Below) /\ m \in Nat /\ m # 0 /\ r \in Scopes
      /\ Below[m].pc <= Len(p.nodes[r]) /\ Caller = p.nodes[r][Below[m].pc]
      /\ Caller \in ANode /\ b \in Range(Caller.bodies) /\ b \in Scopes /\ DOMAIN Top = Fields
      /\ Carries(Caller, Top) /\ Caller.bodies # <<>>
  BY <1>1, CallerIs
<1> DEFINE ins == Len(Caller.ins)
<1>4. /\ ins \in Nat /\ Caller.kind \in {"If", "Loop", "Scan"}
      /\ Caller.kind = "If" => Len(Outs) = Len(Caller.outs)
      /\ Caller.kind = "Loop" =>
           ins >= 2 /\ Len(p.formals[b]) = ins /\ Len(Outs) = ins - 1 /\ Len(Caller.outs) = ins - 2
      /\ Caller.kind = "Scan" =>
           ins >= 1 /\ Len(p.formals[b]) = ins /\ Len(Outs) = ins /\ Len(Caller.outs) = ins
  BY <1>1, CallerArity
<1>5. There(outs) /\ Len(outs) = Len(Outs)
  BY <1>1, ReturnedIs
<1> HIDE DEF outs, b, m, r, base
<1>6. /\ There(state)
      /\ Caller.kind = "If" => Len(state) = Len(Caller.outs)
      /\ Caller.kind = "Loop" => Len(state) = ins - 2
      /\ Caller.kind = "Scan" => Len(state) = ins - 1
  <2>1. CASE Caller.kind = "If"
    <3>1. state = outs
      BY <2>1
    <3> QED BY <1>4, <1>5, <2>1, <3>1
  <2>2. CASE Caller.kind = "Loop"
    <3>1. state = Tail(outs)
      BY <2>2
    <3>2. Len(outs) = ins - 1 /\ Len(outs) # 0
      BY <1>4, <1>5, <2>2
    <3>3. There(Tail(outs)) /\ Len(Tail(outs)) = Len(outs) - 1
      BY <1>5, <3>2, ThereLess
    <3> HIDE DEF state, ins
    <3> QED BY <1>4, <2>2, <3>1, <3>2, <3>3
  <2>3. CASE Caller.kind = "Scan"
    <3>1. state = Front(outs)
      BY <2>3
    <3>2. Len(outs) = ins /\ Len(outs) # 0
      BY <1>4, <1>5, <2>3
    <3>3. There(Front(outs)) /\ Len(Front(outs)) = Len(outs) - 1
      BY <1>5, <3>2, ThereLess
    <3> HIDE DEF state, ins
    <3> QED BY <1>4, <2>3, <3>1, <3>2, <3>3
  <2> QED BY <1>4, <2>1, <2>2, <2>3
<1>7. IsSeq(emitted)
  <2>1. IsSeq(Top.emitted)
    BY <1>3 DEF Carries
  <2>2. IsSeq(Append(Top.emitted, Last(outs)))
    BY <2>1, PushedIs
  <2>3. IsSeq(<<>>)
    BY ThereEmpty DEF There
  <2> QED BY <2>2, <2>3
<1> HIDE DEF state, emitted
<1>8. ASSUME frame.t < Top.trip PROVE Good(p, stack', env')
  <2>1. /\ DOMAIN frame = Fields /\ frame.scope = b /\ frame.state = state
        /\ frame.emitted = emitted /\ frame.t = Top.t + 1
    BY <1>3 DEF Fields, b
  <2>2. Entered(Below, frame, Iteration(Caller, frame), base)
    BY <1>1, <1>8
  <2>3. Caller.kind \in {"Loop", "Scan"}
    <3>1. ASSUME Caller.kind = "If" PROVE FALSE
      <4>1. Top.t = 0 /\ Top.trip = 0
        BY <1>3, <3>1 DEF Carries
      <4> QED BY <1>8, <2>1, <4>1
    <3> QED BY <1>4, <3>1
  <2> HIDE DEF frame
  <2>4. Carries(Caller, frame)
    <3>1. Len(Carried(Caller)) = Len(Caller.ins) - (IF Caller.kind = "Loop" THEN 2 ELSE 1)
      BY <1>3, <1>4, <2>3, CarriedIs
    <3>2. Len(state) = Len(Carried(Caller))
      BY <1>4, <1>6, <2>3, <3>1
    <3>3. IsSeq(state) /\ \A k \in DOMAIN state : state[k] # NoValue
      BY <1>6 DEF There
    <3> QED BY <1>7, <2>1, <2>3, <3>2, <3>3 DEF Carries
  <2> DEFINE args == Iteration(Caller, frame)
  <2>5. /\ There(args)
        /\ Caller.kind = "Loop" => Len(args) = Len(frame.state) + 2
        /\ Caller.kind = "Scan" => Len(args) = Len(frame.state) + 1
    <3>1. There(frame.state)
      BY <1>6, <2>1
    <3> QED BY <2>3, <3>1, IterationIs
  <2>6. Entered(Below, frame, args, base)
    BY <2>2
  <2> HIDE DEF args
  <2>7. Len(args) = Len(p.formals[b])
    BY <1>4, <1>6, <2>1, <2>3, <2>5
  <2> HIDE DEF ins
  <2> QED BY <1>2, <1>3, <2>1, <2>4, <2>5, <2>6, <2>7, EnteredKeeps DEF m, r
<1>9. ASSUME ~(frame.t < Top.trip) PROVE Good(p, stack', env')
  <2> DEFINE values == Finished(Caller, state, emitted)
  <2>1. There(values) /\ Len(values) = Len(state) + (IF Caller.kind = "Scan" THEN 1 ELSE 0)
    BY <1>6, FinishedIs
  <2>2. env' = Over(base, Bind(Caller.outs, values)) /\ stack' = MovedOn(Below)
    BY <1>1, <1>9
  <2> HIDE DEF values
  <2>3. Len(values) = Len(Caller.outs)
    BY <1>4, <1>6, <2>1
  <2>4. ~Derives(p, r, Caller, FixedAt(p, Below, m))
    BY <1>3 DEF Derives
  <2> HIDE DEF ins
  <2>5. Yields(p, r, Caller, FixedAt(p, Below, m), base, Over(base, Bind(Caller.outs, values)))
    BY <1>3, <2>1, <2>3, <2>4, YieldsIs
  <2>6. Yields(p, r, Caller, FixedAt(p, Below, m), base, env')
    BY <2>2, <2>5
  <2>7. m = Len(Below) /\ r = Below[m].scope
    BY DEF m, r
  <2> QED BY <1>2, <1>3, <2>2, <2>6, <2>7, AdvanceKeeps
<1> HIDE DEF frame
<1> QED BY <1>8, <1>9

-----------------------------------------------------------------------------
(* The invariant. *)

\* A step within a call.
LEMMA StepKeeps ==
  ASSUME TInv, UNCHANGED <<p, plan, host, results, mode, status, calls>>,
         Good(p, stack', env'), CacheGood(cache'), WritesGood(writes'), stack' # <<>>
  PROVE  TInv'
<1>1. PlanInv'
  BY DEF TInv, PlanInv, GeneralEnabled, NodesOf
<1>2. HostInv'
  BY DEF TInv, HostInv
<1>3. ControlInv'
  BY DEF TInv, ControlInv
<1>4. Good(p, stack, env)' /\ CacheGood(cache)'
  OBVIOUS
<1> QED BY <1>1, <1>2, <1>3, <1>4 DEF TInv

\* A step that starts a call, or ends it.
LEMMA StartsKeeps ==
  ASSUME TInv, NEW path \in {"eager", "trace"}, Starts(path), path = "trace" => GeneralEnabled,
         UNCHANGED <<p, plan, cache, host>>, calls' \in 0..MaxCalls,
         status' \in {"none", "ok", "failed"}, DOMAIN results' \subseteq p.external
  PROVE  TInv'
<1>1. PlanInv'
  BY DEF TInv, PlanInv, GeneralEnabled, NodesOf, Starts
<1>2. writes' = <<>> /\ WritesGood(writes')
  <2>1. WritesGood(<<>>)
    BY ThereEmpty DEF WritesGood, There
  <2> QED BY <2>1 DEF Starts
<1>3. HostInv'
  BY <1>2 DEF TInv, HostInv
<1>4. ControlInv'
  <2>1. <<Frame("root")>> # <<>>
    OBVIOUS
  <2> QED BY <2>1 DEF TInv, ControlInv, Starts
<1>5. Good(p, stack', env')
  <2>1. \A x \in DOMAIN env' : x \in CtxInputs /\ env'[x] # NoValue
    <3>1. env' = host \/ env' = <<>>
      BY DEF Starts
    <3>2. DOMAIN <<>> = {}
      OBVIOUS
    <3> QED BY <3>1, <3>2 DEF TInv, HostInv
  <2>2. WellFormed(p)
    BY TranslateAssumption DEF TInv, PlanInv
  <2> QED BY <2>1, <2>2, StartKeeps DEF Starts
<1>6. Good(p, stack, env)' /\ CacheGood(cache)'
  BY <1>5 DEF TInv
<1> QED BY <1>1, <1>3, <1>4, <1>6 DEF TInv

LEMMA HaltedKeeps ==
  ASSUME TInv, NEW how \in {"ok", "failed"}, Halted(how), UNCHANGED <<p, plan, cache, calls>>,
         DOMAIN host' = CtxInputs, \A x \in CtxInputs : host'[x] # NoValue,
         DOMAIN results' \subseteq p.external
  PROVE  TInv'
<1>1. PlanInv'
  BY DEF TInv, PlanInv, Halted
<1>2. HostInv'
  <2>1. WritesGood(<<>>)
    BY ThereEmpty DEF WritesGood, There
  <2> QED BY <2>1 DEF Halted, HostInv
<1>3. ControlInv'
  BY DEF TInv, ControlInv, Halted
<1>4. Good(p, stack, env)' /\ CacheGood(cache)'
  BY EmptyKeeps DEF TInv, Halted
<1> QED BY <1>1, <1>2, <1>3, <1>4 DEF TInv

LEMMA FailsKeeps ==
  ASSUME TInv, Fails
  PROVE  TInv'
<1>1. /\ UNCHANGED <<p, plan, cache, host, results, given, calls>>
      /\ calls' \in 0..MaxCalls /\ DOMAIN results' \subseteq p.external
      /\ DOMAIN host' = CtxInputs /\ \A x \in CtxInputs : host'[x] # NoValue
  BY DEF Fails, TInv, ControlInv, HostInv
<1>2. CASE mode = "trace" /\ Starts("eager") /\ UNCHANGED status
  <2>1. status' \in {"none", "ok", "failed"}
    BY <1>2 DEF TInv, ControlInv
  <2> QED BY <1>1, <1>2, <2>1, StartsKeeps
<1>3. CASE mode = "eager" /\ Halted("failed")
  BY <1>1, <1>3, HaltedKeeps
<1> QED BY <1>2, <1>3 DEF Fails

\* What is stored is the value of some update, or what was there.
LEMMA StoredIs ==
  ASSUME NEW memory, DOMAIN memory = CtxInputs, \A x \in CtxInputs : memory[x] # NoValue,
         NEW list, WritesGood(list)
  PROVE  /\ DOMAIN Stored(memory, list) = CtxInputs
         /\ \A x \in CtxInputs : Stored(memory, list)[x] # NoValue
<1>1. DOMAIN list = 1..Len(list) /\ Len(list) \in Nat
  BY SeqFacts DEF WritesGood
<1>2. ASSUME NEW x \in CtxInputs PROVE Stored(memory, list)[x] # NoValue
  <2> DEFINE at == {i \in DOMAIN list : list[i].name = x}
  <2>1. Stored(memory, list)[x] = IF at = {} THEN memory[x] ELSE list[Max(at)].value
    BY DEF Stored
  <2>2. at \subseteq DOMAIN list
    OBVIOUS
  <2> HIDE DEF at
  <2>3. ASSUME at # {} PROVE Max(at) \in DOMAIN list
    <3>1. at \in SUBSET (1..Len(list))
      BY <1>1, <2>2
    <3>2. Max(at) \in at
      BY <1>1, <2>3, <3>1, GreatestNumber
    <3> QED BY <2>2, <3>2
  <2> QED BY <2>1, <2>3 DEF WritesGood
<1> QED BY <1>2 DEF Stored

LEMMA NotEmpty ==
  ASSUME NEW q, Len(q) # 0
  PROVE  q # <<>>
<1>1. Len(<<>>) = 0
  OBVIOUS
<1> QED BY <1>1

\* Every step of a call leaves a graph in translation.
LEMMA StackStays ==
  ASSUME TInv, Translate \/ Branch \/ Iterate \/ EndBody
  PROVE  stack' # <<>>
<1>1. \A below, frame : IsSeq(below) => Append(below, frame) # <<>>
  <2>1. ASSUME NEW below, NEW frame, IsSeq(below) PROVE Append(below, frame) # <<>>
    <3>1. Len(Append(below, frame)) = Len(below) + 1 /\ Len(below) \in Nat
      BY <2>1, PushedIs, SeqFacts
    <3>2. Len(Append(below, frame)) # 0
      BY <3>1
    <3> QED BY <3>2, NotEmpty
  <2> QED BY <2>1
<1>2. \A stk : (IsSeq(stk) /\ Len(stk) # 0) => MovedOn(stk) # <<>>
  <2>1. ASSUME NEW stk, IsSeq(stk), Len(stk) # 0 PROVE MovedOn(stk) # <<>>
    <3>1. DOMAIN MovedOn(stk) = DOMAIN stk
      BY DEF MovedOn
    <3>2. 1 \in DOMAIN stk
      BY <2>1, SeqFacts
    <3>3. DOMAIN <<>> = {}
      OBVIOUS
    <3> QED BY <3>1, <3>2, <3>3
  <2> QED BY <2>1
<1>3. mode # "idle"
  BY DEF Translate, Branch, Iterate, EndBody, InNode, InEnd
<1>4. IsSeq(stack) /\ Len(stack) # 0
  BY <1>3, TopIs
<1>5. CASE Translate \/ Branch \/ Iterate
  <2>1. stack' = MovedOn(stack) \/ \E frame : stack' = Append(stack, frame)
    BY <1>5 DEF Translate, Branch, Iterate, Advanced, MovedOn, Entered
  <2> QED BY <1>1, <1>2, <1>4, <2>1
<1>6. CASE EndBody
  <2>1. stack' = MovedOn(Below) \/ \E frame : stack' = Append(Below, frame)
    BY <1>6 DEF EndBody, MovedOn, Entered
  <2>2. InEnd
    BY <1>6 DEF EndBody
  <2>3. IsSeq(Below) /\ Len(Below) # 0
    BY <2>2, CallerIs
  <2> QED BY <1>1, <1>2, <2>1, <2>3
<1> QED BY <1>5, <1>6

LEMMA TInvStart == Init => TInv
<1> SUFFICES ASSUME Init PROVE TInv
  OBVIOUS
<1>1. PlanInv
  BY DEF Init, PlanInv
<1>2. DOMAIN host = CtxInputs /\ \A x \in CtxInputs : host[x] # NoValue
  <2>1. PICK n \in [CtxInputs -> Numbers] : host = [x \in CtxInputs |-> HostValue(x, n[x])]
    BY DEF Init
  <2> QED BY <2>1, HostIs
<1>3. HostInv
  <2>1. WritesGood(<<>>)
    BY ThereEmpty DEF WritesGood, There
  <2> QED BY <1>2, <2>1 DEF Init, HostInv
<1>4. ControlInv
  <2>1. DOMAIN <<>> = {} /\ 0 \in 0..MaxCalls
    BY TranslateAssumption
  <2> QED BY <2>1 DEF Init, ControlInv
<1>5. CacheGood(cache)
  <2>1. DOMAIN <<>> = {}
    OBVIOUS
  <2>2. DOMAIN cache = {}
    BY <2>1 DEF Init
  <2> QED BY <2>2 DEF CacheGood
<1>6. Good(p, stack, env)
  BY EmptyKeeps DEF Init
<1> QED BY <1>1, <1>3, <1>4, <1>5, <1>6 DEF TInv

LEMMA TInvStep == TInv /\ [Next]_vars => TInv'
<1> SUFFICES ASSUME TInv, [Next]_vars PROVE TInv'
  OBVIOUS
<1>1. CASE Call
  <2>1. /\ UNCHANGED <<p, plan, cache, host>> /\ status' \in {"none", "ok", "failed"}
        /\ results' = <<>>
    BY <1>1 DEF Call
  <2>2. DOMAIN results' \subseteq p.external
    <3>1. DOMAIN <<>> = {}
      OBVIOUS
    <3> QED BY <2>1, <3>1
  <2>3. calls' \in 0..MaxCalls
    <3>1. calls \in 0..MaxCalls /\ calls < MaxCalls /\ calls' = calls + 1 /\ MaxCalls \in Nat
      BY <1>1, TranslateAssumption DEF Call, TInv, ControlInv
    <3> QED BY <3>1
  <2>4. PICK path \in {"eager", "trace"} : Starts(path) /\ (path = "trace" => GeneralEnabled)
    BY <1>1 DEF Call
  <2> QED BY <2>1, <2>2, <2>3, <2>4, StartsKeeps
<1>2. CASE Translate
  BY <1>2, StepKeeps, StackStays, TranslateKeeps DEF Translate
<1>3. CASE TranslateFails
  BY <1>3, FailsKeeps DEF TranslateFails
<1>4. CASE Branch
  <2>1. CacheGood(cache') /\ WritesGood(writes')
    BY <1>4 DEF Branch, TInv, HostInv
  <2> QED BY <1>4, <2>1, StepKeeps, StackStays, BranchKeeps DEF Branch
<1>5. CASE Iterate
  <2>1. WritesGood(writes')
    BY <1>5 DEF Iterate, TInv, HostInv
  <2> QED BY <1>5, <2>1, StepKeeps, StackStays, IterateKeeps DEF Iterate
<1>6. CASE ControlFails
  BY <1>6, FailsKeeps DEF ControlFails
<1>7. CASE EndBody
  <2>1. CacheGood(cache') /\ WritesGood(writes')
    BY <1>7 DEF EndBody, TInv, HostInv
  <2> QED BY <1>7, <2>1, StepKeeps, StackStays, EndBodyKeeps DEF EndBody
<1>8. CASE EndBodyFails
  BY <1>8, FailsKeeps DEF EndBodyFails
<1>9. CASE FinishBoundary
  <2>1. /\ DOMAIN host = CtxInputs /\ \A x \in CtxInputs : host[x] # NoValue
        /\ WritesGood(writes) /\ UNCHANGED <<p, plan, cache, calls>>
    BY <1>9 DEF TInv, HostInv, FinishBoundary
  <2>2. WritesGood(IF mode = "eager" THEN writes ELSE <<>>)
    <3>1. WritesGood(<<>>)
      BY ThereEmpty DEF WritesGood, There
    <3> QED BY <2>1, <3>1
  <2>3. CASE /\ Halted("ok") /\ results' = Restrict(env, p.external)
             /\ host' = Stored(host, IF mode = "eager" THEN writes ELSE <<>>)
    <3>1. DOMAIN host' = CtxInputs /\ \A x \in CtxInputs : host'[x] # NoValue
      BY <2>1, <2>2, <2>3, StoredIs
    <3>2. DOMAIN results' \subseteq p.external
      BY <2>3 DEF Restrict
    <3> QED BY <2>1, <2>3, <3>1, <3>2, HaltedKeeps
  <2>4. CASE /\ Halted("failed") /\ \E some \in SUBSET p.external : results' = Restrict(env, some)
             /\ UNCHANGED host
    <3>1. DOMAIN host' = CtxInputs /\ \A x \in CtxInputs : host'[x] # NoValue
      BY <2>1, <2>4
    <3>2. DOMAIN results' \subseteq p.external
      BY <2>4 DEF Restrict
    <3> QED BY <2>1, <2>4, <3>1, <3>2, HaltedKeeps
  <2> QED BY <1>9, <2>3, <2>4 DEF FinishBoundary
<1>10. CASE Refill
  <2>1. PICK x \in CtxInputs, n \in Numbers : host' = [host EXCEPT ![x] = HostValue(x, n)]
    BY <1>10 DEF Refill
  <2>2. /\ UNCHANGED <<p, plan, cache, results, mode, stack, env, writes, given, calls>>
        /\ status' = "none"
    BY <1>10 DEF Refill
  <2>3. PlanInv' /\ ControlInv'
    BY <2>2 DEF TInv, PlanInv, ControlInv, GeneralEnabled, NodesOf
  <2>4. HostInv'
    <3>1. HostValue(x, n) # NoValue
      BY HostIs
    <3> QED BY <2>1, <2>2, <3>1 DEF TInv, HostInv
  <2>5. Good(p, stack, env)' /\ CacheGood(cache)'
    BY <2>2 DEF TInv
  <2> QED BY <2>3, <2>4, <2>5 DEF TInv
<1>11. CASE UNCHANGED vars
  <2>1. /\ UNCHANGED <<p, plan, cache, host, results, mode, stack, env, writes, given, status, calls>>
    BY <1>11 DEF vars
  <2>2. PlanInv' /\ ControlInv' /\ HostInv'
    BY <2>1 DEF TInv, PlanInv, ControlInv, HostInv, GeneralEnabled, NodesOf
  <2>3. Good(p, stack, env)' /\ CacheGood(cache)'
    BY <2>1 DEF TInv
  <2> QED BY <2>2, <2>3 DEF TInv
<1> QED BY <1>1, <1>2, <1>3, <1>4, <1>5, <1>6, <1>7, <1>8, <1>9, <1>10, <1>11 DEF Next, Done

-----------------------------------------------------------------------------
(* The theorems. *)

LEMMA TInvAlways == Spec => []TInv
BY TInvStart, TInvStep, PTL DEF Spec

\* Whatever is translated, in whatever nesting of branches and iterations: no name ever
\* stands for a missing array, the arrays kept are those of initializers, and only
\* boundary outputs are written to the results (engine.rs:958-965, 1780-1787).
THEOREM TypeCorrect == Spec => []TypeOK
<1>1. TInv => TypeOK
  <2> SUFFICES ASSUME TInv PROVE TypeOK
    OBVIOUS
  <2>1. \A k \in DOMAIN cache : k.of \in Scopes \cup {"packed"}
    BY DEF TInv, CacheGood
  <2>2. NoValue \notin Range(env)
    BY DEF TInv, Good, PresentInv, Range
  <2> QED BY <2>1, <2>2 DEF TypeOK, TInv, ControlInv
<1> QED BY <1>1, TInvAlways, PTL

\* No name of a body outlives the body, however the bodies shadow the graphs around
\* them: removing what a body bound and putting back what it shadowed leaves only names
\* of the graphs in translation and boundary inputs (engine.rs:1780-1787).
THEOREM NamesScoped == Spec => []EnvScoped
<1>1. TInv => EnvScoped
  <2> SUFFICES ASSUME TInv, NEW x \in DOMAIN env, x \notin CtxInputs
      PROVE  x \in UNION {plan.own[stack[i].scope] : i \in DOMAIN stack}
    BY DEF EnvScoped
  <2>1. PICK i \in 1..Len(stack) : x \in Own(p, stack, i)
    BY DEF TInv, Good, ScopedInv
  <2>2. StackInv(p, stack) /\ IsSeq(stack)
    BY DEF TInv, Good, StackInv
  <2>3. i \in DOMAIN stack /\ stack[i].scope \in Scopes
    BY <2>1, <2>2, SeqFacts DEF StackInv
  <2>4. plan.own[stack[i].scope] = Own(p, stack, i)
    BY <2>3 DEF TInv, PlanInv, Plan, Own
  <2> QED BY <2>1, <2>3, <2>4
<1> QED BY <1>1, TInvAlways, PTL

\* Whatever bodies were translated before, a node of any graph finds every operand that
\* it may find at all: what a body shadowed is back, what the graphs around it bound
\* before their node is there (engine.rs:958-965).
THEOREM OperandsAreFound == Spec => []OperandsFound
<1>1. TInv => OperandsFound
  <2> SUFFICES ASSUME TInv, InNode, \A x \in HostRead(Node) : HostReadable(Top.scope, x),
                      NEW k \in DOMAIN Arguments
      PROVE  Arguments[k] # NoValue
    BY DEF OperandsFound, Missing
  <2>1. k \in DOMAIN Node.ins /\ Arguments[k] = Argument(k)
    BY DEF Arguments
  <2> QED BY <2>1, ArgumentIs
<1> QED BY <1>1, TInvAlways, PTL

\* A name the plan calls fixed stands for an array that does not depend on the data of
\* the host's inputs, at every node, in every scope and iteration, after any updates in
\* place (plan_builder.rs:420-462).
THEOREM FixedStaysFixed == Spec => []FixedIsFixed
<1>1. TInv => FixedIsFixed
  <2> SUFFICES ASSUME TInv, InNode, NEW name \in Range(Node.ins),
                      name \in plan.fixed[Top.scope][Top.pc]
      PROVE  ~Resolve(Top.scope, name).live
    BY DEF FixedIsFixed
  <2>1. name \in FixedAt(p, stack, Len(stack))
    BY NodeIs
  <2> QED BY <2>1, ResolvedIs
<1> QED BY <1>1, TInvAlways, PTL

\* A trace reads no parameter that depends on the data of the host's inputs: what it
\* bakes into the graph kept for these shapes is right for every later call with the
\* same shapes, if no reduction takes its axes from a boundary input (compiled.rs:106-113).
THEOREM TraceReads ==
  ASSUME HostAxes = FALSE
  PROVE  Spec => []TraceReadsFixed
<1>1. TInv => TraceReadsFixed
  <2> SUFFICES ASSUME TInv, mode = "trace", InNode, NEW name \in Parameters(Node)
      PROVE  ~Resolve(Top.scope, name).live
    BY DEF TraceReadsFixed
  <2>1. Node.kind \in {"Reshape", "Reduce"} /\ name = Node.ins[2]
    BY DEF Parameters
  <2>2. name \in Range(Node.ins)
    <3>1. IsSeq(Node.ins) /\ Len(Node.ins) >= 2
      <4>1. Node \in ANode /\ Node \in NodesOf(p, Top.scope) /\ WellFormed(p) /\ Top.scope \in Scopes
        BY NodeIs, TopIs DEF InNode
      <4> QED BY <2>1, <4>1, NodeSeqs DEF WellFormed, Arities
    <3>2. 2 \in DOMAIN Node.ins
      BY <3>1, SeqFacts
    <3> QED BY <2>1, <3>2 DEF Range
  <2>3. /\ Top.pc \in DOMAIN p.nodes[Top.scope] /\ Node = p.nodes[Top.scope][Top.pc]
        /\ Node \in NodesOf(p, Top.scope) /\ Top.scope \in Scopes
        /\ plan.fixed[Top.scope][Top.pc] = FixedAt(p, stack, Len(stack))
        /\ SourceOf(Top.scope, name) = Source(p, Top.scope, name)
    BY <2>2, NodeIs, TopIs DEF InNode
  <2>4. SourceOf(Top.scope, name) = "Initializer" \/ name \in FixedAt(p, stack, Len(stack))
    <3>1. CASE Node.kind = "Reshape"
      <4>1. GeneralEnabled
        BY DEF TInv, PlanInv
      <4> QED BY <2>1, <2>3, <3>1, <4>1 DEF GeneralEnabled, SourceOf, Ref
    <3>2. CASE Node.kind = "Reduce"
      <4>1. AxesFixed(p)
        BY DEF TInv, PlanInv
      <4> QED BY <2>1, <2>3, <3>2, <4>1 DEF AxesFixed
    <3> QED BY <2>1, <3>1, <3>2
  <2> QED BY <2>2, <2>4, ResolvedIs
<1> QED BY <1>1, TInvAlways, PTL

\* The host's inputs change within a call only when it succeeds: a failed trace, its
\* replacement on the eager path and a failed call leave them alone (engine.rs:2086-2094).
THEOREM UpdatesLast == Spec => UpdatesComeLast
<1>1. [Next]_vars => [(host' # host /\ mode # "idle") => status' = "ok"]_vars
  <2> SUFFICES ASSUME Next, host' # host, mode # "idle" PROVE status' = "ok"
    OBVIOUS
  <2>1. FinishBoundary
    BY DEF Next, Call, Translate, TranslateFails, Branch, Iterate, ControlFails, EndBody,
           EndBodyFails, Refill, Done, Fails, vars
  <2> QED BY <2>1 DEF FinishBoundary, Halted
<1> QED BY <1>1, PTL DEF Spec, UpdatesComeLast

=============================================================================
