-------------------------- MODULE CrossCacheProofs --------------------------
(* Proofs about CrossCache, for any number of generations and buffers. *)
EXTENDS CrossCache, TLAPS

\* CrossFresh is not inductive: it says nothing of the copies a later call may
\* be fed.  CacheBelongsToKey does, and rests on live buffers being distinct.
IInv == TypeOK /\ BuffersDistinct /\ CacheBelongsToKey /\ CrossFresh

\* What a call of g can find in a slot after the reset test is a copy of g.
LEMMA CopiesAreOwn ==
  ASSUME TypeOK, CacheBelongsToKey, NEW g \in live
  PROVE  /\ AfterReset(g) \in [Slots -> [Index -> Gen \cup {None}]]
         /\ \A s \in Slots, i \in Index : AfterReset(g)[s][i] \in {None, g}
         /\ ~long[g] => AfterReset(g) = Empty
<1>1. CASE NewGeneration(g)
  BY <1>1 DEF AfterReset, Empty
<1>2. CASE ~NewGeneration(g)
  <2>1. past[g] /\ GenerationKey(g) = key /\ AfterReset(g) = cache
    BY <1>2 DEF NewGeneration, AfterReset, TypeOK
  <2>2. CASE long[g]
    BY <2>1, <2>2 DEF GenerationKey, CacheBelongsToKey, TypeOK
  <2>3. CASE ~long[g]
    <3>1. key = None /\ cache = Empty
      BY <2>1, <2>3 DEF GenerationKey, CacheBelongsToKey
    <3> QED BY <2>1, <3>1 DEF Empty
  <2> QED BY <2>2, <2>3
<1> QED BY <1>1, <1>2

\* A call that leaves the slots with copies of its own generation only, and with
\* none if its cross K is short, keeps the copies tied to the key.
LEMMA CallKeepsKey ==
  ASSUME TypeOK, BuffersDistinct, NEW g \in live,
         key' = GenerationKey(g), live' = live, addr' = addr, long' = long,
         \A s \in Slots, i \in Index : cache'[s][i] \in {None, g},
         ~long[g] => cache' = Empty
  PROVE  CacheBelongsToKey'
<1>1. key' = None => cache' = Empty'
  <2>1. ASSUME key' = None PROVE ~long[g]
    BY <2>1, NoneAssumption DEF GenerationKey, TypeOK
  <2> QED BY <2>1 DEF Empty
<1>2. ASSUME NEW h \in live', past'[h], long'[h], addr'[h] = key'
      PROVE  \A s \in Slots, i \in Index : cache'[s][i] \in {None, h}
  <2>1. h = g
    BY <1>2, NoneAssumption DEF GenerationKey, BuffersDistinct, TypeOK
  <2> QED BY <2>1
<1> QED BY <1>1, <1>2 DEF CacheBelongsToKey

LEMMA InitIInv == Init => IInv
  BY NoneAssumption DEF Init, IInv, TypeOK, BuffersDistinct, CacheBelongsToKey,
                        CrossFresh, Empty

LEMMA StartKeeps ==
  ASSUME WarmReuse = FALSE, IInv,
         NEW g \in Gen, NEW a \in Address, NEW isLong \in BOOLEAN, NEW warm \in BOOLEAN,
         Start(g, a, isLong, warm)
  PROVE  IInv'
<1> USE DEF IInv, Start
<1>1. TypeOK'
  BY DEF TypeOK
<1>2. BuffersDistinct'
  BY DEF TypeOK, BuffersDistinct
<1>3. CacheBelongsToKey'
  <2>1. key' = None => cache' = Empty'
    BY DEF CacheBelongsToKey, Empty
  <2>2. ASSUME NEW h \in live', past'[h], long'[h], addr'[h] = key'
        PROVE  \A s \in Slots, i \in Index : cache'[s][i] \in {None, h}
    <3>1. h # g
      BY <2>2 DEF TypeOK
    <3>2. h \in live /\ past[h] /\ long[h] /\ addr[h] = key
      BY <2>2, <3>1 DEF TypeOK
    <3> QED BY <3>2 DEF CacheBelongsToKey
  <2> QED BY <2>1, <2>2 DEF CacheBelongsToKey
<1>4. CrossFresh'
  BY DEF CrossFresh
<1> QED BY <1>1, <1>2, <1>3, <1>4

LEMMA CompiledKeeps ==
  ASSUME IInv, NEW g \in Gen, NEW s \in Slots, NEW read \in SUBSET Index,
         Compiled(g, s, read)
  PROVE  IInv'
<1> USE DEF IInv
<1>1. g \in live
  BY DEF Compiled
<1>2. /\ AfterReset(g) \in [Slots -> [Index -> Gen \cup {None}]]
      /\ \A r \in Slots, i \in Index : AfterReset(g)[r][i] \in {None, g}
      /\ ~long[g] => AfterReset(g) = Empty
  BY <1>1, CopiesAreOwn
<1>3. /\ Gathered(g, s, read) \in [Slots -> [Index -> Gen \cup {None}]]
      /\ \A r \in Slots, i \in Index : Gathered(g, s, read)[r][i] \in {None, g}
  BY <1>2 DEF Gathered
<1>4. ~long[g] => Gathered(g, s, read) = Empty
  BY <1>2 DEF Gathered, Empty
<1>5. TypeOK'
  <2>1. fed' \in [Index -> Gen \cup {None}]
    BY <1>2 DEF Compiled, Fed
  <2>2. key' \in Address \cup {None}
    BY DEF Compiled, GenerationKey, TypeOK
  <2>3. past' \in [Gen -> BOOLEAN]
    BY DEF Compiled, TypeOK
  <2> QED BY <1>3, <2>1, <2>2, <2>3 DEF Compiled, TypeOK
<1>6. BuffersDistinct'
  BY DEF Compiled, BuffersDistinct
<1>7. CacheBelongsToKey'
  BY <1>1, <1>3, <1>4, CallKeepsKey DEF Compiled
<1>8. CrossFresh'
  BY <1>2 DEF Compiled, Fed, CrossFresh
<1> QED BY <1>5, <1>6, <1>7, <1>8

LEMMA EagerKeeps ==
  ASSUME IInv, NEW g \in Gen, Eager(g)
  PROVE  IInv'
<1> USE DEF IInv
<1>1. /\ AfterReset(g) \in [Slots -> [Index -> Gen \cup {None}]]
      /\ \A r \in Slots, i \in Index : AfterReset(g)[r][i] \in {None, g}
      /\ ~long[g] => AfterReset(g) = Empty
  BY CopiesAreOwn DEF Eager
<1>2. TypeOK'
  BY <1>1 DEF Eager, GenerationKey, TypeOK
<1>3. BuffersDistinct'
  BY DEF Eager, BuffersDistinct
<1>4. CacheBelongsToKey'
  BY <1>1, CallKeepsKey DEF Eager
<1>5. CrossFresh'
  BY DEF Eager, CrossFresh
<1> QED BY <1>2, <1>3, <1>4, <1>5

LEMMA StepIInv ==
  ASSUME WarmReuse = FALSE, IInv, [Next]_vars
  PROVE  IInv'
<1>1. CASE UNCHANGED vars
  BY <1>1 DEF vars, hostvars, IInv, TypeOK, BuffersDistinct, CacheBelongsToKey, CrossFresh,
              Empty
<1>2. ASSUME NEW g \in Gen, NEW a \in Address, NEW isLong \in BOOLEAN, NEW warm \in BOOLEAN,
             Start(g, a, isLong, warm)
      PROVE  IInv'
  BY <1>2, StartKeeps
<1>3. ASSUME NEW g \in Gen, End(g) PROVE IInv'
  BY <1>3 DEF End, IInv, TypeOK, BuffersDistinct, CacheBelongsToKey, CrossFresh, Empty
<1>4. ASSUME NEW g \in Gen, NEW s \in Slots, NEW read \in SUBSET Index, Compiled(g, s, read)
      PROVE  IInv'
  BY <1>4, CompiledKeeps
<1>5. ASSUME NEW g \in Gen, Eager(g) PROVE IInv'
  BY <1>5, EagerKeeps
<1> QED BY <1>1, <1>2, <1>3, <1>4, <1>5 DEF Next

\* Whatever the host does, the copies, the key and what is fed keep their types.
LEMMA TypeKept == TypeOK /\ [Next]_vars => TypeOK'
<1> SUFFICES ASSUME TypeOK, [Next]_vars PROVE TypeOK'
  OBVIOUS
<1> USE DEF TypeOK
<1>1. CASE UNCHANGED vars
  BY <1>1 DEF vars, hostvars
<1>2. ASSUME NEW g \in Gen, NEW a \in Address, NEW isLong \in BOOLEAN, NEW warm \in BOOLEAN,
             Start(g, a, isLong, warm)
      PROVE  TypeOK'
  BY <1>2 DEF Start
<1>3. ASSUME NEW g \in Gen, End(g) PROVE TypeOK'
  BY <1>3 DEF End
<1>4. ASSUME NEW g \in Gen PROVE GenerationKey(g) \in Address \cup {None}
                                /\ AfterReset(g) \in [Slots -> [Index -> Gen \cup {None}]]
  BY DEF GenerationKey, AfterReset, Empty
<1>5. ASSUME NEW g \in Gen, NEW s \in Slots, NEW read \in SUBSET Index, Compiled(g, s, read)
      PROVE  TypeOK'
  <2>1. cache' \in [Slots -> [Index -> Gen \cup {None}]]
    BY <1>4, <1>5 DEF Compiled, Gathered
  <2>2. fed' \in [Index -> Gen \cup {None}]
    BY <1>4, <1>5 DEF Compiled, Fed
  <2>3. past' \in [Gen -> BOOLEAN]
    BY <1>5 DEF Compiled
  <2>4. key' \in Address \cup {None} /\ who' \in Gen
    BY <1>4, <1>5 DEF Compiled
  <2>5. live' \subseteq Gen /\ addr' \in [Gen -> Address] /\ long' \in [Gen -> BOOLEAN]
    BY <1>5 DEF Compiled
  <2> QED BY <2>1, <2>2, <2>3, <2>4, <2>5
<1>6. ASSUME NEW g \in Gen, Eager(g) PROVE TypeOK'
  <2>1. past' \in [Gen -> BOOLEAN] /\ fed' \in [Index -> Gen \cup {None}]
    BY <1>6 DEF Eager
  <2> QED BY <1>4, <1>6, <2>1 DEF Eager
<1> QED BY <1>1, <1>2, <1>3, <1>5, <1>6 DEF Next

\* CrossCache is type correct for any generations, buffers and cached inputs, and
\* whatever buffers the host hands out (compiled.rs:632-689).
THEOREM TypeCorrect == Spec => []TypeOK
<1>1. Init => TypeOK
  BY DEF Init, TypeOK, Empty
<1> QED BY <1>1, TypeKept, PTL DEF Spec

\* If a generation that starts with a non-empty past never gets the buffer of
\* the generation served last, every call is fed its own cross K/V: neither
\* interleaved generations nor reused buffers defeat the key (runtime.rs:195-202).
THEOREM CrossStaysFresh == ASSUME WarmReuse = FALSE PROVE Spec => []CrossFresh
<1>1. IInv /\ [Next]_vars => IInv'
  BY StepIInv
<1>2. IInv => CrossFresh
  BY DEF IInv
<1> QED BY InitIInv, <1>1, <1>2, PTL DEF Spec

\* Under the same assumption the copies a slot holds are those of the
\* generation the key stands for, in every reachable state.
THEOREM CopiesBelongToKey == ASSUME WarmReuse = FALSE PROVE Spec => []CacheBelongsToKey
<1>1. IInv /\ [Next]_vars => IInv'
  BY StepIInv
<1>2. IInv => CacheBelongsToKey
  BY DEF IInv
<1> QED BY InitIInv, <1>1, <1>2, PTL DEF Spec

=============================================================================
