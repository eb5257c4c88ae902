----------------------------- MODULE CrossCache -----------------------------
(***************************************************************************)
(* Reuse of the cross-attention K/V inputs between Compute calls: a        *)
(* separate-QKV decoder copies them into MLX once per generation           *)
(* (try_compiled, compiled.rs) and compute_impl (runtime.rs) throws the    *)
(* copies away when it believes a new generation has begun.                *)
(*                                                                         *)
(* A generation is one decoded sequence.  Its cross K/V live in ORT        *)
(* buffers that its host program keeps for its whole life and may hand to  *)
(* a later generation once it has ended.  Contents are represented by the  *)
(* generation they belong to.                                              *)
(***************************************************************************)
EXTENDS Naturals

CONSTANTS
  Gen,        \* generations
  Address,    \* addresses a first cross-K buffer can have
  Index,      \* kernel-context indices of the cross K/V (stable_cross_ctx_indices)
  WarmReuse,  \* may a generation start with a non-empty self-attention past in
              \* the very buffer of the generation served last?
  None        \* no key, nothing cached, nothing fed

ASSUME WarmReuseAssumption == WarmReuse \in BOOLEAN
ASSUME NoneAssumption == None \notin Gen \cup Address

\* The slots that keep copies; the general slot never holds such a decoder.
Slots == {"Decode", "Prefill"}

VARIABLES
  live,   \* the generations being decoded
  addr,   \* address of each generation's first cross-K tensor
  long,   \* does that tensor hold more than one position?
  past,   \* is the generation's self-attention past non-empty?
  key,    \* stable_generation_key
  cache,  \* stable_cross_inputs of each slot
  who,    \* the generation of the last call
  fed     \* what the last call gave the closure for each index

hostvars == <<live, addr, long, past>>
vars == <<hostvars, key, cache, who, fed>>

Empty == [s \in Slots |-> [i \in Index |-> None]]

Init ==
  /\ live = {}
  /\ addr \in [Gen -> Address]
  /\ long = [g \in Gen |-> TRUE]
  /\ past = [g \in Gen |-> FALSE]
  /\ key = None
  /\ cache = Empty
  /\ who \in Gen
  /\ fed = [i \in Index |-> None]

-----------------------------------------------------------------------------
(* The host program. *)

\* A generation starts in buffers no live generation uses.  Its first call to
\* this subgraph has an empty self-attention past, unless another model (an
\* encoder-decoder's first step, a prefix cache) has filled it.
Start(g, a, isLong, warm) ==
  /\ g \notin live
  /\ \A h \in live : addr[h] # a
  /\ warm => WarmReuse \/ a # key
  /\ live' = live \cup {g}
  /\ addr' = [addr EXCEPT ![g] = a]
  /\ long' = [long EXCEPT ![g] = isLong]
  /\ past' = [past EXCEPT ![g] = warm]
  /\ UNCHANGED <<key, cache, who, fed>>

End(g) ==
  /\ g \in live
  /\ live' = live \ {g}
  /\ UNCHANGED <<addr, long, past, key, cache, who, fed>>

-----------------------------------------------------------------------------
(* One Compute call. *)

\* Mutant: the key is the sequence itself instead of where its buffer is.
GenerationKeyOfContents(g) == IF long[g] THEN g ELSE None

\* detect_attention_generation_key: the address of the first long cross K.
GenerationKey(g) == IF long[g] THEN addr[g] ELSE None

\* Mutant: only an empty self-attention past marks a new generation.
NewGenerationByPast(g) == ~past[g]

\* self_past_len == Some(0), or the key has changed.
NewGeneration(g) == ~past[g] \/ GenerationKey(g) # key

\* Mutant: the copies of the prefill slot are forgotten.
AfterResetOfDecode(g) ==
  IF ~past[g] \/ GenerationKey(g) # key THEN [cache EXCEPT !["Decode"] = [i \in Index |-> None]]
  ELSE cache

\* reset_stable_cross_caches clears both slots.
AfterReset(g) == IF NewGeneration(g) THEN Empty ELSE cache

\* What is fed for index i: the copy if the slot has one, else the live buffer.
Fed(g, s, i) == LET c == AfterReset(g)[s][i] IN IF c # None THEN c ELSE g

\* A long input that was not cached is, whatever happens to the call later.
Gathered(g, s, read) ==
  [AfterReset(g) EXCEPT ![s] =
     [i \in Index |-> IF i \in read /\ @[i] = None /\ long[g] THEN g ELSE @[i]]]

\* The call gathers its inputs for a compiled slot; reading one may fail and end
\* the call, after `read` was gathered.  Only a call that succeeds lengthens the
\* self-attention past.
Compiled(g, s, read) ==
  /\ g \in live
  /\ key' = GenerationKey(g)
  /\ cache' = Gathered(g, s, read)
  /\ who' = g
  /\ fed' = [i \in Index |-> IF i \in read THEN Fed(g, s, i) ELSE None]
  /\ \E ok \in BOOLEAN : past' = [past EXCEPT ![g] = @ \/ (ok /\ read = Index)]
  /\ UNCHANGED <<live, addr, long>>

\* The call runs eagerly (no slot is ready): it reads the live buffers.
Eager(g) ==
  /\ g \in live
  /\ key' = GenerationKey(g)
  /\ cache' = AfterReset(g)
  /\ who' = g
  /\ fed' = [i \in Index |-> g]
  /\ past' = [past EXCEPT ![g] = TRUE]
  /\ UNCHANGED <<live, addr, long>>

Next ==
  \E g \in Gen :
    \/ \E a \in Address, isLong, warm \in BOOLEAN : Start(g, a, isLong, warm)
    \/ End(g)
    \/ \E s \in Slots, read \in SUBSET Index : Compiled(g, s, read)
    \/ Eager(g)

Spec == Init /\ [][Next]_vars

-----------------------------------------------------------------------------
(* Properties. *)

TypeOK ==
  /\ live \subseteq Gen
  /\ addr \in [Gen -> Address]
  /\ long \in [Gen -> BOOLEAN]
  /\ past \in [Gen -> BOOLEAN]
  /\ key \in Address \cup {None}
  /\ cache \in [Slots -> [Index -> Gen \cup {None}]]
  /\ who \in Gen
  /\ fed \in [Index -> Gen \cup {None}]

\* No call ever attends over the cross K/V of another generation, however the
\* host interleaves generations and reuses their buffers (engine.rs:388-391,
\* compiled.rs:389-391).  With WarmReuse this is what the comment "cleared when a
\* new self-attention sequence starts" promises, and it does not hold.
CrossFresh == \A i \in Index : fed[i] \in {None, who}

\* The copies a slot keeps are those of the one generation the key stands for,
\* and a copy is kept only under a key.
CacheBelongsToKey ==
  /\ key = None => cache = Empty
  /\ \A g \in live : past[g] /\ long[g] /\ addr[g] = key =>
       \A s \in Slots, i \in Index : cache[s][i] \in {None, g}

\* Live generations never share their cross-K buffer.
BuffersDistinct == \A g, h \in live : addr[g] = addr[h] => g = h

=============================================================================
