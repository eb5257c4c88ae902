------------------------------ MODULE SharedKV ------------------------------
(***************************************************************************)
(* The K/V cache of a GroupQueryAttention decoder across Compute calls.    *)
(*                                                                         *)
(* The host either lets the cache grow (present is a new tensor, one row   *)
(* longer for every token), or binds one buffer of Cap rows as past and as *)
(* present and says how many rows are valid, or runs the layer with a      *)
(* sliding window over such a buffer.  The provider answers a call eagerly *)
(* or from the decode or the prefill slot; each derives the number of      *)
(* valid rows from other inputs, and a slot decides only once which of the *)
(* contracts holds.                                                        *)
(***************************************************************************)
EXTENDS Integers, Sequences, FiniteSets

CONSTANTS
  Tok,         \* tokens
  Cap,         \* rows of the host's fixed buffer
  Window,      \* local_window_size of a sliding layer
  MaxNew,      \* bound: most tokens of one call
  MaxLen,      \* bound: longest growing or sliding sequence
  PaddedMask,  \* may the mask of a buffer be as wide as the buffer, whatever is valid?
  Ownership    \* do initializers own their bytes (as build_plan makes them), or borrow them?

ASSUME SharedKVAssumption ==
  /\ Cap \in Nat \ {0}
  /\ Window \in 1..Cap
  /\ MaxNew \in Nat \ {0}
  /\ MaxLen \in Nat
  /\ PaddedMask \in BOOLEAN
  /\ Ownership \subseteq BOOLEAN

Modes == {"Growing", "Shared", "Sliding"}

Slots == {"Decode", "Prefill"}

\* What the exported graph feeds the layer: total_sequence_length as an input or
\* computed from the mask, attention_mask as an input, rotation inside the layer;
\* and who owns the bytes of the cos and sin initializers.
Graphs ==
  {g \in [total : BOOLEAN, mask : BOOLEAN, rotary : BOOLEAN, owned : Ownership] :
     g.total \/ g.mask}

\* No sequence is longer, whatever the host's contract.
Bound == MaxLen + Cap

\* A row no token was written to.
Blank == [tok |-> "blank", pos |-> -1]

NoDelta == -1

VARIABLES
  mode,      \* the host's contract
  graph,     \* the exported graph
  seq,       \* the tokens of the host's sequence
  past,      \* the rows of the past tensor
  shared,    \* shared_kv of each slot: "unknown" before it is built, "off" if disabled
  warm,      \* the key the plan caches the cos and sin arrays under: "none", "name", "name+address"
  narrowed,  \* the prefill traces MLX keeps: their shape key and the offset in them
  answer     \* what each new token of the last call attended to

vars == <<mode, graph, seq, past, shared, warm, narrowed, answer>>

Init ==
  /\ mode \in Modes
  /\ graph \in Graphs
  /\ seq = <<>>
  /\ past = IF mode = "Growing" THEN <<>> ELSE [i \in 1..Cap |-> Blank]
  /\ shared = [s \in Slots |-> "unknown"]
  /\ warm = "none"
  /\ narrowed = {}
  /\ answer = <<>>

-----------------------------------------------------------------------------
(* What a call can read.  s is the number of its new tokens. *)

MaskWidth(s) ==
  IF PaddedMask /\ mode = "Shared" /\ graph.total THEN Cap ELSE Len(seq) + s

\* total_sequence_length, an input or the width of the mask.
Total(s) == IF graph.total THEN Len(seq) + s ELSE MaskWidth(s)

Fits(s) ==
  IF mode = "Shared" THEN Len(seq) + s <= Cap ELSE Len(seq) + s <= MaxLen

-----------------------------------------------------------------------------
(* The layer.  A kernel returns the present rows, what every new token sees, *)
(* and where a delta copy-out starts.                                        *)

\* The new K/V rows, rotated for the positions from p on; a graph that rotates
\* before the layer knows the positions by itself.
NewRows(new, p) ==
  [k \in 1..Len(new) |->
     [tok |-> new[k], pos |-> (IF graph.rotary THEN p ELSE Len(seq)) + k - 1]]

\* slice_update (a static offset) and slice_update_dynamic (an offset fed as data).
Written(buf, p, rows) ==
  [i \in 1..Len(buf) |-> IF i - p \in 1..Len(rows) THEN rows[i - p] ELSE buf[i]]

\* The first n rows, or all there are.
Upto(rows, n) == SubSeq(rows, 1, IF n < Len(rows) THEN n ELSE Len(rows))

\* Query k of a causal attention over `keys` whose queries are the last s of them.
Causal(keys, s) == [k \in 1..s |-> SubSeq(keys, 1, Len(keys) - s + k)]

\* Concatenation of past and new rows, attended whole.
Grow(new, p) ==
  LET present == past \o NewRows(new, p)
  IN [present |-> present, seen |-> Causal(present, Len(new)), delta |-> NoDelta]

\* Rows written at offset w, rotated and copied out from p; the prefix up to the
\* last of them attended, by a slice of the keys or by a mask over all of them.
Place(new, w, p) ==
  LET present == Written(past, w, NewRows(new, p))
  IN [present |-> present,
      seen |-> [k \in 1..Len(new) |-> Upto(present, w + k)],
      delta |-> p]

\* The eager branch reads total_sequence_length on every call.
Eager(new) ==
  LET vp == Total(Len(new)) - Len(new)
  IN IF vp < 0 \/ vp >= Len(past) THEN Grow(new, Len(past)) ELSE Place(new, vp, vp)

\* Where the valid rows of a sliding buffer end after `length` tokens: once the
\* buffer is full, room is reclaimed in steps of the gap.
CacheEnd(length) ==
  LET gap == Cap - Window + 1
      over == length - Cap
  IN IF length <= Cap THEN length ELSE length - gap * ((over + gap - 1) \div gap)

\* The sliding branch of one batch entry.  A longer entry of the batch may force
\* staging on this one.
Sliding(new, forced) ==
  LET s == Len(new)
      p == Len(seq)
      before == CacheEnd(p)
      after == CacheEnd(p + s)
      kept == after - s
      staging == forced \/ kept < (IF p < Window - 1 THEN p ELSE Window - 1)
      offset == before - kept
      start == IF staging THEN 0 ELSE offset
      work == SubSeq(past, start + 1, before) \o NewRows(new, p)
      rows == SubSeq(work, (IF staging THEN offset ELSE 0) + 1, Len(work))
      seed == before - start
      first(k) == IF seed + k > Window THEN seed + k - Window + 1 ELSE 1
  IN [present |-> [i \in 1..Cap |-> IF i <= after THEN rows[i] ELSE Blank],
      seen |-> [k \in 1..s |-> SubSeq(work, first(k), seed + k)],
      delta |-> NoDelta]

-----------------------------------------------------------------------------
(* The compiled slots. *)

\* Mutant: a full growing cache is taken for a buffer with room.
DetectedUnlessShort(s) == IF Len(past) >= Total(s) - s THEN "shared" ELSE "growing"

\* detect_shared_kv, on the first call the slot builds for.
Detected(s) == IF Len(past) > Total(s) - s THEN "shared" ELSE "growing"

FlagFor(slot, s) == IF shared[slot] = "unknown" THEN Detected(s) ELSE shared[slot]

\* Mutant: the past length is read after the new tokens were added to it.
StartAfterNew(flag, s) == IF flag = "shared" THEN Total(s) - s ELSE Len(past) + s

\* The prologue: where this call's rows start.
Start(flag, s) == IF flag = "shared" THEN Total(s) - s ELSE Len(past)

\* A shape-keyed trace of a shared buffer is narrowed to the prefix the mask's
\* width shows, if the layer rotates and the mask is there.
Narrows(slot, flag, s) ==
  /\ slot = "Prefill"
  /\ graph.rotary
  /\ flag = "shared"
  /\ graph.mask
  /\ MaskWidth(s) >= s

\* Mutant: the mask is no input of the closure, so its width is not in the key.
ShapeKeyWithoutMask(s) == <<s, Cap, Len(past)>>

\* The shapes the prefill closure is keyed by.
ShapeKey(s) == <<s, MaskWidth(s), Len(past)>>

\* The narrowed traces after a call with s tokens: a kept one is replayed.
Traced(s) ==
  IF \E t \in narrowed : t.shape = ShapeKey(s) THEN narrowed
  ELSE narrowed \cup {[shape |-> ShapeKey(s), offset |-> MaskWidth(s) - s]}

OffsetOf(traces, s) == (CHOOSE t \in traces : t.shape = ShapeKey(s)).offset

\* What the slot's closure computes.
Compiled(slot, new) ==
  LET s == Len(new)
      flag == FlagFor(slot, s)
      p == Start(flag, s)
  IN IF flag = "growing" THEN Grow(new, p)
     ELSE IF Narrows(slot, flag, s) THEN Place(new, OffsetOf(Traced(s), s), p)
     ELSE Place(new, p, p)

-----------------------------------------------------------------------------
(* Copy-out. *)

\* Mutant: only the new rows are copied although present is another buffer.
CopiedOutUngated(r, s, aliased) ==
  IF r.delta = NoDelta THEN r.present
  ELSE [i \in 1..Len(r.present) |->
          IF i - r.delta \in 1..s THEN r.present[i] ELSE IF aliased THEN past[i] ELSE Blank]

\* The tensor the host finds as present: with a delta and a present that is past's
\* own buffer only the new rows are copied, else all of them.
CopiedOut(r, s, aliased) ==
  LET rows == Len(r.present)
      from == IF r.delta < 0 THEN 0 ELSE r.delta
      n == IF s < rows - from THEN s ELSE rows - from
  IN IF r.delta # NoDelta /\ aliased
     THEN [i \in 1..rows |-> IF i - from \in 1..n THEN r.present[i] ELSE past[i]]
     ELSE r.present

\* The call succeeds and the host goes on with present as past.
Answered(new, r, aliased) ==
  /\ seq' = seq \o new
  /\ past' = CopiedOut(r, Len(new), aliased)
  /\ answer' = r.seen

\* One output could not be written: this tensor may or may not have been.  The host
\* tries again, unless the window's buffer has moved on: then it starts afresh.
Failed(new, r, aliased) ==
  /\ past' \in {past, IF aliased THEN CopiedOut(r, Len(new), aliased) ELSE past}
  /\ seq' = IF mode = "Sliding" THEN <<>> ELSE seq
  /\ answer' = <<>>

Ended(new, r) ==
  \E aliased \in {a \in BOOLEAN : a => mode # "Growing"} :
    Answered(new, r, aliased) \/ Failed(new, r, aliased)

-----------------------------------------------------------------------------
(* Compute calls. *)

SlotOf(s) == IF s = 1 THEN "Decode" ELSE "Prefill"

\* resolve keeps an initializer by its name, qualified by its address if it owns
\* its bytes; a rotary layer resolves cos and sin on every eager translation.
KeptUnder == IF graph.owned THEN "name+address" ELSE "name"

\* build_closure looks them up by their name.
Resident == graph.rotary => warm = "name"

\* Neither slot took the call: not ready yet, disabled, or disabled by this call.
EagerCall(new) ==
  /\ Fits(Len(new))
  /\ shared' \in {shared, [shared EXCEPT ![SlotOf(Len(new))] = "off"]}
  /\ warm' = IF graph.rotary THEN KeptUnder ELSE warm
  /\ \E forced \in BOOLEAN :
       Ended(new, IF mode = "Sliding" THEN Sliding(new, forced) ELSE Eager(new))
  /\ UNCHANGED <<mode, graph, narrowed>>

\* The slot took the call.  A sliding layer reads its lengths on the host, which
\* no trace can do.
CompiledCall(new) ==
  LET s == Len(new)
      slot == SlotOf(s)
      flag == FlagFor(slot, s)
  IN /\ Fits(s)
     /\ mode # "Sliding"
     /\ shared[slot] # "off"
     /\ Resident
     /\ shared' = [shared EXCEPT ![slot] = flag]
     /\ narrowed' = IF Narrows(slot, flag, s) THEN Traced(s) ELSE narrowed
     /\ Ended(new, Compiled(slot, new))
     /\ UNCHANGED <<mode, graph, warm>>

\* The host keeps the first n tokens, none for another sequence: it cuts a growing
\* cache and leaves what a buffer holds beyond them.
Rewound(n) ==
  /\ n < Len(seq)
  /\ mode = "Sliding" => n = 0
  /\ seq' = SubSeq(seq, 1, n)
  /\ past' = IF mode = "Growing" THEN SubSeq(past, 1, n) ELSE past
  /\ answer' = <<>>
  /\ UNCHANGED <<mode, graph, shared, warm, narrowed>>

Next ==
  \/ \E s \in 1..MaxNew : \E new \in [1..s -> Tok] : EagerCall(new) \/ CompiledCall(new)
  \/ \E n \in 0..Bound : Rewound(n)

Spec == Init /\ [][Next]_vars

-----------------------------------------------------------------------------
(* Properties. *)

Span == IF mode = "Sliding" THEN Window ELSE Bound

Contract == INSTANCE AttentionContract WITH span <- Span, MaxLen <- Bound

Longest == IF mode = "Shared" THEN Cap ELSE MaxLen

Row == [tok : Tok, pos : 0..(Longest - 1)]

TypeOK ==
  /\ mode \in Modes
  /\ graph \in Graphs
  /\ seq \in Seq(Tok)
  /\ past \in Seq(Row \cup {Blank})
  /\ shared \in [Slots -> {"unknown", "growing", "shared", "off"}]
  /\ warm \in {"none", "name", "name+address"}
  /\ narrowed \subseteq [shape : (1..MaxNew) \X (1..Cap) \X {Cap}, offset : 0..Cap]
  /\ answer \in Seq(Seq(Row \cup {Blank}))

\* Whatever path served the calls, every token attended to the true sequence: the
\* layer keeps the contract of AttentionContract (attention.rs:581-977,
\* compiled.rs:690-849).
ContractSpec == Contract!CSpec

\* Between calls the cache holds the rows of the host's sequence where the next
\* call looks for them: all of them, or those still in the window.  Failed calls,
\* rewinds, delta copies and stale rows do not disturb it (engine.rs:2142-2238).
RowsKept ==
  LET end == IF mode = "Sliding" THEN CacheEnd(Len(seq)) ELSE Len(seq)
      kept == IF mode = "Sliding" /\ Len(seq) >= Window THEN Window - 1 ELSE Len(seq)
  IN \A i \in 1..kept : past[end - kept + i] = Contract!Rows(seq)[Len(seq) - kept + i]

\* The contract a slot settled on at its first call is the host's, though the call
\* may have been the first of a sequence, one after a rewind, or one that filled
\* the buffer (compiled.rs:1027-1037).
DetectionRight ==
  \A slot \in Slots :
    /\ shared[slot] = "shared" => mode = "Shared"
    /\ shared[slot] = "growing" => mode = "Growing"

=============================================================================
