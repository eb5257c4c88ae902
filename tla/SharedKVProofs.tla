--------------------------- MODULE SharedKVProofs ---------------------------
(* Proofs about SharedKV: for any tokens, buffer, window and calls, the cache *)
(* keeps its rows and the layer keeps the contract of AttentionContract.      *)
EXTENDS SharedKV, TLAPS

Entry == Row \cup {Blank}

\* How long the sequence and the past tensor are.
LenInv ==
  /\ Len(seq) <= Longest
  /\ Len(past) = IF mode = "Growing" THEN Len(seq) ELSE Cap

\* The offset in a kept trace is the one its own shape key shows.
NarrowedInv == \A t \in narrowed : t.offset = t.shape[2] - t.shape[1]

\* What is inductive whatever mask the host feeds.
ShapeInv == TypeOK /\ LenInv /\ NarrowedInv /\ DetectionRight

-----------------------------------------------------------------------------
(* Sequences given element by element. *)

LEMMA SeqOf ==
  ASSUME NEW S, NEW n \in Nat, NEW f \in [1..n -> S]
  PROVE  f \in Seq(S) /\ Len(f) = n
OBVIOUS

LEMMA CallLen ==
  ASSUME NEW s \in 1..MaxNew, NEW new \in [1..s -> Tok]
  PROVE  new \in Seq(Tok) /\ Len(new) = s /\ s \in Nat \ {0}
BY SharedKVAssumption, SeqOf

LEMMA SubSeqOf ==
  ASSUME NEW S, NEW q \in Seq(S), NEW m \in Nat \ {0}, NEW n \in 0..Len(q)
  PROVE  /\ SubSeq(q, m, n) \in Seq(S)
         /\ Len(SubSeq(q, m, n)) = IF m <= n THEN n - m + 1 ELSE 0
         /\ \A i \in 1..(n - m + 1) : SubSeq(q, m, n)[i] = q[m + i - 1]
OBVIOUS

LEMMA ConcatOf ==
  ASSUME NEW S, NEW q \in Seq(S), NEW r \in Seq(S)
  PROVE  /\ q \o r \in Seq(S)
         /\ Len(q \o r) = Len(q) + Len(r)
         /\ \A i \in 1..Len(q) : (q \o r)[i] = q[i]
         /\ \A i \in 1..Len(r) : (q \o r)[Len(q) + i] = r[i]
OBVIOUS

LEMMA SeqSame ==
  ASSUME NEW S, NEW T, NEW q \in Seq(S), NEW r \in Seq(T), Len(q) = Len(r),
         \A i \in 1..Len(q) : q[i] = r[i]
  PROVE  q = r
OBVIOUS

-----------------------------------------------------------------------------
(* What a call computes, reduced to three kernels. *)

LEMMA TotalIs ==
  ASSUME TypeOK, NEW s \in Nat
  PROVE  Len(seq) \in Nat /\ Total(s) = Len(seq) + s /\ Total(s) - s = Len(seq)
<1>1. Len(seq) \in Nat
  BY DEF TypeOK
<1>2. Total(s) = Len(seq) + s
  BY DEF Total, MaskWidth, TypeOK, Graphs
<1> QED BY <1>1, <1>2

\* Both branches of the eager kernel follow the host's contract.
LEMMA EagerIs ==
  ASSUME TypeOK, LenInv, mode # "Sliding", NEW s \in 1..MaxNew, NEW new \in [1..s -> Tok],
         Fits(s)
  PROVE  Eager(new) = IF mode = "Growing" THEN Grow(new, Len(seq))
                      ELSE Place(new, Len(seq), Len(seq))
<1>1. Len(new) = s /\ s \in Nat \ {0} /\ Total(s) - s = Len(seq)
  BY CallLen, TotalIs
<1> QED BY <1>1, SharedKVAssumption DEF Eager, TypeOK, LenInv, Modes, Fits

LEMMA FlagIs ==
  ASSUME ShapeInv, mode # "Sliding", NEW s \in 1..MaxNew, Fits(s),
         NEW slot \in Slots, shared[slot] # "off"
  PROVE  FlagFor(slot, s) = IF mode = "Growing" THEN "growing" ELSE "shared"
<1>1. s \in Nat \ {0} /\ Total(s) - s = Len(seq) /\ Len(seq) \in Nat
  BY TotalIs, SharedKVAssumption DEF ShapeInv
<1>2. Detected(s) = IF mode = "Growing" THEN "growing" ELSE "shared"
  BY <1>1, SharedKVAssumption DEF Detected, ShapeInv, TypeOK, LenInv, Modes, Fits
<1>3. shared[slot] \in {"unknown", "growing", "shared"}
  BY DEF ShapeInv, TypeOK
<1> QED BY <1>2, <1>3 DEF FlagFor, ShapeInv, TypeOK, DetectionRight, Modes

\* The mask is at least as wide as the call and at most as wide as the buffer.
LEMMA WidthIs ==
  ASSUME TypeOK, LenInv, mode = "Shared", NEW s \in 1..MaxNew, Fits(s)
  PROVE  /\ MaskWidth(s) \in s..Cap /\ MaskWidth(s) - s \in Nat
         /\ s \in Nat \ {0} /\ Cap \in Nat
         /\ PaddedMask = FALSE => MaskWidth(s) - s = Len(seq)
<1>1. Len(seq) \in Nat /\ Len(seq) + s <= Cap /\ s \in Nat
  BY SharedKVAssumption DEF TypeOK, Fits
<1> QED BY <1>1, SharedKVAssumption DEF MaskWidth

\* The traces kept after a narrowed call: one of them is for this call's shapes.
LEMMA TracedIs ==
  ASSUME ShapeInv, mode = "Shared", NEW s \in 1..MaxNew, Fits(s)
  PROVE  /\ Traced(s) \subseteq [shape : (1..MaxNew) \X (1..Cap) \X {Cap}, offset : 0..Cap]
         /\ \A t \in Traced(s) : t.offset = t.shape[2] - t.shape[1]
         /\ OffsetOf(Traced(s), s) = MaskWidth(s) - s
<1> DEFINE made == [shape |-> ShapeKey(s), offset |-> MaskWidth(s) - s]
<1> USE DEF ShapeInv
<1>1. s \in Nat \ {0} /\ MaskWidth(s) \in s..Cap /\ Len(past) = Cap /\ Cap \in Nat
  <2>1. Len(past) = Cap
    BY DEF LenInv
  <2> QED BY <2>1, WidthIs
<1>2. ShapeKey(s) = <<s, MaskWidth(s), Cap>>
  BY <1>1 DEF ShapeKey
<1>3. made \in [shape : (1..MaxNew) \X (1..Cap) \X {Cap}, offset : 0..Cap]
  BY <1>1, <1>2
<1>4. made.offset = made.shape[2] - made.shape[1]
  BY <1>2
<1>5. \A t \in Traced(s) : t \in narrowed \/ t = made
  <2>1. Traced(s) \subseteq narrowed \cup {made}
    BY DEF Traced
  <2> QED BY <2>1
<1>6. \E t \in Traced(s) : t.shape = ShapeKey(s)
  <2>1. CASE \E t \in narrowed : t.shape = ShapeKey(s)
    BY <2>1 DEF Traced
  <2>2. CASE ~ \E t \in narrowed : t.shape = ShapeKey(s)
    <3>1. made \in Traced(s) /\ made.shape = ShapeKey(s)
      BY <2>2 DEF Traced
    <3> QED BY <3>1
  <2> QED BY <2>1, <2>2
<1>7. \A t \in Traced(s) : t.offset = t.shape[2] - t.shape[1]
  BY <1>4, <1>5 DEF NarrowedInv
<1>8. OffsetOf(Traced(s), s) = MaskWidth(s) - s
  BY <1>2, <1>6, <1>7 DEF OffsetOf
<1>9. Traced(s) \subseteq [shape : (1..MaxNew) \X (1..Cap) \X {Cap}, offset : 0..Cap]
  BY <1>3, <1>5 DEF TypeOK
<1> QED BY <1>7, <1>8, <1>9

\* A slot's closure is one of the same kernels; only the rows it writes may be
\* elsewhere, if the mask is padded.
LEMMA CompiledIs ==
  ASSUME ShapeInv, mode # "Sliding", NEW s \in 1..MaxNew, NEW new \in [1..s -> Tok],
         Fits(s), NEW slot \in Slots, shared[slot] # "off"
  PROVE  /\ mode = "Growing" => Compiled(slot, new) = Grow(new, Len(seq))
         /\ mode = "Shared" => \E w \in Nat : /\ Compiled(slot, new) = Place(new, w, Len(seq))
                                              /\ PaddedMask = FALSE => w = Len(seq)
<1>1. Len(new) = s /\ s \in Nat
  BY CallLen
<1>2. Len(seq) \in Nat /\ Total(s) - s = Len(seq)
  BY <1>1, TotalIs DEF ShapeInv
<1>3. CASE mode = "Growing"
  <2>1. FlagFor(slot, s) = "growing"
    BY <1>3, FlagIs
  <2>2. Start("growing", s) = Len(seq)
    BY <1>3 DEF Start, ShapeInv, LenInv
  <2> QED BY <1>1, <1>3, <2>1, <2>2 DEF Compiled
<1>4. CASE mode = "Shared"
  <2>1. FlagFor(slot, s) = "shared" /\ Start("shared", s) = Len(seq)
    BY <1>2, <1>4, FlagIs DEF Start
  <2>2. CASE Narrows(slot, "shared", s)
    <3>1. Compiled(slot, new) = Place(new, OffsetOf(Traced(s), s), Len(seq))
      BY <1>1, <2>1, <2>2 DEF Compiled
    <3>2. OffsetOf(Traced(s), s) = MaskWidth(s) - s
      BY <1>4, TracedIs
    <3>3. MaskWidth(s) - s \in Nat /\ (PaddedMask = FALSE => MaskWidth(s) - s = Len(seq))
      BY <1>4, WidthIs DEF ShapeInv
    <3> QED BY <1>4, <3>1, <3>2, <3>3
  <2>3. CASE ~Narrows(slot, "shared", s)
    BY <1>1, <1>2, <1>4, <2>1, <2>3 DEF Compiled
  <2> QED BY <2>2, <2>3
<1> QED BY <1>3, <1>4 DEF ShapeInv, TypeOK, Modes

-----------------------------------------------------------------------------
(* Types of the kernels. *)

LEMMA NewRowsTyped ==
  ASSUME TypeOK, NEW s \in 1..MaxNew, NEW new \in [1..s -> Tok], Fits(s)
  PROVE  /\ NewRows(new, Len(seq)) \in Seq(Row)
         /\ Len(NewRows(new, Len(seq))) = s
         /\ \A k \in 1..s : NewRows(new, Len(seq))[k] = [tok |-> new[k], pos |-> Len(seq) + k - 1]
<1>1. Len(new) = s /\ s \in Nat /\ Len(seq) \in Nat /\ Len(seq) + s <= Longest /\ Longest \in Nat
  BY CallLen, SharedKVAssumption DEF TypeOK, Fits, Longest, Modes
<1>2. NewRows(new, Len(seq)) = [k \in 1..s |-> [tok |-> new[k], pos |-> Len(seq) + k - 1]]
  BY <1>1 DEF NewRows
<1>3. \A k \in 1..s : [tok |-> new[k], pos |-> Len(seq) + k - 1] \in Row
  BY <1>1 DEF Row
<1>4. NewRows(new, Len(seq)) \in [1..s -> Row]
  BY <1>2, <1>3
<1> QED BY <1>1, <1>2, <1>4, SeqOf

LEMMA WrittenTyped ==
  ASSUME NEW S, NEW buf \in Seq(S), NEW p \in Int, NEW rows \in Seq(S)
  PROVE  Written(buf, p, rows) \in Seq(S) /\ Len(Written(buf, p, rows)) = Len(buf)
<1>1. Written(buf, p, rows) \in [1..Len(buf) -> S]
  BY DEF Written
<1> QED BY <1>1, SeqOf

LEMMA UptoTyped ==
  ASSUME NEW S, NEW rows \in Seq(S), NEW n \in Nat
  PROVE  Upto(rows, n) \in Seq(S)
BY SubSeqOf DEF Upto

LEMMA GrowTyped ==
  ASSUME ShapeInv, mode = "Growing", NEW s \in 1..MaxNew, NEW new \in [1..s -> Tok], Fits(s)
  PROVE  /\ Grow(new, Len(seq)).present \in Seq(Entry)
         /\ Len(Grow(new, Len(seq)).present) = Len(seq) + s
         /\ Grow(new, Len(seq)).seen \in Seq(Seq(Entry))
         /\ Grow(new, Len(seq)).delta = NoDelta
<1> DEFINE present == past \o NewRows(new, Len(seq))
<1>1. Len(new) = s /\ s \in Nat /\ past \in Seq(Entry) /\ Len(past) = Len(seq) /\ Len(seq) \in Nat
  BY CallLen DEF ShapeInv, TypeOK, LenInv, Entry
<1>2. NewRows(new, Len(seq)) \in Seq(Entry) /\ Len(NewRows(new, Len(seq))) = s
  BY NewRowsTyped DEF ShapeInv, Entry
<1>3. present \in Seq(Entry) /\ Len(present) = Len(seq) + s
  BY <1>1, <1>2, ConcatOf
<1>4. Causal(present, s) \in [1..s -> Seq(Entry)]
  <2> SUFFICES ASSUME NEW k \in 1..s
               PROVE  SubSeq(present, 1, Len(present) - s + k) \in Seq(Entry)
    BY DEF Causal
  <2> HIDE DEF present
  <2>1. Len(present) - s + k \in 0..Len(present)
    BY <1>1, <1>3
  <2> QED BY <1>3, <2>1, SubSeqOf
<1>5. Causal(present, s) \in Seq(Seq(Entry))
  BY <1>1, <1>4, SeqOf
<1> QED BY <1>1, <1>3, <1>5 DEF Grow

LEMMA PlaceTyped ==
  ASSUME ShapeInv, mode = "Shared", NEW s \in 1..MaxNew, NEW new \in [1..s -> Tok], Fits(s),
         NEW w \in Nat
  PROVE  /\ Place(new, w, Len(seq)).present \in Seq(Entry)
         /\ Len(Place(new, w, Len(seq)).present) = Cap
         /\ Place(new, w, Len(seq)).seen \in Seq(Seq(Entry))
         /\ Place(new, w, Len(seq)).delta = Len(seq)
<1> DEFINE present == Written(past, w, NewRows(new, Len(seq)))
<1>1. Len(new) = s /\ s \in Nat /\ past \in Seq(Entry) /\ Len(past) = Cap
  BY CallLen DEF ShapeInv, TypeOK, LenInv, Entry
<1>2. NewRows(new, Len(seq)) \in Seq(Entry)
  BY NewRowsTyped DEF ShapeInv, Entry
<1>3. present \in Seq(Entry) /\ Len(present) = Cap
  BY <1>1, <1>2, WrittenTyped
<1>4. [k \in 1..s |-> Upto(present, w + k)] \in [1..s -> Seq(Entry)]
  <2> SUFFICES ASSUME NEW k \in 1..s PROVE Upto(present, w + k) \in Seq(Entry)
    OBVIOUS
  <2> HIDE DEF present
  <2> QED BY <1>1, <1>3, UptoTyped
<1>5. [k \in 1..s |-> Upto(present, w + k)] \in Seq(Seq(Entry))
  BY <1>1, <1>4, SeqOf
<1> QED BY <1>1, <1>3, <1>5 DEF Place

-----------------------------------------------------------------------------
(* The sliding buffer. *)

LEMMA DivIs ==
  ASSUME NEW n \in Nat, NEW d \in Nat \ {0}
  PROVE  n \div d \in Nat /\ d * (n \div d) <= n /\ n < d * (n \div d) + d
OBVIOUS

LEMMA DivGrows ==
  ASSUME NEW d \in Nat \ {0}, NEW q \in Nat, NEW r \in Nat, NEW m \in Nat, NEW n \in Nat,
         d * q <= m, m < d * q + d, d * r <= n, n < d * r + d, m <= n
  PROVE  d * q <= d * r
<1>1. CASE q <= r
  BY <1>1
<1>2. CASE r + 1 <= q
  <2>1. d * (r + 1) <= d * q
    BY <1>2
  <2>2. d * (r + 1) = d * r + d
    OBVIOUS
  <2> QED BY <2>1, <2>2
<1> QED BY <1>1, <1>2

Gap == Cap - Window + 1

\* Reclaiming leaves at least a window, and never moves the window backwards.
LEMMA EndIs ==
  ASSUME NEW n \in Nat
  PROVE  /\ CacheEnd(n) \in 0..Cap
         /\ n <= Cap => CacheEnd(n) = n
         /\ n > Cap => CacheEnd(n) >= Window
<1>1. Gap \in Nat \ {0} /\ Cap \in Nat /\ Window \in Nat
  BY SharedKVAssumption DEF Gap
<1>2. CASE n <= Cap
  BY <1>1, <1>2 DEF CacheEnd
<1>3. CASE n > Cap
  <2> DEFINE q == (n - Cap + Gap - 1) \div Gap
  <2>1. n - Cap + Gap - 1 \in Nat
    BY <1>1, <1>3
  <2>2. q \in Nat /\ Gap * q <= n - Cap + Gap - 1 /\ n - Cap + Gap - 1 < Gap * q + Gap
    BY <1>1, <2>1, DivIs
  <2>3. CacheEnd(n) = n - Gap * q
    BY <1>1, <1>3 DEF CacheEnd, Gap
  <2>4. Gap * q \in Nat
    BY <1>1, <2>2
  <2> HIDE DEF q
  <2>5. n - Gap * q >= Cap - Gap + 1 /\ n - Gap * q <= Cap
    BY <1>1, <1>3, <2>2, <2>4
  <2>6. Cap - Gap + 1 = Window
    BY <1>1 DEF Gap
  <2> QED BY <1>1, <1>3, <2>3, <2>4, <2>5, <2>6
<1> QED BY <1>1, <1>2, <1>3

LEMMA EndGrows ==
  ASSUME NEW m \in Nat, NEW n \in Nat, m <= n
  PROVE  m - CacheEnd(m) <= n - CacheEnd(n)
<1>1. Gap \in Nat \ {0} /\ Cap \in Nat
  BY SharedKVAssumption DEF Gap
<1>2. /\ CacheEnd(m) \in Nat /\ CacheEnd(n) \in Nat
      /\ m <= Cap => CacheEnd(m) = m
      /\ n <= Cap => CacheEnd(n) = n
      /\ n > Cap => CacheEnd(n) <= Cap
  BY <1>1, EndIs
<1>3. CASE m <= Cap
  BY <1>1, <1>2, <1>3
<1>4. CASE m > Cap
  <2> DEFINE q(k) == (k - Cap + Gap - 1) \div Gap
  <2>1. m - Cap + Gap - 1 \in Nat /\ n - Cap + Gap - 1 \in Nat /\ n > Cap
        /\ m - Cap + Gap - 1 <= n - Cap + Gap - 1
    BY <1>1, <1>4
  <2>2. CacheEnd(m) = m - Gap * q(m) /\ CacheEnd(n) = n - Gap * q(n)
    BY <1>1, <1>4, <2>1 DEF CacheEnd, Gap
  <2>3. /\ q(m) \in Nat /\ Gap * q(m) <= m - Cap + Gap - 1 /\ m - Cap + Gap - 1 < Gap * q(m) + Gap
        /\ q(n) \in Nat /\ Gap * q(n) <= n - Cap + Gap - 1 /\ n - Cap + Gap - 1 < Gap * q(n) + Gap
    BY <1>1, <2>1, DivIs
  <2>4. Gap * q(m) \in Nat /\ Gap * q(n) \in Nat
    BY <1>1, <2>3
  <2> HIDE DEF q
  <2>5. Gap * q(m) <= Gap * q(n)
    BY <1>1, <2>1, <2>3, DivGrows
  <2> QED BY <2>2, <2>4, <2>5
<1> QED BY <1>1, <1>3, <1>4

\* The rows a window needs before a new token: all there are, or the window less one.
Needed(n) == IF n >= Window THEN Window - 1 ELSE n

\* The rows a sliding call attends over: the last `seed` of the buffer and the new ones.
Work(new, seed) ==
  SubSeq(past, CacheEnd(Len(seq)) - seed + 1, CacheEnd(Len(seq))) \o NewRows(new, Len(seq))

\* The sliding kernel, staged or in place.
Slid(new, seed) ==
  LET s == Len(new)
      after == CacheEnd(Len(seq) + s)
      first(k) == IF seed + k > Window THEN seed + k - Window + 1 ELSE 1
  IN [present |-> [i \in 1..Cap |-> IF i <= after THEN Work(new, seed)[seed + s - after + i] ELSE Blank],
      seen |-> [k \in 1..s |-> SubSeq(Work(new, seed), first(k), seed + k)],
      delta |-> NoDelta]

\* Both ways of the sliding branch are Slid, with as many old rows as the window needs.
LEMMA SlidingIs ==
  ASSUME ShapeInv, mode = "Sliding", NEW s \in 1..MaxNew, NEW new \in [1..s -> Tok], Fits(s),
         NEW forced \in BOOLEAN
  PROVE  \E seed \in Nat : /\ Sliding(new, forced) = Slid(new, seed)
                           /\ seed <= CacheEnd(Len(seq))
                           /\ seed >= Needed(Len(seq))
                           /\ CacheEnd(Len(seq) + s) <= seed + s
<1> DEFINE p == Len(seq)
           before == CacheEnd(p)
           after == CacheEnd(p + s)
           kept == after - s
           staging == forced \/ kept < (IF p < Window - 1 THEN p ELSE Window - 1)
           offset == before - kept
           rows == NewRows(new, p)
<1>1. s \in Nat \ {0} /\ Len(new) = s /\ p \in Nat /\ Cap \in Nat /\ Window \in Nat \ {0}
  BY CallLen, SharedKVAssumption DEF ShapeInv, TypeOK
<1>2. before \in 0..Cap /\ after \in 0..Cap /\ (p <= Cap => before = p)
      /\ (p > Cap => before >= Window)
  BY <1>1, EndIs
<1>3. offset \in Nat
  BY <1>1, <1>2, EndGrows
<1>4. rows \in Seq(Entry) /\ Len(rows) = s /\ past \in Seq(Entry) /\ Len(past) = Cap
  BY <1>1, NewRowsTyped DEF ShapeInv, TypeOK, LenInv, Entry
<1>5. Needed(p) \in 0..before /\ Window <= Cap
  BY <1>1, <1>2, SharedKVAssumption DEF Needed
<1>6. (IF p < Window - 1 THEN p ELSE Window - 1) = Needed(p)
  BY <1>1 DEF Needed
<1>7. ASSUME NEW d \in 0..before
      PROVE  /\ SubSeq(past, d + 1, before) \o rows = Work(new, before - d)
             /\ Work(new, before - d) \in Seq(Entry)
             /\ Len(Work(new, before - d)) = before - d + s
  <2>1. before - (before - d) + 1 = d + 1
    BY <1>1, <1>2, <1>7
  <2>2. SubSeq(past, d + 1, before) \in Seq(Entry) /\ Len(SubSeq(past, d + 1, before)) = before - d
    <3> HIDE DEF before
    <3>1. d + 1 \in Nat \ {0} /\ before \in 0..Len(past)
      BY <1>1, <1>2, <1>4
    <3> QED BY <1>1, <1>2, <1>4, <3>1, SubSeqOf
  <2>3. SubSeq(past, d + 1, before) \o rows = Work(new, before - d)
    BY <2>1 DEF Work
  <2> DEFINE old == SubSeq(past, d + 1, before)
  <2>4. old \o rows \in Seq(Entry) /\ Len(old \o rows) = Len(old) + Len(rows)
    <3> HIDE DEF old, rows
    <3> QED BY <1>4, <2>2, ConcatOf DEF old
  <2> QED BY <1>4, <2>2, <2>3, <2>4
<1>8. CASE staging
  <2> DEFINE work == SubSeq(past, 0 + 1, before) \o rows
             moved == SubSeq(work, offset + 1, Len(work))
  <2>1. Sliding(new, forced) =
          [present |-> [i \in 1..Cap |-> IF i <= after THEN moved[i] ELSE Blank],
           seen |-> [k \in 1..s |->
                       SubSeq(work, IF before - 0 + k > Window THEN before - 0 + k - Window + 1 ELSE 1,
                              before - 0 + k)],
           delta |-> NoDelta]
    BY <1>1, <1>8 DEF Sliding
  <2>2. work = Work(new, before) /\ work \in Seq(Entry) /\ Len(work) = before + s
    <3>1. 0 \in 0..before /\ before - 0 = before
      BY <1>2
    <3> QED BY <1>2, <1>7, <3>1
  <2>3. \A i \in 1..Cap : i <= after => moved[i] = work[before + s - after + i]
    <3> HIDE DEF work, before, after
    <3>1. offset + 1 \in Nat \ {0} /\ offset = before + s - after /\ Len(work) \in 0..Len(work)
      BY <1>1, <1>2, <1>3, <2>2
    <3>2. \A i \in 1..(Len(work) - (offset + 1) + 1) : moved[i] = work[offset + 1 + i - 1]
      BY <2>2, <3>1, SubSeqOf
    <3>3. ASSUME NEW i \in 1..Cap, i <= after PROVE moved[i] = work[before + s - after + i]
      <4>1. i \in 1..(Len(work) - (offset + 1) + 1) /\ offset + 1 + i - 1 = before + s - after + i
        BY <1>1, <1>2, <2>2, <3>1, <3>3
      <4> QED BY <3>2, <4>1
    <3> QED BY <3>3
  <2>4. before - 0 = before
    BY <1>2
  <2> HIDE DEF work, moved
  <2>5. [i \in 1..Cap |-> IF i <= after THEN moved[i] ELSE Blank]
          = [i \in 1..Cap |-> IF i <= after THEN work[before + s - after + i] ELSE Blank]
    BY <2>3
  <2>6. Sliding(new, forced) = Slid(new, before)
    BY <1>1, <2>1, <2>2, <2>4, <2>5 DEF Slid
  <2>7. before \in Nat /\ before <= before /\ before >= Needed(p) /\ after <= before + s
    BY <1>1, <1>2, <1>3, <1>5
  <2> QED BY <2>6, <2>7
<1>9. CASE ~staging
  <2> DEFINE work == SubSeq(past, offset + 1, before) \o rows
             same == SubSeq(work, 0 + 1, Len(work))
  <2>1. kept >= Needed(p) /\ kept \in Nat /\ offset \in 0..before /\ before - offset = kept
    BY <1>1, <1>2, <1>3, <1>5, <1>6, <1>9
  <2>2. Sliding(new, forced) =
          [present |-> [i \in 1..Cap |-> IF i <= after THEN same[i] ELSE Blank],
           seen |-> [k \in 1..s |->
                       SubSeq(work, IF before - offset + k > Window THEN before - offset + k - Window + 1 ELSE 1,
                              before - offset + k)],
           delta |-> NoDelta]
    BY <1>1, <1>9 DEF Sliding
  <2>3. work = Work(new, kept) /\ work \in Seq(Entry) /\ Len(work) = kept + s
    BY <1>7, <2>1
  <2>4. \A i \in 1..Cap : i <= after => same[i] = work[kept + s - after + i]
    <3> HIDE DEF work
    <3>1. same = work
      BY <2>3
    <3>2. \A i \in 1..Cap : kept + s - after + i = i
      BY <1>1, <1>2
    <3> HIDE DEF same, kept, after
    <3> QED BY <3>1, <3>2
  <2> HIDE DEF work, same
  <2>5. [i \in 1..Cap |-> IF i <= after THEN same[i] ELSE Blank]
          = [i \in 1..Cap |-> IF i <= after THEN work[kept + s - after + i] ELSE Blank]
    BY <2>4
  <2>6. Sliding(new, forced) = Slid(new, kept)
    BY <1>1, <2>1, <2>2, <2>3, <2>5 DEF Slid
  <2>7. kept <= before /\ after <= kept + s
    BY <1>1, <1>2, <2>1
  <2> QED BY <2>1, <2>6, <2>7
<1> QED BY <1>8, <1>9

LEMMA WorkTyped ==
  ASSUME ShapeInv, mode = "Sliding", NEW s \in 1..MaxNew, NEW new \in [1..s -> Tok], Fits(s),
         NEW seed \in Nat, seed <= CacheEnd(Len(seq))
  PROVE  /\ Work(new, seed) \in Seq(Entry)
         /\ Len(Work(new, seed)) = seed + s
         /\ \A i \in 1..seed : Work(new, seed)[i] = past[CacheEnd(Len(seq)) - seed + i]
         /\ \A i \in 1..s : Work(new, seed)[seed + i] = NewRows(new, Len(seq))[i]
<1> DEFINE before == CacheEnd(Len(seq))
           old == SubSeq(past, before - seed + 1, before)
           rows == NewRows(new, Len(seq))
<1>1. s \in Nat /\ Len(seq) \in Nat /\ Cap \in Nat
  BY CallLen, SharedKVAssumption DEF ShapeInv, TypeOK
<1>2. before \in 0..Cap /\ past \in Seq(Entry) /\ Len(past) = Cap
  BY <1>1, EndIs DEF ShapeInv, TypeOK, LenInv, Entry
<1>3. rows \in Seq(Entry) /\ Len(rows) = s
  BY NewRowsTyped DEF ShapeInv, Entry
<1> HIDE DEF before, rows
<1>4. before - seed + 1 \in Nat \ {0} /\ before \in 0..Len(past) /\ seed <= before
      /\ before - (before - seed + 1) + 1 = seed
  BY <1>1, <1>2 DEF before
<1>5. old \in Seq(Entry) /\ Len(old) = seed
      /\ \A i \in 1..seed : old[i] = past[before - seed + 1 + i - 1]
  <2>1. Len(old) = IF before - seed + 1 <= before THEN before - (before - seed + 1) + 1 ELSE 0
    BY <1>2, <1>4, SubSeqOf
  <2>2. Len(old) = seed
    BY <1>2, <1>4, <2>1
  <2>3. old \in Seq(Entry)
        /\ \A i \in 1..(before - (before - seed + 1) + 1) : old[i] = past[before - seed + 1 + i - 1]
    BY <1>2, <1>4, SubSeqOf
  <2> QED BY <1>4, <2>2, <2>3
<1>6. \A i \in 1..seed : old[i] = past[before - seed + i]
  <2>1. \A i \in 1..seed : before - seed + 1 + i - 1 = before - seed + i
    BY <1>2
  <2> QED BY <1>5, <2>1
<1>7. Work(new, seed) = old \o rows
  BY DEF Work, before, rows
<1> HIDE DEF old
<1>8. /\ old \o rows \in Seq(Entry)
      /\ Len(old \o rows) = seed + s
      /\ \A i \in 1..seed : (old \o rows)[i] = old[i]
      /\ \A i \in 1..s : (old \o rows)[seed + i] = rows[i]
  <2>1. old \in Seq(Entry) /\ rows \in Seq(Entry)
    BY <1>3, <1>5
  <2>2. /\ old \o rows \in Seq(Entry)
        /\ Len(old \o rows) = Len(old) + Len(rows)
        /\ \A i \in 1..Len(old) : (old \o rows)[i] = old[i]
        /\ \A i \in 1..Len(rows) : (old \o rows)[Len(old) + i] = rows[i]
    BY <2>1, ConcatOf
  <2>3. Len(old) = seed /\ Len(rows) = s
    BY <1>3, <1>5
  <2> QED BY <2>2, <2>3
<1> QED BY <1>6, <1>7, <1>8 DEF before, rows

LEMMA SlidTyped ==
  ASSUME ShapeInv, mode = "Sliding", NEW s \in 1..MaxNew, NEW new \in [1..s -> Tok], Fits(s),
         NEW seed \in Nat, seed <= CacheEnd(Len(seq)), CacheEnd(Len(seq) + s) <= seed + s
  PROVE  /\ Slid(new, seed).present \in Seq(Entry)
         /\ Len(Slid(new, seed).present) = Cap
         /\ Slid(new, seed).seen \in Seq(Seq(Entry))
         /\ Slid(new, seed).delta = NoDelta
<1> DEFINE work == Work(new, seed)
           after == CacheEnd(Len(seq) + s)
           first(k) == IF seed + k > Window THEN seed + k - Window + 1 ELSE 1
           present == [i \in 1..Cap |-> IF i <= after THEN work[seed + s - after + i] ELSE Blank]
           seen == [k \in 1..s |-> SubSeq(work, first(k), seed + k)]
<1>1. s \in Nat \ {0} /\ Len(new) = s /\ Len(seq) \in Nat /\ Cap \in Nat /\ Window \in Nat \ {0}
  BY CallLen, SharedKVAssumption DEF ShapeInv, TypeOK
<1>2. after \in 0..Cap
  BY <1>1, EndIs
<1>3. work \in Seq(Entry) /\ Len(work) = seed + s
  BY WorkTyped
<1>4. Slid(new, seed) = [present |-> present, seen |-> seen, delta |-> NoDelta]
  BY <1>1 DEF Slid
<1> HIDE DEF work, after
<1>5. present \in [1..Cap -> Entry]
  <2> SUFFICES ASSUME NEW i \in 1..Cap, i <= after PROVE work[seed + s - after + i] \in Entry
    BY DEF Entry
  <2>1. seed + s - after + i \in 1..Len(work)
    BY <1>1, <1>2, <1>3 DEF after
  <2> QED BY <1>3, <2>1
<1>6. seen \in [1..s -> Seq(Entry)]
  <2> SUFFICES ASSUME NEW k \in 1..s PROVE SubSeq(work, first(k), seed + k) \in Seq(Entry)
    OBVIOUS
  <2>1. first(k) \in Nat \ {0} /\ seed + k \in 0..Len(work)
    BY <1>1, <1>3
  <2> HIDE DEF first
  <2> QED BY <1>3, <2>1, SubSeqOf
<1> HIDE DEF present, seen
<1>7. present \in Seq(Entry) /\ Len(present) = Cap /\ seen \in Seq(Seq(Entry))
  BY <1>1, <1>5, <1>6, SeqOf
<1> QED BY <1>4, <1>7

-----------------------------------------------------------------------------
(* Types after a call. *)

LEMMA CopiedOutTyped ==
  ASSUME NEW S, past \in Seq(S), NEW s \in Nat, NEW aliased \in BOOLEAN, NEW r,
         r.present \in Seq(S),
         r.delta = NoDelta \/ (r.delta \in Nat /\ Len(r.present) = Len(past))
  PROVE  CopiedOut(r, s, aliased) \in Seq(S) /\ Len(CopiedOut(r, s, aliased)) = Len(r.present)
<1>1. CASE r.delta # NoDelta /\ aliased
  <2> DEFINE rows == Len(r.present)
             from == IF r.delta < 0 THEN 0 ELSE r.delta
             n == IF s < rows - from THEN s ELSE rows - from
             copied == [i \in 1..rows |-> IF i - from \in 1..n THEN r.present[i] ELSE past[i]]
  <2>1. CopiedOut(r, s, aliased) = copied
    BY <1>1 DEF CopiedOut
  <2>2. rows \in Nat /\ rows = Len(past)
    BY <1>1
  <2>3. copied \in [1..rows -> S]
    <3>1. \A i \in 1..rows : r.present[i] \in S /\ past[i] \in S
      BY <2>2
    <3> QED BY <3>1
  <2> HIDE DEF copied, rows
  <2>4. copied \in Seq(S) /\ Len(copied) = rows
    BY <2>2, <2>3, SeqOf
  <2> QED BY <2>1, <2>4 DEF rows
<1>2. CASE ~(r.delta # NoDelta /\ aliased)
  BY <1>2 DEF CopiedOut
<1> QED BY <1>1, <1>2

\* What every kernel gives, by type.
Fitting(s, r) ==
  /\ r.present \in Seq(Entry)
  /\ Len(r.present) = IF mode = "Growing" THEN Len(seq) + s ELSE Cap
  /\ r.seen \in Seq(Seq(Entry))
  /\ r.delta = NoDelta \/ (r.delta \in Nat /\ mode # "Growing")

LEMMA EndedTyped ==
  ASSUME ShapeInv, NEW s \in 1..MaxNew, NEW new \in [1..s -> Tok], Fits(s),
         NEW r, Fitting(s, r), Ended(new, r), mode' = mode
  PROVE  /\ seq' \in Seq(Tok)
         /\ past' \in Seq(Row' \cup {Blank})
         /\ answer' \in Seq(Seq(Row' \cup {Blank}))
         /\ LenInv'
<1>1. /\ new \in Seq(Tok) /\ Len(new) = s /\ s \in Nat \ {0}
      /\ seq \in Seq(Tok) /\ Len(seq) \in Nat /\ past \in Seq(Entry)
      /\ Len(seq) + s <= Longest
  BY CallLen DEF ShapeInv, TypeOK, Entry, Fits, Longest
<1>2. Row' = Row /\ Longest' = Longest
  BY DEF Row, Longest
<1>3. Len(past) = IF mode = "Growing" THEN Len(seq) ELSE Cap
  BY DEF ShapeInv, LenInv
<1>4. PICK aliased \in BOOLEAN : (aliased => mode # "Growing")
                                 /\ (Answered(new, r, aliased) \/ Failed(new, r, aliased))
  BY DEF Ended
<1> DEFINE copied == CopiedOut(r, s, aliased)
<1>5. copied \in Seq(Entry) /\ Len(copied) = IF mode = "Growing" THEN Len(seq) + s ELSE Cap
  <2>1. r.delta = NoDelta \/ (r.delta \in Nat /\ Len(r.present) = Len(past))
    BY <1>3 DEF Fitting
  <2>2. r.present \in Seq(Entry)
    BY DEF Fitting
  <2>3. copied \in Seq(Entry) /\ Len(copied) = Len(r.present)
    BY <1>1, <2>1, <2>2, CopiedOutTyped
  <2> QED BY <2>3 DEF Fitting
<1> HIDE DEF copied
<1>6. CASE Answered(new, r, aliased)
  <2>1. seq' = seq \o new /\ past' = copied /\ answer' = r.seen
    BY <1>1, <1>6 DEF Answered, copied
  <2>2. seq' \in Seq(Tok) /\ Len(seq') = Len(seq) + s
    BY <1>1, <2>1, ConcatOf
  <2>3. LenInv'
    BY <1>1, <1>2, <1>5, <2>1, <2>2 DEF LenInv
  <2> QED BY <1>2, <1>5, <2>1, <2>2, <2>3 DEF Fitting, Entry
<1>7. CASE Failed(new, r, aliased)
  <2>1. /\ past' = past \/ (past' = copied /\ mode # "Growing")
        /\ seq' = (IF mode = "Sliding" THEN <<>> ELSE seq)
        /\ answer' = <<>>
    BY <1>1, <1>4, <1>7 DEF Failed, copied
  <2>2. past' \in Seq(Entry) /\ Len(past') = IF mode = "Growing" THEN Len(seq) ELSE Cap
    BY <1>1, <1>3, <1>5, <2>1
  <2>3. seq' \in Seq(Tok) /\ Len(seq') <= Len(seq) /\ Len(seq') \in Nat
        /\ (mode = "Growing" => seq' = seq)
    BY <1>1, <2>1
  <2>4. LenInv'
    <3>1. Len(seq') <= Longest
      BY <2>3 , <1>1, SharedKVAssumption DEF Longest
    <3> QED BY <1>2, <2>2, <2>3, <3>1 DEF LenInv
  <2>5. answer' \in Seq(Seq(Entry))
    BY <2>1
  <2> QED BY <1>2, <2>2, <2>3, <2>4, <2>5 DEF Entry
<1> QED BY <1>4, <1>6, <1>7

\* The kernel that answers fits, whichever it is.
LEMMA KernelFits ==
  ASSUME ShapeInv, NEW s \in 1..MaxNew, NEW new \in [1..s -> Tok], Fits(s)
  PROVE  /\ mode = "Growing" => Fitting(s, Grow(new, Len(seq)))
         /\ mode = "Shared" => \A w \in Nat : Fitting(s, Place(new, w, Len(seq)))
         /\ mode = "Sliding" => \A forced \in BOOLEAN : Fitting(s, Sliding(new, forced))
<1>1. CASE mode = "Growing"
  BY <1>1, GrowTyped DEF Fitting
<1>2. CASE mode = "Shared"
  <2>1. Len(seq) \in Nat
    BY DEF ShapeInv, TypeOK
  <2> QED BY <1>2, <2>1, PlaceTyped DEF Fitting
<1>3. CASE mode = "Sliding"
  <2> SUFFICES ASSUME NEW forced \in BOOLEAN PROVE Fitting(s, Sliding(new, forced))
    BY <1>3
  <2>1. PICK seed \in Nat : /\ Sliding(new, forced) = Slid(new, seed)
                            /\ seed <= CacheEnd(Len(seq))
                            /\ CacheEnd(Len(seq) + s) <= seed + s
    BY <1>3, SlidingIs
  <2> QED BY <1>3, <2>1, SlidTyped DEF Fitting
<1> QED BY <1>1, <1>2, <1>3 DEF ShapeInv, TypeOK, Modes

LEMMA EagerKeepsShape ==
  ASSUME ShapeInv, NEW s \in 1..MaxNew, NEW new \in [1..s -> Tok], EagerCall(new)
  PROVE  ShapeInv'
<1>1. Len(new) = s /\ s \in Nat /\ Fits(s) /\ mode' = mode /\ graph' = graph
      /\ narrowed' = narrowed /\ Len(seq) \in Nat
  BY CallLen DEF EagerCall, ShapeInv, TypeOK
<1>2. SlotOf(s) \in Slots
  BY DEF SlotOf, Slots
<1>3. shared' \in [Slots -> {"unknown", "growing", "shared", "off"}]
      /\ \A slot \in Slots : shared'[slot] \in {shared[slot], "off"}
  BY <1>1, <1>2 DEF EagerCall, ShapeInv, TypeOK
<1>4. warm' \in {"none", "name", "name+address"}
  BY DEF EagerCall, KeptUnder, ShapeInv, TypeOK
<1>5. PICK r : Fitting(s, r) /\ Ended(new, r)
  <2>1. PICK forced \in BOOLEAN :
          Ended(new, IF mode = "Sliding" THEN Sliding(new, forced) ELSE Eager(new))
    BY DEF EagerCall
  <2>2. CASE mode = "Sliding"
    BY <1>1, <2>1, <2>2, KernelFits
  <2>3. CASE mode # "Sliding"
    <3>1. Fitting(s, Eager(new))
      <4>1. Eager(new) = IF mode = "Growing" THEN Grow(new, Len(seq)) ELSE Place(new, Len(seq), Len(seq))
        BY <1>1, <2>3, EagerIs DEF ShapeInv
      <4> QED BY <1>1, <2>3, <4>1, KernelFits DEF ShapeInv, TypeOK, Modes
    <3> QED BY <2>1, <2>3, <3>1
  <2> QED BY <2>2, <2>3
<1>6. /\ seq' \in Seq(Tok)
      /\ past' \in Seq(Row' \cup {Blank})
      /\ answer' \in Seq(Seq(Row' \cup {Blank}))
      /\ LenInv'
  BY <1>1, <1>5, EndedTyped
<1>7. mode' \in Modes /\ graph' \in Graphs
      /\ narrowed' \subseteq [shape : (1..MaxNew) \X (1..Cap) \X {Cap}, offset : 0..Cap]
  BY <1>1 DEF ShapeInv, TypeOK
<1>8. TypeOK'
  BY <1>3, <1>4, <1>6, <1>7 DEF TypeOK
<1>9. NarrowedInv'
  BY <1>1 DEF ShapeInv, NarrowedInv
<1>10. DetectionRight'
  BY <1>1, <1>3 DEF ShapeInv, DetectionRight
<1> QED BY <1>6, <1>8, <1>9, <1>10 DEF ShapeInv

LEMMA CompiledKeepsShape ==
  ASSUME ShapeInv, NEW s \in 1..MaxNew, NEW new \in [1..s -> Tok], CompiledCall(new)
  PROVE  ShapeInv'
<1> DEFINE slot == SlotOf(s)
           flag == FlagFor(slot, s)
<1>1. Len(new) = s /\ s \in Nat /\ Fits(s) /\ mode' = mode /\ graph' = graph
      /\ warm' = warm /\ mode # "Sliding" /\ shared[slot] # "off" /\ slot \in Slots
  BY CallLen DEF CompiledCall, SlotOf, Slots
<1>2. flag = IF mode = "Growing" THEN "growing" ELSE "shared"
  BY <1>1, FlagIs
<1>3. shared' = [shared EXCEPT ![slot] = flag] /\ Ended(new, Compiled(slot, new))
      /\ narrowed' = IF Narrows(slot, flag, s) THEN Traced(s) ELSE narrowed
  BY <1>1 DEF CompiledCall
<1> HIDE DEF flag
<1>4. shared' \in [Slots -> {"unknown", "growing", "shared", "off"}] /\ DetectionRight'
  BY <1>1, <1>2, <1>3 DEF ShapeInv, TypeOK, DetectionRight, Modes
<1>5. Fitting(s, Compiled(slot, new))
  <2>1. CASE mode = "Growing"
    BY <1>1, <2>1, CompiledIs, KernelFits
  <2>2. CASE mode = "Shared"
    <3>1. PICK w \in Nat : Compiled(slot, new) = Place(new, w, Len(seq))
      BY <1>1, <2>2, CompiledIs
    <3> QED BY <1>1, <2>2, <3>1, KernelFits
  <2> QED BY <1>1, <2>1, <2>2 DEF ShapeInv, TypeOK, Modes
<1>6. /\ seq' \in Seq(Tok)
      /\ past' \in Seq(Row' \cup {Blank})
      /\ answer' \in Seq(Seq(Row' \cup {Blank}))
      /\ LenInv'
  BY <1>1, <1>3, <1>5, EndedTyped
<1>7. /\ narrowed' \subseteq [shape : (1..MaxNew) \X (1..Cap) \X {Cap}, offset : 0..Cap]
      /\ NarrowedInv'
  <2>1. CASE Narrows(slot, flag, s)
    <3>1. mode = "Shared"
      BY <1>1, <1>2, <2>1 DEF Narrows, ShapeInv, TypeOK, Modes
    <3> QED BY <1>1, <1>3, <2>1, <3>1, TracedIs DEF NarrowedInv
  <2>2. CASE ~Narrows(slot, flag, s)
    BY <1>3, <2>2 DEF ShapeInv, TypeOK, NarrowedInv
  <2> QED BY <2>1, <2>2
<1>8. TypeOK'
  BY <1>1, <1>4, <1>6, <1>7 DEF ShapeInv, TypeOK
<1> QED BY <1>4, <1>6, <1>7, <1>8 DEF ShapeInv

LEMMA RewoundKeepsShape ==
  ASSUME ShapeInv, NEW n \in Nat, Rewound(n)
  PROVE  ShapeInv'
<1>1. UNCHANGED <<mode, graph, shared, warm, narrowed>> /\ n < Len(seq)
  BY DEF Rewound
<1>2. Row' = Row /\ Longest' = Longest /\ Longest \in Nat
  BY <1>1, SharedKVAssumption DEF Row, Longest
<1>3. seq \in Seq(Tok) /\ Len(seq) \in Nat /\ past \in Seq(Entry)
  BY DEF ShapeInv, TypeOK, Entry
<1>4. seq' \in Seq(Tok) /\ Len(seq') = n
  <2>1. 1 \in Nat \ {0} /\ n \in 0..Len(seq) /\ (IF 1 <= n THEN n - 1 + 1 ELSE 0) = n
    BY <1>1, <1>3
  <2> QED BY <1>3, <2>1, SubSeqOf DEF Rewound
<1>5. past' \in Seq(Entry) /\ Len(past') = IF mode = "Growing" THEN n ELSE Cap
  <2>1. CASE mode = "Growing"
    <3>1. 1 \in Nat \ {0} /\ n \in 0..Len(past) /\ (IF 1 <= n THEN n - 1 + 1 ELSE 0) = n
      BY <1>1, <1>3, <2>1 DEF ShapeInv, LenInv
    <3> QED BY <1>3, <2>1, <3>1, SubSeqOf DEF Rewound
  <2>2. CASE mode # "Growing"
    BY <1>3, <2>2 DEF Rewound, ShapeInv, LenInv
  <2> QED BY <2>1, <2>2
<1>6. LenInv'
  <2>1. n <= Longest
    BY <1>1, <1>2, <1>3 DEF ShapeInv, LenInv
  <2> QED BY <1>1, <1>2, <1>4, <1>5, <2>1 DEF LenInv
<1>7. answer' \in Seq(Seq(Row' \cup {Blank}))
  BY DEF Rewound
<1>8. TypeOK'
  BY <1>1, <1>2, <1>4, <1>5, <1>7 DEF ShapeInv, TypeOK, Entry
<1> QED BY <1>1, <1>6, <1>8 DEF ShapeInv, NarrowedInv, DetectionRight

LEMMA InitShape == Init => ShapeInv
<1> SUFFICES ASSUME Init PROVE ShapeInv
  OBVIOUS
<1>1. Cap \in Nat \ {0} /\ MaxLen \in Nat /\ Longest \in Nat
  BY SharedKVAssumption DEF Longest
<1>2. past \in Seq(Entry) /\ Len(past) = IF mode = "Growing" THEN 0 ELSE Cap
  <2>1. CASE mode = "Growing"
    BY <2>1 DEF Init
  <2>2. CASE mode # "Growing"
    <3>1. past \in [1..Cap -> Entry]
      BY <2>2 DEF Init, Entry
    <3> QED BY <1>1, <2>2, <3>1, SeqOf
  <2> QED BY <2>1, <2>2
<1>3. TypeOK
  BY <1>2 DEF Init, TypeOK, Entry
<1>4. LenInv
  BY <1>1, <1>2 DEF Init, LenInv
<1>5. NarrowedInv /\ DetectionRight
  BY DEF Init, NarrowedInv, DetectionRight
<1> QED BY <1>3, <1>4, <1>5 DEF ShapeInv

LEMMA StepShape == ShapeInv /\ [Next]_vars => ShapeInv'
<1> SUFFICES ASSUME ShapeInv, [Next]_vars PROVE ShapeInv'
  OBVIOUS
<1>1. ASSUME NEW s \in 1..MaxNew, NEW new \in [1..s -> Tok], EagerCall(new) PROVE ShapeInv'
  BY <1>1, EagerKeepsShape
<1>2. ASSUME NEW s \in 1..MaxNew, NEW new \in [1..s -> Tok], CompiledCall(new) PROVE ShapeInv'
  BY <1>2, CompiledKeepsShape
<1>3. ASSUME NEW n \in 0..Bound, Rewound(n) PROVE ShapeInv'
  <2>1. n \in Nat
    BY SharedKVAssumption DEF Bound
  <2> QED BY <1>3, <2>1, RewoundKeepsShape
<1>4. CASE UNCHANGED vars
  BY <1>4 DEF vars, ShapeInv, TypeOK, LenInv, NarrowedInv, DetectionRight, Row, Longest
<1> QED BY <1>1, <1>2, <1>3, <1>4 DEF Next

\* SharedKV is type correct for any tokens, buffer, window and lengths: no kernel
\* reads or writes beyond a tensor (attention.rs:581-977).
THEOREM TypeCorrect == Spec => []TypeOK
<1>1. ShapeInv => TypeOK
  BY DEF ShapeInv
<1> QED BY InitShape, StepShape, <1>1, PTL DEF Spec

\* A slot never takes one contract of the host for the other, whichever call it
\* was built on and whatever mask the host feeds (compiled.rs:1027-1037).
THEOREM DetectsRight == Spec => []DetectionRight
<1>1. ShapeInv => DetectionRight
  BY DEF ShapeInv
<1> QED BY InitShape, StepShape, <1>1, PTL DEF Spec

-----------------------------------------------------------------------------
(* The rows of the true sequence. *)

\* Up to where the buffer holds valid rows, and how many of them the next call needs.
End(n) == IF mode = "Sliding" THEN CacheEnd(n) ELSE n

Keep(n) == IF mode = "Sliding" THEN Needed(n) ELSE n

\* The valid rows of `tensor` end with the last rows of the sequence q.
Holds(tensor, q) ==
  \A i \in 1..Keep(Len(q)) :
    tensor[End(Len(q)) - Keep(Len(q)) + i] = Contract!Rows(q)[Len(q) - Keep(Len(q)) + i]

LEMMA RowsKeptIs == RowsKept <=> Holds(past, seq)
<1>1. CASE mode = "Sliding"
  BY <1>1 DEF RowsKept, Holds, End, Keep, Needed
<1>2. CASE mode # "Sliding"
  BY <1>2 DEF RowsKept, Holds, End, Keep
<1> QED BY <1>1, <1>2

LEMMA HoldsIf ==
  ASSUME NEW tensor, NEW q, NEW len \in Nat, len = Len(q), NEW end \in Nat, end = End(len),
         NEW kept \in Nat, kept = Keep(len),
         \A i \in 1..kept : tensor[end - kept + i] = Contract!Rows(q)[len - kept + i]
  PROVE  Holds(tensor, q)
BY DEF Holds

LEMMA RowsIs ==
  ASSUME NEW q \in Seq(Tok)
  PROVE  /\ Contract!Rows(q) \in Seq([tok : Tok, pos : Nat])
         /\ Len(Contract!Rows(q)) = Len(q)
         /\ \A i \in 1..Len(q) : Contract!Rows(q)[i] = [tok |-> q[i], pos |-> i - 1]
<1>1. Contract!Rows(q) = [i \in 1..Len(q) |-> [tok |-> q[i], pos |-> i - 1]]
  BY DEF Contract!Rows
<1>2. Len(q) \in Nat /\ \A i \in 1..Len(q) : q[i] \in Tok /\ i - 1 \in Nat
  OBVIOUS
<1>3. [i \in 1..Len(q) |-> [tok |-> q[i], pos |-> i - 1]] \in [1..Len(q) -> [tok : Tok, pos : Nat]]
  BY <1>2
<1>4. Contract!Rows(q) \in [1..Len(q) -> [tok : Tok, pos : Nat]]
  BY <1>1, <1>3
<1>5. \A i \in 1..Len(q) : Contract!Rows(q)[i] = [tok |-> q[i], pos |-> i - 1]
  BY <1>1
<1> HIDE DEF Contract!Rows
<1> QED BY <1>2, <1>4, <1>5, SeqOf

LEMMA SeenIs ==
  ASSUME NEW q, NEW i \in Nat
  PROVE  /\ Span \in Nat \ {0}
         /\ i <= Span => Contract!Seen(q, i) = SubSeq(Contract!Rows(q), 1, i)
         /\ i > Span => Contract!Seen(q, i) = SubSeq(Contract!Rows(q), i - Span + 1, i)
<1>1. Span \in Nat \ {0}
  BY SharedKVAssumption DEF Span, Bound
<1> QED BY <1>1 DEF Contract!Seen

\* A call's new rows continue those of the sequence.
LEMMA RowsJoined ==
  ASSUME ShapeInv, NEW s \in 1..MaxNew, NEW new \in [1..s -> Tok], Fits(s)
  PROVE  /\ seq \o new \in Seq(Tok)
         /\ Len(seq \o new) = Len(seq) + s
         /\ \A i \in 1..Len(seq) : Contract!Rows(seq \o new)[i] = Contract!Rows(seq)[i]
         /\ \A k \in 1..s : Contract!Rows(seq \o new)[Len(seq) + k] = NewRows(new, Len(seq))[k]
<1> DEFINE joined == seq \o new
<1>1. new \in Seq(Tok) /\ Len(new) = s /\ s \in Nat /\ seq \in Seq(Tok) /\ Len(seq) \in Nat
  BY CallLen DEF ShapeInv, TypeOK
<1>2. joined \in Seq(Tok) /\ Len(joined) = Len(seq) + s /\ (\A i \in 1..Len(seq) : joined[i] = seq[i])
      /\ \A k \in 1..s : joined[Len(seq) + k] = new[k]
  BY <1>1, ConcatOf
<1> HIDE DEF joined
<1>3. \A i \in 1..Len(joined) : Contract!Rows(joined)[i] = [tok |-> joined[i], pos |-> i - 1]
  BY <1>2, RowsIs
<1>4. \A i \in 1..Len(seq) : Contract!Rows(joined)[i] = Contract!Rows(seq)[i]
  <2>1. \A i \in 1..Len(seq) : i \in 1..Len(joined) /\ Contract!Rows(seq)[i] = [tok |-> seq[i], pos |-> i - 1]
    BY <1>1, <1>2, RowsIs
  <2> QED BY <1>2, <1>3, <2>1
<1>5. \A k \in 1..s : NewRows(new, Len(seq))[k] = [tok |-> new[k], pos |-> Len(seq) + k - 1]
  BY NewRowsTyped DEF ShapeInv
<1>6. \A k \in 1..s : Len(seq) + k \in 1..Len(joined)
  BY <1>1, <1>2
<1>7. ASSUME NEW k \in 1..s PROVE Contract!Rows(joined)[Len(seq) + k] = NewRows(new, Len(seq))[k]
  <2>1. PICK i \in 1..Len(joined) : i = Len(seq) + k
    BY <1>6
  <2>2. Contract!Rows(joined)[i] = [tok |-> joined[i], pos |-> i - 1]
    BY <1>3
  <2> QED BY <1>2, <1>5, <2>1, <2>2
<1> QED BY <1>2, <1>4, <1>7 DEF joined

\* Equal stretches of two sequences.
LEMMA SubSeqSame ==
  ASSUME NEW S, NEW T, NEW q \in Seq(S), NEW r \in Seq(T),
         NEW m \in Nat \ {0}, NEW n \in 0..Len(q), m <= n + 1,
         NEW i \in Nat \ {0}, NEW j \in 0..Len(r), n - m = j - i,
         \A k \in m..n : q[k] = r[k - m + i]
  PROVE  SubSeq(q, m, n) = SubSeq(r, i, j)
<1>1. /\ SubSeq(q, m, n) \in Seq(S)
      /\ Len(SubSeq(q, m, n)) = n - m + 1
      /\ \A k \in 1..(n - m + 1) : SubSeq(q, m, n)[k] = q[m + k - 1]
  <2>1. n - m + 1 = IF m <= n THEN n - m + 1 ELSE 0
    OBVIOUS
  <2> QED BY <2>1, SubSeqOf
<1>2. /\ SubSeq(r, i, j) \in Seq(T)
      /\ Len(SubSeq(r, i, j)) = n - m + 1
      /\ \A k \in 1..(n - m + 1) : SubSeq(r, i, j)[k] = r[i + k - 1]
  <2>1. n - m + 1 = (IF i <= j THEN j - i + 1 ELSE 0) /\ j - i + 1 = n - m + 1
    OBVIOUS
  <2> QED BY <2>1, SubSeqOf
<1>3. ASSUME NEW k \in 1..(n - m + 1) PROVE q[m + k - 1] = r[i + k - 1]
  <2>1. m + k - 1 \in m..n /\ (m + k - 1) - m + i = i + k - 1
    OBVIOUS
  <2> QED BY <2>1
<1> QED BY <1>1, <1>2, <1>3, SeqSame

\* What a kernel must give: the present tensor holds the rows of the longer sequence,
\* every token sees its part, and a delta says where the rows that differ begin.
Right(new, r) ==
  LET s == Len(new)
  IN /\ Holds(r.present, seq \o new)
     /\ r.seen = [k \in 1..s |-> Contract!Seen(seq \o new, Len(seq) + k)]
     /\ mode = "Shared" =>
          /\ r.delta = Len(seq)
          /\ \A i \in 1..Cap : i <= Len(seq) \/ i > Len(seq) + s => r.present[i] = past[i]
     /\ mode # "Shared" => r.delta = NoDelta

LEMMA GrowRight ==
  ASSUME ShapeInv, RowsKept, mode = "Growing",
         NEW s \in 1..MaxNew, NEW new \in [1..s -> Tok], Fits(s)
  PROVE  Right(new, Grow(new, Len(seq)))
<1> DEFINE rows == NewRows(new, Len(seq))
           present == past \o rows
           joined == seq \o new
           wanted == Contract!Rows(joined)
<1>1. /\ Len(new) = s /\ s \in Nat \ {0} /\ Len(seq) \in Nat /\ past \in Seq(Entry)
      /\ Len(past) = Len(seq) /\ Len(seq) + s <= MaxLen /\ MaxLen \in Nat /\ Cap \in Nat \ {0}
  BY CallLen, SharedKVAssumption DEF ShapeInv, TypeOK, LenInv, Entry, Fits
<1>2. rows \in Seq(Entry) /\ Len(rows) = s
  BY NewRowsTyped DEF ShapeInv, Entry
<1>3. /\ joined \in Seq(Tok) /\ Len(joined) = Len(seq) + s
      /\ \A i \in 1..Len(seq) : wanted[i] = Contract!Rows(seq)[i]
      /\ \A k \in 1..s : wanted[Len(seq) + k] = rows[k]
  BY RowsJoined
<1>4. wanted \in Seq([tok : Tok, pos : Nat]) /\ Len(wanted) = Len(seq) + s
  BY <1>3, RowsIs
<1>5. \A i \in 1..Len(seq) : past[i] = Contract!Rows(seq)[i]
  <2>1. \A i \in 1..Len(seq) : past[Len(seq) - Len(seq) + i] = Contract!Rows(seq)[Len(seq) - Len(seq) + i]
    BY RowsKeptIs DEF Holds, End, Keep
  <2>2. \A i \in 1..Len(seq) : Len(seq) - Len(seq) + i = i
    BY <1>1
  <2> QED BY <2>1, <2>2
<1> HIDE DEF rows, joined, wanted
<1>6. /\ present \in Seq(Entry) /\ Len(present) = Len(seq) + s
      /\ \A i \in 1..Len(seq) : present[i] = past[i]
      /\ \A k \in 1..s : present[Len(seq) + k] = rows[k]
  <2>1. /\ present \in Seq(Entry)
        /\ Len(present) = Len(past) + Len(rows)
        /\ \A i \in 1..Len(past) : present[i] = past[i]
        /\ \A k \in 1..Len(rows) : present[Len(past) + k] = rows[k]
    <3>1. past \in Seq(Entry) /\ rows \in Seq(Entry)
      BY <1>1, <1>2
    <3> QED BY <3>1, ConcatOf
  <2>2. Len(past) = Len(seq) /\ Len(rows) = s
    BY <1>1, <1>2
  <2> HIDE DEF present
  <2> QED BY <2>1, <2>2
<1> HIDE DEF present
<1>7. present = wanted
  <2>1. ASSUME NEW i \in 1..Len(present) PROVE present[i] = wanted[i]
    <3>1. CASE i <= Len(seq)
      BY <1>1, <1>3, <1>5, <1>6, <3>1
    <3>2. CASE i > Len(seq)
      <4>1. i - Len(seq) \in 1..s /\ Len(seq) + (i - Len(seq)) = i
        BY <1>1, <1>6, <3>2
      <4> QED BY <1>3, <1>6, <4>1
    <3> QED BY <1>1, <1>6, <3>1, <3>2
  <2> QED BY <1>4, <1>6, <2>1, SeqSame
<1> DEFINE seen == [k \in 1..s |-> SubSeq(present, 1, Len(present) - s + k)]
<1>8. seen = [k \in 1..s |-> Contract!Seen(joined, Len(seq) + k)]
  <2> SUFFICES ASSUME NEW k \in 1..s
               PROVE  Contract!Seen(joined, Len(seq) + k) = SubSeq(present, 1, Len(present) - s + k)
    OBVIOUS
  <2>1. PICK i \in Nat : i = Len(seq) + k
    BY <1>1
  <2>2. Len(present) - s + k = i /\ i <= Span
    BY <1>1, <1>6, <2>1 DEF Span, Bound
  <2>3. Contract!Seen(joined, i) = SubSeq(wanted, 1, i)
    BY <2>2, SeenIs DEF wanted
  <2> QED BY <1>7, <2>1, <2>2, <2>3
<1>9. Grow(new, Len(seq))
        = [present |-> present, seen |-> seen, delta |-> NoDelta]
  BY <1>1 DEF Grow, Causal, present, rows
<1> HIDE DEF seen
<1>10. Holds(present, joined)
  <2>1. End(Len(joined)) = Len(joined) /\ Keep(Len(joined)) = Len(joined)
    BY DEF End, Keep
  <2> QED BY <1>7, <2>1 DEF Holds, wanted
<1>11. /\ Grow(new, Len(seq)).present = present
       /\ Grow(new, Len(seq)).seen = seen
       /\ Grow(new, Len(seq)).delta = NoDelta
  BY <1>9
<1> QED BY <1>1, <1>8, <1>10, <1>11 DEF Right, joined

LEMMA PlaceRight ==
  ASSUME ShapeInv, RowsKept, mode = "Shared",
         NEW s \in 1..MaxNew, NEW new \in [1..s -> Tok], Fits(s)
  PROVE  Right(new, Place(new, Len(seq), Len(seq)))
<1> DEFINE n == Len(seq)
           rows == NewRows(new, n)
           present == Written(past, n, rows)
           joined == seq \o new
           wanted == Contract!Rows(joined)
           seen == [k \in 1..s |-> Upto(present, n + k)]
<1>1. /\ Len(new) = s /\ s \in Nat \ {0} /\ n \in Nat /\ past \in Seq(Entry)
      /\ Len(past) = Cap /\ n + s <= Cap /\ MaxLen \in Nat /\ Cap \in Nat \ {0}
  BY CallLen, SharedKVAssumption DEF ShapeInv, TypeOK, LenInv, Entry, Fits
<1>2. rows \in Seq(Entry) /\ Len(rows) = s
  BY NewRowsTyped DEF ShapeInv, Entry
<1>3. /\ joined \in Seq(Tok) /\ Len(joined) = n + s
      /\ \A i \in 1..n : wanted[i] = Contract!Rows(seq)[i]
      /\ \A k \in 1..s : wanted[n + k] = rows[k]
  BY RowsJoined
<1>4. wanted \in Seq([tok : Tok, pos : Nat]) /\ Len(wanted) = n + s
  BY <1>3, RowsIs
<1>5. \A i \in 1..n : past[i] = Contract!Rows(seq)[i]
  <2>1. \A i \in 1..n : past[n - n + i] = Contract!Rows(seq)[n - n + i]
    BY RowsKeptIs DEF Holds, End, Keep
  <2>2. \A i \in 1..n : n - n + i = i
    BY <1>1
  <2> QED BY <2>1, <2>2
<1>6. Place(new, n, n) = [present |-> present, seen |-> seen, delta |-> n]
  BY <1>1 DEF Place
<1>7. present \in Seq(Entry) /\ Len(present) = Cap
  BY <1>1, <1>2, WrittenTyped
<1>8. \A i \in 1..Cap : present[i] = IF i - n \in 1..s THEN rows[i - n] ELSE past[i]
  BY <1>1, <1>2 DEF Written
<1> HIDE DEF n, rows, joined, wanted, present
<1>9. ASSUME NEW i \in 1..(n + s) PROVE present[i] = wanted[i]
  <2>1. i \in 1..Cap
    BY <1>1
  <2>2. CASE i <= n
    <3>1. i \in 1..n /\ i - n \notin 1..s
      BY <1>1, <2>2
    <3> QED BY <1>3, <1>5, <1>8, <2>1, <3>1
  <2>3. CASE i > n
    <3>1. PICK k \in 1..s : i = n + k
      <4>1. i - n \in 1..s /\ i = n + (i - n)
        BY <1>1, <2>3
      <4> QED BY <4>1
    <3>2. i - n = k
      BY <1>1, <3>1
    <3> QED BY <1>3, <1>8, <2>1, <3>1, <3>2
  <2> QED BY <1>1, <2>2, <2>3
<1>10. seen = [k \in 1..s |-> Contract!Seen(joined, n + k)]
  <2> SUFFICES ASSUME NEW k \in 1..s PROVE Upto(present, n + k) = Contract!Seen(joined, n + k)
    OBVIOUS
  <2>1. PICK i \in Nat : i = n + k
    BY <1>1
  <2>2. i <= Span /\ i \in 1..Cap /\ i \in 1..(n + s)
    BY <1>1, <2>1 DEF Span, Bound
  <2>3. Contract!Seen(joined, i) = SubSeq(wanted, 1, i)
    BY <2>2, SeenIs DEF wanted
  <2>4. Upto(present, i) = SubSeq(present, 1, i)
    BY <1>7, <2>2 DEF Upto
  <2>5. \A j \in 1..i : present[j] = wanted[j - 1 + 1]
    <3>1. ASSUME NEW j \in 1..i PROVE present[j] = wanted[j - 1 + 1]
      <4>1. j \in 1..(n + s) /\ j - 1 + 1 = j
        BY <1>1, <2>2
      <4> QED BY <1>9, <4>1
    <3> QED BY <3>1
  <2>6. SubSeq(present, 1, i) = SubSeq(wanted, 1, i)
    <3>1. 1 \in Nat \ {0} /\ i \in 0..Len(present) /\ 1 <= i + 1 /\ i \in 0..Len(wanted) /\ i - 1 = i - 1
      BY <1>4, <1>7, <2>2, <1>1
    <3> QED BY <1>4, <1>7, <2>5, <3>1, SubSeqSame
  <2> QED BY <2>1, <2>3, <2>4, <2>6
<1> HIDE DEF seen
<1>11. Holds(present, joined)
  <2>1. PICK len \in Nat : len = n + s
    BY <1>1
  <2>2. len = End(len) /\ len = Keep(len)
    BY DEF End, Keep
  <2>3. \A i \in 1..len : present[len - len + i] = wanted[len - len + i]
    <3>1. ASSUME NEW i \in 1..len PROVE present[len - len + i] = wanted[len - len + i]
      <4>1. len - len + i = i
        OBVIOUS
      <4> QED BY <1>9, <2>1, <4>1
    <3> QED BY <3>1
  <2> QED BY <1>3, <2>1, <2>2, <2>3, HoldsIf DEF wanted
<1>12. ASSUME NEW i \in 1..Cap, i <= n \/ i > n + s PROVE present[i] = past[i]
  <2>1. i - n \notin 1..s
    BY <1>1, <1>12
  <2> QED BY <1>8, <2>1
<1>13. /\ Place(new, n, n).present = present
       /\ Place(new, n, n).seen = seen
       /\ Place(new, n, n).delta = n
  BY <1>6
<1> QED BY <1>1, <1>10, <1>11, <1>12, <1>13 DEF Right, joined, n

LEMMA SlidRight ==
  ASSUME ShapeInv, RowsKept, mode = "Sliding",
         NEW s \in 1..MaxNew, NEW new \in [1..s -> Tok], Fits(s),
         NEW seed \in Nat, seed <= CacheEnd(Len(seq)), seed >= Needed(Len(seq)),
         CacheEnd(Len(seq) + s) <= seed + s
  PROVE  Right(new, Slid(new, seed))
<1>1. /\ Len(new) = s /\ s \in Nat \ {0} /\ Len(seq) \in Nat /\ MaxLen \in Nat /\ Cap \in Nat \ {0}
      /\ Window \in Nat \ {0} /\ Window <= Cap
  BY CallLen, SharedKVAssumption DEF ShapeInv, TypeOK
<1> DEFINE joined == seq \o new
           wanted == Contract!Rows(joined)
           rows == NewRows(new, Len(seq))
           work == Work(new, seed)
<1>2. PICK n \in Nat : n = Len(seq)
  BY <1>1
<1>3. PICK before \in 0..Cap : before = CacheEnd(n) /\ (n <= Cap => before = n)
                               /\ (n > Cap => before >= Window)
  BY <1>1, EndIs
<1>4. PICK after \in 0..Cap : after = CacheEnd(n + s) /\ (n + s <= Cap => after = n + s)
                              /\ (n + s > Cap => after >= Window)
  <2>1. n + s \in Nat
    BY <1>1
  <2> QED BY <2>1, EndIs
<1>5. PICK old \in Nat : old = Needed(n) /\ old <= n /\ (n >= Window => old = Window - 1)
                         /\ (n < Window => old = n)
  BY <1>1 DEF Needed
<1>6. PICK kept \in Nat : kept = Needed(n + s) /\ kept <= n + s /\ (n + s >= Window => kept = Window - 1)
                          /\ (n + s < Window => kept = n + s)
  BY <1>1 DEF Needed
<1>7. before <= n /\ seed <= before /\ seed >= old /\ after <= seed + s
  BY <1>1, <1>2, <1>3, <1>4, <1>5
<1>8. /\ joined \in Seq(Tok) /\ Len(joined) = n + s
      /\ \A i \in 1..n : wanted[i] = Contract!Rows(seq)[i]
      /\ \A k \in 1..s : wanted[n + k] = rows[k]
  BY <1>2, RowsJoined
<1>9. wanted \in Seq([tok : Tok, pos : Nat]) /\ Len(wanted) = n + s
  BY <1>8, RowsIs
<1>10. \A i \in 1..old : past[before - old + i] = Contract!Rows(seq)[n - old + i]
  BY <1>2, <1>3, <1>5, RowsKeptIs DEF Holds, End, Keep
<1>11. /\ work \in Seq(Entry) /\ Len(work) = seed + s
       /\ \A i \in 1..seed : work[i] = past[before - seed + i]
       /\ \A k \in 1..s : work[seed + k] = rows[k]
  BY <1>2, <1>3, WorkTyped
<1> DEFINE first(j) == IF seed + j > Window THEN seed + j - Window + 1 ELSE 1
           present == [i \in 1..Cap |-> IF i <= after THEN work[seed + s - after + i] ELSE Blank]
           seen == [k \in 1..s |-> SubSeq(work, first(k), seed + k)]
<1>12. Slid(new, seed) = [present |-> present, seen |-> seen, delta |-> NoDelta]
  BY <1>1, <1>2, <1>4 DEF Slid
<1> HIDE DEF rows, work, joined, wanted, present, seen
\* The needed old rows and the new ones are those of the sequence.
<1>13. ASSUME NEW i \in Int, i > seed - old, i <= seed + s PROVE work[i] = wanted[n - seed + i]
  <2>1. CASE i <= seed
    <3>1. PICK j \in 1..old : i = seed - old + j
      <4>1. i - seed + old \in 1..old /\ i = seed - old + (i - seed + old)
        BY <1>13, <2>1
      <4> QED BY <4>1
    <3>2. i \in 1..seed
      BY <1>7, <1>13, <2>1
    <3>3. before - seed + i = before - old + j
      BY <3>1
    <3>4. n - seed + i = n - old + j /\ n - old + j \in 1..n
      <4>1. n - seed + i = n - old + j
        BY <3>1
      <4>2. old <= n /\ j >= 1 /\ j <= old
        BY <1>5
      <4>3. n - old + j \in 1..n
        BY <4>2
      <4> QED BY <4>1, <4>3
    <3>5. work[i] = past[before - old + j]
      BY <1>11, <3>2, <3>3
    <3>6. past[before - old + j] = Contract!Rows(seq)[n - old + j]
      BY <1>10
    <3>7. wanted[n - old + j] = Contract!Rows(seq)[n - old + j]
      BY <1>8, <3>4
    <3> QED BY <3>4, <3>5, <3>6, <3>7
  <2>2. CASE i > seed
    <3>1. PICK k \in 1..s : i = seed + k
      <4>1. i - seed \in 1..s /\ i = seed + (i - seed)
        BY <1>1, <1>13, <2>2
      <4> QED BY <4>1
    <3>2. n - seed + i = n + k
      BY <1>1, <3>1
    <3> QED BY <1>8, <1>11, <3>1, <3>2
  <2> QED BY <2>1, <2>2
<1>14. seen = [k \in 1..s |-> Contract!Seen(joined, n + k)]
  <2> SUFFICES ASSUME NEW k \in 1..s
               PROVE  SubSeq(work, first(k), seed + k) = Contract!Seen(joined, n + k)
    BY DEF seen
  <2>7. k \in Nat /\ k >= 1 /\ k <= s
    BY <1>1
  <2>1. PICK i \in Nat : i = n + k
    BY <2>7
  <2>2. PICK e \in Nat : e = seed + k
    BY <2>7
  <2>3. PICK from \in Nat \ {0} : from = IF i > Window THEN i - Window + 1 ELSE 1
    <3>1. (IF i > Window THEN i - Window + 1 ELSE 1) \in Nat \ {0}
      BY <1>1
    <3> QED BY <3>1
  <2>4. PICK f \in Nat \ {0} : f = IF e > Window THEN e - Window + 1 ELSE 1
    <3>1. (IF e > Window THEN e - Window + 1 ELSE 1) \in Nat \ {0}
      BY <1>1
    <3> QED BY <3>1
  <2>5. f = first(k)
    BY <1>1, <2>2, <2>4, <2>7
  <2> HIDE DEF first
  <2>6. Contract!Seen(joined, i) = SubSeq(wanted, from, i)
    <3>1. Span = Window
      BY DEF Span
    <3> QED BY <1>1, <2>3, <3>1, SeenIs DEF wanted
  <2>8. f <= e + 1 /\ e - f = i - from /\ f > seed - old
    <3>1. CASE n >= Window
      BY <1>1, <1>5, <1>7, <2>1, <2>2, <2>3, <2>4, <2>7, <3>1
    <3>2. CASE n < Window
      <4>1. seed = n
        BY <1>1, <1>3, <1>5, <1>7, <3>2
      <4> QED BY <1>1, <1>5, <2>1, <2>2, <2>3, <2>4, <2>7, <3>2, <4>1
    <3> QED BY <1>1, <3>1, <3>2
  <2>9. e \in 0..Len(work) /\ i \in 0..Len(wanted)
    <3>1. e <= seed + s /\ i <= n + s
      BY <1>1, <2>1, <2>2, <2>7
    <3> QED BY <1>9, <1>11, <3>1
  <2>10. \A j \in f..e : work[j] = wanted[j - f + from]
    <3>1. ASSUME NEW j \in f..e PROVE work[j] = wanted[j - f + from]
      <4>1. j \in Int /\ j > seed - old /\ j <= seed + s
        BY <1>1, <2>2, <2>7, <2>8
      <4>2. j - f + from = n - seed + j
        BY <2>1, <2>2, <2>8
      <4> QED BY <1>13, <4>1, <4>2
    <3> QED BY <3>1
  <2>11. SubSeq(work, f, e) = SubSeq(wanted, from, i)
    <3>1. work \in Seq(Entry) /\ wanted \in Seq([tok : Tok, pos : Nat])
      BY <1>9, <1>11
    <3>2. f <= e + 1 /\ e - f = i - from
      BY <2>8
    <3> QED BY <2>9, <2>10, <3>1, <3>2, SubSeqSame
  <2> QED BY <2>1, <2>2, <2>5, <2>6, <2>11
<1>15. Holds(present, joined)
  <2>1. PICK len \in Nat : len = n + s
    BY <1>1
  <2>2. after = End(len) /\ kept = Keep(len)
    BY <1>4, <1>6, <2>1 DEF End, Keep
  <2>3. ASSUME NEW i \in 1..kept PROVE present[after - kept + i] = wanted[len - kept + i]
    <3>1. PICK a \in Int : a = after - kept + i
      OBVIOUS
    <3>2. kept <= after
      BY <1>1, <1>4, <1>6
    <3>3. a \in 1..Cap /\ a <= after
      BY <1>1, <3>1, <3>2
    <3>4. PICK b \in Int : b = seed + s - after + a
      BY <1>1
    <3>5. present[a] = work[b]
      BY <3>3, <3>4 DEF present
    <3>6. kept <= old + s
      BY <1>1, <1>5, <1>6
    <3>7. b > seed - old /\ b <= seed + s /\ n - seed + b = len - kept + i
      BY <1>1, <2>1, <3>1, <3>3, <3>4, <3>6
    <3>8. work[b] = wanted[n - seed + b]
      BY <1>13, <3>7
    <3> QED BY <3>1, <3>5, <3>7, <3>8
  <2>4. after \in Nat
    BY <1>1
  <2>5. \A i \in 1..kept : present[after - kept + i] = Contract!Rows(joined)[len - kept + i]
    BY <2>3 DEF wanted
  <2>6. len = Len(joined)
    BY <1>8, <2>1
  <2>7. Keep(Len(joined)) = kept /\ End(Len(joined)) = after
    BY <2>2, <2>6
  <2> QED BY <2>5, <2>6, <2>7, Zenon DEF Holds
<1>16. /\ Slid(new, seed).present = present
       /\ Slid(new, seed).seen = seen
       /\ Slid(new, seed).delta = NoDelta
  BY <1>12
<1> QED BY <1>1, <1>2, <1>14, <1>15, <1>16 DEF Right, joined

-----------------------------------------------------------------------------
(* Steps. *)

\* The delta copy-out leaves the host what the kernel computed, whatever it aliases.
LEMMA CopiedIsPresent ==
  ASSUME ShapeInv, NEW s \in 1..MaxNew, NEW new \in [1..s -> Tok], Fits(s), NEW r,
         Fitting(s, r), Right(new, r), NEW aliased \in BOOLEAN
  PROVE  CopiedOut(r, s, aliased) = r.present
<1>1. CASE mode = "Shared" /\ aliased
  <2>1. Len(new) = s /\ s \in Nat /\ Len(seq) \in Nat /\ Len(seq) + s <= Cap /\ Cap \in Nat
    BY <1>1, CallLen, SharedKVAssumption DEF ShapeInv, TypeOK, Fits
  <2>2. PICK n \in Nat : n = Len(seq)
    BY <2>1
  <2>3. r.delta = n /\ r.delta # NoDelta
    BY <1>1, <2>2 DEF Right, NoDelta
  <2>4. r.present \in Seq(Entry) /\ Len(r.present) = Cap
    BY <1>1 DEF Fitting
  <2>5. CopiedOut(r, s, aliased)
          = [i \in 1..Cap |-> IF i - n \in 1..(IF s < Cap - n THEN s ELSE Cap - n) THEN r.present[i] ELSE past[i]]
    <3>1. (IF n < 0 THEN 0 ELSE n) = n
      OBVIOUS
    <3> QED BY <1>1, <2>3, <2>4, <3>1 DEF CopiedOut
  <2>6. (IF s < Cap - n THEN s ELSE Cap - n) = s
    BY <2>1, <2>2
  <2>7. \A i \in 1..Cap : i <= n \/ i > n + s => r.present[i] = past[i]
    BY <1>1, <2>1, <2>2 DEF Right
  <2>8. ASSUME NEW i \in 1..Cap, i - n \notin 1..s PROVE r.present[i] = past[i]
    <3>1. i <= n \/ i > n + s
      BY <2>1, <2>8
    <3> QED BY <2>7, <3>1
  <2>9. CopiedOut(r, s, aliased) = [i \in 1..Cap |-> r.present[i]]
    BY <2>5, <2>6, <2>8
  <2> QED BY <2>4, <2>9
<1>2. CASE mode # "Shared" \/ ~aliased
  <2>1. r.delta = NoDelta \/ ~aliased
    BY <1>2 DEF Right
  <2> QED BY <2>1 DEF CopiedOut
<1> QED BY <1>1, <1>2

LEMMA RowsKeptNext ==
  ASSUME mode' = mode, Holds(past', seq')
  PROVE  RowsKept'
<1>1. CASE mode = "Sliding"
  BY <1>1 DEF RowsKept, Holds, End, Keep, Needed
<1>2. CASE mode # "Sliding"
  BY <1>2 DEF RowsKept, Holds, End, Keep
<1> QED BY <1>1, <1>2

\* The sequence cut to n tokens, as a step of the contract.
Cut == \E n \in 0..Bound : n <= Len(seq) /\ Contract!Rewind(n)

LEMMA SpanSame == ASSUME mode' = mode PROVE Span' = Span
BY DEF Span

\* However a call ends, the cache keeps its rows and the contract takes a step.
LEMMA EndedRight ==
  ASSUME ShapeInv, RowsKept, NEW s \in 1..MaxNew, NEW new \in [1..s -> Tok], Fits(s),
         NEW r, Fitting(s, r), Right(new, r), Ended(new, r), mode' = mode
  PROVE  RowsKept' /\ (Contract!Attend(new) \/ Cut)
<1>1. Len(new) = s /\ s \in Nat \ {0} /\ seq \in Seq(Tok) /\ Len(seq) \in Nat
      /\ Cap \in Nat \ {0} /\ MaxLen \in Nat /\ Window \in Nat \ {0} /\ Len(seq) <= Bound
  BY CallLen, SharedKVAssumption DEF ShapeInv, TypeOK, LenInv, Longest, Bound
<1>2. PICK aliased \in BOOLEAN : (aliased => mode # "Growing")
                                 /\ (Answered(new, r, aliased) \/ Failed(new, r, aliased))
  BY DEF Ended
<1>3. CopiedOut(r, s, aliased) = r.present
  BY CopiedIsPresent
<1>4. CASE Answered(new, r, aliased)
  <2>1. seq' = seq \o new /\ past' = r.present /\ answer' = r.seen
    BY <1>1, <1>3, <1>4 DEF Answered
  <2>2. RowsKept'
    BY <2>1, RowsKeptNext DEF Right
  <2>3. answer' = [k \in 1..Len(new) |-> Contract!Seen(seq \o new, Len(seq) + k)]
    BY <2>1 DEF Right
  <2>4. Contract!Attend(new)
    BY <2>1, <2>3, SpanSame DEF Contract!Attend
  <2> QED BY <2>2, <2>4
<1>5. CASE Failed(new, r, aliased)
  <2>1. /\ past' = past \/ (past' = r.present /\ mode # "Growing")
        /\ seq' = (IF mode = "Sliding" THEN <<>> ELSE seq)
        /\ answer' = <<>>
    BY <1>1, <1>2, <1>3, <1>5 DEF Failed
  <2>2. CASE mode = "Sliding"
    <3>1. seq' = <<>> /\ Len(<<>>) = 0 /\ Keep(0) = 0
      BY <1>1, <2>1, <2>2 DEF Keep, Needed
    <3>2. Holds(past', seq')
      BY <3>1 DEF Holds
    <3>3. SubSeq(seq, 1, 0) = <<>>
      BY <1>1
    <3>4. Contract!Rewind(0)
      BY <2>1, <3>1, <3>3, SpanSame DEF Contract!Rewind
    <3>5. Cut
      BY <1>1, <3>4 DEF Cut, Bound
    <3> QED BY <3>2, <3>5, RowsKeptNext
  <2>3. CASE mode # "Sliding"
    <3>1. seq' = seq
      BY <2>1, <2>3
    <3>2. Holds(past, seq)
      BY RowsKeptIs
    <3>3. Holds(past', seq')
      <4>1. CASE past' = past
        BY <3>1, <3>2, <4>1
      <4>2. CASE past' = r.present /\ mode = "Shared"
        <5>1. \A i \in 1..Cap : i <= Len(seq) => r.present[i] = past[i]
          BY <1>1, <4>2 DEF Right
        <5>2. PICK n \in Nat : n = Len(seq) /\ n <= Cap
          BY <1>1, <4>2 DEF ShapeInv, LenInv, Longest
        <5>3. \A i \in 1..n : r.present[n - n + i] = past[n - n + i]
          <6>1. ASSUME NEW i \in 1..n PROVE r.present[n - n + i] = past[n - n + i]
            <7>1. n - n + i = i /\ i \in 1..Cap /\ i <= n
              BY <1>1, <5>2
            <7> QED BY <5>1, <5>2, <7>1
          <6> QED BY <6>1
        <5>4. Keep(Len(seq)) = n /\ End(Len(seq)) = n
          BY <4>2, <5>2 DEF Keep, End
        <5> QED BY <3>1, <3>2, <4>2, <5>3, <5>4 DEF Holds
      <4> QED BY <2>1, <2>3, <4>1, <4>2 DEF ShapeInv, TypeOK, Modes
    <3>4. SubSeq(seq, 1, Len(seq)) = seq
      BY <1>1
    <3>5. Contract!Rewind(Len(seq))
      BY <2>1, <3>1, <3>4, SpanSame DEF Contract!Rewind
    <3>6. Cut
      BY <1>1, <3>5 DEF Cut
    <3> QED BY <3>3, <3>6, RowsKeptNext
  <2> QED BY <2>2, <2>3
<1> QED BY <1>2, <1>4, <1>5

LEMMA EagerRight ==
  ASSUME ShapeInv, RowsKept, NEW s \in 1..MaxNew, NEW new \in [1..s -> Tok], EagerCall(new)
  PROVE  RowsKept' /\ (Contract!Attend(new) \/ Cut)
<1>1. Len(new) = s /\ Fits(s) /\ mode' = mode
  BY CallLen DEF EagerCall
<1>2. PICK forced \in BOOLEAN :
        Ended(new, IF mode = "Sliding" THEN Sliding(new, forced) ELSE Eager(new))
  BY DEF EagerCall
<1>3. CASE mode = "Sliding"
  <2>1. PICK seed \in Nat : /\ Sliding(new, forced) = Slid(new, seed)
                            /\ seed <= CacheEnd(Len(seq))
                            /\ seed >= Needed(Len(seq))
                            /\ CacheEnd(Len(seq) + s) <= seed + s
    BY <1>1, <1>3, SlidingIs
  <2>2. Right(new, Sliding(new, forced))
    BY <1>1, <1>3, <2>1, SlidRight
  <2>3. Fitting(s, Sliding(new, forced))
    BY <1>1, <1>3, KernelFits
  <2> QED BY <1>1, <1>2, <1>3, <2>2, <2>3, EndedRight
<1>4. CASE mode = "Growing"
  <2>1. Eager(new) = Grow(new, Len(seq))
    BY <1>1, <1>4, EagerIs DEF ShapeInv
  <2>2. Right(new, Eager(new)) /\ Fitting(s, Eager(new))
    BY <1>1, <1>4, <2>1, GrowRight, KernelFits
  <2> QED BY <1>1, <1>2, <1>4, <2>2, EndedRight
<1>5. CASE mode = "Shared"
  <2>1. Eager(new) = Place(new, Len(seq), Len(seq)) /\ Len(seq) \in Nat
    BY <1>1, <1>5, EagerIs DEF ShapeInv, TypeOK
  <2>2. Right(new, Eager(new)) /\ Fitting(s, Eager(new))
    BY <1>1, <1>5, <2>1, PlaceRight, KernelFits
  <2> QED BY <1>1, <1>2, <1>5, <2>2, EndedRight
<1> QED BY <1>3, <1>4, <1>5 DEF ShapeInv, TypeOK, Modes

LEMMA CompiledRight ==
  ASSUME PaddedMask = FALSE, ShapeInv, RowsKept,
         NEW s \in 1..MaxNew, NEW new \in [1..s -> Tok], CompiledCall(new)
  PROVE  RowsKept' /\ (Contract!Attend(new) \/ Cut)
<1> DEFINE slot == SlotOf(s)
<1>1. Len(new) = s /\ Fits(s) /\ mode' = mode /\ mode # "Sliding" /\ shared[slot] # "off"
      /\ slot \in Slots /\ Ended(new, Compiled(slot, new))
  BY CallLen DEF CompiledCall, SlotOf, Slots
<1> HIDE DEF slot
<1>2. CASE mode = "Growing"
  <2>1. Compiled(slot, new) = Grow(new, Len(seq))
    BY <1>1, <1>2, CompiledIs
  <2>2. Right(new, Compiled(slot, new)) /\ Fitting(s, Compiled(slot, new))
    BY <1>1, <1>2, <2>1, GrowRight, KernelFits
  <2> QED BY <1>1, <2>2, EndedRight
<1>3. CASE mode = "Shared"
  <2>1. Compiled(slot, new) = Place(new, Len(seq), Len(seq)) /\ Len(seq) \in Nat
    BY <1>1, <1>3, CompiledIs DEF ShapeInv, TypeOK
  <2>2. Right(new, Compiled(slot, new)) /\ Fitting(s, Compiled(slot, new))
    BY <1>1, <1>3, <2>1, PlaceRight, KernelFits
  <2> QED BY <1>1, <2>2, EndedRight
<1> QED BY <1>1, <1>2, <1>3 DEF ShapeInv, TypeOK, Modes

LEMMA RewoundRight ==
  ASSUME ShapeInv, RowsKept, NEW n \in 0..Bound, Rewound(n)
  PROVE  RowsKept' /\ Cut
<1>1. /\ n \in Nat /\ n < Len(seq) /\ seq \in Seq(Tok) /\ Len(seq) \in Nat /\ mode' = mode
      /\ seq' = SubSeq(seq, 1, n) /\ answer' = <<>> /\ Window \in Nat \ {0}
  BY SharedKVAssumption DEF Rewound, ShapeInv, TypeOK, Bound
<1>2. Cut
  <2>1. Contract!Rewind(n)
    BY <1>1, SpanSame DEF Contract!Rewind
  <2> QED BY <1>1, <2>1 DEF Cut
<1>3. seq' \in Seq(Tok) /\ Len(seq') = n /\ \A i \in 1..n : seq'[i] = seq[i]
  BY <1>1
<1>4. Holds(past', seq')
  <2>1. CASE mode = "Sliding"
    <3>1. n = 0 /\ Keep(0) = 0
      BY <1>1, <2>1 DEF Rewound, Keep, Needed
    <3> QED BY <1>3, <3>1 DEF Holds
  <2>2. CASE mode # "Sliding"
    <3>1. PICK len \in Nat : len = Len(seq)
      BY <1>1
    <3>2. \A i \in 1..len : past[i] = Contract!Rows(seq)[i]
      <4>1. \A i \in 1..len : past[len - len + i] = Contract!Rows(seq)[len - len + i]
        BY <2>2, <3>1, RowsKeptIs DEF Holds, End, Keep
      <4>2. \A i \in 1..len : len - len + i = i
        OBVIOUS
      <4> QED BY <4>1, <4>2
    <3>3. \A i \in 1..n : past'[i] = past[i]
      <4>1. CASE mode = "Growing"
        <5>1. past' = SubSeq(past, 1, n) /\ past \in Seq(Entry) /\ Len(past) = Len(seq)
          BY <4>1 DEF Rewound, ShapeInv, TypeOK, LenInv, Entry
        <5> QED BY <1>1, <5>1
      <4>2. CASE mode # "Growing"
        BY <4>2 DEF Rewound
      <4> QED BY <4>1, <4>2
    <3>4. \A i \in 1..n : Contract!Rows(seq')[i] = Contract!Rows(seq)[i]
      <4>1. ASSUME NEW i \in 1..n PROVE Contract!Rows(seq')[i] = Contract!Rows(seq)[i]
        <5>1. i \in 1..Len(seq) /\ i \in 1..Len(seq')
          BY <1>1, <1>3
        <5>2. Contract!Rows(seq')[i] = [tok |-> seq'[i], pos |-> i - 1]
          BY <1>3, <5>1, RowsIs
        <5>3. Contract!Rows(seq)[i] = [tok |-> seq[i], pos |-> i - 1]
          BY <1>1, <5>1, RowsIs
        <5> QED BY <1>3, <5>2, <5>3
      <4> QED BY <4>1
    <3>5. \A i \in 1..n : past'[n - n + i] = Contract!Rows(seq')[n - n + i]
      <4>1. ASSUME NEW i \in 1..n PROVE past'[n - n + i] = Contract!Rows(seq')[n - n + i]
        <5>1. n - n + i = i /\ i \in 1..len
          BY <1>1, <3>1
        <5> QED BY <3>2, <3>3, <3>4, <5>1
      <4> QED BY <4>1
    <3>6. Keep(Len(seq')) = n /\ End(Len(seq')) = n
      BY <1>3, <2>2 DEF Keep, End
    <3> QED BY <1>3, <3>5, <3>6, Zenon DEF Holds
  <2> QED BY <2>1, <2>2
<1> QED BY <1>1, <1>2, <1>4, RowsKeptNext

\* RowsKept alone is not inductive: what a slot does depends on the contract it
\* detected and on the offsets in the traces kept.
KVInv == ShapeInv /\ RowsKept

LEMMA InitRows == Init => RowsKept
<1> SUFFICES ASSUME Init PROVE RowsKept
  OBVIOUS
<1>1. Len(seq) = 0 /\ Window \in Nat \ {0}
  BY SharedKVAssumption DEF Init
<1>2. Keep(Len(seq)) = 0
  BY <1>1 DEF Keep, Needed
<1> QED BY <1>2, RowsKeptIs DEF Holds

LEMMA StepRight ==
  ASSUME PaddedMask = FALSE, KVInv, [Next]_vars
  PROVE  KVInv' /\ [Contract!CNext]_(Contract!cvars)
<1> USE DEF KVInv
<1>1. ShapeInv'
  BY StepShape
<1>2. ASSUME NEW s \in 1..MaxNew, NEW new \in [1..s -> Tok],
             RowsKept' /\ (Contract!Attend(new) \/ Cut)
      PROVE  RowsKept' /\ Contract!CNext
  BY <1>2 DEF Contract!CNext, Cut
<1>3. ASSUME NEW s \in 1..MaxNew, NEW new \in [1..s -> Tok], EagerCall(new)
      PROVE  RowsKept' /\ Contract!CNext
  BY <1>2, <1>3, EagerRight
<1>4. ASSUME NEW s \in 1..MaxNew, NEW new \in [1..s -> Tok], CompiledCall(new)
      PROVE  RowsKept' /\ Contract!CNext
  BY <1>2, <1>4, CompiledRight
<1>5. ASSUME NEW n \in 0..Bound, Rewound(n) PROVE RowsKept' /\ Contract!CNext
  BY <1>5, RewoundRight DEF Contract!CNext, Cut
<1>6. ASSUME UNCHANGED vars PROVE RowsKept' /\ UNCHANGED Contract!cvars
  <2>1. RowsKept'
    BY <1>6, RowsKeptIs, RowsKeptNext DEF vars
  <2>2. UNCHANGED Contract!cvars
    BY <1>6, SpanSame DEF vars, Contract!cvars
  <2> QED BY <2>1, <2>2
<1>7. ASSUME Next PROVE RowsKept' /\ Contract!CNext
  BY <1>3, <1>4, <1>5, <1>7 DEF Next
<1> QED BY <1>1, <1>6, <1>7

\* With masks as wide as the sequence, the cache holds the rows of the host's
\* sequence between calls, through failures, rewinds, delta copies, staging and both
\* slots, for a buffer and a window of any size (engine.rs:2142-2238).
THEOREM RowsAreKept == ASSUME PaddedMask = FALSE PROVE Spec => []RowsKept
<1>1. Init => KVInv
  BY InitShape, InitRows DEF KVInv
<1>2. KVInv /\ [Next]_vars => KVInv'
  BY StepRight
<1>3. KVInv => RowsKept
  BY DEF KVInv
<1> QED BY <1>1, <1>2, <1>3, PTL DEF Spec

\* Under the same assumption every token attends to the true sequence: SharedKV
\* implements AttentionContract (attention.rs:581-977, compiled.rs:690-849).
THEOREM KeepsContract == ASSUME PaddedMask = FALSE PROVE Spec => ContractSpec
<1>1. Init => KVInv /\ Contract!CInit
  <2>1. Init => Contract!CInit
    BY SharedKVAssumption DEF Init, Contract!CInit, Span, Bound
  <2> QED BY <2>1, InitShape, InitRows DEF KVInv
<1>2. KVInv /\ [Next]_vars => KVInv' /\ [Contract!CNext]_(Contract!cvars)
  BY StepRight
<1> QED BY <1>1, <1>2, PTL DEF Spec, ContractSpec, Contract!CSpec

=============================================================================
