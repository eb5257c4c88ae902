-------------------------- MODULE AttentionContract --------------------------
(***************************************************************************)
(* What a GroupQueryAttention layer owes the host program that decodes one *)
(* sequence with it: every new token attends to exactly the tokens of the  *)
(* sequence up to itself, each at its own position, or to the last `span`  *)
(* of them when the layer has a sliding window.  Nothing is said of        *)
(* buffers.                                                                *)
(***************************************************************************)
EXTENDS Naturals, Sequences

CONSTANTS
  Tok,     \* tokens
  MaxNew,  \* most tokens of one call
  MaxLen   \* longest sequence

VARIABLES
  span,    \* how many positions a token may look back, itself included
  seq,     \* the tokens of the sequence
  answer   \* what each new token of the last call attended to

cvars == <<span, seq, answer>>

\* The rows of the K/V cache that stand for the sequence q.
Rows(q) == [i \in 1..Len(q) |-> [tok |-> q[i], pos |-> i - 1]]

\* What the token at position i of q attends to.
Seen(q, i) == SubSeq(Rows(q), IF i > span THEN i - span + 1 ELSE 1, i)

CInit ==
  /\ span \in Nat \ {0}
  /\ seq = <<>>
  /\ answer = <<>>

\* A call with the tokens `new` that succeeds.
Attend(new) ==
  /\ seq' = seq \o new
  /\ answer' = [k \in 1..Len(new) |-> Seen(seq \o new, Len(seq) + k)]
  /\ UNCHANGED span

\* The host drops tokens, all of them when it starts another sequence, or a call
\* fails and has changed nothing.
Rewind(n) ==
  /\ seq' = SubSeq(seq, 1, n)
  /\ answer' = <<>>
  /\ UNCHANGED span

CNext ==
  \/ \E s \in 1..MaxNew : \E new \in [1..s -> Tok] : Attend(new)
  \/ \E n \in 0..MaxLen : n <= Len(seq) /\ Rewind(n)

CSpec == CInit /\ [][CNext]_cvars

=============================================================================
