---------------------------- MODULE MCSpecialize ----------------------------
(* Instances of Specialize: constant values only. *)
EXTENDS Specialize, TLC

\* An If around a Loop and, on the other branch, around a Loop whose trip count
\* another node computes; a Scan around an If.
Kinds == <<"If", "Loop", "Loop", "Scan", "If">>
Nesting == <<{}, {<<1, "then">>}, {<<1, "else">>}, {}, {<<4, "body">>}>>
AllSources == <<"input", "input", "node", "initializer", "input">>

Decide(a, b, n, c) ==
  <<[cond |-> a, trip |-> 0], [cond |-> b, trip |-> n], [cond |-> TRUE, trip |-> 1],
    [cond |-> TRUE, trip |-> 0], [cond |-> c, trip |-> 0]>>

AllDecisions ==
  {Decide(TRUE, b, n, c) : b \in BOOLEAN, n \in {-1, 2}, c \in BOOLEAN}
    \cup {Decide(FALSE, TRUE, 2, c) : c \in BOOLEAN}

=============================================================================
