----------------------------- MODULE Specialize -----------------------------
(***************************************************************************)
(* Static control flow in the general compiled slot (compiled.rs,          *)
(* ops/controlflow.rs).  An If, Loop or Scan is unrolled while the graph   *)
(* is translated, so a trace is good only for the decisions it was made    *)
(* under, whereas MLX picks a trace by the shapes of its inputs.  Every    *)
(* list of decisions gets a token, fed to the closure as one more input    *)
(* whose length is the token.                                              *)
(*                                                                         *)
(* Calls are atomic: the run gate serializes them (module Compute).        *)
(***************************************************************************)
EXTENDS Integers, FiniteSets

CONSTANTS
  M,          \* number of control-flow nodes of the plan, bodies included
  kind,       \* node -> "If", "Loop" or "Scan"
  above,      \* node -> the bodies around it, as <<node, body>> pairs
  source,     \* node -> where its condition and trip count come from
  Cap,        \* specializations a closure may have (16)
  Decisions,  \* what the host may feed: node -> [cond, trip]
  Lengths     \* lengths of the dynamic inputs, the scanned ones among them

\* The nodes in the order control_flow_specialization_key meets them.
Op == 1..M

Bodies == {"then", "else", "body"}

\* A value of the fused node's boundary or an initializer, a formal input of the
\* body around the node, the output of another node of the plan.
Sources == {"input", "initializer", "formal", "node"}

ASSUME MAssumption == M \in Nat
ASSUME KindAssumption == kind \in [Op -> {"If", "Loop", "Scan"}]
ASSUME AboveAssumption ==
  /\ above \in [Op -> SUBSET (Op \X Bodies)]
  /\ \A i \in Op : \A p \in above[i] : p[1] < i /\ above[p[1]] \subseteq above[i]
\* if_claim takes a condition that no node produces, loop_claim any trip count.
ASSUME SourceAssumption ==
  /\ source \in [Op -> Sources]
  /\ \A i \in Op : kind[i] = "If" => source[i] # "node"
ASSUME CapAssumption == Cap \in Nat
ASSUME DecisionsAssumption == Decisions \subseteq [Op -> [cond : BOOLEAN, trip : Int]]
ASSUME LengthsAssumption == Lengths \subseteq Nat

VARIABLES
  slot,    \* attempted and valid of plan.general
  specs,   \* control_flow_specializations: key -> token
  traces,  \* MLX's cache: <<length, token>> -> the graph that was traced
  last     \* history: the last call and the graph it evaluated

vars == <<slot, specs, traces, last>>

-----------------------------------------------------------------------------
(* control_flow_specialization_key. *)

\* Does the walk go into body p[2] of node p[1]?
Enters(p, d) ==
  \/ kind[p[1]] = "If" /\ p[2] = (IF d[p[1]].cond THEN "then" ELSE "else")
  \/ kind[p[1]] = "Loop" /\ d[p[1]].cond /\ d[p[1]].trip > 0
  \/ kind[p[1]] = "Scan"

Walked(d) == {i \in Op : \A p \in above[i] : Enters(p, d)}
Decided(d) == {i \in Walked(d) : kind[i] # "Scan"}

\* host_scalar_bool and host_scalar_i64 read initializers and boundary inputs.
Readable(i) == source[i] \in {"input", "initializer"}

\* Mutant: the trip count is thought to be part of the shapes.
EntryWithoutTrip(i, d) == <<kind[i], d[i].cond, 0>>

\* "I<ordinal>=<cond>;" or "L<ordinal>=<trip>,<cond>;".
Entry(i, d) == <<kind[i], d[i].cond, IF kind[i] = "Loop" THEN d[i].trip ELSE 0>>

Ordinal(i, d) == Cardinality({j \in Decided(d) : j < i})

Key(d) == {<<Ordinal(i, d), Entry(i, d)>> : i \in Decided(d)}

-----------------------------------------------------------------------------
(* What a translation under given decisions unrolls (if_op, loop_op, scan_op). *)

\* A Scan over nothing does not run its body.
Ran(s, d) ==
  {i \in Op : \A p \in above[i] : Enters(p, d) /\ (kind[p[1]] = "Scan" => s > 0)}

Times(i, s, d) ==
  IF kind[i] = "Scan" THEN s
  ELSE IF ~d[i].cond THEN 0
  ELSE IF kind[i] = "If" THEN 1
  ELSE IF d[i].trip > 0 THEN d[i].trip ELSE 0

Unrolled(s, d) == [i \in Ran(s, d) |-> Times(i, s, d)]

\* raw_host reads what the key can read, nothing else.
Translates(s, d) == \A i \in Ran(s, d) : kind[i] # "Scan" => Readable(i)

-----------------------------------------------------------------------------
(* One Compute call of a plan with control flow: length s, decisions d. *)

Answer(s, d, graph, st) == last' = [len |-> s, d |-> d, graph |-> graph, status |-> st]

Eagerly(s, d) ==
  IF Translates(s, d) THEN Answer(s, d, Unrolled(s, d), "ok")
  ELSE Answer(s, d, Unrolled(s, d), "refused")

Known(d) == Key(d) = {} \/ Key(d) \in DOMAIN specs

\* Mutant: the limit on specializations is off by one.
KeyedPastCap(d) ==
  /\ \A i \in Decided(d) : Readable(i)
  /\ Known(d) \/ Cardinality(DOMAIN specs) <= Cap

\* Mutant: a decision that cannot be read does not stop the key.
KeyedUnread(d) == Known(d) \/ Cardinality(DOMAIN specs) < Cap

\* The call has a token, or gets the next one.
Keyed(d) ==
  /\ \A i \in Decided(d) : Readable(i)
  /\ Known(d) \/ Cardinality(DOMAIN specs) < Cap

Specialized(d) ==
  IF Known(d) THEN specs
  ELSE [k \in DOMAIN specs \cup {Key(d)} |->
          IF k \in DOMAIN specs THEN specs[k] ELSE Cardinality(DOMAIN specs) + 1]

\* No input is added when nothing was decided: a plan of Scans only.
Token(d) == IF Key(d) = {} THEN 0 ELSE Specialized(d)[Key(d)]

Init ==
  /\ slot = "untried"
  /\ specs = [k \in {} |-> 0]
  /\ traces = [t \in {} |-> 0]
  /\ last = [len |-> 0, d |-> 0, graph |-> 0, status |-> "none"]

\* The decisions cannot be read, or they are one specialization too many.
Unkeyed(s, d) ==
  /\ ~Keyed(d)
  /\ Eagerly(s, d)
  /\ UNCHANGED <<slot, specs, traces>>

\* The slot is off, cannot be built, or some dynamic input is empty.  The token
\* is spent all the same.
Decline(s, d) ==
  /\ Keyed(d)
  /\ specs' = Specialized(d)
  /\ \/ slot \in {"untried", "off"} /\ slot' = "off"
     \/ slot \in {"untried", "valid"} /\ s = 0 /\ slot' = "valid"
  /\ Eagerly(s, d)
  /\ UNCHANGED traces

\* The closure is there, now if not before, and no input is empty.
Applies(s, d) ==
  /\ Keyed(d)
  /\ s > 0
  /\ slot \in {"untried", "valid"}
  /\ specs' = Specialized(d)

Replay(s, d) ==
  /\ Applies(s, d)
  /\ <<s, Token(d)>> \in DOMAIN traces
  /\ slot' = "valid"
  /\ Answer(s, d, traces[<<s, Token(d)>>], "ok")
  /\ UNCHANGED traces

\* trace_thunk translates the plan under this call's decisions.
Trace(s, d) ==
  /\ Applies(s, d)
  /\ <<s, Token(d)>> \notin DOMAIN traces
  /\ slot' = "valid"
  /\ traces' = [t \in DOMAIN traces \cup {<<s, Token(d)>>} |->
                  IF t \in DOMAIN traces THEN traces[t] ELSE Unrolled(s, d)]
  /\ Answer(s, d, Unrolled(s, d), "ok")

\* The trace or its evaluation fails: off for good, and the call runs eagerly.
ApplyFails(s, d) ==
  /\ Applies(s, d)
  /\ slot' = "off"
  /\ Eagerly(s, d)
  /\ UNCHANGED traces

\* An input of the closure cannot be read.
ReadFails(s, d) ==
  /\ Keyed(d)
  /\ slot \in {"untried", "valid"}
  /\ slot' = "valid"
  /\ specs' = Specialized(d)
  /\ Answer(s, d, Unrolled(s, d), "fail")
  /\ UNCHANGED traces

Next ==
  \E s \in Lengths, d \in Decisions :
    \/ Unkeyed(s, d) \/ Decline(s, d)
    \/ Replay(s, d) \/ Trace(s, d) \/ ApplyFails(s, d) \/ ReadFails(s, d)

Spec == Init /\ [][Next]_vars

-----------------------------------------------------------------------------
(* Properties. *)

TypeOK ==
  /\ slot \in {"untried", "valid", "off"}
  /\ specs \in [DOMAIN specs -> 1..Cap]
  /\ DOMAIN specs \subseteq {Key(d) : d \in Decisions}
  /\ DOMAIN traces \subseteq Lengths \X (0..Cap)
  /\ last.status \in {"none", "ok", "refused", "fail"}
  /\ last.status # "none" => last.len \in Lengths /\ last.d \in Decisions

\* A call that succeeds has evaluated the graph its own decisions unroll to, not
\* one that MLX kept from a call with other decisions and the same shapes
\* (compiled.rs:202-205, engine.rs:351-361).
ReplayIsCurrent ==
  last.status = "ok" => last.graph = Unrolled(last.len, last.d)

\* No trace that MLX keeps was made under a decision the host cannot read.
TracesReadable ==
  \A t \in DOMAIN traces : \A i \in DOMAIN traces[t] : kind[i] # "Scan" => Readable(i)

=============================================================================
