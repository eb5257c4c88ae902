--------------------------- MODULE ComputeProofs ---------------------------
(* Proofs about Compute, for any number of host threads and subgraphs. *)
EXTENDS Compute, FiniteSetTheorems, TLAPS

\* Where a thread is once it holds the serial lock.
Running ==
  {"route", "slot", "apply", "trace", "emptytrace", "eval", "eager", "emptyeager"}

\* A running call holds the lock of a subgraph its thread owns, and a lock is
\* held by a running call: mutual exclusion follows from ownership.
GateInv ==
  /\ \A t \in Thread : pc[t] \in Running => owner[call[t].g] = t /\ serial[call[t].g] = t
  /\ \A t \in Thread : pc[t] = "serial" => owner[call[t].g] = t
  /\ \A g \in Subgraph :
       serial[g] # NoThread => pc[serial[g]] \in Running /\ call[serial[g]].g = g

\* Unless a translation panicked, only a translation is without its node list.
NodesInv ==
  /\ \A t \in Thread : pc[t] \in Running /\ ~panicked[call[t].g] =>
       /\ pc[t] \notin {"emptytrace", "emptyeager"}
       /\ pc[t] \notin {"trace", "eager"} => nodes[call[t].g]
  /\ \A g \in Subgraph : serial[g] = NoThread /\ ~panicked[g] => nodes[g]

Applying == {"apply", "trace", "emptytrace", "eval"}

\* A closure is only ever applied for a slot that is compiled.
SlotInv ==
  \A t \in Thread : pc[t] \in Applying => todo[t] # {} /\ State(t) \in {"compiled", "traced"}

-----------------------------------------------------------------------------
(* Type correctness. *)

LEMMA InitTypeOK == Init => TypeOK
  BY SubgraphAssumption DEF Init, TypeOK, PcValues, SeqLens

LEMMA ReturnTypeOK ==
  ASSUME TypeOK, NEW t \in Thread, NEW from, NEW st \in {"ok", "fail"}, Return(t, from, st)
  PROVE  /\ pc' \in [Thread -> PcValues]
         /\ status' \in [Thread -> {"none", "ok", "fail"}]
         /\ serial' \in [Subgraph -> Thread \cup {NoThread}]
         /\ todo' \in [Thread -> SUBSET Slots]
         /\ owner' = owner /\ call' = call
<1>1. serial' \in [Subgraph -> Thread \cup {NoThread}]
  <2>1. serial \in [Subgraph -> Thread \cup {NoThread}] /\ call[t].g \in Subgraph
    BY DEF TypeOK
  <2>2. CASE serial[call[t].g] = t
    BY <2>1, <2>2 DEF Return
  <2>3. CASE serial[call[t].g] # t
    BY <2>1, <2>3 DEF Return
  <2> QED BY <2>2, <2>3
<1> QED BY <1>1 DEF Return, Goto, TypeOK, PcValues

LEMMA StepTypeOK ==
  ASSUME TypeOK, NEW t \in Thread, Step(t)
  PROVE  TypeOK'
<1> USE DEF TypeOK, PcValues, Goto
<1> DEFINE g == call[t].g
<1>g. g \in Subgraph
  OBVIOUS
<1>1. CASE Enter(t)
  BY <1>1, <1>g DEF Enter, plan
<1>2. CASE Reject(t)
  BY <1>2, ReturnTypeOK DEF Reject, plan
<1>3. CASE AcquireSerial(t)
  BY <1>3, <1>g DEF AcquireSerial, plan
<1>4. CASE Route(t)
  <2>1. Routes(g, call[t].seq) \subseteq Slots
    BY <1>g, EnabledAssumption DEF Routes
  <2> QED BY <1>4, <2>1 DEF Route, gate, plan
<1>5. CASE SkipSlot(t)
  BY <1>5, <1>g DEF SkipSlot, Decline, gate
<1>6. CASE Build(t)
  <2>1. /\ pc' \in [Thread -> PcValues] /\ todo' \in [Thread -> SUBSET Slots]
        /\ slot' \in [Subgraph -> [Slots -> {"untried", "compiled", "traced", "off"}]]
    <3>1. CASE Goto(t, "slot", "slot") /\ SetState(t, "compiled") /\ todo' = todo
      BY <3>1, <1>g DEF SetState
    <3>2. CASE Decline(t, "slot") /\ SetState(t, "off")
      BY <3>2, <1>g DEF SetState, Decline
    <3> QED BY <1>6, <3>1, <3>2 DEF Build
  <2> QED BY <1>6, <2>1 DEF Build, Decline, gate
<1>7. CASE Gather(t)
  <2>1. CASE Return(t, "slot", "fail")
    BY <1>7, <2>1, ReturnTypeOK DEF Gather, plan
  <2>2. CASE ~Return(t, "slot", "fail")
    BY <1>7, <2>2 DEF Gather, gate, plan
  <2> QED BY <2>1, <2>2
<1>8. CASE Replay(t)
  BY <1>8 DEF Replay, gate, plan
<1>9. CASE StartTrace(t)
  BY <1>9, <1>g DEF StartTrace, gate
<1>10. CASE EndTrace(t)
  BY <1>10, <1>g DEF EndTrace, SetState, gate
<1>11. CASE TraceFails(t)
  BY <1>11, <1>g DEF TraceFails, SetState, gate
<1>12. CASE TracePanics(t)
  BY <1>12, <1>g DEF TracePanics, Decline, SetState, gate
<1>13. CASE EmptyTraceFails(t)
  BY <1>13, <1>g DEF EmptyTraceFails, Decline, SetState, gate
<1>14. CASE EvalFails(t)
  BY <1>14, <1>g DEF EvalFails, Decline, SetState, gate
<1>15. CASE CopyOut(t)
  <2>1. \E st \in {"ok", "fail"} : Return(t, "eval", st)
    BY <1>15 DEF CopyOut
  <2>2. wrote' \in [Thread -> {"none", "some", "all"}]
    BY <1>15 DEF CopyOut
  <2> QED BY <1>15, <2>1, <2>2, ReturnTypeOK DEF CopyOut, plan
<1>16. CASE StartEager(t)
  BY <1>16, <1>g DEF StartEager, gate
<1>17. CASE EndEager(t)
  <2>1. \E st \in {"ok", "fail"} : Return(t, "eager", st)
    BY <1>17 DEF EndEager
  <2>2. wrote' \in [Thread -> {"none", "some", "all"}]
    BY <1>17 DEF EndEager
  <2>3. warm' \in [Subgraph -> BOOLEAN] /\ nodes' \in [Subgraph -> BOOLEAN]
    BY <1>17, <1>g DEF EndEager
  <2> QED BY <1>17, <2>1, <2>2, <2>3, ReturnTypeOK DEF EndEager
<1>18. CASE EagerPanics(t)
  BY <1>18, <1>g, ReturnTypeOK DEF EagerPanics, plan
<1>19. CASE EndEmptyEager(t)
  BY <1>19, ReturnTypeOK DEF EndEmptyEager, plan
<1> QED
  BY <1>1, <1>2, <1>3, <1>4, <1>5, <1>6, <1>7, <1>8, <1>9, <1>10, <1>11, <1>12, <1>13,
     <1>14, <1>15, <1>16, <1>17, <1>18, <1>19 DEF Step

LEMMA CallTypeOK ==
  ASSUME TypeOK, NEW t \in Thread, NEW g \in Subgraph, NEW seq \in SeqLens, Call(t, g, seq)
  PROVE  TypeOK'
  BY DEF Call, Goto, gate, plan, TypeOK, PcValues

LEMMA NextTypeOK ==
  ASSUME TypeOK, [Next]_vars
  PROVE  TypeOK'
<1>1. CASE UNCHANGED vars
  BY <1>1 DEF vars, gate, plan, TypeOK
<1> QED BY <1>1, StepTypeOK, CallTypeOK DEF Next

\* Every variable keeps its type, for any number of threads and subgraphs.
THEOREM TypeCorrect == Spec => []TypeOK
<1>1. TypeOK /\ [Next]_vars => TypeOK'
  BY NextTypeOK
<1> QED BY InitTypeOK, <1>1, PTL DEF Spec

-----------------------------------------------------------------------------
(* The run gate. *)

LEMMA InitGate == Init => GateInv
  BY DEF Init, GateInv, Running

\* A step that leaves the gate alone and stays inside the call.
LEMMA InsideKeepsGate ==
  ASSUME TypeOK, GateInv, NEW t \in Thread, pc[t] \in Running,
         NEW to \in Running, pc' = [pc EXCEPT ![t] = to],
         UNCHANGED <<owner, serial, call>>
  PROVE  GateInv'
  BY DEF TypeOK, GateInv, PcValues, Running

LEMMA ReturnKeepsGate ==
  ASSUME TypeOK, GateInv, NEW t \in Thread, NEW from, NEW st, Return(t, from, st)
  PROVE  GateInv'
<1> USE DEF TypeOK, GateInv, PcValues, Running
<1> DEFINE g == call[t].g
<1>1. /\ g \in Subgraph /\ pc' = [pc EXCEPT ![t] = "idle"] /\ UNCHANGED <<owner, call>>
      /\ \A h \in Subgraph : h # g => serial'[h] = serial[h]
      /\ serial'[g] = IF serial[g] = t THEN NoThread ELSE serial[g]
  BY DEF Return, Goto
<1>2. ASSUME NEW u \in Thread, pc'[u] \in Running
      PROVE  owner'[call'[u].g] = u /\ serial'[call'[u].g] = u
  <2>1. u # t /\ pc[u] \in Running
    BY <1>1, <1>2
  <2> QED BY <1>1, <2>1
<1>3. ASSUME NEW u \in Thread, pc'[u] = "serial"
      PROVE  owner'[call'[u].g] = u
  BY <1>1, <1>3
<1>4. ASSUME NEW h \in Subgraph, serial'[h] # NoThread
      PROVE  pc'[serial'[h]] \in Running /\ call'[serial'[h]].g = h
  <2>1. serial'[h] = serial[h] /\ serial[h] # t
    BY <1>1, <1>4
  <2>2. serial[h] \in Thread
    BY <1>4, <2>1
  <2> QED BY <1>1, <1>4, <2>1, <2>2
<1> HIDE DEF g
<1> QED BY <1>2, <1>3, <1>4

LEMMA StepGate ==
  ASSUME TypeOK, GateInv, NEW t \in Thread, Step(t)
  PROVE  GateInv'
<1>1. CASE Enter(t)
  <2>1. /\ pc[t] = "gate" /\ pc' = [pc EXCEPT ![t] = "serial"] /\ UNCHANGED <<serial, call>>
        /\ owner[call[t].g] \in {NoThread, t} /\ owner' = [owner EXCEPT ![call[t].g] = t]
    BY <1>1 DEF Enter, Goto
  <2> QED BY <2>1, NoThreadAssumption DEF TypeOK, GateInv, PcValues, Running
<1>2. CASE AcquireSerial(t)
  <2>1. /\ pc[t] = "serial" /\ pc' = [pc EXCEPT ![t] = "route"] /\ UNCHANGED <<owner, call>>
        /\ serial[call[t].g] = NoThread /\ serial' = [serial EXCEPT ![call[t].g] = t]
    BY <1>2 DEF AcquireSerial, Goto
  <2> QED BY <2>1, NoThreadAssumption DEF TypeOK, GateInv, PcValues, Running
<1>3. ASSUME NEW from, NEW st, Return(t, from, st) PROVE GateInv'
  BY <1>3, ReturnKeepsGate
<1>4. ASSUME pc[t] \in Running, NEW to \in Running, pc' = [pc EXCEPT ![t] = to],
             UNCHANGED <<owner, serial, call>>
      PROVE  GateInv'
  BY <1>4, InsideKeepsGate
<1> USE DEF Goto, gate, Running
<1>5. CASE Reject(t) \/ CopyOut(t) \/ EndEager(t) \/ EagerPanics(t) \/ EndEmptyEager(t)
  BY <1>3, <1>5 DEF Reject, CopyOut, EndEager, EagerPanics, EndEmptyEager
<1>6. CASE Gather(t)
  BY <1>3, <1>4, <1>6 DEF Gather
<1>7. CASE Route(t) \/ SkipSlot(t) \/ Build(t) \/ Replay(t)
  BY <1>4, <1>7 DEF Route, SkipSlot, Build, Replay, Decline
<1>8. CASE StartTrace(t) \/ EndTrace(t) \/ TraceFails(t) \/ StartEager(t)
  BY <1>4, <1>8 DEF StartTrace, EndTrace, TraceFails, StartEager
<1>9. CASE TracePanics(t) \/ EmptyTraceFails(t) \/ EvalFails(t)
  BY <1>4, <1>9 DEF TracePanics, EmptyTraceFails, EvalFails, Decline
<1> QED BY <1>1, <1>2, <1>5, <1>6, <1>7, <1>8, <1>9 DEF Step

LEMMA CallGate ==
  ASSUME TypeOK, GateInv, NEW t \in Thread, NEW g \in Subgraph, NEW seq \in SeqLens,
         Call(t, g, seq)
  PROVE  GateInv'
<1>1. /\ pc[t] = "idle" /\ pc' = [pc EXCEPT ![t] = "gate"] /\ UNCHANGED <<owner, serial>>
      /\ call' = [call EXCEPT ![t] = [g |-> g, seq |-> seq]]
  BY DEF Call, Goto, gate
<1> QED BY <1>1 DEF TypeOK, GateInv, PcValues, Running

LEMMA NextGate ==
  ASSUME TypeOK, GateInv, [Next]_vars
  PROVE  GateInv'
<1>1. CASE UNCHANGED vars
  BY <1>1 DEF vars, gate, GateInv
<1> QED BY <1>1, StepGate, CallGate DEF Next

LEMMA GateHolds == Spec => [](TypeOK /\ GateInv)
<1>1. TypeOK /\ GateInv /\ [Next]_vars => TypeOK' /\ GateInv'
  BY NextGate, NextTypeOK
<1> QED BY InitTypeOK, InitGate, <1>1, PTL DEF Spec

\* Whatever the number of threads and subgraphs, only the owner of a subgraph
\* reaches its plan, and it holds the serial lock (runtime.rs:132-157): the raw
\* plan pointer of the trace thunk has one user.
THEOREM PlanExclusive == Spec => []PlanOwnedAndExclusive
<1>1. TypeOK /\ GateInv => PlanOwnedAndExclusive
  BY DEF TypeOK, GateInv, PlanOwnedAndExclusive, InPlan, PcValues, Running
<1> QED BY GateHolds, <1>1, PTL

\* A thread that passes the ownership test always finds the serial lock free,
\* so no Compute call waits for another one.
THEOREM NeverContended == Spec => []SerialUncontended
<1>1. ASSUME TypeOK, GateInv PROVE SerialUncontended
  <2>1. SUFFICES ASSUME NEW t \in Thread, pc[t] = "serial", serial[call[t].g] # NoThread
                 PROVE  FALSE
    BY DEF SerialUncontended
  <2>2. call[t].g \in Subgraph /\ serial[call[t].g] \in Thread
    BY <1>1, <2>1 DEF TypeOK
  <2> DEFINE u == serial[call[t].g]
  <2>3. pc[u] \in Running /\ call[u].g = call[t].g
    BY <1>1, <2>1, <2>2 DEF GateInv
  <2>4. owner[call[t].g] = u /\ owner[call[t].g] = t
    BY <1>1, <2>1, <2>2, <2>3 DEF GateInv
  <2> QED BY <2>1, <2>3, <2>4 DEF Running
<1> QED BY GateHolds, <1>1, PTL

-----------------------------------------------------------------------------
(* The node list and the outputs. *)

LEMMA InitNodes == Init => NodesInv /\ OkMeansWritten
  BY DEF Init, NodesInv, OkMeansWritten, Running

\* Two running calls are on different subgraphs.
LEMMA RunningApart ==
  ASSUME TypeOK, GateInv, NEW t \in Thread, NEW u \in Thread, t # u,
         pc[t] \in Running, pc[u] \in Running
  PROVE  call[t].g # call[u].g
  BY DEF GateInv

\* A running call disturbs NodesInv for its own subgraph only.
LEMMA OnlyOwnNodes ==
  ASSUME TypeOK, GateInv, NodesInv, NEW t \in Thread, pc[t] \in Running, call' = call,
         \A u \in Thread : u # t => pc'[u] = pc[u],
         \A h \in Subgraph : h # call[t].g =>
           nodes'[h] = nodes[h] /\ panicked'[h] = panicked[h] /\ serial'[h] = serial[h],
         pc'[t] \in Running /\ ~panicked'[call[t].g] =>
           /\ pc'[t] \notin {"emptytrace", "emptyeager"}
           /\ pc'[t] \notin {"trace", "eager"} => nodes'[call[t].g],
         serial'[call[t].g] = NoThread /\ ~panicked'[call[t].g] => nodes'[call[t].g]
  PROVE  NodesInv'
<1>1. ASSUME NEW u \in Thread, pc'[u] \in Running, ~panicked'[call'[u].g]
      PROVE  /\ pc'[u] \notin {"emptytrace", "emptyeager"}
             /\ pc'[u] \notin {"trace", "eager"} => nodes'[call'[u].g]
  <2>1. CASE u = t
    BY <1>1, <2>1
  <2>2. CASE u # t
    <3>1. pc[u] \in Running /\ call[u].g # call[t].g /\ call[u].g \in Subgraph
      BY <1>1, <2>2, RunningApart DEF TypeOK
    <3>2. ~panicked[call[u].g]
      BY <1>1, <3>1
    <3> QED BY <1>1, <2>2, <3>1, <3>2 DEF NodesInv
  <2> QED BY <2>1, <2>2
<1>2. ASSUME NEW h \in Subgraph, serial'[h] = NoThread, ~panicked'[h] PROVE nodes'[h]
  BY <1>2 DEF NodesInv
<1> QED BY <1>1, <1>2 DEF NodesInv

LEMMA StepNodes ==
  ASSUME TypeOK, GateInv, NodesInv, NEW t \in Thread, Step(t)
  PROVE  NodesInv'
<1> DEFINE g == call[t].g
<1> USE DEF Goto, gate, plan
<1>g. g \in Subgraph
  BY DEF TypeOK
<1>s. pc[t] \in Running => serial[g] = t
  BY DEF GateInv
<1>n. pc[t] \in Running /\ ~panicked[g] =>
        /\ pc[t] \notin {"emptytrace", "emptyeager"}
        /\ pc[t] \notin {"trace", "eager"} => nodes[g]
  BY DEF NodesInv
<1>1. CASE Enter(t) \/ AcquireSerial(t)
  <2>1. /\ UNCHANGED <<call, nodes, panicked>> /\ pc[t] \notin Running
        /\ \A u \in Thread : u # t => pc'[u] = pc[u]
        /\ \A h \in Subgraph : serial'[h] = NoThread => serial[h] = NoThread
    BY <1>1, <1>g, NoThreadAssumption DEF Enter, AcquireSerial, TypeOK, Running
  <2>2. pc'[t] \in Running => pc'[t] = "route" /\ serial[g] = NoThread
    BY <1>1 DEF Enter, AcquireSerial, TypeOK, Running
  <2> QED BY <1>g, <2>1, <2>2 DEF NodesInv
<1>2. CASE Reject(t)
  <2>1. serial[g] # t
    BY <1>2, <1>g, NoThreadAssumption DEF Reject, Return, GateInv, Running
  <2>2. /\ UNCHANGED <<call, nodes, panicked>> /\ serial' = serial
        /\ pc' = [pc EXCEPT ![t] = "idle"]
    BY <1>2, <2>1, <1>g DEF Reject, Return, TypeOK
  <2> QED BY <2>2 DEF NodesInv, TypeOK, Running
<1>3. ASSUME pc[t] \in Running, pc[t] \notin {"trace", "eager"}, UNCHANGED <<nodes, panicked, call>>,
             NEW from, NEW st, Return(t, from, st)
      PROVE  NodesInv'
  <2>1. /\ pc'[t] = "idle" /\ \A u \in Thread : u # t => pc'[u] = pc[u]
        /\ \A h \in Subgraph : h # g => serial'[h] = serial[h]
    BY <1>3 DEF Return, TypeOK
  <2> QED BY <1>3, <1>n, <2>1, OnlyOwnNodes DEF Running
<1>4. ASSUME pc[t] \in Running, pc[t] \notin {"trace", "eager"}, UNCHANGED <<nodes, panicked, call, serial>>,
             NEW to \in {"slot", "apply", "eval"}, pc' = [pc EXCEPT ![t] = to]
      PROVE  NodesInv'
  <2>1. pc'[t] = to /\ \A u \in Thread : u # t => pc'[u] = pc[u]
    BY <1>4 DEF TypeOK
  <2> QED BY <1>4, <1>n, <2>1, OnlyOwnNodes
<1>5. CASE Route(t) \/ SkipSlot(t) \/ Build(t) \/ Replay(t)
  BY <1>4, <1>5 DEF Route, SkipSlot, Build, Replay, Decline, Running
<1>6. CASE EmptyTraceFails(t) \/ EvalFails(t)
  BY <1>4, <1>6 DEF EmptyTraceFails, EvalFails, Decline, Running
<1>7. CASE Gather(t)
  BY <1>3, <1>4, <1>7 DEF Gather, Return, Running
<1>8. CASE CopyOut(t) \/ EndEmptyEager(t)
  BY <1>3, <1>8 DEF CopyOut, EndEmptyEager, Return, Running
<1>9. CASE StartTrace(t) \/ StartEager(t)
  <2>1. /\ pc[t] \in {"apply", "slot"} /\ UNCHANGED <<call, panicked, serial>>
        /\ \A u \in Thread : u # t => pc'[u] = pc[u]
        /\ \A h \in Subgraph : h # g => nodes'[h] = nodes[h]
        /\ nodes[g] => pc'[t] \in {"trace", "eager"}
    BY <1>9 DEF StartTrace, StartEager, TypeOK
  <2> QED BY <1>g, <1>s, <1>n, <2>1, OnlyOwnNodes, NoThreadAssumption DEF Running
<1>10. CASE EndTrace(t) \/ TraceFails(t) \/ EndEager(t)
  <2>1. /\ pc[t] \in {"trace", "eager"} /\ UNCHANGED <<call, panicked>> /\ nodes'[g]
        /\ \A u \in Thread : u # t => pc'[u] = pc[u]
        /\ \A h \in Subgraph : h # g => nodes'[h] = nodes[h] /\ serial'[h] = serial[h]
        /\ pc'[t] \in {"eval", "slot", "idle"}
    BY <1>10, <1>g DEF EndTrace, TraceFails, EndEager, Return, TypeOK
  <2> QED BY <2>1, OnlyOwnNodes DEF Running
<1>11. CASE TracePanics(t) \/ EagerPanics(t)
  <2>1. /\ pc[t] \in {"trace", "eager"} /\ UNCHANGED <<call, nodes>> /\ panicked'[g]
        /\ \A u \in Thread : u # t => pc'[u] = pc[u]
        /\ \A h \in Subgraph : h # g => panicked'[h] = panicked[h] /\ serial'[h] = serial[h]
    BY <1>11, <1>g DEF TracePanics, EagerPanics, Decline, Return, TypeOK
  <2> QED BY <2>1, OnlyOwnNodes DEF Running
<1> QED BY <1>1, <1>2, <1>5, <1>6, <1>7, <1>8, <1>9, <1>10, <1>11 DEF Step

LEMMA StepWritten ==
  ASSUME TypeOK, GateInv, NodesInv, OkMeansWritten, NEW t \in Thread, Step(t)
  PROVE  OkMeansWritten'
<1> USE DEF Goto, gate, plan
<1>g. call[t].g \in Subgraph
  BY DEF TypeOK
<1>1. /\ call' = call
      /\ \A u \in Thread : u # t => pc'[u] = pc[u] /\ status'[u] = status[u] /\ wrote'[u] = wrote[u]
      /\ \A h \in Subgraph : panicked[h] => panicked'[h]
  <2> USE DEF TypeOK
  <2>1. CASE Enter(t) \/ Reject(t) \/ AcquireSerial(t) \/ Route(t) \/ SkipSlot(t)
    BY <2>1 DEF Enter, Reject, AcquireSerial, Route, SkipSlot, Decline, Return
  <2>2. CASE Build(t) \/ Gather(t) \/ Replay(t) \/ StartTrace(t) \/ EndTrace(t) \/ TraceFails(t)
    BY <2>2 DEF Build, Gather, Replay, StartTrace, EndTrace, TraceFails, Decline, Return
  <2>3. CASE TracePanics(t) \/ EmptyTraceFails(t) \/ EvalFails(t) \/ CopyOut(t) \/ StartEager(t)
    BY <2>3, <1>g DEF TracePanics, EmptyTraceFails, EvalFails, CopyOut, StartEager, Decline, Return
  <2>4. CASE EndEager(t) \/ EagerPanics(t) \/ EndEmptyEager(t)
    BY <2>4, <1>g DEF EndEager, EagerPanics, EndEmptyEager, Return
  <2> QED BY <2>1, <2>2, <2>3, <2>4 DEF Step
<1>2. pc'[t] = "idle" /\ status'[t] = "ok" /\ ~panicked'[call[t].g] => wrote'[t] = "all"
  <2> USE DEF TypeOK
  <2>1. CASE Enter(t) \/ AcquireSerial(t) \/ Route(t) \/ SkipSlot(t) \/ Build(t) \/ Replay(t)
    BY <2>1 DEF Enter, AcquireSerial, Route, SkipSlot, Build, Replay, Decline
  <2>2. CASE StartTrace(t) \/ EndTrace(t) \/ TraceFails(t) \/ StartEager(t)
    BY <2>2 DEF StartTrace, EndTrace, TraceFails, StartEager
  <2>3. CASE TracePanics(t) \/ EmptyTraceFails(t) \/ EvalFails(t)
    BY <2>3 DEF TracePanics, EmptyTraceFails, EvalFails, Decline
  <2>4. CASE Reject(t) \/ Gather(t) \/ EagerPanics(t)
    BY <2>4 DEF Reject, Gather, EagerPanics, Return
  <2>5. CASE CopyOut(t) \/ EndEager(t)
    BY <2>5 DEF CopyOut, EndEager, Return
  <2>6. CASE EndEmptyEager(t)
    <3>1. pc[t] = "emptyeager" /\ panicked' = panicked
      BY <2>6 DEF EndEmptyEager, Return
    <3> QED BY <3>1 DEF NodesInv, Running
  <2> QED BY <2>1, <2>2, <2>3, <2>4, <2>5, <2>6 DEF Step
<1>3. SUFFICES ASSUME NEW u \in Thread, pc'[u] = "idle", status'[u] = "ok", ~panicked'[call'[u].g]
               PROVE  wrote'[u] = "all"
  BY DEF OkMeansWritten
<1>4. CASE u = t
  BY <1>1, <1>2, <1>3, <1>4
<1>5. CASE u # t
  <2>1. ~panicked[call[u].g]
    BY <1>1, <1>3 DEF TypeOK
  <2> QED BY <1>1, <1>3, <1>5, <2>1 DEF OkMeansWritten
<1> QED BY <1>4, <1>5

LEMMA NextWritten ==
  ASSUME TypeOK, GateInv, NodesInv, OkMeansWritten, [Next]_vars
  PROVE  NodesInv' /\ OkMeansWritten'
<1>1. CASE UNCHANGED vars
  BY <1>1 DEF vars, gate, plan, NodesInv, OkMeansWritten
<1>2. ASSUME NEW t \in Thread, Step(t) PROVE NodesInv' /\ OkMeansWritten'
  BY <1>2, StepNodes, StepWritten
<1>3. ASSUME NEW t \in Thread, NEW g \in Subgraph, NEW seq \in SeqLens, Call(t, g, seq)
      PROVE  NodesInv' /\ OkMeansWritten'
  <2>1. /\ pc' = [pc EXCEPT ![t] = "gate"] /\ UNCHANGED <<nodes, panicked, serial, status>>
        /\ wrote' = [wrote EXCEPT ![t] = "none"]
        /\ call' = [call EXCEPT ![t] = [g |-> g, seq |-> seq]]
    BY <1>3 DEF Call, Goto, gate, plan
  <2> QED BY <2>1 DEF TypeOK, NodesInv, OkMeansWritten, Running
<1> QED BY <1>1, <1>2, <1>3 DEF Next

LEMMA NodesHold == Spec => [](TypeOK /\ GateInv /\ NodesInv /\ OkMeansWritten)
<1>1. TypeOK /\ GateInv /\ NodesInv /\ OkMeansWritten /\ [Next]_vars
      => TypeOK' /\ GateInv' /\ NodesInv' /\ OkMeansWritten'
  BY NextTypeOK, NextGate, NextWritten
<1> QED BY InitTypeOK, InitGate, InitNodes, <1>1, PTL DEF Spec

\* For every number of threads and subgraphs, and whatever fails, a subgraph no
\* handler of which panicked has its node list back when no call is running on
\* it (the restores of execute and run_trace, engine.rs).
THEOREM NodesComeBack == Spec => []PlanIntact
<1>1. NodesInv => PlanIntact
  BY DEF NodesInv, PlanIntact
<1> QED BY NodesHold, <1>1, PTL

\* A call answers OK only with all its outputs written, until a panic.
THEOREM OkIsWritten == Spec => []OkMeansWritten
BY NodesHold, PTL

-----------------------------------------------------------------------------
(* The life of a compiled slot. *)

LEMMA SlotStays ==
  ASSUME NEW u, todo'[u] = todo[u]
  PROVE  Slot(u)' = Slot(u)
  BY DEF Slot

LEMMA SlotInTodo ==
  ASSUME TypeOK, NEW t \in Thread, todo[t] # {}
  PROVE  Slot(t) \in Slots
<1>1. \E s \in todo[t] : s = "General" => todo[t] = {"General"}
  OBVIOUS
<1>2. Slot(t) \in todo[t]
  BY <1>1 DEF Slot
<1> QED BY <1>2 DEF TypeOK

\* A step of t leaves every other thread's slot alone.
LEMMA OthersSlots ==
  ASSUME TypeOK, GateInv, SlotInv, NEW t \in Thread, pc[t] \in Running, call' = call,
         \A u \in Thread : u # t => pc'[u] = pc[u] /\ todo'[u] = todo[u],
         \A h \in Subgraph : h # call[t].g => slot'[h] = slot[h],
         pc'[t] \in Applying => todo'[t] # {} /\ State(t)' \in {"compiled", "traced"}
  PROVE  SlotInv'
<1>1. SUFFICES ASSUME NEW u \in Thread, u # t, pc'[u] \in Applying
               PROVE  todo'[u] # {} /\ State(u)' \in {"compiled", "traced"}
  BY DEF SlotInv
<1>2. pc[u] = pc'[u] /\ call[u].g # call[t].g /\ call[u].g \in Subgraph
  BY <1>1, RunningApart DEF TypeOK, Running, Applying
<1>3. State(u)' = State(u)
  BY <1>1, <1>2, SlotStays DEF State
<1> QED BY <1>1, <1>2, <1>3 DEF SlotInv

LEMMA StepSlots ==
  ASSUME TypeOK, GateInv, SlotInv, NEW t \in Thread, Step(t)
  PROVE  SlotInv'
<1> DEFINE g == call[t].g
<1> USE DEF Goto, gate, plan
<1>g. g \in Subgraph
  BY DEF TypeOK
<1>1. CASE Enter(t) \/ AcquireSerial(t) \/ Reject(t)
  <2>1. /\ UNCHANGED <<call, slot>> /\ pc'[t] \notin Applying
        /\ \A u \in Thread : u # t => pc'[u] = pc[u] /\ todo'[u] = todo[u]
    BY <1>1 DEF Enter, AcquireSerial, Reject, Return, TypeOK, Applying
  <2>2. \A u \in Thread : u # t => State(u)' = State(u)
    BY <2>1, SlotStays DEF State
  <2> QED BY <2>1, <2>2 DEF SlotInv
\* Steps to a point where nothing is being applied.
<1>2. ASSUME pc[t] \in Running, call' = call, pc'[t] \notin Applying,
             \A u \in Thread : u # t => pc'[u] = pc[u] /\ todo'[u] = todo[u],
             \A h \in Subgraph : h # g => slot'[h] = slot[h]
      PROVE  SlotInv'
  BY <1>2, OthersSlots
<1>3. CASE Route(t) \/ SkipSlot(t) \/ Build(t) \/ StartEager(t)
  <2> USE DEF TypeOK
  <2> QED BY <1>2, <1>3, <1>g DEF Route, SkipSlot, Build, StartEager, Decline, SetState, Running, Applying
<1>4. CASE TraceFails(t) \/ TracePanics(t) \/ EmptyTraceFails(t) \/ EvalFails(t)
  <2> USE DEF TypeOK
  <2> QED BY <1>2, <1>4, <1>g DEF TraceFails, TracePanics, EmptyTraceFails, EvalFails, Decline,
                                  SetState, Running, Applying
<1>5. CASE CopyOut(t) \/ EndEager(t) \/ EagerPanics(t) \/ EndEmptyEager(t)
  <2> USE DEF TypeOK
  <2> QED BY <1>2, <1>5, <1>g DEF CopyOut, EndEager, EagerPanics, EndEmptyEager, Return, Running,
                                  Applying
\* Steps that go on with the closure of the same slot.
<1>6. ASSUME pc[t] \in Running, UNCHANGED <<call, slot, todo>>, NEW to \in Applying,
             pc' = [pc EXCEPT ![t] = to],
             todo[t] # {} /\ State(t) \in {"compiled", "traced"}
      PROVE  SlotInv'
  <2>1. State(t)' = State(t)
    BY <1>6, SlotStays DEF State
  <2>2. \A u \in Thread : u # t => pc'[u] = pc[u] /\ todo'[u] = todo[u]
    BY <1>6 DEF TypeOK
  <2> QED BY <1>6, <2>1, <2>2, OthersSlots
<1>7. CASE Gather(t)
  <2>1. CASE Return(t, "slot", "fail")
    BY <1>2, <1>7, <2>1 DEF Gather, InSlot, Return, TypeOK, Running, Applying
  <2>2. CASE ~Return(t, "slot", "fail")
    BY <1>6, <1>7, <2>2 DEF Gather, InSlot, Running, Applying
  <2> QED BY <2>1, <2>2
<1>8. CASE Replay(t) \/ StartTrace(t)
  <2>1. todo[t] # {} /\ State(t) \in {"compiled", "traced"}
    BY <1>8 DEF Replay, StartTrace, SlotInv, Applying
  <2> QED BY <1>6, <1>8, <2>1 DEF Replay, StartTrace, Running, Applying
<1>9. CASE EndTrace(t)
  <2>1. todo[t] # {} /\ Slot(t) \in Slots
    BY <1>9, SlotInTodo DEF EndTrace, SlotInv, Applying
  <2>2. State(t)' = "traced"
    <3>1. Slot(t)' = Slot(t)
      BY <1>9, SlotStays DEF EndTrace
    <3> QED BY <1>9, <1>g, <2>1, <3>1 DEF EndTrace, SetState, State, TypeOK
  <2>3. /\ \A u \in Thread : u # t => pc'[u] = pc[u] /\ todo'[u] = todo[u]
        /\ \A h \in Subgraph : h # g => slot'[h] = slot[h]
    BY <1>9, <1>g DEF EndTrace, SetState, TypeOK
  <2> QED BY <1>9, <2>1, <2>2, <2>3, OthersSlots DEF EndTrace, Running
<1> QED BY <1>1, <1>3, <1>4, <1>5, <1>7, <1>8, <1>9 DEF Step

LEMMA NextSlots ==
  ASSUME TypeOK, GateInv, SlotInv, [Next]_vars
  PROVE  SlotInv'
<1>1. CASE UNCHANGED vars
  <2>1. \A u \in Thread : State(u)' = State(u)
    BY <1>1, SlotStays DEF vars, plan, State
  <2> QED BY <1>1, <2>1 DEF vars, SlotInv
<1>2. ASSUME NEW t \in Thread, NEW g \in Subgraph, NEW seq \in SeqLens, Call(t, g, seq)
      PROVE  SlotInv'
  <2>1. /\ UNCHANGED <<slot, todo>> /\ pc'[t] = "gate"
        /\ \A u \in Thread : u # t => pc'[u] = pc[u] /\ call'[u] = call[u]
    BY <1>2 DEF Call, Goto, plan, TypeOK
  <2>2. \A u \in Thread : u # t => State(u)' = State(u)
    BY <2>1, SlotStays DEF State
  <2> QED BY <2>1, <2>2 DEF SlotInv, Applying
<1> QED BY <1>1, <1>2, StepSlots DEF Next

LEMMA SlotsHold == Spec => [](TypeOK /\ GateInv /\ SlotInv)
<1>1. Init => SlotInv
  BY DEF Init, SlotInv, Applying
<1>2. TypeOK /\ GateInv /\ SlotInv /\ [Next]_vars => TypeOK' /\ GateInv' /\ SlotInv'
  BY NextTypeOK, NextGate, NextSlots
<1> QED BY InitTypeOK, InitGate, <1>1, <1>2, PTL DEF Spec

\* What a step may do to a slot: the body of SlotNeverRevived.
OneShot ==
  \A g \in Subgraph, s \in Slots :
    /\ slot[g][s] = "off" => slot'[g][s] = "off"
    /\ slot[g][s] = "traced" => slot'[g][s] \in {"traced", "off"}

LEMMA SetStateOneShot ==
  ASSUME TypeOK, NEW t \in Thread, NEW st \in {"compiled", "traced", "off"}, SetState(t, st),
         st = "off" \/ (st = "traced" /\ State(t) \in {"compiled", "traced"})
                  \/ (st = "compiled" /\ State(t) = "untried")
  PROVE  OneShot
<1> SUFFICES ASSUME NEW g \in Subgraph, NEW s \in Slots
             PROVE  /\ slot[g][s] = "off" => slot'[g][s] = "off"
                    /\ slot[g][s] = "traced" => slot'[g][s] \in {"traced", "off"}
  BY DEF OneShot
<1>1. CASE g = call[t].g /\ s = Slot(t)
  BY <1>1 DEF SetState, State, TypeOK
<1>2. CASE ~(g = call[t].g /\ s = Slot(t))
  BY <1>2 DEF SetState, TypeOK
<1> QED BY <1>1, <1>2

LEMMA StepOneShot ==
  ASSUME TypeOK, SlotInv, [Next]_vars
  PROVE  OneShot
<1>1. CASE slot' = slot
  BY <1>1 DEF OneShot
<1>2. ASSUME NEW t \in Thread, EndTrace(t) PROVE OneShot
  BY <1>2, SetStateOneShot DEF EndTrace, Goto, SlotInv, Applying
<1>3. ASSUME NEW t \in Thread, Build(t) PROVE OneShot
  BY <1>3, SetStateOneShot DEF Build
<1>4. ASSUME NEW t \in Thread, TraceFails(t) \/ TracePanics(t) \/ EmptyTraceFails(t) \/ EvalFails(t)
      PROVE  OneShot
  BY <1>4, SetStateOneShot DEF TraceFails, TracePanics, EmptyTraceFails, EvalFails
<1>5. ASSUME NEW t \in Thread, Step(t), ~EndTrace(t), ~Build(t), ~TraceFails(t), ~TracePanics(t),
             ~EmptyTraceFails(t), ~EvalFails(t)
      PROVE  slot' = slot
  BY <1>5 DEF Step, Enter, Reject, AcquireSerial, Route, SkipSlot, Gather, Replay, StartTrace,
              CopyOut, StartEager, EndEager, EagerPanics, EndEmptyEager, plan
<1>6. ASSUME NEW t \in Thread, NEW g \in Subgraph, NEW seq \in SeqLens, Call(t, g, seq)
      PROVE  slot' = slot
  BY <1>6 DEF Call, plan
<1> QED BY <1>1, <1>2, <1>3, <1>4, <1>5, <1>6 DEF Next, vars, plan

\* A slot is one-shot (engine.rs:347): once off it stays off, and a closure MLX
\* has traced is never built again, whoever calls and whatever fails.
THEOREM SlotsAreOneShot == Spec => SlotNeverRevived
<1>1. TypeOK /\ SlotInv /\ [Next]_vars => [OneShot]_vars
  BY StepOneShot
<1>2. Spec => [][OneShot]_vars
  BY SlotsHold, <1>1, PTL DEF Spec
<1> QED BY <1>2 DEF OneShot, SlotNeverRevived

-----------------------------------------------------------------------------
(* Calls are bounded. *)

\* How far a call is from its return: the part of compute_impl it is in, the slots
\* it has still to try, and how far it is with the first of them.
Stage(t) ==
  CASE pc[t] = "gate" -> 5
    [] pc[t] = "serial" -> 4
    [] pc[t] = "route" -> 3
    [] pc[t] \in {"slot"} \cup Applying -> 2
    [] pc[t] \in {"eager", "emptyeager"} -> 1
    [] OTHER -> 0

Untried(t) == Cardinality(todo[t])

Position(t) ==
  CASE pc[t] = "slot" -> IF todo[t] # {} /\ State(t) = "untried" THEN 4 ELSE 3
    [] pc[t] = "apply" -> 2
    [] pc[t] \in {"trace", "emptytrace"} -> 1
    [] OTHER -> 0

Nearer(t) ==
  \/ Stage(t)' < Stage(t)
  \/ Stage(t)' = Stage(t) /\ Untried(t)' < Untried(t)
  \/ Stage(t)' = Stage(t) /\ Untried(t)' = Untried(t) /\ Position(t)' < Position(t)

AsFar(t) ==
  Stage(t)' = Stage(t) /\ Untried(t)' = Untried(t) /\ Position(t)' = Position(t)

\* What a step does to the calls that are running.
CallsAdvance ==
  \A t \in Thread : pc[t] # "idle" => /\ Step(t) => Nearer(t)
                                      /\ Nearer(t) \/ AsFar(t)

DistancesBounded ==
  \A t \in Thread : Stage(t) \in Nat /\ Untried(t) \in Nat /\ Position(t) \in Nat

LEMMA TodoFinite ==
  ASSUME TypeOK, NEW t \in Thread
  PROVE  IsFiniteSet(todo[t]) /\ Untried(t) \in Nat
<1>1. IsFiniteSet(Slots)
  <2>1. Slots = (({} \cup {"Decode"}) \cup {"Prefill"}) \cup {"General"}
    BY DEF Slots
  <2> QED BY <2>1, FS_EmptySet, FS_AddElement
<1>2. todo[t] \in SUBSET Slots
  BY DEF TypeOK
<1> QED BY <1>1, <1>2, FS_Subset, FS_CardinalityType DEF Untried

LEMMA DistanceTyped == TypeOK => DistancesBounded
  BY TodoFinite DEF DistancesBounded, Stage, Position

LEMMA SlotTodo ==
  ASSUME NEW t \in Thread, todo[t] # {}
  PROVE  Slot(t) \in todo[t]
<1>1. \E s \in todo[t] : s = "General" => todo[t] = {"General"}
  OBVIOUS
<1> QED BY <1>1 DEF Slot

\* Giving up a slot leaves one fewer.
LEMMA DeclineNearer ==
  ASSUME TypeOK, NEW t \in Thread, pc[t] \in {"slot"} \cup Applying, todo[t] # {},
         pc'[t] = "slot", todo' = [todo EXCEPT ![t] = @ \ {Slot(t)}]
  PROVE  Nearer(t)
<1>1. Slot(t) \in todo[t] /\ IsFiniteSet(todo[t]) /\ Untried(t) \in Nat
  BY SlotTodo, TodoFinite
<1>2. todo'[t] = todo[t] \ {Slot(t)}
  BY DEF TypeOK
<1>3. Untried(t)' = Untried(t) - 1
  BY <1>1, <1>2, FS_RemoveElement DEF Untried
<1>4. Stage(t)' = Stage(t)
  BY DEF Stage, Applying
<1> QED BY <1>1, <1>3, <1>4 DEF Nearer

LEMMA StepNearer ==
  ASSUME TypeOK, SlotInv, NEW t \in Thread, Step(t)
  PROVE  Nearer(t)
<1> USE DEF Goto, gate, plan
<1>g. call[t].g \in Subgraph /\ Untried(t) \in Nat
  BY TodoFinite DEF TypeOK
<1>1. ASSUME pc[t] # "idle", pc'[t] = "idle" PROVE Nearer(t)
  BY <1>1 DEF Nearer, Stage, Applying, TypeOK, PcValues
<1>2. CASE Enter(t) \/ AcquireSerial(t) \/ Route(t) \/ StartEager(t)
  <2> USE DEF TypeOK
  <2> QED BY <1>2 DEF Enter, AcquireSerial, Route, StartEager, Nearer, Stage, Applying
<1>3. CASE Reject(t) \/ CopyOut(t) \/ EndEager(t) \/ EagerPanics(t) \/ EndEmptyEager(t)
  <2>1. pc[t] # "idle" /\ pc'[t] = "idle"
    BY <1>3 DEF Reject, CopyOut, EndEager, EagerPanics, EndEmptyEager, Return, TypeOK
  <2> QED BY <1>1, <2>1
<1>4. CASE SkipSlot(t)
  BY <1>4, DeclineNearer DEF SkipSlot, InSlot, Decline, TypeOK
<1>5. CASE TraceFails(t) \/ TracePanics(t) \/ EmptyTraceFails(t) \/ EvalFails(t)
  <2>1. pc[t] \in Applying /\ pc'[t] = "slot" /\ todo' = [todo EXCEPT ![t] = @ \ {Slot(t)}]
    BY <1>5 DEF TraceFails, TracePanics, EmptyTraceFails, EvalFails, Decline, Applying, TypeOK
  <2>2. todo[t] # {}
    BY <2>1 DEF SlotInv
  <2> QED BY <2>1, <2>2, DeclineNearer
<1>6. ASSUME pc[t] \in {"slot"} \cup Applying, pc'[t] \in {"slot"} \cup Applying, todo'[t] = todo[t],
             Position(t)' < Position(t)
      PROVE  Nearer(t)
  <2>1. Stage(t)' = Stage(t) /\ Untried(t)' = Untried(t)
    BY <1>6 DEF Stage, Untried, Applying
  <2> QED BY <1>6, <2>1 DEF Nearer
<1>7. CASE Build(t)
  <2>1. CASE Decline(t, "slot")
    BY <1>7, <2>1, DeclineNearer DEF Build, InSlot, Decline, TypeOK
  <2>2. CASE ~Decline(t, "slot")
    <3>1. /\ pc[t] = "slot" /\ pc'[t] = "slot" /\ todo' = todo
          /\ State(t) = "untried" /\ SetState(t, "compiled") /\ todo[t] # {}
      BY <1>7, <2>2 DEF Build, InSlot, TypeOK
    <3>2. Slot(t) \in Slots /\ Slot(t)' = Slot(t)
      BY <3>1, SlotInTodo, SlotStays
    <3>3. State(t)' = "compiled"
      <4>1. call' = call
        BY <1>7, <2>2 DEF Build
      <4> QED BY <1>g, <3>1, <3>2, <4>1 DEF SetState, State, TypeOK
    <3>4. Position(t)' = 3 /\ Position(t) = 4
      BY <3>1, <3>3 DEF Position
    <3> QED BY <1>6, <3>1, <3>4
  <2> QED BY <2>1, <2>2
<1>8. CASE Gather(t)
  <2>1. CASE Return(t, "slot", "fail")
    <3>1. pc[t] # "idle" /\ pc'[t] = "idle"
      BY <2>1 DEF Return, TypeOK
    <3> QED BY <1>1, <3>1
  <2>2. CASE ~Return(t, "slot", "fail")
    <3>1. pc[t] = "slot" /\ pc'[t] = "apply" /\ todo' = todo /\ State(t) # "untried"
      BY <1>8, <2>2 DEF Gather, InSlot, TypeOK
    <3>2. Position(t)' = 2 /\ Position(t) = 3
      BY <3>1 DEF Position
    <3> QED BY <1>6, <3>1, <3>2 DEF Applying
  <2> QED BY <2>1, <2>2
<1>9. CASE Replay(t) \/ StartTrace(t) \/ EndTrace(t)
  <2>1. /\ todo' = todo
        /\ \/ pc[t] = "apply" /\ pc'[t] \in {"eval", "trace", "emptytrace"}
           \/ pc[t] = "trace" /\ pc'[t] = "eval"
    BY <1>9 DEF Replay, StartTrace, EndTrace, TypeOK
  <2>2. Position(t)' < Position(t)
    BY <2>1 DEF Position
  <2> QED BY <1>6, <2>1, <2>2 DEF Applying
<1> QED BY <1>2, <1>3, <1>4, <1>5, <1>7, <1>8, <1>9 DEF Step

\* A step touches the slots of its own subgraph, and only when it holds the lock.
LEMMA StepTouchesOwn ==
  ASSUME TypeOK, NEW t \in Thread, Step(t)
  PROVE  /\ call' = call
         /\ \A u \in Thread : u # t => pc'[u] = pc[u] /\ todo'[u] = todo[u]
         /\ \A h \in Subgraph : h # call[t].g => slot'[h] = slot[h]
         /\ pc[t] \notin Running => slot' = slot
<1> USE DEF Goto, gate, plan, TypeOK
<1>1. CASE Enter(t) \/ Reject(t) \/ AcquireSerial(t) \/ Route(t) \/ Replay(t) \/ StartTrace(t)
  BY <1>1 DEF Enter, Reject, AcquireSerial, Route, Replay, StartTrace, Return
<1>2. CASE SkipSlot(t) \/ Build(t)
  BY <1>2 DEF SkipSlot, Build, InSlot, Decline, SetState, Running
<1>3. CASE Gather(t) \/ EndTrace(t) \/ TraceFails(t)
  BY <1>3 DEF Gather, EndTrace, TraceFails, SetState, Return, Running
<1>4. CASE TracePanics(t) \/ EmptyTraceFails(t) \/ EvalFails(t)
  BY <1>4 DEF TracePanics, EmptyTraceFails, EvalFails, Decline, SetState, Running
<1>5. CASE CopyOut(t) \/ StartEager(t) \/ EndEager(t) \/ EagerPanics(t) \/ EndEmptyEager(t)
  BY <1>5 DEF CopyOut, StartEager, EndEager, EagerPanics, EndEmptyEager, Return
<1> QED BY <1>1, <1>2, <1>3, <1>4, <1>5 DEF Step

\* What others do leaves a call as far from its return as it was.
LEMMA OthersAsFar ==
  ASSUME NEW u \in Thread, pc'[u] = pc[u], todo'[u] = todo[u],
         pc[u] = "slot" => State(u)' = State(u)
  PROVE  AsFar(u)
  BY DEF AsFar, Stage, Untried, Position

LEMMA NextCallsAdvance ==
  ASSUME TypeOK, GateInv, SlotInv, Next
  PROVE  CallsAdvance
<1>1. SUFFICES ASSUME NEW u \in Thread, pc[u] # "idle" PROVE Nearer(u) \/ AsFar(u)
  BY StepNearer DEF CallsAdvance
<1>2. ASSUME NEW t \in Thread, Step(t) PROVE Nearer(u) \/ AsFar(u)
  <2>1. CASE u = t
    BY <1>2, <2>1, StepNearer
  <2>2. CASE u # t
    <3>1. ASSUME pc[u] = "slot" PROVE State(u)' = State(u)
      <4>1. Slot(u)' = Slot(u) /\ call'[u] = call[u]
        BY <1>2, <2>2, SlotStays, StepTouchesOwn
      <4>2. slot'[call[u].g] = slot[call[u].g]
        <5>1. CASE pc[t] \in Running
          <6>1. call[u].g # call[t].g /\ call[u].g \in Subgraph
            BY <2>2, <3>1, <5>1, RunningApart DEF TypeOK, Running
          <6> QED BY <1>2, <6>1, StepTouchesOwn
        <5>2. CASE pc[t] \notin Running
          BY <1>2, <5>2, StepTouchesOwn
        <5> QED BY <5>1, <5>2
      <4> QED BY <4>1, <4>2 DEF State
    <3> QED BY <1>2, <2>2, <3>1, StepTouchesOwn, OthersAsFar
  <2> QED BY <2>1, <2>2
<1>3. ASSUME NEW t \in Thread, NEW g \in Subgraph, NEW seq \in SeqLens, Call(t, g, seq)
      PROVE  Nearer(u) \/ AsFar(u)
  <2>1. u # t /\ pc'[u] = pc[u] /\ call'[u] = call[u] /\ UNCHANGED <<todo, slot>>
    BY <1>1, <1>3 DEF Call, Goto, plan, TypeOK
  <2>2. State(u)' = State(u)
    BY <2>1, SlotStays DEF State
  <2> QED BY <2>1, <2>2, OthersAsFar
<1> QED BY <1>2, <1>3 DEF Next

\* Every Compute call comes back after boundedly many steps of its own: each lowers a
\* triple of natural numbers, which no step of another thread raises, even one
\* that switches off or traces a slot (compute_impl, runtime.rs; try_compiled,
\* compiled.rs).  With SerialUncontended no step waits, and with the fairness of
\* Spec that is CallReturns, for any number of threads and subgraphs.
THEOREM CallsAreBounded == Spec => []DistancesBounded /\ [][CallsAdvance]_vars
<1>1. TypeOK /\ GateInv /\ SlotInv /\ [Next]_vars => [CallsAdvance]_vars
  BY NextCallsAdvance
<1> QED BY SlotsHold, DistanceTyped, <1>1, PTL DEF Spec

-----------------------------------------------------------------------------
(* Compute implements the safety part of ComputeContract. *)

Target == [t \in Thread |-> call[t].g]
Done == [t \in Thread |-> IF pc[t] = "idle" THEN status[t] ELSE "busy"]

NeverPanicked == \A g \in Subgraph : panicked[g] = FALSE

LEMMA InitImplements == Init => Contract!Init
  BY SubgraphAssumption DEF Init, Contract!Init

LEMMA NextNeverPanicked ==
  ASSUME MayPanic = {}, TypeOK, NeverPanicked, [Next]_vars
  PROVE  NeverPanicked'
<1>1. panicked' = panicked
  <2>1. CASE UNCHANGED vars
    BY <2>1 DEF vars
  <2>2. ASSUME NEW t \in Thread, NEW g \in Subgraph, NEW seq \in SeqLens, Call(t, g, seq)
        PROVE  panicked' = panicked
    BY <2>2 DEF Call
  <2>3. ASSUME NEW t \in Thread, Step(t) PROVE panicked' = panicked
    BY <2>3 DEF Step, Enter, Reject, AcquireSerial, Route, SkipSlot, Build, Gather, Replay,
                StartTrace, EndTrace, TraceFails, TracePanics, EmptyTraceFails, EvalFails,
                CopyOut, StartEager, EndEager, EagerPanics, EndEmptyEager
  <2> QED BY <2>1, <2>2, <2>3 DEF Next
<1> QED BY <1>1 DEF NeverPanicked

\* A step of a call that neither enters nor returns is invisible.
LEMMA InsideStutters ==
  ASSUME TypeOK, NEW t \in Thread, NEW from, from # "idle", NEW to, to # "idle",
         pc[t] = from, pc' = [pc EXCEPT ![t] = to],
         UNCHANGED <<owner, serial, call, wrote, status>>
  PROVE  UNCHANGED Contract!vars
<1>1. Done' = Done
  BY DEF Done, TypeOK
<1> QED BY <1>1 DEF Contract!vars, Done

\* A return from a running call is a Finish of the contract.
LEMMA ReturnFinishes ==
  ASSUME TypeOK, GateInv, NEW t \in Thread, NEW from, pc[t] \in Running,
         NEW st \in {"ok", "fail"}, Return(t, from, st),
         NEW w \in {"none", "some", "all"}, wrote' = [wrote EXCEPT ![t] = w],
         st = "ok" => w = "all"
  PROVE  Contract!Finish(t)
<1> DEFINE g == call[t].g
<1>1. g \in Subgraph /\ serial[g] = t /\ Target[t] = g
  BY DEF TypeOK, GateInv, Target
<1>2. serial' = [serial EXCEPT ![g] = NoThread]
  BY <1>1 DEF Return
<1>3. Done' = [Done EXCEPT ![t] = st]
  BY DEF Done, Return, Goto, TypeOK
<1>4. UNCHANGED <<owner, Target>>
  BY DEF Return, Target
<1> QED BY <1>1, <1>2, <1>3, <1>4 DEF Contract!Finish, Target, Done

LEMMA StepImplements ==
  ASSUME TypeOK, GateInv, NodesInv, NeverPanicked, NEW t \in Thread, Step(t)
  PROVE  Contract!Next \/ UNCHANGED Contract!vars
<1> DEFINE g == call[t].g
<1> USE DEF Goto, gate, plan
<1>g. g \in Subgraph /\ Target[t] = g
  BY DEF TypeOK, Target
<1>1. CASE Enter(t)
  <2>1. Done' = Done /\ Done[t] = "busy" /\ Target' = Target
    BY <1>1 DEF Enter, Done, Target, TypeOK
  <2>2. CASE owner[g] = NoThread
    <3>1. Contract!Own(t)
      BY <1>1, <1>g, <2>1, <2>2 DEF Enter, Contract!Own, Done, Target
    <3> QED BY <3>1 DEF Contract!Next, Contract!Progress
  <2>3. CASE owner[g] = t
    <3>1. owner' = owner
      BY <1>1, <1>g, <2>3 DEF Enter, TypeOK
    <3> QED BY <1>1, <2>1, <3>1 DEF Enter, Contract!vars, Done, Target
  <2> QED BY <1>1, <2>2, <2>3 DEF Enter
<1>2. CASE Reject(t)
  <2>1. serial' = serial
    BY <1>2, <1>g, NoThreadAssumption DEF Reject, Return, GateInv, TypeOK, Running
  <2>2. Done' = [Done EXCEPT ![t] = "fail"] /\ Done[t] = "busy" /\ Target' = Target
    BY <1>2 DEF Reject, Return, Done, Target, TypeOK
  <2>3. Contract!Refuse(t)
    BY <1>2, <1>g, <2>1, <2>2 DEF Reject, Return, Contract!Refuse, Done, Target
  <2> QED BY <2>3 DEF Contract!Next, Contract!Progress
<1>3. CASE AcquireSerial(t)
  <2>1. Done' = Done /\ Done[t] = "busy" /\ Target' = Target
    BY <1>3 DEF AcquireSerial, Done, Target, TypeOK
  <2>2. owner[g] = t
    BY <1>3 DEF AcquireSerial, GateInv
  <2>3. Contract!Start(t)
    BY <1>3, <1>g, <2>1, <2>2 DEF AcquireSerial, Contract!Start, Done, Target
  <2> QED BY <2>3 DEF Contract!Next, Contract!Progress
<1>4. ASSUME pc[t] \in Running, NEW to \in Running, pc' = [pc EXCEPT ![t] = to],
             UNCHANGED <<owner, serial, call, wrote, status>>
      PROVE  UNCHANGED Contract!vars
  BY <1>4, InsideStutters DEF Running
<1>5. ASSUME pc[t] \in Running, NEW from, NEW st \in {"ok", "fail"}, Return(t, from, st),
             NEW w \in {"none", "some", "all"}, wrote' = [wrote EXCEPT ![t] = w],
             st = "ok" => w = "all"
      PROVE  Contract!Next
  <2>1. Contract!Finish(t)
    BY <1>5, ReturnFinishes
  <2> QED BY <2>1 DEF Contract!Next, Contract!Progress
<1>w. wrote[t] \in {"none", "some", "all"} /\ wrote = [wrote EXCEPT ![t] = wrote[t]]
  BY DEF TypeOK
<1>6. CASE Route(t) \/ SkipSlot(t) \/ Build(t) \/ Replay(t)
  BY <1>4, <1>6 DEF Route, SkipSlot, Build, Replay, Decline, Running
<1>7. CASE StartTrace(t) \/ EndTrace(t) \/ TraceFails(t) \/ StartEager(t)
  BY <1>4, <1>7 DEF StartTrace, EndTrace, TraceFails, StartEager, Running
<1>8. CASE TracePanics(t) \/ EmptyTraceFails(t) \/ EvalFails(t)
  BY <1>4, <1>8 DEF TracePanics, EmptyTraceFails, EvalFails, Decline, Running
<1>9. CASE Gather(t)
  <2>1. CASE Return(t, "slot", "fail")
    BY <1>5, <1>9, <1>w, <2>1 DEF Gather, InSlot, Running
  <2>2. CASE ~Return(t, "slot", "fail")
    BY <1>4, <1>9, <2>2 DEF Gather, InSlot, Running
  <2> QED BY <2>1, <2>2
<1>10. CASE CopyOut(t)
  BY <1>5, <1>10 DEF CopyOut, Return, Running
<1>11. CASE EndEager(t)
  BY <1>5, <1>11 DEF EndEager, Return, Running
<1>12. CASE EagerPanics(t)
  BY <1>5, <1>12, <1>w DEF EagerPanics, Return, Running
<1>13. CASE EndEmptyEager(t)
  BY <1>13, <1>g DEF EndEmptyEager, Return, NodesInv, NeverPanicked, Running
<1> QED BY <1>1, <1>2, <1>3, <1>6, <1>7, <1>8, <1>9, <1>10, <1>11, <1>12, <1>13 DEF Step

LEMMA CallImplements ==
  ASSUME TypeOK, NEW t \in Thread, NEW g \in Subgraph, NEW seq \in SeqLens, Call(t, g, seq)
  PROVE  Contract!Next
<1>1. Done' = [Done EXCEPT ![t] = "busy"] /\ Done[t] # "busy"
  BY DEF Call, Goto, Done, TypeOK
<1>2. Target' = [Target EXCEPT ![t] = g]
  BY DEF Call, Target, TypeOK
<1>3. Contract!Call(t, g)
  BY <1>1, <1>2 DEF Call, gate, Contract!Call, Done, Target
<1> QED BY <1>3 DEF Contract!Next

\* If no handler panics on either path, Compute keeps the contract ONNX Runtime relies on, for
\* any number of threads and subgraphs: one owner per subgraph, no two calls on
\* it at a time, and OK only with every output (runtime.rs:132-320).
THEOREM ComputeKeepsContract == ASSUME MayPanic = {} PROVE Spec => Contract!Safety
<1>1. Init => NeverPanicked
  BY DEF Init, NeverPanicked
<1>2. TypeOK /\ NeverPanicked /\ [Next]_vars => NeverPanicked'
  BY NextNeverPanicked
<1>3. TypeOK /\ GateInv /\ NodesInv /\ NeverPanicked /\ [Next]_vars => [Contract!Next]_(Contract!vars)
  <2>1. CASE UNCHANGED vars
    BY <2>1 DEF vars, gate, plan, Contract!vars
  <2> QED BY <2>1, StepImplements, CallImplements DEF Next
<1> QED BY InitImplements, NodesHold, <1>1, <1>2, <1>3, PTL DEF Spec, Contract!Safety

=============================================================================
