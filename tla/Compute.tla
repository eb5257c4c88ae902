------------------------------ MODULE Compute ------------------------------
(***************************************************************************)
(* The Compute callback of the fused subgraphs of one InferenceSession     *)
(* (runtime.rs), down to the points where a call can go wrong: the run     *)
(* gate, the plan's node list that a translation takes out and puts back   *)
(* (engine.rs), and the compiled slots it tries before the eager path      *)
(* (compiled.rs).                                                          *)
(*                                                                         *)
(* What MLX, ONNX Runtime and an op handler answer is nondeterministic:    *)
(* any of them may fail, and a handler may panic on the paths in MayPanic. *)
(***************************************************************************)

CONSTANTS
  Thread,    \* the host threads that call Run()
  Subgraph,  \* the fused subgraphs of the session
  Enabled,   \* Subgraph -> the slots build_plan left enabled
  Rope,      \* Subgraph -> the slots whose build waits for the RoPE cos/sin cache
  MayPanic,  \* the paths on which an op handler may panic
  NoThread   \* an unset owner, a free lock

Slots == {"Decode", "Prefill", "General"}

ASSUME SubgraphAssumption == Subgraph # {}
ASSUME EnabledAssumption == Enabled \in [Subgraph -> SUBSET Slots]
ASSUME RopeAssumption == Rope \in [Subgraph -> SUBSET {"Decode", "Prefill"}]
ASSUME MayPanicAssumption == MayPanic \subseteq {"trace", "eager"}
ASSUME NoThreadAssumption == NoThread \notin Thread

\* What detect_seq_len sees: no query length, one token or several.  A single
\* token of a batch the native attention decode rejects routes like "none".
SeqLens == {"none", "one", "many"}

VARIABLES
  owner,   \* RunGate::owner_thread of each subgraph
  serial,  \* the thread that holds RunGate::serial and the plan lock
  nodes,   \* is the node list in plan.nodes?
  slot,    \* attempted and valid of each compiled slot, and is it traced
  warm,    \* are the RoPE constants resident in plan.cache?
  pc,      \* where each thread is in its Compute call
  call,    \* the subgraph and the query length of that call
  todo,    \* the slots it has still to try
  wrote,   \* how many external outputs it has copied out
  status,  \* the OrtStatus of the thread's last call
  panicked \* history: did a translation of this subgraph ever panic?

plan == <<nodes, slot, warm>>
gate == <<owner, serial>>
vars == <<gate, plan, pc, call, todo, wrote, status, panicked>>

-----------------------------------------------------------------------------

Init ==
  /\ owner = [g \in Subgraph |-> NoThread]
  /\ serial = [g \in Subgraph |-> NoThread]
  /\ nodes = [g \in Subgraph |-> TRUE]
  /\ slot = [g \in Subgraph |-> [s \in Slots |-> "untried"]]
  /\ warm = [g \in Subgraph |-> FALSE]
  /\ pc = [t \in Thread |-> "idle"]
  /\ call = [t \in Thread |-> [g |-> CHOOSE g \in Subgraph : TRUE, seq |-> "none"]]
  /\ todo = [t \in Thread |-> {}]
  /\ wrote = [t \in Thread |-> "none"]
  /\ status = [t \in Thread |-> "none"]
  /\ panicked = [g \in Subgraph |-> FALSE]

Goto(t, from, to) ==
  /\ pc[t] = from
  /\ pc' = [pc EXCEPT ![t] = to]

\* Mutant: the serial guard outlives the call.
ReturnHoldingGate(t, from, st) ==
  /\ Goto(t, from, "idle")
  /\ status' = [status EXCEPT ![t] = st]
  /\ todo' = [todo EXCEPT ![t] = {}]
  /\ UNCHANGED <<gate, call>>

\* The guards drop in reverse order: the plan, then the serial lock.
Return(t, from, st) ==
  /\ Goto(t, from, "idle")
  /\ status' = [status EXCEPT ![t] = st]
  /\ serial' = [serial EXCEPT ![call[t].g] = IF @ = t THEN NoThread ELSE @]
  /\ todo' = [todo EXCEPT ![t] = {}]
  /\ UNCHANGED <<owner, call>>

-----------------------------------------------------------------------------
(* Entering the call. *)

\* ONNX Runtime calls Compute for a fused node.
Call(t, g, seq) ==
  /\ Goto(t, "idle", "gate")
  /\ call' = [call EXCEPT ![t] = [g |-> g, seq |-> seq]]
  /\ wrote' = [wrote EXCEPT ![t] = "none"]
  /\ UNCHANGED <<gate, plan, todo, status, panicked>>

\* Mutant: the last caller becomes the owner.
EnterAnyone(t) ==
  /\ Goto(t, "gate", "serial")
  /\ owner' = [owner EXCEPT ![call[t].g] = t]
  /\ UNCHANGED <<serial, plan, call, todo, wrote, status, panicked>>

\* Mutant: the first caller is let in but not recorded.
EnterUnrecorded(t) ==
  /\ owner[call[t].g] \in {NoThread, t}
  /\ Goto(t, "gate", "serial")
  /\ UNCHANGED <<gate, plan, call, todo, wrote, status, panicked>>

\* RunGate::enter: the first caller becomes the owner, whatever its call does.
Enter(t) ==
  LET g == call[t].g
  IN  /\ owner[g] \in {NoThread, t}
      /\ Goto(t, "gate", "serial")
      /\ owner' = [owner EXCEPT ![g] = t]
      /\ UNCHANGED <<serial, plan, call, todo, wrote, status, panicked>>

Reject(t) ==
  /\ owner[call[t].g] \notin {NoThread, t}
  /\ Return(t, "gate", "fail")
  /\ UNCHANGED <<plan, wrote, panicked>>

\* acquire_serial, then the plan lock; a poisoned lock is taken all the same.
AcquireSerial(t) ==
  /\ serial[call[t].g] = NoThread
  /\ Goto(t, "serial", "route")
  /\ serial' = [serial EXCEPT ![call[t].g] = t]
  /\ UNCHANGED <<owner, plan, call, todo, wrote, status, panicked>>

\* Mutant: the eager fallback is listed as one more slot.
RoutesWithEager(g, seq) == Enabled[g] \cup {"Eager"}

\* The slots compute_impl tries.  detect_seq_len looks for the query length
\* among the inputs of plan.nodes.
Routes(g, seq) ==
  LET seen == IF nodes[g] THEN seq ELSE "none"
  IN  {s \in Enabled[g] : /\ s = "Decode" => seen = "one"
                          /\ s = "Prefill" => seen = "many"}

Route(t) ==
  /\ Goto(t, "route", "slot")
  /\ todo' = [todo EXCEPT ![t] = Routes(call[t].g, call[t].seq)]
  /\ UNCHANGED <<gate, plan, call, wrote, status, panicked>>

-----------------------------------------------------------------------------
(* try_compiled on the first slot still to try. *)

\* Decode and prefill exclude one another; the general slot comes last.
Slot(t) == CHOOSE s \in todo[t] : s = "General" => todo[t] = {"General"}
State(t) == slot[call[t].g][Slot(t)]
SetState(t, st) == slot' = [slot EXCEPT ![call[t].g][Slot(t)] = st]

\* Ok(false): on to the next slot.
Decline(t, from) ==
  /\ Goto(t, from, "slot")
  /\ todo' = [todo EXCEPT ![t] = @ \ {Slot(t)}]
  /\ UNCHANGED <<gate, nodes, warm, call, wrote, status>>

InSlot(t) == pc[t] = "slot" /\ todo[t] # {}

\* A slot that is off, control-flow decisions the host cannot read, a shape
\* with an empty dimension, a prologue input that is missing.
SkipSlot(t) ==
  /\ InSlot(t)
  /\ Decline(t, "slot")
  /\ UNCHANGED <<slot, panicked>>

\* build_closure, once: without nodes there is nothing to compile; a RoPE slot
\* whose constants are not resident is left untried.
Build(t) ==
  /\ InSlot(t)
  /\ State(t) = "untried"
  /\ \/ /\ nodes[call[t].g]
        /\ Slot(t) \in Rope[call[t].g] => warm[call[t].g]
        /\ Goto(t, "slot", "slot")
        /\ SetState(t, "compiled")
        /\ UNCHANGED <<gate, nodes, warm, call, todo, wrote, status>>
     \/ /\ Decline(t, "slot")
        /\ SetState(t, "off")
  /\ UNCHANGED panicked

\* An input that cannot be read fails the call, not just the slot.
Gather(t) ==
  /\ InSlot(t)
  /\ State(t) \in {"compiled", "traced"}
  /\ \/ /\ Goto(t, "slot", "apply")
        /\ UNCHANGED <<gate, call, todo, status>>
     \/ Return(t, "slot", "fail")
  /\ UNCHANGED <<plan, wrote, panicked>>

\* mlx_closure_apply replays a trace MLX has cached ...
Replay(t) ==
  /\ Goto(t, "apply", "eval")
  /\ State(t) = "traced"
  /\ UNCHANGED <<gate, plan, call, todo, wrote, status, panicked>>

\* ... or calls the trace thunk: run_trace takes the node list out.
StartTrace(t) ==
  /\ Goto(t, "apply", IF nodes[call[t].g] THEN "trace" ELSE "emptytrace")
  /\ nodes' = [nodes EXCEPT ![call[t].g] = FALSE]
  /\ UNCHANGED <<gate, slot, warm, call, todo, wrote, status, panicked>>

EndTrace(t) ==
  /\ Goto(t, "trace", "eval")
  /\ nodes' = [nodes EXCEPT ![call[t].g] = TRUE]
  /\ SetState(t, "traced")
  /\ UNCHANGED <<gate, warm, call, todo, wrote, status, panicked>>

\* Mutant: the error return of run_trace forgets the node list.
TraceFailsEmpty(t) ==
  /\ Goto(t, "trace", "slot")
  /\ SetState(t, "off")
  /\ todo' = [todo EXCEPT ![t] = @ \ {Slot(t)}]
  /\ UNCHANGED <<gate, nodes, warm, call, wrote, status, panicked>>

\* A handler declines: the list is put back and the slot switched off.
TraceFails(t) ==
  /\ Goto(t, "trace", "slot")
  /\ nodes' = [nodes EXCEPT ![call[t].g] = TRUE]
  /\ SetState(t, "off")
  /\ todo' = [todo EXCEPT ![t] = @ \ {Slot(t)}]
  /\ UNCHANGED <<gate, warm, call, wrote, status, panicked>>

\* A handler panics: trace_thunk catches it, nobody puts the list back.
TracePanics(t) ==
  /\ "trace" \in MayPanic
  /\ Decline(t, "trace")
  /\ SetState(t, "off")
  /\ panicked' = [panicked EXCEPT ![call[t].g] = TRUE]

\* With no node nothing binds the outputs: "compiled trace missing output".
EmptyTraceFails(t) ==
  /\ Decline(t, "emptytrace")
  /\ SetState(t, "off")
  /\ UNCHANGED panicked

\* Mutant: a closure whose evaluation failed is built afresh on the next call.
EvalFailsRetry(t) ==
  /\ Decline(t, "eval")
  /\ SetState(t, "untried")
  /\ UNCHANGED panicked

\* mlx::eval fails, or the closure returns the wrong number of outputs.
EvalFails(t) ==
  /\ Decline(t, "eval")
  /\ SetState(t, "off")
  /\ UNCHANGED panicked

\* Mutant: the call answers OK although copying an output out failed.
CopyOutIgnoresErrors(t) ==
  /\ \E w \in {"none", "some", "all"} : wrote' = [wrote EXCEPT ![t] = w]
  /\ Return(t, "eval", "ok")
  /\ UNCHANGED <<plan, panicked>>

\* copy_out_raw_delta for each output; an error fails the call half-way.
CopyOut(t) ==
  /\ \/ /\ wrote' = [wrote EXCEPT ![t] = "all"]
        /\ Return(t, "eval", "ok")
     \/ /\ \E w \in {"none", "some"} : wrote' = [wrote EXCEPT ![t] = w]
        /\ Return(t, "eval", "fail")
  /\ UNCHANGED <<plan, panicked>>

-----------------------------------------------------------------------------
(* The eager path: TranslationContext::execute. *)

StartEager(t) ==
  /\ todo[t] = {}
  /\ Goto(t, "slot", IF nodes[call[t].g] THEN "eager" ELSE "emptyeager")
  /\ nodes' = [nodes EXCEPT ![call[t].g] = FALSE]
  /\ UNCHANGED <<gate, slot, warm, call, todo, wrote, status, panicked>>

\* Mutant: execute skips an output it cannot copy out.
EndEagerSkipsOutputs(t) ==
  LET g == call[t].g
  IN  /\ \E w \in {"some", "all"} : wrote' = [wrote EXCEPT ![t] = w]
      /\ warm' = [warm EXCEPT ![g] = TRUE]
      /\ Return(t, "eager", "ok")
      /\ nodes' = [nodes EXCEPT ![g] = TRUE]
      /\ UNCHANGED <<slot, panicked>>

\* Translation, one eval, copy-out; then the list is put back.  Resolving an
\* initializer makes it resident, so even a call that fails may warm the cache.
\* finish_boundary passes over an output that is not in env, and copy_out_raw_delta
\* takes a null source or destination for an empty tensor.  That OK still means
\* "all" with the whole list translated is Translate's: a handler binds every output
\* of its node, and AnswersMeaning compares the host's memory after an OK call.
EndEager(t) ==
  LET g == call[t].g
  IN  /\ \/ /\ wrote' = [wrote EXCEPT ![t] = "all"]
            /\ warm' = [warm EXCEPT ![g] = TRUE]
            /\ Return(t, "eager", "ok")
         \/ /\ \E w \in {"none", "some"} : wrote' = [wrote EXCEPT ![t] = w]
            /\ \E w \in BOOLEAN : warm' = [warm EXCEPT ![g] = @ \/ w]
            /\ Return(t, "eager", "fail")
      /\ nodes' = [nodes EXCEPT ![g] = TRUE]
      /\ UNCHANGED <<slot, panicked>>

\* guard_ffi_status turns the panic into EP_FAIL; the list is gone, the locks
\* are poisoned and the next call recovers them.
EagerPanics(t) ==
  /\ "eager" \in MayPanic
  /\ Return(t, "eager", "fail")
  /\ panicked' = [panicked EXCEPT ![call[t].g] = TRUE]
  /\ UNCHANGED <<plan, wrote>>

\* No node, no boundary output: an empty eval succeeds.
EndEmptyEager(t) ==
  /\ Return(t, "emptyeager", "ok")
  /\ UNCHANGED <<plan, wrote, panicked>>

-----------------------------------------------------------------------------

Step(t) ==
  \/ Enter(t) \/ Reject(t) \/ AcquireSerial(t) \/ Route(t)
  \/ SkipSlot(t) \/ Build(t) \/ Gather(t) \/ Replay(t)
  \/ StartTrace(t) \/ EndTrace(t) \/ TraceFails(t) \/ TracePanics(t)
  \/ EmptyTraceFails(t) \/ EvalFails(t) \/ CopyOut(t)
  \/ StartEager(t) \/ EndEager(t) \/ EagerPanics(t) \/ EndEmptyEager(t)

Next ==
  \E t \in Thread :
    \/ \E g \in Subgraph, seq \in SeqLens : Call(t, g, seq)
    \/ Step(t)

\* A thread inside Compute keeps running; nobody has to call Compute again.
Fairness == \A t \in Thread : WF_vars(Step(t))

Spec == Init /\ [][Next]_vars /\ Fairness

-----------------------------------------------------------------------------
(* Properties. *)

PcValues ==
  {"idle", "gate", "serial", "route", "slot", "apply", "trace", "emptytrace",
   "eval", "eager", "emptyeager"}

\* The states in which a thread uses the plan, and those in which it runs MLX.
InPlan(t, g) == pc[t] \notin {"idle", "gate", "serial"} /\ call[t].g = g
Evaluating(t) == pc[t] \in {"apply", "trace", "emptytrace", "eval", "eager", "emptyeager"}

TypeOK ==
  /\ owner \in [Subgraph -> Thread \cup {NoThread}]
  /\ serial \in [Subgraph -> Thread \cup {NoThread}]
  /\ nodes \in [Subgraph -> BOOLEAN]
  /\ slot \in [Subgraph -> [Slots -> {"untried", "compiled", "traced", "off"}]]
  /\ warm \in [Subgraph -> BOOLEAN]
  /\ pc \in [Thread -> PcValues]
  /\ call \in [Thread -> [g : Subgraph, seq : SeqLens]]
  /\ todo \in [Thread -> SUBSET Slots]
  /\ wrote \in [Thread -> {"none", "some", "all"}]
  /\ status \in [Thread -> {"none", "ok", "fail"}]
  /\ panicked \in [Subgraph -> BOOLEAN]

\* Only the thread a subgraph belongs to ever reaches its plan, and it holds
\* the serial lock while it does: the trace thunk's raw plan pointer
\* (compiled.rs:527-529) never meets a second user.
PlanOwnedAndExclusive ==
  \A t \in Thread, g \in Subgraph : InPlan(t, g) => owner[g] = t /\ serial[g] = t

\* No call on one subgraph ever waits for the serial lock: whoever passes the
\* ownership test finds it free, so Compute cannot deadlock there.
SerialUncontended ==
  \A t \in Thread : pc[t] = "serial" => serial[call[t].g] = NoThread

\* Between calls the node list is back in the plan, whichever of the success
\* and error returns of execute and run_trace the last call took.
PlanIntact ==
  \A g \in Subgraph : serial[g] = NoThread /\ ~panicked[g] => nodes[g]

\* A call that answers OK has copied every external output out, as long as no
\* translation of the subgraph ever panicked.
OkMeansWritten ==
  \A t \in Thread :
    pc[t] = "idle" /\ status[t] = "ok" /\ ~panicked[call[t].g] => wrote[t] = "all"

\* A slot switched off stays off ("one-shot; failure => eager forever",
\* engine.rs:347), and a closure MLX has traced is never built again.
SlotNeverRevived ==
  [][\A g \in Subgraph, s \in Slots :
       /\ slot[g][s] = "off" => slot'[g][s] = "off"
       /\ slot[g][s] = "traced" => slot'[g][s] \in {"traced", "off"}]_vars

\* Every Compute call comes back to ONNX Runtime.
CallReturns == \A t \in Thread : pc[t] # "idle" ~> pc[t] = "idle"

\* Compute keeps the contract ONNX Runtime relies on.
Contract ==
  INSTANCE ComputeContract WITH
    active <- serial,
    target <- [t \in Thread |-> call[t].g],
    done <- [t \in Thread |-> IF pc[t] = "idle" THEN status[t] ELSE "busy"]

ContractSpec == Contract!Spec

-----------------------------------------------------------------------------
(* Claims of the repository the code does not keep. *)

\* "falling back to the eager path (result still correct)" (compiled.rs:1113):
\* a call whose trace panicked and whose eager fallback answers OK has written
\* its outputs.  An instance with MayPanic = {"trace"} asks just that.
OkMeansWrittenAfterPanic ==
  \A t \in Thread : pc[t] = "idle" /\ status[t] = "ok" => wrote[t] = "all"

=============================================================================
