-------------------------- MODULE ComputeContract --------------------------
(***************************************************************************)
(* What ONNX Runtime may rely on when it calls Compute: a call belongs to  *)
(* the one thread that owns the fused subgraph or is refused, calls on one *)
(* subgraph never overlap, and a call that answers OK has produced every   *)
(* output.  How the outputs are computed is hidden.                        *)
(***************************************************************************)
CONSTANTS Thread, Subgraph, NoThread

VARIABLES
  owner,   \* the thread a subgraph belongs to
  active,  \* the thread whose call on the subgraph is running
  target,  \* the subgraph each thread called last
  done,    \* "busy" during a call, then its status
  wrote    \* how many outputs that call has produced

vars == <<owner, active, target, done, wrote>>

Init ==
  /\ owner = [g \in Subgraph |-> NoThread]
  /\ active = [g \in Subgraph |-> NoThread]
  /\ target \in [Thread -> Subgraph]
  /\ done = [t \in Thread |-> "none"]
  /\ wrote = [t \in Thread |-> "none"]

Call(t, g) ==
  /\ done[t] # "busy"
  /\ done' = [done EXCEPT ![t] = "busy"]
  /\ target' = [target EXCEPT ![t] = g]
  /\ wrote' = [wrote EXCEPT ![t] = "none"]
  /\ UNCHANGED <<owner, active>>

Own(t) ==
  /\ done[t] = "busy"
  /\ owner[target[t]] = NoThread
  /\ owner' = [owner EXCEPT ![target[t]] = t]
  /\ UNCHANGED <<active, target, done, wrote>>

Refuse(t) ==
  /\ done[t] = "busy"
  /\ owner[target[t]] \notin {NoThread, t}
  /\ done' = [done EXCEPT ![t] = "fail"]
  /\ UNCHANGED <<owner, active, target, wrote>>

Start(t) ==
  /\ done[t] = "busy"
  /\ owner[target[t]] = t
  /\ active[target[t]] = NoThread
  /\ active' = [active EXCEPT ![target[t]] = t]
  /\ UNCHANGED <<owner, target, done, wrote>>

Finish(t) ==
  /\ active[target[t]] = t
  /\ active' = [active EXCEPT ![target[t]] = NoThread]
  /\ \E st \in {"ok", "fail"}, w \in {"none", "some", "all"} :
       /\ st = "ok" => w = "all"
       /\ done' = [done EXCEPT ![t] = st]
       /\ wrote' = [wrote EXCEPT ![t] = w]
  /\ UNCHANGED <<owner, target>>

Progress(t) == Own(t) \/ Refuse(t) \/ Start(t) \/ Finish(t)

Next == \E t \in Thread : (\E g \in Subgraph : Call(t, g)) \/ Progress(t)

Safety == Init /\ [][Next]_vars

Spec == Safety /\ \A t \in Thread : WF_vars(Progress(t))

=============================================================================
