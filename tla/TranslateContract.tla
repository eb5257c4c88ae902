-------------------------- MODULE TranslateContract --------------------------
(***************************************************************************)
(* What a call of a fused subgraph owes the host: to evaluate it with      *)
(* lexical scopes.  Every graph has names of its own, its initializers,    *)
(* its formal inputs and what its nodes have yielded; a name means what    *)
(* the innermost graph that has it says, or else a boundary input.  A call *)
(* may fail at any time, and then has changed no input.                    *)
(***************************************************************************)
EXTENDS TranslateValues, SequencesExt

CONSTANTS Programs, CtxInputs, Numbers

VARIABLES
  p,        \* the fused graph
  host,     \* the boundary inputs in the host's memory
  inputs,   \* the boundary inputs with the updates of the call
  results,  \* the boundary outputs in the host's memory
  graphs,   \* the graphs in evaluation, the root first
  status    \* how the last call ended

cvars == <<p, host, inputs, results, graphs, status>>

CInit ==
  /\ p \in Programs
  /\ \E n \in [CtxInputs -> Numbers] : host = [x \in CtxInputs |-> HostValue(x, n[x])]
  /\ inputs = host
  /\ results = <<>> /\ graphs = <<>> /\ status = "none"

Holders(x) == {i \in DOMAIN graphs : x \in DOMAIN graphs[i].names}

Known(x) == Holders(x) # {} \/ x \in DOMAIN inputs

Meant(x) == IF Holders(x) = {} THEN inputs[x] ELSE graphs[Max(Holders(x))].names[x]

MeantAll(names) == [k \in DOMAIN names |-> Meant(names[k])]

Current == graphs[Len(graphs)]

At == p.nodes[Current.scope][Current.pc]

Running == graphs # <<>> /\ Current.pc <= Len(p.nodes[Current.scope])

\* A graph in evaluation; of a Loop or a Scan also its progress.
Graph(s) ==
  [scope |-> s, pc |-> 1, names |-> <<>>, t |-> 0, trip |-> 0,
   state |-> <<>>, scan |-> NoValue, emitted |-> <<>>]

Opened(graph, args) ==
  [graph EXCEPT !.pc = 1,
                !.names = Over(InitValues(p, graph.scope), Bind(p.formals[graph.scope], args))]

\* The last graph of the list has the results of its node, and goes on.
Yielded(list, values) ==
  LET last == list[Len(list)]
      outs == p.nodes[last.scope][last.pc].outs
  IN [list EXCEPT ![Len(list)] =
        [last EXCEPT !.pc = @ + 1, !.names = Over(@, Bind(outs, values))]]

Started == <<Opened(Graph("root"), <<>>)>>

Start ==
  /\ graphs = <<>>
  /\ graphs' = Started
  /\ results' = <<>>
  /\ status' = "none"
  /\ UNCHANGED <<p, host, inputs>>

\* What an ordinary node computes.
Computed == Applied(At, MeantAll(At.ins))

Ordinary == Running /\ At.bodies = <<>> /\ \A x \in Range(At.ins) : Known(x)

Evaluate ==
  /\ Ordinary
  /\ At.kind # "Paged"
  /\ graphs' = Yielded(graphs, <<Computed>>)
  /\ UNCHANGED <<p, host, inputs, results, status>>

\* The value of x is replaced where it has its name.
Replaced(x, value) ==
  [i \in DOMAIN graphs |->
     IF i \in Holders(x) /\ i = Max(Holders(x))
     THEN [graphs[i] EXCEPT !.names = Over(@, Bind(<<x>>, <<value>>))] ELSE graphs[i]]

\* An update in place.
Update ==
  /\ Ordinary
  /\ At.kind = "Paged"
  /\ graphs' = Yielded(Replaced(At.ins[1], Computed), <<Computed>>)
  /\ inputs' = IF Holders(At.ins[1]) = {} THEN [inputs EXCEPT ![At.ins[1]] = Computed] ELSE inputs
  /\ UNCHANGED <<p, host, results, status>>

Choose ==
  /\ Running
  /\ At.kind = "If"
  /\ Known(At.ins[1])
  /\ LET taken == IF Meant(At.ins[1]).n # 0 THEN 1 ELSE 2
     IN graphs' = Append(graphs, Opened(Graph(At.bodies[taken]), <<>>))
  /\ UNCHANGED <<p, host, inputs, results, status>>

\* The arguments of the iteration a graph is at.
Turn(node, graph) ==
  IF node.kind = "Loop" THEN <<Counter(graph.t), Yes>> \o graph.state
  ELSE Append(graph.state,
              Sliced(graph.scan, IF node.reversed THEN graph.trip - 1 - graph.t ELSE graph.t))

\* The results of a node whose iterations are over.
Ended(node, state, emitted) ==
  IF node.kind # "Scan" THEN state
  ELSE Append(state, Stacked(IF node.outReversed THEN Reverse(emitted) ELSE emitted))

\* The values a Loop or a Scan starts from.
Initially ==
  MeantAll(IF At.kind = "Loop" THEN SubSeq(At.ins, 3, Len(At.ins)) ELSE Front(At.ins))

Trip ==
  IF At.kind = "Scan" THEN Meant(Last(At.ins)).n
  ELSE IF Meant(At.ins[2]).n # 0 THEN Meant(At.ins[1]).n ELSE 0

First ==
  [Graph(At.bodies[1]) EXCEPT
     !.trip = Trip, !.state = Initially,
     !.scan = IF At.kind = "Scan" THEN Meant(Last(At.ins)) ELSE NoValue]

Repeat ==
  /\ Running
  /\ At.kind \in {"Loop", "Scan"}
  /\ \A x \in Range(At.ins) : Known(x)
  /\ graphs' = IF Trip = 0 THEN Yielded(graphs, Ended(At, Initially, <<>>))
               ELSE Append(graphs, Opened(First, Turn(At, First)))
  /\ UNCHANGED <<p, host, inputs, results, status>>

\* A branch or an iteration is over.
Return ==
  /\ Len(graphs) > 1
  /\ Current.pc > Len(p.nodes[Current.scope])
  /\ \A x \in Range(p.outs[Current.scope]) : Known(x)
  /\ LET outs == MeantAll(p.outs[Current.scope])
         below == Front(graphs)
         caller == p.nodes[Last(below).scope][Last(below).pc]
         state == CASE caller.kind = "If" -> outs
                    [] caller.kind = "Loop" -> Tail(outs)
                    [] OTHER -> Front(outs)
         emitted == IF caller.kind = "Scan" THEN Append(Current.emitted, Last(outs)) ELSE <<>>
         again == [Current EXCEPT !.t = @ + 1, !.state = state, !.emitted = emitted]
     IN graphs' = IF again.t < Current.trip THEN Append(below, Opened(again, Turn(caller, again)))
                  ELSE Yielded(below, Ended(caller, state, emitted))
  /\ UNCHANGED <<p, host, inputs, results, status>>

\* The root is evaluated: the host gets the outputs and the updates, or some of the
\* outputs and a failure.
Answer ==
  /\ Len(graphs) = 1
  /\ Current.pc > Len(p.nodes["root"])
  /\ \/ /\ status' = "ok"
        /\ results' = [x \in p.external |-> Meant(x)]
        /\ host' = inputs
     \/ /\ status' = "failed"
        /\ \E some \in SUBSET p.external : results' = [x \in some |-> Meant(x)]
        /\ host' = host
  /\ graphs' = <<>>
  /\ inputs' = host'
  /\ UNCHANGED p

\* A call may fail, or start anew.
Fail ==
  /\ graphs # <<>>
  /\ \/ graphs' = Started /\ UNCHANGED status
     \/ graphs' = <<>> /\ status' = "failed"
  /\ inputs' = host
  /\ UNCHANGED <<p, host, results>>

\* Between calls the host may bind new inputs.
Rebind ==
  /\ graphs = <<>>
  /\ \E x \in CtxInputs, n \in Numbers : host' = [host EXCEPT ![x] = HostValue(x, n)]
  /\ inputs' = host'
  /\ status' = "none"
  /\ UNCHANGED <<p, results, graphs>>

CNext ==
  \/ Start \/ Evaluate \/ Update \/ Choose \/ Repeat \/ Return \/ Answer \/ Fail \/ Rebind

CSpec == CInit /\ [][CNext]_cvars

=============================================================================
