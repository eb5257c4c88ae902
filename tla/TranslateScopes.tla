--------------------------- MODULE TranslateScopes ---------------------------
(***************************************************************************)
(* The flat map of arrays, read as one map for each graph in translation:  *)
(* what a graph has bound is in env, or in what the first body above it    *)
(* that binds the name too has saved.                                      *)
(***************************************************************************)
EXTENDS Translate

\* The frames above frame i whose bodies bind the name themselves.
Hiders(g, stk, i, x) == {k \in (i + 1)..Len(stk) : x \in BodyNames(g, stk[k].scope)}

\* Where the array is that a name had when frame i was on top.
Place(g, stk, e, i, x) ==
  LET hiders == Hiders(g, stk, i, x)
  IN IF hiders = {} THEN e ELSE stk[Min(hiders)].saved

\* The names of frame i: its initializers, and what it has bound.
NamesAt(g, stk, e, i) ==
  LET f == stk[i]
  IN Over(InitValues(g, f.scope),
          [x \in BoundBefore(g, f.scope, f.pc) |-> Place(g, stk, e, i, x)[x]])

GraphAt(g, stk, e, i) ==
  LET f == stk[i]
  IN [scope |-> f.scope, pc |-> f.pc, names |-> NamesAt(g, stk, e, i), t |-> f.t,
      trip |-> f.trip, state |-> f.state, scan |-> f.scan, emitted |-> f.emitted]

Graphs(g, stk, e) == [i \in DOMAIN stk |-> GraphAt(g, stk, e, i)]

Contract == INSTANCE TranslateContract WITH
  graphs <- Graphs(p, stack, env), inputs <- Stored(host, writes)

\* Initializers have names of their own, and no node makes a boundary input; the
\* outputs are the root's.
NamesApart(g) ==
  /\ \A s, t \in Scopes : (BodyNames(g, s) \cup CtxInputs) \cap DOMAIN g.inits[t] = {}
  /\ Produced(g, "root") \cap CtxInputs = {}
  /\ g.external \subseteq Produced(g, "root")

\* What is updated in place is a boundary input or the root's, and no handler reads it
\* in the host's memory.
UpdatesApart(g) ==
  \A s \in Scopes : \A node \in NodesOf(g, s) : node.kind = "Paged" =>
    /\ \A t \in Scopes \ {"root"} : node.ins[1] \notin BodyNames(g, t)
    /\ \A t \in Scopes : \A other \in NodesOf(g, t) : node.ins[1] \notin HostRead(other)

ASSUME ScopesAssumption == \A g \in Programs : NamesApart(g) /\ UpdatesApart(g)

\* A call evaluates the graph with lexical scopes: one flat map of names, shadowed and
\* restored, a cache of initializers across calls and updates noted for later come to
\* the same (engine.rs:958-1031, 1722-1790).
KeepsScopes == Contract!CSpec

=============================================================================
