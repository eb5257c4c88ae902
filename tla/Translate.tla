------------------------------ MODULE Translate ------------------------------
(***************************************************************************)
(* The translation of one fused subgraph into MLX arrays, call after call. *)
(*                                                                         *)
(* The plan builder gives every input a source by its name and scope.  A   *)
(* call translates the nodes in order in one flat map from names to        *)
(* arrays, env; a control-flow handler translates a body inline, once per  *)
(* iteration, and restores the names it shadowed.  The plan keeps the      *)
(* arrays made from initializers; the boundary writes outputs and in-place *)
(* updates back to the host.  A trace of the general slot does the same    *)
(* with its inputs seeded, and may not record an update.                   *)
(***************************************************************************)
EXTENDS TranslateValues, SequencesExt

CONSTANTS
  Programs,        \* the fused subgraphs
  CtxInputs,       \* their boundary inputs
  Numbers,         \* what a boundary input may hold: a condition, a count, an extent
  MaxCalls,        \* bound: calls of one session
  SharedNames,     \* also programs whose bodies name different packed weights alike
  HostAxes         \* also programs that reduce along axes the host binds call by call

Scopes == {"root", "then", "else", "inner"}

Parent(s) == IF s = "inner" THEN "then" ELSE "root"

\* The scopes around s; s and those around it.
Outer(s) == IF s = "root" THEN {} ELSE {Parent(s), "root"}

Within(s) == {s} \cup Outer(s)

VARIABLES
  p,        \* the fused graph
  plan,     \* the plan built from it: the source of every input, the fixed names
  cache,    \* plan.cache
  host,     \* the boundary inputs in the host's memory
  results,  \* the boundary outputs in the host's memory
  mode,     \* "idle", or the path of the call: "trace" or "eager"
  stack,    \* the graphs in translation, the root first
  env,      \* the arrays by name
  writes,   \* input_writebacks: names and their new values
  given,    \* the boundary inputs when the call began
  status,   \* how the last call ended
  calls

vars == <<p, plan, cache, host, results, mode, stack, env, writes, given, status, calls>>

-----------------------------------------------------------------------------
(* The plan: build_graph and what it derives from the names.  g is a graph. *)

NodesOf(g, s) == Range(g.nodes[s])

Produced(g, s) == UNION {Range(node.outs) : node \in NodesOf(g, s)}

\* The names a body binds itself.
BodyNames(g, s) == Range(g.formals[s]) \cup Produced(g, s)

\* The names an enclosing graph binds.
Around(g, s) == UNION {BodyNames(g, t) : t \in Outer(s)}

\* The scope whose initializer a name stands for: the innermost that has one.
InitScopeOf(g, s, name) ==
  LET bearers == {t \in Within(s) : name \in DOMAIN g.inits[t]}
  IN IF bearers = {} THEN "none" ELSE CHOOSE t \in bearers : bearers \subseteq Within(t)

Source(g, s, name) ==
  IF name \in Produced(g, s) \/ (s # "root" /\ name \in Range(g.formals[s])) THEN "Intermediate"
  ELSE IF InitScopeOf(g, s, name) # "none" THEN "Initializer"
  ELSE IF name \in CtxInputs THEN "CtxInput"
  ELSE IF name \in Around(g, s) THEN "Intermediate" ELSE "Unresolved"

\* Mutant: a formal input may shadow a fixed name around the body.
ReboundByNodes(g, s) == Produced(g, s)

\* The fixed names around a body that do not stand for the same value inside.
Rebound(g, s) == BodyNames(g, s)

\* A node derives its outputs from initializers and shapes alone, `fixed` being the
\* names that are known to be so.
Derives(g, s, node, fixed) ==
  /\ node.bodies = <<>>
  /\ \/ node.kind = "Shape"
     \/ /\ node.kind # "Random"
        /\ \A x \in Range(node.ins) : Source(g, s, x) = "Initializer" \/ x \in fixed

\* The fixed names before every node of scope s and after the last, given those
\* before the first.
Marked(g, s, first) ==
  LET fixed[i \in 1..(Len(g.nodes[s]) + 1)] ==
        IF i = 1 THEN first
        ELSE LET node == g.nodes[s][i - 1]
             IN fixed[i - 1] \cup (IF Derives(g, s, node, fixed[i - 1]) THEN Range(node.outs) ELSE {})
  IN fixed

\* The node of the enclosing graph that has body s.
CallerOf(g, s) == CHOOSE k \in DOMAIN g.nodes[Parent(s)] : s \in Range(g.nodes[Parent(s)][k].bodies)

\* The names mark_shape_constants takes for fixed: what is derived from initializers
\* and shapes, less what the bodies on the way bind.
Fixed(g) ==
  LET fixed[s \in Scopes] ==
        Marked(g, s, IF s = "root" THEN DOMAIN g.inits[s]
                     ELSE fixed[Parent(s)][CallerOf(g, s)] \ Rebound(g, s))
  IN fixed

\* build_plan: the scopes a graph has, the source of every name one of its nodes or
\* its outputs refers to, and the fixed names before every node.
Plan(g) ==
  LET used(s) == UNION {Range(node.ins) : node \in NodesOf(g, s)} \cup Range(g.outs[s])
  IN [ref |-> [s \in Scopes |-> [x \in used(s) |->
                [source |-> Source(g, s, x), of |-> InitScopeOf(g, s, x)]]],
      fixed |-> [s \in Scopes |-> [i \in DOMAIN g.nodes[s] |-> Fixed(g)[s][i]]],
      own |-> [s \in Scopes |-> BodyNames(g, s)]]

\* Mutant: a shape that is read may come from anywhere.
GeneralEnabledReading == \A s \in Scopes : \A node \in NodesOf(p, s) : node.kind # "Paged"

\* What the general slot excludes: updates in place, and a shape that is read but
\* may differ from call to call.
GeneralEnabled ==
  \A s \in Scopes : \A i \in DOMAIN p.nodes[s] :
    LET node == p.nodes[s][i]
    IN /\ node.kind # "Paged"
       /\ node.kind = "Reshape" =>
            \/ plan.ref[s][node.ins[2]].source = "Initializer"
            \/ node.ins[2] \in plan.fixed[s][i]

\* The operands a handler reads in the host's memory.
HostRead(node) ==
  CASE node.kind = "If" -> {node.ins[1]}
    [] node.kind = "Loop" -> {node.ins[1], node.ins[2]}
    [] node.kind = "Pack" -> {node.ins[2]}
    [] OTHER -> {}

\* if_claim asks of a condition only that no node of its own graph produces it;
\* loop_claim asks nothing of the trip count, and none of them of a body's outputs.
Claimed(g) ==
  \A s \in Scopes : \A node \in NodesOf(g, s) :
    node.kind = "If" => node.ins[1] \notin Produced(g, s)

\* The operand whose value a handler needs while it translates.
Parameters(node) == IF node.kind \in {"Reshape", "Reduce"} THEN {node.ins[2]} ELSE {}

AxesFixed(g) ==
  \A s \in Scopes : \A node \in NodesOf(g, s) :
    node.kind = "Reduce" => Source(g, s, node.ins[2]) = "Initializer"

PackedNames(g, s) == {node.ins[2] : node \in {n \in NodesOf(g, s) : n.kind = "Pack"}}

NamesDistinct(g) ==
  \A s, t \in Scopes : \A x \in PackedNames(g, s) \cap PackedNames(g, t) :
    InitScopeOf(g, s, x) = InitScopeOf(g, t, x)

-----------------------------------------------------------------------------
(* What ONNX asks of a graph, and the exporter's arrays. *)

Kinds ==
  {"Op", "Shape", "Random", "Pack", "Reshape", "Reduce", "Paged", "If", "Loop", "Scan"}

ANode ==
  [id : STRING \ {"missing"}, kind : Kinds, ins : Seq(STRING), outs : Seq(STRING),
   bodies : Seq(Scopes), reversed : BOOLEAN, outReversed : BOOLEAN]

\* Names are strings, and an initializer is not named "missing".
Typed(g) ==
  /\ g.nodes \in [Scopes -> Seq(ANode)]
  /\ g.formals \in [Scopes -> Seq(STRING)]
  /\ g.outs \in [Scopes -> Seq(STRING)]
  /\ DOMAIN g.inits = Scopes
  /\ \A s \in Scopes : "missing" \notin DOMAIN g.inits[s]

\* A node has n bodies, with so many formal inputs and outputs each.
Bodies(g, node, n, formals, outs) ==
  /\ Len(node.bodies) = n
  /\ \A b \in Range(node.bodies) : Len(g.formals[b]) = formals /\ Len(g.outs[b]) = outs

\* A node and its bodies have as many operands and results as the operator says, and
\* the inputs of the root are boundary inputs.
Arities(g) ==
  /\ g.formals["root"] = <<>>
  /\ \A s \in Scopes : \A node \in NodesOf(g, s) :
       LET ins == Len(node.ins)
       IN /\ node.kind = "If" => ins = 1 /\ Bodies(g, node, 2, 0, Len(node.outs))
          /\ node.kind = "Loop" =>
               ins >= 2 /\ Bodies(g, node, 1, ins, ins - 1) /\ Len(node.outs) = ins - 2
          /\ node.kind = "Scan" =>
               ins >= 1 /\ Bodies(g, node, 1, ins, ins) /\ Len(node.outs) = ins
          /\ node.kind \in {"Pack", "Reshape", "Reduce"} => ins >= 2
          /\ node.kind \notin {"If", "Loop", "Scan"} =>
               ins >= 1 /\ node.bodies = <<>> /\ Len(node.outs) = 1

\* A body belongs to one node, of the graph right around it.
Nested(g) ==
  \A s \in Scopes : \A k \in DOMAIN g.nodes[s] : \A b \in Range(g.nodes[s][k].bodies) :
    /\ b # "root" /\ Parent(b) = s
    /\ \A j \in DOMAIN g.nodes[s] : b \in Range(g.nodes[s][j].bodies) => j = k

\* No name is bound twice in one graph.
SingleAssignment(g) ==
  /\ \A s \in Scopes : \A j, k \in DOMAIN g.nodes[s] :
       j # k => Range(g.nodes[s][j].outs) \cap Range(g.nodes[s][k].outs) = {}
  /\ Produced(g, "root") \cap DOMAIN g.inits["root"] = {}

\* The names scope s binds before its node k.
BoundBefore(g, s, k) ==
  Range(g.formals[s]) \cup UNION {Range(g.nodes[s][j].outs) : j \in 1..(k - 1)}

\* Nodes come after what they read, in their own graph or in one around it; what a
\* body in between rebinds is not read as a boundary input.
Ordered(g) ==
  \A s \in Scopes : \A k \in DOMAIN g.nodes[s] : \A x \in Range(g.nodes[s][k].ins) :
    /\ Source(g, s, x) # "Unresolved"
    /\ Source(g, s, x) = "CtxInput" => x \notin Around(g, s)
    /\ Source(g, s, x) = "Intermediate" =>
         \/ x \in BoundBefore(g, s, k)
         \/ \E t \in Outer(s) : \E m \in DOMAIN g.nodes[t] :
              /\ Range(g.nodes[t][m].bodies) \cap Within(s) # {}
              /\ x \in BoundBefore(g, t, m)

\* What is updated in place, a K/V cache, is not derived from initializers and shapes.
UpdatesUnknown(g) ==
  \A s \in Scopes : \A k \in DOMAIN g.nodes[s] :
    LET node == g.nodes[s][k]
    IN (node.kind = "Paged" /\ Source(g, s, node.ins[1]) = "Intermediate")
         => node.ins[1] \notin Fixed(g)[s][k]

WellFormed(g) ==
  /\ Typed(g) /\ Arities(g) /\ Nested(g) /\ SingleAssignment(g) /\ Ordered(g)
  /\ UpdatesUnknown(g)

ASSUME TranslateAssumption ==
  /\ \A g \in Programs : WellFormed(g)
  /\ MaxCalls \in Nat

Init ==
  /\ p \in {g \in Programs : /\ Claimed(g)
                             /\ NamesDistinct(g) \/ SharedNames
                             /\ AxesFixed(g) \/ HostAxes}
  /\ plan = Plan(p)
  /\ cache = <<>>
  /\ \E n \in [CtxInputs -> Numbers] : host = [x \in CtxInputs |-> HostValue(x, n[x])]
  /\ results = <<>>
  /\ mode = "idle" /\ stack = <<>> /\ env = <<>> /\ writes = <<>>
  /\ given = host
  /\ status = "none" /\ calls = 0

-----------------------------------------------------------------------------
(* Reading an input. *)

Top == stack[Len(stack)]

Node == p.nodes[Top.scope][Top.pc]

Ref(s, name) == plan.ref[s][name]

SourceOf(s, name) == Ref(s, name).source

HostReadable(s, name) == SourceOf(s, name) \in {"Initializer", "CtxInput"}

\* Mutant: the array of an initializer is kept by its name alone.
KeyByName(s, name) == [name |-> name, of |-> "any"]

\* Every initializer owns its bytes, and is kept by its name and their address.
Key(s, name) == [name |-> name, of |-> Ref(s, name).of]

InitValue(s, name) == InitValues(p, Ref(s, name).of)[name]

Cached(key, made) == IF key \in DOMAIN cache THEN cache[key] ELSE made

\* resolve: the array of input `name` of a node of scope s.
Resolve(s, name) ==
  CASE SourceOf(s, name) = "Intermediate" -> IF name \in DOMAIN env THEN env[name] ELSE NoValue
    [] SourceOf(s, name) = "Initializer" -> Cached(Key(s, name), InitValue(s, name))
    [] SourceOf(s, name) = "CtxInput" -> IF name \in DOMAIN env THEN env[name] ELSE host[name]
    [] OTHER -> NoValue

\* raw_host: the same input in the host's memory.
RawHost(s, name) ==
  CASE SourceOf(s, name) = "Initializer" -> InitValue(s, name)
    [] SourceOf(s, name) = "CtxInput" -> host[name]
    [] OTHER -> NoValue

\* Resolving puts a boundary input into env and an initializer into the cache.
Wrapped(names) ==
  LET read == {x \in names : SourceOf(Top.scope, x) = "CtxInput"}
  IN [x \in read \cup DOMAIN env |-> IF x \in DOMAIN env THEN env[x] ELSE host[x]]

\* matmulnbits_repack keeps the packed form by the weight's name alone.
PackKey(name) == [name |-> name, of |-> "packed"]

Kept(names, packed) ==
  LET s == Top.scope
      keys == {Key(s, x) : x \in {y \in names : SourceOf(s, y) = "Initializer"}}
  IN [k \in DOMAIN cache \cup keys \cup {PackKey(x) : x \in packed} |->
        IF k \in DOMAIN cache THEN cache[k] ELSE InitValue(s, k.name)]

-----------------------------------------------------------------------------
(* Calls, and ordinary nodes. *)

\* A graph in translation; of a Loop or a Scan also its progress.
Frame(s) ==
  [scope |-> s, pc |-> 1, saved |-> <<>>, t |-> 0, trip |-> 0,
   state |-> <<>>, scan |-> NoValue, emitted |-> <<>>]

\* The trace of a slot starts with every boundary input seeded by name.
Starts(path) ==
  /\ mode' = path
  /\ stack' = <<Frame("root")>>
  /\ env' = IF path = "trace" THEN host ELSE <<>>
  /\ writes' = <<>>

Call ==
  /\ mode = "idle"
  /\ calls < MaxCalls
  /\ calls' = calls + 1
  /\ \/ Starts("eager")
     \/ GeneralEnabled /\ Starts("trace")
  /\ results' = <<>>
  /\ given' = host
  /\ status' = "none"
  /\ UNCHANGED <<p, plan, cache, host>>

Halted(how) ==
  /\ mode' = "idle"
  /\ status' = how
  /\ stack' = <<>> /\ env' = <<>> /\ writes' = <<>>

\* A handler's error: a failed trace leaves the call to the eager path.
Fails ==
  /\ \/ mode = "trace" /\ Starts("eager") /\ UNCHANGED status
     \/ mode = "eager" /\ Halted("failed")
  /\ UNCHANGED <<p, plan, cache, host, results, given, calls>>

\* The operands a node resolves to arrays.
Inputs ==
  IF Node.kind = "Pack" THEN {Node.ins[k] : k \in DOMAIN Node.ins \ {2}} ELSE Range(Node.ins)

\* A packed weight that is no initializer is packed anew.
Argument(k) ==
  IF Node.kind = "Pack" /\ k = 2
  THEN IF SourceOf(Top.scope, Node.ins[2]) = "Initializer"
       THEN Cached(PackKey(Node.ins[2]), InitValue(Top.scope, Node.ins[2]))
       ELSE RawHost(Top.scope, Node.ins[2])
  ELSE Resolve(Top.scope, Node.ins[k])

Arguments == [k \in DOMAIN Node.ins |-> Argument(k)]

Missing(values) == \E k \in DOMAIN values : values[k] = NoValue

\* read_ints_eval evaluates an intermediate, in a trace only a fixed one; read_axes
\* of a reduction does not evaluate.
Unreadable ==
  /\ Node.kind \in {"Reshape", "Reduce"}
  /\ SourceOf(Top.scope, Node.ins[2]) = "Intermediate"
  /\ \/ Node.kind = "Reduce"
     \/ mode = "trace" /\ Node.ins[2] \notin plan.fixed[Top.scope][Top.pc]

Advanced == [stack EXCEPT ![Len(stack)].pc = @ + 1]

InNode == mode # "idle" /\ Top.pc <= Len(p.nodes[Top.scope])

\* Mutant: the name keeps its old array until the boundary writes the new one.
UpdatedAtBoundary(node, value) ==
  [env |-> <<>>,
   writes |-> IF node.kind = "Paged" /\ SourceOf(Top.scope, node.ins[1]) = "CtxInput"
              THEN Append(writes, [name |-> node.ins[1], value |-> value]) ELSE writes]

\* write_back_input: the name now stands for the new value, and the boundary will
\* write it to the host if it is a boundary input.
Updated(node, value) ==
  IF node.kind # "Paged" THEN [env |-> <<>>, writes |-> writes]
  ELSE [env |-> Bind(<<node.ins[1]>>, <<value>>),
        writes |-> IF SourceOf(Top.scope, node.ins[1]) = "CtxInput"
                   THEN Append(writes, [name |-> node.ins[1], value |-> value]) ELSE writes]

\* It refuses an initializer.
Unwritable == Node.kind = "Paged" /\ SourceOf(Top.scope, Node.ins[1]) = "Initializer"

Translate ==
  /\ InNode
  /\ Node.bodies = <<>>
  /\ ~Unreadable
  /\ ~Unwritable
  /\ ~Missing(Arguments)
  /\ LET value == Applied(Node, Arguments)
         update == Updated(Node, value)
     IN /\ env' = Over(Over(Wrapped(Inputs), update.env), Bind(Node.outs, <<value>>))
        /\ writes' = update.writes
  /\ cache' = Kept(Inputs, {x \in HostRead(Node) : SourceOf(Top.scope, x) = "Initializer"})
  /\ stack' = Advanced
  /\ UNCHANGED <<p, plan, host, results, mode, given, status, calls>>

\* An operand is missing or cannot be read here, or a handler refuses.
TranslateFails ==
  /\ InNode
  /\ Node.bodies = <<>>
  /\ Fails

-----------------------------------------------------------------------------
(* run_subgraph and the handlers of If, Loop and Scan. *)

\* Mutant: only what the formal inputs shadow is saved.
SavedOfFormals(s, base) == Restrict(base, Range(p.formals[s]) \cap DOMAIN base)

\* What the body's names stand for around it.
Saved(s, base) == Restrict(base, plan.own[s] \cap DOMAIN base)

\* The entry into a body: the shadowed arrays are saved and the formals bound.
Entered(below, frame, args, base) ==
  /\ env' = Over(base, Bind(p.formals[frame.scope], args))
  /\ stack' = Append(below, [frame EXCEPT !.pc = 1, !.saved = Saved(frame.scope, base)])

\* if_op: only the taken branch is translated.
Branch ==
  /\ InNode
  /\ Node.kind = "If"
  /\ HostReadable(Top.scope, Node.ins[1])
  /\ LET taken == IF RawHost(Top.scope, Node.ins[1]).n # 0 THEN 1 ELSE 2
     IN Entered(stack, Frame(Node.bodies[taken]), <<>>, env)
  /\ UNCHANGED <<p, plan, cache, host, results, mode, writes, given, status, calls>>

\* The inputs of the iteration a frame is at.
Iteration(node, f) ==
  IF node.kind = "Loop" THEN <<Counter(f.t), Yes>> \o f.state
  ELSE Append(f.state, Sliced(f.scan, IF node.reversed THEN f.trip - 1 - f.t ELSE f.t))

\* Mutant: scan_output_directions is ignored.
FinishedForward(node, state, emitted) ==
  IF node.kind # "Scan" THEN state ELSE Append(state, Stacked(emitted))

\* The outputs of the node once every iteration is translated.
Finished(node, state, emitted) ==
  IF node.kind # "Scan" THEN state
  ELSE Append(state, Stacked(IF node.outReversed THEN Reverse(emitted) ELSE emitted))

\* The inputs a Loop or a Scan carries, and all it resolves.
Carried(node) ==
  IF node.kind = "Loop" THEN SubSeq(node.ins, 3, Len(node.ins)) ELSE Front(node.ins)

Resolved(node) == Range(IF node.kind = "Loop" THEN Carried(node) ELSE node.ins)

\* loop_op and scan_op up to the first iteration.
Iterate ==
  /\ InNode
  /\ Node.kind \in {"Loop", "Scan"}
  /\ \A x \in HostRead(Node) : HostReadable(Top.scope, x)
  /\ LET s == Top.scope
         state == [k \in DOMAIN Carried(Node) |-> Resolve(s, Carried(Node)[k])]
         scan == IF Node.kind = "Scan" THEN Resolve(s, Last(Node.ins)) ELSE NoValue
         trip == IF Node.kind = "Scan" THEN scan.n
                 ELSE IF RawHost(s, Node.ins[2]).n # 0 THEN RawHost(s, Node.ins[1]).n ELSE 0
         frame == [Frame(Node.bodies[1]) EXCEPT !.trip = trip, !.state = state, !.scan = scan]
         base == Wrapped(Resolved(Node))
     IN /\ ~Missing(state)
        /\ IF trip = 0
           THEN /\ env' = Over(base, Bind(Node.outs, Finished(Node, state, <<>>)))
                /\ stack' = Advanced
           ELSE Entered(stack, frame, Iteration(Node, frame), base)
  /\ cache' = Kept(Resolved(Node), {})
  /\ UNCHANGED <<p, plan, host, results, mode, writes, given, status, calls>>

\* An operand that must be read on the host is an intermediate.
ControlFails ==
  /\ InNode
  /\ Node.bodies # <<>>
  /\ \E x \in HostRead(Node) : ~HostReadable(Top.scope, x)
  /\ Fails

InEnd == mode # "idle" /\ Len(stack) > 1 /\ Top.pc > Len(p.nodes[Top.scope])

Outs == p.outs[Top.scope]

\* Mutant: the body's own names are not removed.
RestoredOver(frame) == Over(env, frame.saved)

\* The exit: the body's names are removed, and the saved ones put back.
Restored(frame) ==
  Over(Restrict(env, DOMAIN env \ plan.own[frame.scope]), frame.saved)

\* The rest of the stack, and the node whose body is on top of it.
Below == Front(stack)

Caller == LET f == Last(Below) IN p.nodes[f.scope][f.pc]

\* A branch or an iteration ends: its outputs are collected, then env is restored.
EndBody ==
  /\ InEnd
  /\ Range(Outs) \subseteq DOMAIN env
  /\ LET outs == [k \in DOMAIN Outs |-> env[Outs[k]]]
         state == CASE Caller.kind = "If" -> outs
                    [] Caller.kind = "Loop" -> Tail(outs)
                    [] OTHER -> Front(outs)
         emitted == IF Caller.kind = "Scan" THEN Append(Top.emitted, Last(outs)) ELSE <<>>
         frame == [Top EXCEPT !.t = @ + 1, !.state = state, !.emitted = emitted]
     IN IF frame.t < Top.trip
        THEN Entered(Below, frame, Iteration(Caller, frame), Restored(Top))
        ELSE /\ env' = Over(Restored(Top), Bind(Caller.outs, Finished(Caller, state, emitted)))
             /\ stack' = [Below EXCEPT ![Len(Below)].pc = @ + 1]
  /\ UNCHANGED <<p, plan, cache, host, results, mode, writes, given, status, calls>>

\* run_subgraph finds no array for an output of the body.
EndBodyFails ==
  /\ InEnd
  /\ ~(Range(Outs) \subseteq DOMAIN env)
  /\ Fails

-----------------------------------------------------------------------------
(* The boundary. *)

AtBoundary == mode # "idle" /\ Len(stack) = 1 /\ Top.pc > Len(p.nodes["root"])

\* The host's memory after the write-backs: the last one to a name stays.
Stored(memory, list) ==
  [x \in DOMAIN memory |->
     LET at == {i \in DOMAIN list : list[i].name = x}
     IN IF at = {} THEN memory[x] ELSE list[Max(at)].value]

\* Mutant: the updates are written before the outputs, which may still fail.
FinishBoundaryWritesFirst ==
  /\ AtBoundary
  /\ host' = Stored(host, IF mode = "eager" THEN writes ELSE <<>>)
  /\ \/ Halted("ok") /\ results' = Restrict(env, p.external)
     \/ Halted("failed") /\ \E some \in SUBSET p.external : results' = Restrict(env, some)
  /\ UNCHANGED <<p, plan, cache, given, calls>>

\* finish_boundary, or the copy-out of a slot: the outputs are evaluated and written
\* one by one; only then the updates, which a slot does not record.
FinishBoundary ==
  /\ AtBoundary
  /\ \/ /\ Halted("ok")
        /\ results' = Restrict(env, p.external)
        /\ host' = Stored(host, IF mode = "eager" THEN writes ELSE <<>>)
     \/ /\ Halted("failed")
        /\ \E some \in SUBSET p.external : results' = Restrict(env, some)
        /\ UNCHANGED host
  /\ UNCHANGED <<p, plan, cache, given, calls>>

\* Between calls the host binds new inputs, or leaves the old ones.
Refill ==
  /\ mode = "idle"
  /\ status # "none"
  /\ \E x \in CtxInputs, n \in Numbers : host' = [host EXCEPT ![x] = HostValue(x, n)]
  /\ status' = "none"
  /\ UNCHANGED <<p, plan, cache, results, mode, stack, env, writes, given, calls>>

Done == mode = "idle" /\ calls = MaxCalls /\ UNCHANGED vars

Next ==
  \/ Call \/ Translate \/ TranslateFails \/ Branch \/ Iterate \/ ControlFails
  \/ EndBody \/ EndBodyFails \/ FinishBoundary \/ Refill \/ Done

Spec == Init /\ [][Next]_vars

-----------------------------------------------------------------------------
(* Properties. *)

TypeOK ==
  /\ mode \in {"idle", "trace", "eager"}
  /\ status \in {"none", "ok", "failed"}
  /\ calls \in 0..MaxCalls
  /\ \A k \in DOMAIN cache : k.of \in Scopes \cup {"packed"}
  /\ NoValue \notin Range(env)
  /\ DOMAIN results \subseteq p.external
  /\ mode # "idle" => stack # <<>>

\* No name of a body outlives it: env holds the names of the graphs in translation
\* and of the boundary inputs read so far (engine.rs:1780-1787).
EnvScoped ==
  DOMAIN env \subseteq CtxInputs \cup UNION {plan.own[stack[i].scope] : i \in DOMAIN stack}

\* Whatever bodies were translated before, every operand of a node is found unless it
\* is read on the host and is not there: a shadowed array comes back, a boundary
\* input is read again (engine.rs:958-965).
OperandsFound ==
  (InNode /\ Node.bodies = <<>> /\ \A x \in HostRead(Node) : HostReadable(Top.scope, x))
    => ~Missing(Arguments)

\* What mark_shape_constants calls fixed does not depend on the data of the host's
\* inputs, in any scope and iteration: a trace may read it (plan_builder.rs:420-462).
FixedIsFixed ==
  InNode =>
    \A name \in Range(Node.ins) :
      (name \in plan.fixed[Top.scope][Top.pc] /\ Resolve(Top.scope, name) # NoValue)
        => ~Resolve(Top.scope, name).live

\* A parameter that a trace reads, and so bakes into the graph kept for these shapes,
\* does not depend on the data of the host's inputs: it would be "silently baked into
\* every later call with the same input shapes" (compiled.rs:106-113).
TraceReadsFixed ==
  (mode = "trace" /\ InNode /\ Node.bodies = <<>> /\ ~Unreadable) =>
    \A name \in Parameters(Node) : ~Resolve(Top.scope, name).live

\* A call that fails, a trace that fails and one that is replaced by the eager path
\* leave the host's inputs alone: updates in place come last (engine.rs:2086-2094).
UpdatesComeLast ==
  [][(host' # host /\ mode # "idle") => status' = "ok"]_vars

-----------------------------------------------------------------------------
(* Claims of the repository the code does not keep. *)

\* A condition that no node of its own graph produces, which is all if_claim asks,
\* can be read when the If is translated: "True iff input `i` has no producer node
\* [...] Such values are readable host-side at translate time" (registry.rs:1118-1120).
ConditionsReadable ==
  (InNode /\ Node.kind = "If" /\ Node.ins[1] \notin Produced(p, Top.scope))
    => HostReadable(Top.scope, Node.ins[1])

=============================================================================
