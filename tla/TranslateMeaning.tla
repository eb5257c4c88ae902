-------------------------- MODULE TranslateMeaning --------------------------
(***************************************************************************)
(* What a graph with control flow means: names are bound lexically, a      *)
(* branch or a body sees the values around it, an iteration starts from    *)
(* the bindings before the loop, and an in-place operator replaces the     *)
(* value of its input.  Nothing here is taken from the translator.         *)
(***************************************************************************)
EXTENDS TranslateValues

RECURSIVE RunNodes(_, _, _, _), RunBody(_, _, _, _), Iterated(_, _, _, _, _, _, _)

\* The bindings after nodes i, i + 1, ... of scope s.
RunNodes(p, s, i, env) ==
  IF i > Len(p.nodes[s]) THEN env
  ELSE
    LET node == p.nodes[s][i]
        args == [k \in DOMAIN node.ins |-> env[node.ins[k]]]
        results ==
          CASE node.kind = "If" ->
                 RunBody(p, node.bodies[IF args[1].n # 0 THEN 1 ELSE 2], env, <<>>)
            [] node.kind = "Loop" ->
                 Iterated(p, node, env, 0, IF args[2].n # 0 THEN args[1].n ELSE 0, Tail(Tail(args)), <<>>)
            [] node.kind = "Scan" ->
                 Iterated(p, node, env, 0, args[Len(args)].n, SubSeq(args, 1, Len(args) - 1), <<>>)
            [] OTHER -> <<Applied(node, args)>>
        written == IF node.kind = "Paged" THEN Bind(<<node.ins[1]>>, results) ELSE <<>>
    IN RunNodes(p, s, i + 1, Over(env, Over(written, Bind(node.outs, results))))

\* The outputs of body s.
RunBody(p, s, env, args) ==
  LET inner == RunNodes(p, s, 1, Over(Over(env, InitValues(p, s)), Bind(p.formals[s], args)))
  IN [k \in DOMAIN p.outs[s] |-> inner[p.outs[s][k]]]

\* The outputs of a Loop or a one-input Scan: the carried values, then, of a Scan,
\* what each iteration emitted.
Iterated(p, node, env, t, trip, state, emitted) ==
  IF t = trip
  THEN state \o (IF node.kind = "Scan" THEN <<Stacked(emitted)>> ELSE <<>>)
  ELSE
    LET scan == env[node.ins[Len(node.ins)]]
        args == IF node.kind = "Loop" THEN <<Counter(t), Yes>> \o state
                ELSE Append(state, Sliced(scan, IF node.reversed THEN trip - 1 - t ELSE t))
        outs == RunBody(p, node.bodies[1], env, args)
        next == IF node.kind = "Loop" THEN Tail(outs) ELSE SubSeq(outs, 1, Len(outs) - 1)
        more == IF node.kind = "Loop" THEN emitted
                ELSE IF node.outReversed THEN <<outs[Len(outs)]>> \o emitted
                ELSE Append(emitted, outs[Len(outs)])
    IN Iterated(p, node, env, t + 1, trip, next, more)

\* The bindings at the end of program p on the host's inputs.
Meaning(p, host) == RunNodes(p, "root", 1, Over(host, InitValues(p, "root")))

=============================================================================
