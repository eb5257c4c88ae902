--------------------------- MODULE TranslateValues ---------------------------
(***************************************************************************)
(* The values of a graph, and the bindings of names to them.               *)
(***************************************************************************)
EXTENDS Integers, Sequences, Functions

\* A value is the term that computes it: an operator, a number (the content of a
\* scalar, the extent of a tensor), its arguments, and whether its data depend on
\* the data of the host's inputs.
Val(op, n, args) == [op |-> op, n |-> n, args |-> args, live |-> \E i \in DOMAIN args : args[i].live]

\* No array at all.
NoValue == Val("missing", 0, <<>>)

HostValue(name, n) == [op |-> name, n |-> n, args |-> <<>>, live |-> TRUE]

\* g over f.
Over(f, g) == [x \in DOMAIN f \cup DOMAIN g |-> IF x \in DOMAIN g THEN g[x] ELSE f[x]]

Bind(names, values) ==
  [x \in Range(names) |-> values[CHOOSE i \in DOMAIN names : names[i] = x]]

\* What an ordinary operator computes.
Applied(node, args) ==
  IF node.kind = "Shape" THEN [Val(node.id, args[1].n, <<>>) EXCEPT !.live = FALSE]
  ELSE [Val(node.id, args[1].n, args) EXCEPT !.live = @ \/ node.kind = "Random"]

Sliced(scan, i) == Val("slice", i, <<scan>>)

Stacked(parts) == Val("stack", Len(parts), parts)

Counter(t) == Val("iteration", t, <<>>)

Yes == Val("true", 1, <<>>)

InitValues(p, s) == [x \in DOMAIN p.inits[s] |-> Val(x, p.inits[s][x], <<>>)]

=============================================================================
