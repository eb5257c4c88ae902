----------------------------- MODULE MCTranslate -----------------------------
(* Programs of two or three nodes around one control-flow node, whose bodies *)
(* may rebind the names around them, and may contain another If.             *)
EXTENDS TranslateScopes, TranslateMeaning

N(id, kind, ins, outs) ==
  [id |-> id, kind |-> kind, ins |-> ins, outs |-> outs, bodies |-> <<>>,
   reversed |-> FALSE, outReversed |-> FALSE]

Control(kind, ins, outs, bodies) ==
  [id |-> kind, kind |-> kind, ins |-> ins, outs |-> outs, bodies |-> bodies,
   reversed |-> FALSE, outReversed |-> FALSE]

None == [x \in {} |-> 0]

One(name, n) == [x \in {name} |-> n]

Program(root, then, else, inner, formals, outs, inits) ==
  [nodes |-> [root |-> root, then |-> then, else |-> else, inner |-> inner],
   formals |-> formals @@ [root |-> <<>>, then |-> <<>>, else |-> <<>>, inner |-> <<>>],
   outs |-> outs @@ [root |-> <<>>, then |-> <<>>, else |-> <<>>, inner |-> <<>>],
   inits |-> inits @@ [root |-> One("w", 2), then |-> None, else |-> None, inner |-> None],
   external |-> {"z"}]

\* x feeds a, f is the shape of x.
Before == <<N("first", "Op", <<"x">>, <<"a">>), N("shape", "Shape", <<"x">>, <<"f">>)>>

\* y is the control-flow node's result; the last node also reads a name from before.
After(kind, name) == <<N("last", kind, <<"y", name>>, <<"z">>)>>

Ifs ==
  {Program(Before \o <<Control("If", <<cond>>, <<"y">>, <<"then", "else">>)>> \o After(kind, name),
     <<N("t1", body, <<"a", weight>>, <<r>>)>>,
     <<N("e1", body, <<"x", weight>>, <<"e">>)>>,
     <<>>,
     <<>>,
     [then |-> <<out>>, else |-> <<"e">>],
     [then |-> One("k", 5), else |-> IF weight = "k" THEN One("k", 6) ELSE None])
   : cond \in {"c", "w", "a"}, kind \in {"Op", "Reshape"}, name \in {"a", "f", "x"},
     body \in {"Op", "Pack"}, weight \in {"k", "w"}, r \in {"r", "a2"}, out \in {"r", "k"}}

Loops ==
  {Program(Before \o <<Control("Loop", <<trip, "w", "a">>, <<"y">>, <<"then">>)>> \o After("Op", name),
     <<N("b1", kind, <<s, arg>>, <<r>>)>> \o nested,
     <<>>,
     IF nested = <<>> THEN <<>> ELSE <<N("i1", "Op", <<r, iarg>>, <<"a">>)>>,
     [then |-> <<"i", "g", s>>],
     [then |-> <<"g", IF nested = <<>> THEN r ELSE "q">>, inner |-> <<"a">>],
     <<>>)
   : trip \in {"c", "w", "a"}, name \in {"a", "f", "x"}, kind \in {"Op", "Reshape", "Random"},
     s \in {"s", "f"}, arg \in {"x", "f", "i"}, r \in {"r", "a"},
     iarg \in {"x", "f"},
     nested \in {<<>>, <<Control("If", <<"c">>, <<"q">>, <<"inner", "inner">>)>>}}

\* An If in the body of a Loop that tests the condition the Loop passes in.
Guards ==
  {Program(Before \o <<Control("Loop", <<trip, "w", "a">>, <<"y">>, <<"then">>)>> \o After("Op", "a"),
     <<N("b1", "Op", <<"s", "x">>, <<"r">>), Control("If", <<"g">>, <<"q">>, <<"inner", "inner">>)>>,
     <<>>,
     <<N("i1", "Op", <<"r", "x">>, <<"b">>)>>,
     [then |-> <<"i", "g", "s">>],
     [then |-> <<"g", "q">>, inner |-> <<"b">>],
     <<>>)
   : trip \in {"c", "w"}}

Scans ==
  {Program(Before \o <<[Control("Scan", <<"a", "x">>, <<"h", "y">>, <<"then">>)
                        EXCEPT !.reversed = rev, !.outReversed = out]>> \o After("Op", name),
     <<N("s1", "Op", <<"h", "v">>, <<"a">>), N("s2", "Op", <<"a", "w">>, <<"y">>)>>,
     <<>>, <<>>,
     [then |-> <<"h", "v">>],
     [then |-> <<"a", "y">>],
     <<>>)
   : rev \in BOOLEAN, out \in BOOLEAN, name \in {"a", "h", "x"}}

\* Two updates of one boundary input, or of an intermediate, read afterwards.
Updates ==
  {Program(<<N("first", "Op", <<"c">>, <<"a">>), N("up1", "Paged", <<cached, "c">>, <<"o">>),
             N("up2", "Paged", <<again, "a">>, <<"y">>)>> \o After("Op", name),
     <<>>, <<>>, <<>>, <<>>, <<>>, <<>>)
   : cached \in {"x", "a", "w"}, again \in {"x", "a"}, name \in {"x", "a", "o"}}

\* A reduction along axes that are an initializer or come with the call.
Reductions ==
  {Program(Before \o <<N("reduced", "Reduce", <<"a", axes>>, <<"y">>)>> \o After("Op", "f"),
     <<>>, <<>>, <<>>, <<>>, <<>>, <<>>)
   : axes \in {"w", "c", "f"}}

MCPrograms ==
  Ifs \cup Loops \cup Guards \cup Scans \cup Updates \cup Reductions

\* A call that answers OK leaves in the host's memory what the graph means: outputs
\* and updates in place, through every branch, iteration and shadowed name, and
\* whatever earlier calls left in the plan's cache (engine.rs:958-1031, 1722-1790).
AnswersMeaning ==
  status = "ok" =>
    LET meant == Meaning(p, given)
    IN /\ results = Restrict(meant, p.external)
       /\ host = Restrict(meant, CtxInputs)
=============================================================================
