-------------------------------- MODULE MCOps --------------------------------
(* The registry with the entries of Ops, offered small nodes of every operator: *)
(* tensors of a few elements, and attributes on both sides of what a claim asks. *)
EXTENDS Ops, Registry

-----------------------------------------------------------------------------
\* Arguments: a float array of distinct elements, integers, a constant list.
Value(shape, data, dtype, source) ==
  [shape |-> shape, data |-> data, dtype |-> dtype, source |-> source, info |-> shape]

X(shape) == Value(shape, [k \in 1..Prod(shape) |-> k], "fp32", "CtxInput")

I(shape, data) == Value(shape, data, "int64", "CtxInput")

C(data) == Value(<<Len(data)>>, data, "int64", "Initializer")

S(v) == Value(<<>>, <<v>>, "fp32", "Initializer")

Absent == Value(<<>>, <<>>, "none", "Absent")

None == [a \in {} |-> 0]

\* A node whose outputs have the shapes the graph's inference gives them.
Typed(op, ins, attrs, dtypes) ==
  LET bare == [op |-> op, ins |-> ins, attrs |-> attrs,
               outs |-> [i \in DOMAIN dtypes |-> [shape |-> <<>>, dtype |-> dtypes[i]]]]
      m == Meaning(bare)
  IN [bare EXCEPT !.outs = [i \in DOMAIN dtypes |-> [shape |-> m[i].shape, dtype |-> dtypes[i]]]]

Node(op, ins, attrs, dtype, count) == Typed(op, ins, attrs, Repeated(dtype, count))

N(op, ins, attrs) == Node(op, ins, attrs, ins[1].dtype, 1)

\* The same node as a graph offers it: operands fed or computed instead of constant,
\* extents unknown, a type outside the claim.
Sourced(n, source) ==
  [n EXCEPT !.ins = [i \in DOMAIN @ |-> IF i > 1 /\ @[i].source = "Initializer"
                                        THEN [@[i] EXCEPT !.source = source] ELSE @[i]]]

Unknown(n) ==
  [n EXCEPT !.ins = [i \in DOMAIN @ |-> IF @[i].source = "Initializer" THEN @[i]
                                        ELSE [@[i] EXCEPT !.info = [d \in DOMAIN @ |-> -1]]],
            !.outs = [i \in DOMAIN @ |-> [@[i] EXCEPT !.shape = [d \in DOMAIN @ |-> -1]]]]

Strings(n) ==
  IF n.ins = <<>> THEN [n EXCEPT !.outs[1].dtype = "string"]
  ELSE [n EXCEPT !.ins[1].dtype = "string", !.outs[1].dtype = "string"]

\* Operands on the host are never those another node computes.
Readable(nodes) ==
  nodes \cup {Sourced(n, "CtxInput") : n \in nodes} \cup {Unknown(n) : n \in nodes}
        \cup {Strings(n) : n \in nodes}

Offered(nodes) == Readable(nodes) \cup {Sourced(n, "Intermediate") : n \in nodes}

\* A batch and spatial extents that are not known.
Resizable(n) ==
  LET open(shape) == [d \in DOMAIN shape |-> IF d = 2 THEN shape[d] ELSE -1]
  IN [n EXCEPT !.ins[1].info = open(@), !.outs[1].shape = open(@)]

Spatials(nodes) == Offered(nodes) \cup {Resizable(n) : n \in nodes}

-----------------------------------------------------------------------------
Grid == X(<<2, 3>>)

Cube == X(<<2, 3, 2>>)

\* Elements of both signs, some equal.
Mixed(shape) == [X(shape) EXCEPT !.data = [k \in DOMAIN @ |-> ((k * k + k) % 5) - 2]]

Bits(shape) == [X(shape) EXCEPT !.data = [k \in DOMAIN @ |-> (k \div 2) % 2]]

As(t, dtype) == [t EXCEPT !.dtype = dtype]

Number(v) == [C(<<v>>) EXCEPT !.shape = <<>>, !.info = <<>>]

Axes(rank) == (-rank)..(rank - 1)

\* Bytes of every size, parameters that are steps, points and units.
Bytes(shape, dtype) ==
  LET least == IF dtype \in {"int8", "int16"} THEN -128 ELSE 0
  IN As([X(shape) EXCEPT !.data = [k \in DOMAIN @ |-> ((k * k * 29 + 7 * k) % 256) + least]], dtype)

Const(t) == [t EXCEPT !.source = "Initializer"]

Step(shape) == [X(shape) EXCEPT !.data = [k \in DOMAIN @ |-> 1 + (k % 3)]]

Point(shape, dtype) == As([X(shape) EXCEPT !.data = [k \in DOMAIN @ |-> 3 * k]], dtype)

Unit(shape) == [X(shape) EXCEPT !.data = [k \in DOMAIN @ |-> 1000 + 12 * k]]

CasesOf(op) ==
  CASE op = "Gather" ->
         Offered({N(op, <<Grid, i>>, [axis |-> a]) : a \in Axes(2),
                  i \in {I(<<>>, <<-1>>), I(<<2>>, <<1, -2>>), I(<<1, 2>>, <<0, -1>>)}})
    [] op = "GatherElements" ->
         Offered({N(op, <<Grid, I(<<2, 2>>, <<0, -1, 1, -2>>)>>, [axis |-> a]) : a \in {1, -1}}
                 \cup {N(op, <<Grid, I(<<3, 3>>, <<0, -1, 1, -2, 1, 0, 1, 0, -1>>)>>, [axis |-> a]) : a \in {0, -2}})
    [] op = "ScatterElements" ->
         Offered({N(op, <<Grid, I(<<2, 2>>, <<0, -1, 1, -2>>), X(<<2, 2>>)>>, [axis |-> a]) : a \in {1, -1}}
                 \cup {N(op, <<Grid, I(<<1, 3>>, <<-1, 0, 1>>), X(<<1, 3>>)>>, [axis |-> 0])})
    [] op = "GatherND" ->
         Offered({N(op, <<Cube, I(<<2, 2>>, <<0, -1, -1, 0>>)>>, None),
                  N(op, <<Cube, I(<<2, 1>>, <<-1, 0>>)>>, None),
                  N(op, <<Cube, I(<<1, 2, 3>>, <<1, -1, 0, -2, 1, -1>>)>>, None),
                  N(op, <<Cube, I(<<2>>, <<-1, 1>>)>>, [batch_dims |-> 0])})
    [] op = "ScatterND" ->
         Offered({N(op, <<Cube, I(<<2, 2>>, <<0, -1, -1, 0>>), X(<<2, 2>>)>>, None),
                  N(op, <<Cube, I(<<1, 1>>, <<-1>>), X(<<1, 3, 2>>)>>, None),
                  N(op, <<Cube, I(<<2, 3>>, <<1, -1, 0, 0, 1, -1>>), X(<<2>>)>>, None)})
    [] op = "CenterCropPad" ->
         Offered({N(op, <<X(<<2, 3>>), C(<<h, w>>)>>, None) : h \in 1..4, w \in 1..6}
                 \cup {N(op, <<X(<<3, 4>>), C(<<k>>)>>, [axes |-> <<a>>]) : k \in {1, 2, 5}, a \in Axes(2)})
    [] op = "Compress" ->
         LET cond(s) == [C(s) EXCEPT !.dtype = "bool"]
         IN Offered({N(op, <<Grid, cond(s)>>, [axis |-> a]) :
                       s \in {<<0, 1>>, <<1, 1>>, <<1>>}, a \in Axes(2)}
                    \cup {N(op, <<Grid, cond(<<0, 1, 1, 0, 1>>)>>, None)})
    [] op = "Pad" ->
         Offered({N(op, <<X(<<2, 3>>), C(<<1, 0, 0, 2>>), S(9)>>, [mode |-> m]) :
                    m \in {"constant", "edge", "wrap"}}
                 \cup {N(op, <<X(<<2, 3>>), C(<<1, 2, 1, 1>>)>>, [mode |-> m]) :
                         m \in {"constant", "reflect", "edge", "wrap"}}
                 \cup {N(op, <<X(<<2, 3>>), C(<<l, h>>), Absent, C(<<a>>)>>, [mode |-> m]) :
                         l \in 0..1, h \in 0..1, a \in Axes(2), m \in {"reflect", "edge", "wrap"}}
                 \cup {N(op, <<X(<<2, 2>>), C(<<5, 3>>), Absent, C(<<1>>)>>, [mode |-> "wrap"])})
    [] op = "Slice" ->
         Offered({N(op, <<X(<<5>>), C(<<s>>), C(<<e>>), C(<<0>>), C(<<st>>)>>, None) :
                    s \in -7..6, e \in -7..6, st \in {-3, -2, -1, 1, 2}}
                 \cup {N(op, <<X(<<3, 4>>), C(<<2, 0>>), C(<<-9, 3>>), C(<<a, b>>), C(<<-1, st>>)>>, None) :
                         st \in {-1, 2}, a \in {0, -2}, b \in {1, -1}}
                 \cup {N(op, <<X(<<3, 4>>), C(<<1>>), C(<<-1>>)>>, None)})
    [] op = "DepthToSpace" ->
         Offered({N(op, <<X(<<2, 8, 1, 2>>)>>, [blocksize |-> 2, mode |-> m]) : m \in {"DCR", "CRD"}})
    [] op = "SpaceToDepth" ->
         Offered({N(op, <<X(<<1, 2, 4, 2>>)>>, [blocksize |-> 2, mode |-> m]) : m \in {"DCR", "CRD"}})
    [] op = "Reshape" ->
         Offered({N(op, <<X(<<2, 3, 2>>), C(s)>>, None) :
                    s \in {<<-1>>, <<0, -1>>, <<3, -1, 2>>, <<0, 0, 0>>, <<2, 0, -1>>, <<12, 1>>}})
    [] op = "Transpose" ->
         Offered({N(op, <<Cube>>, [perm |-> p]) : p \in {q \in [1..3 -> 0..2] : IsInjective(q)}}
                 \cup {N(op, <<Cube>>, None)})
    [] op = "Flatten" -> Offered({N(op, <<Cube>>, [axis |-> a]) : a \in -3..3})
    [] op = "Squeeze" ->
         Offered({N(op, <<X(<<1, 3, 1>>), C(s)>>, None) : s \in {<<0>>, <<-1>>, <<2, 0>>, <<-3, -1>>}}
                 \cup {N(op, <<X(<<1, 3, 1>>)>>, None)})
    [] op = "Unsqueeze" ->
         Offered({N(op, <<Grid, C(s)>>, None) : s \in {<<0>>, <<-1>>, <<2, 0>>, <<-2, 1>>, <<3, 0>>}})
    [] op = "Expand" ->
         Offered({N(op, <<X(<<2, 1>>), C(s)>>, None) : s \in {<<3>>, <<2, 1>>, <<1, 1, 1>>, <<3, 1, 2>>}})
    [] op = "Concat" ->
         Offered({N(op, <<Grid, X(<<2, 1>>), X(<<2, 2>>)>>, [axis |-> a]) : a \in {1, -1}}
                 \cup {N(op, <<Grid, X(<<1, 3>>)>>, [axis |-> a]) : a \in {0, -2}})
    [] op = "Split" ->
         Offered({Node(op, <<X(<<4, 3>>), C(s)>>, [axis |-> a], "fp32", Len(s)) :
                    s \in {<<1, 3>>, <<0, 4>>, <<2, 1, 1>>}, a \in {0, -2}}
                 \cup {Node(op, <<X(<<4, 3>>)>>, [axis |-> 0], "fp32", k) : k \in 1..4})
    [] op = "Tile" -> Offered({N(op, <<Grid, C(s)>>, None) : s \in {<<1, 2>>, <<2, 0>>, <<2, 3>>}})
    [] op = "EyeLike" -> Offered({N(op, <<Grid>>, [k |-> k]) : k \in -2..3})
    [] op = "ReverseSequence" ->
         Offered({N(op, <<X(<<2, 3, 2>>), I(<<2>>, <<l, m>>)>>, [batch_axis |-> ba, time_axis |-> 3 - (ba + 2)]) :
                    ba \in {0}, l \in 1..2, m \in 1..3}
                 \cup {N(op, <<X(<<3, 2, 2>>), I(<<2>>, <<l, m>>)>>, [batch_axis |-> ba, time_axis |-> 0]) :
                         ba \in {1, 2, -1}, l \in 0..3, m \in 1..3})
    [] op = "Range" ->
         LET arg(v) == [C(<<v>>) EXCEPT !.shape = <<>>, !.info = <<>>]
         IN Offered({N(op, <<arg(a), arg(b), arg(d)>>, None) : a \in {-1, 4}, b \in {0, 3, 4, 5}, d \in {-2, 1, 3}})
    [] op = "Shape" ->
         Offered({Node(op, <<Cube>>, [start |-> a, end |-> b], "int64", 1) : a \in -4..4, b \in -4..4}
                 \cup {Node(op, <<Cube>>, None, "int64", 1)})
    [] op = "ConstantOfShape" ->
         Offered({Node(op, <<C(s)>>, [value |-> 7], "fp32", 1) : s \in {<<2, 3>>, <<0>>, <<>>}}
                 \cup {Node(op, <<C(<<2>>)>>, None, "fp32", 1)})
    [] op = "Where" ->
         LET cond(s, v) == Value(s, v, "bool", "CtxInput")
         IN Offered({Node(op, <<c, X(<<3>>), S(9)>>, None, "fp32", 1) :
                       c \in {cond(<<2, 1>>, <<0, 1>>), cond(<<3>>, <<0, 1, 0>>), cond(<<>>, <<1>>)}})
    [] op = "Resize" ->
         LET attrs == [coordinate_transformation_mode : {"half_pixel", "asymmetric", "align_corners", "pytorch_half_pixel"},
                       nearest_mode : {"round_prefer_floor", "round_prefer_ceil", "floor", "ceil"},
                       mode : {"nearest"}]
                      \cup [coordinate_transformation_mode : {"half_pixel", "asymmetric", "align_corners", "pytorch_half_pixel"},
                            nearest_mode : {"floor"}, mode : {"linear"}]
             refused == {[mode |-> m] @@ r : m \in {"nearest", "linear"},
                           r \in {[nearest_mode |-> "half"], [exclude_outside |-> 1], [antialias |-> 1],
                                  [axes |-> <<0>>], [keep_aspect_ratio_policy |-> "not_larger"]}}
             scales(s) == [Value(<<Len(s)>>, s, "fp32", "Initializer") EXCEPT !.source = "Initializer"]
         IN Offered({N(op, <<X(<<1, 1, 3, 2>>), Absent, Absent, C(<<1, 1, h, w>>)>>, a) :
                       h \in {1, 2, 5}, w \in {1, 3}, a \in attrs}
                    \cup {N(op, <<X(<<1, 1, 3, 2>>), Absent, Absent, C(<<1, 1, 5, 3>>)>>, a) : a \in refused}
                    \cup {N(op, <<X(<<3, 2>>), Absent, scales(<<<<p, 2>>, <<2, 1>>>>)>>, a) :
                            p \in {1, 3, 5}, a \in attrs})
    [] op = "Upsample" ->
         Offered({N(op, <<X(<<3, 2>>), Value(<<2>>, <<s, <<2, 1>>>>, "fp32", "Initializer")>>, [mode |-> m]) :
                    s \in {<<1, 1>>, <<3, 1>>, <<5, 2>>}, m \in {"nearest", "linear"}})
    [] op \in ReductionTypes ->
         Readable({Node(op, <<As(Mixed(<<2, 3, 2>>), t), C(s)>>, [keepdims |-> k, noop_with_empty_axes |-> noop], t, 1) :
                     t \in {"fp32", "int64"}, k \in 0..1, noop \in 0..1,
                     s \in {<<>>, <<0>>, <<-1>>, <<2, 0>>, <<-2, 2>>}}
                  \cup {N(op, <<Mixed(<<2, 3>>)>>, [keepdims |-> k, axes |-> <<a>>]) : k \in 0..1, a \in Axes(2)}
                  \cup {N(op, <<Mixed(<<2, 3>>)>>, None), N(op, <<Mixed(<<2, 0>>), C(<<1>>)>>, None)})
    [] op \in {"ArgMin", "ArgMax"} ->
         Offered({Node(op, <<Mixed(<<2, 3, 2>>)>>, [axis |-> a, keepdims |-> k, select_last_index |-> l], "int64", 1) :
                    a \in Axes(3), k \in 0..1, l \in 0..1})
    [] op \in {"CumSum", "CumProd"} ->
         Offered({N(op, <<Mixed(<<2, 3>>), Number(a)>>, [exclusive |-> e, reverse |-> r]) :
                    a \in Axes(2), e \in 0..1, r \in 0..1}
                 \cup {N(op, <<Mixed(<<2, 0>>), Number(1)>>, None), N(op, <<Mixed(<<2, 3>>), C(<<0>>)>>, None)})
    [] op \in {"Hardmax", "Hardmax-11"} ->
         Offered({N(op, <<Mixed(<<2, 3, 2>>)>>, [axis |-> a]) : a \in Axes(3)}
                 \cup {N(op, <<Mixed(<<2, 3>>)>>, None)})
    [] op = "TopK" ->
         Offered({Typed(op, <<As(Mixed(<<2, 3>>), t), C(<<k>>)>>, [axis |-> a, largest |-> l], <<t, "int64">>) :
                    t \in {"fp32", "int8"}, k \in 1..2, a \in Axes(2), l \in 0..1}
                 \cup {Typed(op, <<As([X(<<6>>) EXCEPT !.data = <<-128, 127, 0, -1, -128, 5>>], "int8"), C(<<k>>)>>,
                             [largest |-> l], <<"int8", "int64">>) : k \in {1, 3, 6}, l \in 0..1})
    [] op = "OneHot" ->
         Offered({Node(op, <<I(<<2, 2>>, <<v, 1, -1, w>>), C(<<2>>), X(<<2>>)>>, [axis |-> a], "fp32", 1) :
                    v \in -3..3, w \in {-2, 0}, a \in Axes(3)})
    [] op = "Trilu" ->
         Offered({N(op, <<X(s), Number(k)>>, [upper |-> u]) : s \in {<<3, 2>>, <<2, 2, 3>>}, k \in -3..3, u \in 0..1}
                 \cup {N(op, <<Grid>>, None)})
    [] op = "Scatter" ->
         Offered({N(op, <<Grid, I(<<2, 2>>, <<0, -1, 1, -2>>), X(<<2, 2>>)>>, [axis |-> a]) : a \in {1, -1}})
    [] op = "Det" ->
         Offered({Node(op, <<Mixed(s)>>, None, "fp32", 1) : s \in {<<1, 1>>, <<2, 2>>, <<3, 2, 2>>, <<2, 3, 3>>}}
                 \cup {Node(op, <<[X(<<3, 3>>) EXCEPT !.data = d]>>, None, "fp32", 1) :
                         d \in {<<0, 2, 1, 3, 0, 1, 1, 1, 0>>, <<1, 2, 3, 4, 5, 6, 7, 8, 9>>,
                                <<0, 0, 1, 0, 2, 0, 3, 0, 0>>, <<2, 1, 3, 2, 1, 5, -4, 0, 1>>}})
    [] op = "NonZero" ->
         Offered({Node(op, <<t>>, None, "int64", 1) : t \in {Mixed(<<2, 3>>), Bits(<<5>>), Bits(<<2, 2, 2>>)}})
    [] op = "Unique" ->
         Offered({Typed(op, <<Mixed(s)>>, [sorted |-> o], SubSeq(<<"fp32", "int64", "int64", "int64">>, 1, k)) :
                    s \in {<<7>>, <<2, 3>>}, o \in 0..1, k \in 1..4})
    [] op = "TfIdfVectorizer" ->
         LET tokens(s) == I(<<Len(s)>>, s)
             attrs(mode, low, high, skips) ==
               [mode |-> mode, min_gram_length |-> low, max_gram_length |-> high, max_skip_count |-> skips,
                ngram_counts |-> <<0, 2>>, ngram_indexes |-> <<2, 0, 1, 3>>, pool_int64s |-> <<2, 3, 2, 3, 3, 5>>,
                weights |-> <<2, 3, 5, 7>>]
         IN Offered({Node(op, <<x>>, attrs(m, lh[1], lh[2], skips), "fp32", 1) :
                       m \in {"TF", "IDF", "TFIDF"}, lh \in {<<1, 1>>, <<1, 2>>, <<2, 2>>}, skips \in 0..2,
                       x \in {tokens(<<2, 3, 1, 3, 5, 2, 3>>), tokens(<<3, 3, 5>>),
                              I(<<2, 3>>, <<2, 3, 5, 2, 2, 3>>)}})
    [] op = "Constant" ->
         Offered({Node(op, <<>>, [value_int |-> 3], "int64", 1), Node(op, <<>>, [value_float |-> 4], "fp32", 1),
                  Node(op, <<>>, [value_ints |-> <<5, 6>>], "int64", 1),
                  Node(op, <<>>, [value_floats |-> <<7, 8, 9>>], "fp32", 1)})
    [] op = "NegativeLogLikelihoodLoss" ->
         LET targets == I(<<2, 2>>, <<2, 0, 1, 2>>)
             attrs(how) == {[reduction |-> how], [reduction |-> how, ignore_index |-> 2]}
             ins == {<<Mixed(<<2, 3, 2>>), targets>>, <<Mixed(<<2, 3, 2>>), targets, X(<<3>>)>>}
         IN Offered({N(op, i, a) : i \in ins, a \in UNION {attrs(how) : how \in {"none", "sum", "mean"}}}
                    \cup {N(op, <<Mixed(<<3, 2>>), I(<<3>>, <<1, -9, 0>>)>>, [ignore_index |-> -9])})
    [] op \in RecurrentTypes ->
         LET h == 2
             gates == GateCount(op) * h
             ins(dirs, batch, size, rest) ==
               <<Mixed(<<3, batch, size>>), Mixed(<<dirs, gates, size>>), Mixed(<<dirs, gates, h>>)>> \o rest
             bias(dirs) == Mixed(<<dirs, 2 * gates>>)
             state(dirs, batch) == [Mixed(<<dirs, batch, h>>) EXCEPT !.data = Reverse(@)]
             rests(dirs, batch) ==
               {<<>>, <<bias(dirs)>>, <<Absent, Absent, state(dirs, batch)>>,
                <<bias(dirs), Absent, state(dirs, batch)>>}
               \cup (IF op # "LSTM" THEN {}
                     ELSE {<<bias(dirs), Absent, state(dirs, batch), X(<<dirs, batch, h>>), Mixed(<<dirs, 3 * h>>)>>,
                           <<Absent, Absent, Absent, X(<<dirs, batch, h>>)>>})
             ways == {<<"forward", 1>>, <<"reverse", 1>>, <<"bidirectional", 2>>}
             flags == CASE op = "RNN" -> {[hidden_size |-> h]}
                        [] op = "GRU" -> [hidden_size : {h}, linear_before_reset : 0..1]
                        [] OTHER -> [hidden_size : {h}, input_forget : 0..1]
         IN Offered(UNION {{Node(op, ins(w[2], 2, 1, r), f @@ [direction |-> w[1]] @@ c, "fp32",
                                 IF op = "LSTM" THEN 3 ELSE 2) :
                              r \in rests(w[2], 2), f \in flags, c \in {None, [clip |-> 1]}} : w \in ways}
                    \cup {Node(op, ins(1, 1, 2, <<>>), f, "fp32", 1) : f \in flags})
    [] op = "Conv" ->
         LET pads(sr) == {[pads |-> p] : p \in {Repeated(0, 2 * sr), [i \in 1..(2 * sr) |-> i % 2], [i \in 1..(2 * sr) |-> IF i = 1 THEN 2 ELSE 1]}}
             ways(sr) == pads(sr) \cup {[auto_pad |-> m] : m \in {"VALID", "SAME_UPPER", "SAME_LOWER"}}
             steps(sr) == [strides : {Repeated(1, sr), [d \in 1..sr |-> d + 1]}, dilations : {Repeated(1, sr), [d \in 1..sr |-> 3 - d]}]
             line(g) == <<X(<<1, 4, 5>>), Mixed(<<2, 4 \div g, 2>>), X(<<2>>)>>
             plane(g) == <<X(<<2, 2, 4, 3>>), Mixed(<<2, 2 \div g, 2, 1>>)>>
         IN Spatials({N(op, line(g), [group |-> g] @@ w @@ s) : g \in 1..2, w \in ways(1), s \in steps(1)}
                     \cup {N(op, plane(g), [group |-> g] @@ w @@ s) : g \in 1..2, w \in ways(2), s \in steps(2)})
            \cup Offered({N(op, plane(1), [auto_pad |-> "SAME"])})
    [] op = "ConvTranspose" ->
         Spatials({N(op, <<X(<<1, 2, 2, 3>>), Mixed(<<2, 3, k, 2>>)>> \o b, [strides |-> <<2, 3>>, pads |-> <<p, 0, p, 0>>, output_padding |-> o]) :
                     k \in 2..3, p \in 0..1, b \in {<<>>, <<X(<<3>>)>>}, o \in {<<0, 0>>, <<1, 2>>}})
    [] op = "DeformConv" ->
         LET x == X(<<2, 4, 3, 2>>)
             w(g) == Mixed(<<2, 4 \div g, 2, 1>>)
             args(g, og, area) ==
               {<<x, w(g), Mixed(<<2, og * 4>> \o area)>>,
                <<x, w(g), Mixed(<<2, og * 4>> \o area), X(<<2>>), Bits(<<2, og * 2>> \o area)>>}
         IN Spatials(UNION {{N(op, i, [group |-> g, offset_group |-> og]) : i \in args(g, og, <<2, 2>>)} :
                              g \in 1..2, og \in 1..2}
                     \cup {N(op, i, [group |-> 1, offset_group |-> 2, pads |-> <<1, 0, 0, 1>>, strides |-> <<1, 2>>, dilations |-> <<2, 1>>]) :
                              i \in args(1, 2, <<2, 2>>)})
    [] op \in {"AveragePool", "MaxPool"} ->
         LET ways == {[pads |-> p] : p \in {<<0, 0, 0, 0>>, <<1, 0, 0, 1>>, <<1, 1, 1, 0>>}}
                     \cup {[auto_pad |-> m] : m \in {"VALID", "SAME_UPPER", "SAME_LOWER"}}
         IN Spatials({N(op, <<Mixed(<<2, 2, 3, 4>>)>>, [kernel_shape |-> <<2, 3>>, strides |-> s, count_include_pad |-> c] @@ w) :
                        s \in {<<1, 1>>, <<2, 3>>}, c \in 0..1, w \in ways})
            \cup Offered({N(op, <<Mixed(<<2, 2, 3, 4>>)>>, [kernel_shape |-> <<2, 3>>, auto_pad |-> "SAME"])})
    [] op = "LpPool" ->
         Spatials({N(op, <<Mixed(<<2, 2, 3, 4>>)>>, [kernel_shape |-> <<2, 3>>, strides |-> s, pads |-> p, p |-> q]) :
                     s \in {<<1, 1>>, <<2, 3>>}, p \in {<<0, 0, 0, 0>>, <<1, 0, 0, 1>>}, q \in 1..3})
    [] op \in {"GlobalAveragePool", "GlobalMaxPool", "GlobalLpPool"} ->
         Spatials({N(op, <<Mixed(<<2, 2, 3, k>>)>>, None) : k \in 1..3})
    [] op = "GridSample" ->
         LET grid == [Mixed(<<2, 2, 3, 2>>) EXCEPT !.data = [k \in DOMAIN @ |-> ((k * k + 5 * k) % 9) - 4]]
         IN Offered({N(op, <<Mixed(s), grid>>, [mode |-> m, padding_mode |-> p, align_corners |-> a]) :
                       s \in {<<2, 2, 3, 2>>, <<2, 1, 2, 4>>}, m \in {"linear", "nearest"}, p \in {"zeros", "border"}, a \in 0..1})
    [] op = "AffineGrid" ->
         Offered({N(op, <<Mixed(<<2, 2, 3>>), C(<<2, 1, h, w>>)>>, [align_corners |-> a]) : h \in 1..3, w \in {1, 4}, a \in 0..1})
    [] op = "Col2Im" ->
         Offered({N(op, <<X(<<2, 8, 4>>), C(<<3, 3>>), C(<<2, 2>>)>>, None),
                  N(op, <<X(<<1, 4, 6>>), C(<<3, 2>>), C(<<2, 2>>)>>, [pads |-> <<1, 0, 0, 1>>]),
                  N(op, <<X(<<1, 4, 4>>), C(<<4, 4>>), C(<<2, 2>>)>>, [strides |-> <<2, 1>>, dilations |-> <<1, 2>>]),
                  N(op, <<X(<<2, 6, 2>>), C(<<3>>), C(<<2>>)>>, None),
                  N(op, <<X(<<2, 4, 4>>), C(<<5>>), C(<<2>>)>>, [pads |-> <<1, 2>>, strides |-> <<2>>])})
    [] op = "RoiAlign" ->
         LET rois == [X(<<3, 4>>) EXCEPT !.data = <<0, 1, 3, 2, -2, -1, 1, 5, 2, 2, 2, 1>>]
         IN Offered({Node(op, <<Mixed(<<2, 2, 3, 4>>), rois, I(<<3>>, <<1, 0, 1>>)>>,
                          [output_height |-> h, output_width |-> 2, sampling_ratio |-> r, mode |-> m,
                           coordinate_transformation_mode |-> t], "fp32", 1) :
                       h \in 1..2, r \in 1..2, m \in {"avg", "max"}, t \in {"half_pixel", "output_half_pixel"}})
    [] op = "MaxRoiPool" ->
         LET rois == [X(<<4, 5>>) EXCEPT !.data = <<0, 0, 1, 5, 4, 2, -5, -1, 3, 5, 2, 3, 3, 2, 1, 0, 12, 12, 14, 14>>]
         IN Offered({N(op, <<Mixed(<<2, 2, 3, 4>>), rois>>, [pooled_shape |-> <<h, w>>]) : h \in 1..3, w \in 1..2})
    [] op = "MaxUnpool" ->
         Offered({N(op, <<X(<<1, 2, 2, 2>>), I(<<1, 2, 2, 2>>, <<0, 3, 9, 14, 16, 22, 27, 31>>)>>,
                    [kernel_shape |-> <<2, 2>>, strides |-> <<2, 2>>]),
                  N(op, <<X(<<2, 1, 2>>), I(<<2, 1, 2>>, <<1, 3, 4, 6>>)>>,
                    [kernel_shape |-> <<3>>, strides |-> <<2>>, pads |-> <<1, 0>>])})
    [] op = "NonMaxSuppression" ->
         LET corners == [X(<<1, 5, 4>>) EXCEPT !.data = <<0, 0, 2, 2, 2, 2, 0, 1, 0, 1, 2, 3, 3, 3, 3, 3, 0, 0, 1, 1>>]
             centres == [X(<<2, 3, 4>>) EXCEPT !.data = <<1, 1, 2, 2, 1, 2, 2, 2, 3, 3, 1, 3, 2, 2, 2, 2, 2, 3, 4, 4, 1, 1, 1, 1>>]
             share(p, q) == Value(<<>>, <<p, q>>, "fp32", "Initializer")
             limits == {<<Number(k)>> : k \in 1..3} \cup {<<Number(k), share(p, 4)>> : k \in {0, 1, 4}, p \in 0..3}
                       \cup {<<Number(k), share(1, 3), S(0)>> : k \in {2, 5}}
         IN Offered(UNION {{Node(op, <<corners, Mixed(<<1, 2, 5>>)>> \o l, None, "int64", 1),
                            Node(op, <<centres, Mixed(<<2, 1, 3>>)>> \o l, [center_point_box |-> 1], "int64", 1)} : l \in limits}
                    \cup {Node(op, <<corners, Mixed(<<1, 2, 5>>)>>, None, "int64", 1)})
    [] op \in {"QuantizeLinear", "DequantizeLinear"} ->
         LET ints == {"int8", "uint8", "int16", "uint16"}
             steps(s) == [X(s) EXCEPT !.data = [k \in DOMAIN @ |-> 1 + (k % 3)]]
             zeros(s, t) == As([X(s) EXCEPT !.data = [k \in DOMAIN @ |-> (k % 4) + 1]], t)
             wide(s) == [X(s) EXCEPT !.data = [k \in DOMAIN @ |-> (k * k * 37 % 1009) - 500]]
             \* A parameter of one value, per element of the axis, or per block of two or three.
             ways == {<<[axis |-> a], <<>>>> : a \in {1, -2}}
                     \cup {<<None, <<3>>>>, <<[axis |-> 0], <<2>>>>, <<[axis |-> 1, block_size |-> 2], <<2, 2>>>>,
                           <<[axis |-> -2, block_size |-> 3], <<1, 3>>>>, <<[axis |-> 0, block_size |-> 1], <<2, 3>>>>}
             one(x, w, t, z) ==
               IF op = "QuantizeLinear"
               THEN Node(op, <<x, steps(w[2])>> \o z, w[1] @@ (IF z = <<>> THEN [output_dtype |-> t] ELSE None), t, 1)
               ELSE Node(op, <<As(x, t), steps(w[2])>> \o z, w[1], "fp32", 1)
             small(x, t) == IF op = "QuantizeLinear" THEN x ELSE Bytes(x.shape, t)
         IN Offered({one(small(wide(<<2, 3>>), t), w, t, z) : w \in ways, t \in ints, z \in {<<>>}}
                    \cup {one(small(wide(<<2, 3>>), t), w, t, <<zeros(w[2], t)>>) : w \in ways, t \in ints}
                    \cup {one(small(wide(<<5>>), "int8"), w, "int8", <<zeros(w[2], "int8")>>) :
                            w \in {<<None, <<>>>>, <<None, <<1>>>>, <<[axis |-> 0, block_size |-> 2], <<3>>>>}})
    [] op = "DynamicQuantizeLinear" ->
         Offered({Typed(op, <<[X(<<4>>) EXCEPT !.data = d]>>, None, <<"uint8", "fp32", "uint8">>) :
                    d \in {<<-3, 7, 0, 2>>, <<1, 2, 3, 4>>, <<-1, -2, -9, -4>>, <<255, 100, 1, 0>>, <<-255, 255, 1, -1>>}})
    [] op = "MatMulInteger" ->
         Offered({Node(op, <<Bytes(<<2, 3>>, "uint8"), Bytes(<<3, 2>>, "int8")>> \o z, None, "int32", 1) :
                    z \in {<<>>, <<Point(<<>>, "uint8")>>, <<Point(<<2>>, "uint8"), Point(<<2>>, "int8")>>,
                           <<Absent, Point(<<1>>, "int8")>>}})
    [] op = "QLinearMatMul" ->
         LET arg(rows, columns) ==
               <<Bytes(<<2, 3>>, "uint8"), Step(rows), Point(rows, "uint8"), Bytes(<<3, 2>>, "int8"), Step(columns),
                 Point(columns, "int8"), Unit(columns), Point(columns, "uint8")>>
         IN Offered({Node(op, arg(r, c), None, "uint8", 1) : r \in {<<>>, <<2>>}, c \in {<<>>, <<1>>, <<2>>}})
    [] op \in {"ConvInteger", "QLinearConv"} ->
         LET x == IF op = "ConvInteger" THEN "fp32" ELSE "uint8"
             ways == {None, [strides |-> <<2, 1>>, pads |-> <<1, 0, 1, 0>>], [dilations |-> <<1, 2>>, group |-> 2],
                      [pads |-> <<1, 1, 1, 1>>, strides |-> <<2, 2>>]}
             area == Bytes(<<1, 2, 3, 3>>, "uint8")
             kernel(a) == Bytes(<<2, 2 \div Attr([attrs |-> a], "group", 1), 2, 2>>, "int8")
             ins(a, zero, rest) ==
               IF op = "ConvInteger" THEN <<area, kernel(a)>> \o (IF zero = <<1>> THEN <<>> ELSE <<Point(<<>>, "uint8"), Point(zero, "int8")>>)
               ELSE <<area, Step(<<>>), Point(<<>>, "uint8"), kernel(a), Step(zero), Point(zero, "int8"), Unit(<<>>), Point(<<>>, "uint8")>> \o rest
             line == Bytes(<<2, 1, 5>>, "uint8")
         IN Offered({Node(op, ins(a, z, r), a, IF op = "ConvInteger" THEN "int32" ELSE "uint8", 1) :
                       a \in ways, z \in {<<>>, <<1>>, <<2>>}, r \in {<<>>, <<As(X(<<2>>), "int32")>>}}
                    \cup (IF op = "QLinearConv" THEN {}
                          ELSE {Node(op, <<line, Bytes(<<3, 1, 2>>, "int8"), Point(<<>>, "uint8")>>, a, "int32", 1) :
                                  a \in {None, [pads |-> <<1, 1>>, strides |-> <<2>>]}}))
    [] op = "GatherBlockQuantized" ->
         LET table(v, d) == Bytes(<<v, d \div 2>>, "uint8")
             zeros(v, blocks) == {<<>>, <<Bytes(<<v, CeilDiv(blocks, 2)>>, "uint8")>>}
             one(v, blocks, i, z) ==
               Node(op, <<table(v, 16 * blocks), i, Step(<<v, blocks>>)>> \o z, [block_size |-> 16], "fp32", 1)
         IN Offered(UNION {{one(3, b, i, z) : z \in zeros(3, b), i \in {I(<<2>>, <<2, -3>>), I(<<>>, <<1>>), I(<<1, 2>>, <<0, -1>>)}} :
                             b \in 1..3})
    [] op = "MatMulNBits" ->
         LET weight(n, blocks, block, bits) == Bytes(<<n, blocks, (block * bits) \div 8>>, "uint8")
             zeros(n, blocks, bits) == {<<>>, <<Bytes(<<n * CeilDiv(blocks * bits, 8)>>, "uint8")>>}
             one(s, n, k, block, bits, z) ==
               LET blocks == CeilDiv(k, block)
               IN N(op, <<Mixed(Append(s, k)), Const(weight(n, blocks, block, bits)), Const(Step(<<n, blocks>>))>> \o z,
                    [N |-> n, K |-> k, block_size |-> block, bits |-> bits])
         IN Readable(UNION {{one(s, 2, k, block, bits, z) : z \in zeros(2, CeilDiv(k, block), bits), s \in {<<2>>, <<1, 2>>}} :
                              k \in {32, 40}, block \in {16, 32}, bits \in {4, 8}}
                     \cup UNION {{one(<<1>>, 2, 70, 32, bits, <<Const(z)>>) : z \in UNION {{s[1]} : s \in zeros(2, 3, bits) \ {<<>>}}} :
                              bits \in {4, 8}})
    [] op = "MatMulBlockQuantizedFp4Weight" ->
         LET scales(n, blocks) == Const(As([X(<<n, blocks>>) EXCEPT !.data = [k \in DOMAIN @ |-> (3 + 45 * k) % 256]], "uint8"))
             bias == As(X(<<2>>), "fp16")
         IN Readable({Node(op, <<As(Mixed(<<2, k>>), "fp16"), Const(Bytes(<<2, k \div 2>>, "uint8")), scales(2, CeilDiv(k, block)), S(3)>> \o r,
                           [block_size |-> block], "fp16", 1) :
                        k \in {4, 6}, block \in {2, 4, 8}, r \in {<<>>, <<S(1), bias>>, <<Absent, bias>>}})
    [] op = "MatMulBlockQuantizedFp8Weight" ->
         LET codes(n, k) == Const(As([X(<<n, k>>) EXCEPT !.data = [j \in DOMAIN @ |-> IF j % 2 = 0 THEN j * 5 ELSE 128 + j * 4]], "fp8"))
             acts(k, scale) == As([X(<<1, k>>) EXCEPT !.data = [j \in DOMAIN @ |-> scale * (((j * 173) % 1200) - 500)]], "fp16")
         IN Readable({Node(op, <<acts(k, Larger(1, s)), codes(2, k), Step(<<2, CeilDiv(k, block)>>)>>
                               \o (IF s < 0 THEN <<>> ELSE <<S(s)>> \o r), [block_size |-> block], "fp16", 1) :
                        k \in {3, 8}, block \in {2, 4, 8}, s \in {-1, 0, 1, 2}, r \in {<<>>, <<As(X(<<2>>), "fp16")>>}})

MCOpTypes == {"Gather", "GatherElements", "ScatterElements", "GatherND", "ScatterND",
              "CenterCropPad", "Compress", "Pad", "Slice", "DepthToSpace", "SpaceToDepth",
              "Reshape", "Transpose", "Flatten", "Squeeze", "Unsqueeze", "Expand", "Concat",
              "Split", "Tile", "EyeLike", "ReverseSequence", "Range", "Shape",
              "ConstantOfShape", "Where", "Resize", "Upsample", "ArgMin", "ArgMax", "CumSum",
              "CumProd", "Hardmax", "Hardmax-11", "TopK", "OneHot", "Trilu", "Scatter", "Det",
              "NonZero", "Unique", "TfIdfVectorizer", "Constant", "NegativeLogLikelihoodLoss",
              "Conv", "ConvTranspose", "DeformConv", "AveragePool", "MaxPool", "LpPool",
              "GlobalAveragePool", "GlobalMaxPool", "GlobalLpPool",
              "GridSample", "AffineGrid", "Col2Im", "RoiAlign", "MaxRoiPool", "MaxUnpool", "NonMaxSuppression"}
             \cup QuantTypes
             \cup ReductionTypes \cup RecurrentTypes

\* The nodes offered, and the registry's entries outside IndexOps.
MCNodes(op) == LET nodes == CasesOf(op) IN nodes

MCClaims(n) == LET decision == OthersClaim(n) IN decision

MCTranslation(n) == LET values == OthersHandler(n) IN values

MCPromised(n) == LET values == OthersMeaning(n) IN values

=============================================================================
