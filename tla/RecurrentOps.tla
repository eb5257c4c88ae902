---------------------------- MODULE RecurrentOps ----------------------------
(***************************************************************************)
(* ops/recurrent.rs: RNN, GRU and LSTM, unrolled over the time steps.      *)
(***************************************************************************)
EXTENDS Nodes, TLC

RecurrentTypes == {"RNN", "GRU", "LSTM"}

GateCount(op) == IF op = "LSTM" THEN 4 ELSE IF op = "GRU" THEN 3 ELSE 1

\* dir_slab, gate_col, vec1d, step_slab.
Slab(t, d) == Reshape(Cut(t, 1, d, d + 1), Tail(t.shape))

GateCol(m, g, h) == Cut(m, 2, g * h, (g + 1) * h)

Part(v, g, h) == Cut(v, 1, g * h, (g + 1) * h)

Add(a, b) == Map2(LAMBDA x, y : x + y, a, b)

Mul(a, b) == Map2(LAMBDA x, y : x * y, a, b)

OneMinus(a) == Map(LAMBDA x : 1 - x, a)

Clipped(t, clip) == IF clip <= 0 THEN t ELSE Map(LAMBDA v : Clamp(v, -clip, clip), t)

Sigm(t, clip) == Map(Sigmoid, Clipped(t, clip))

Tanhs(t, clip) == Map(Tanh, Clipped(t, clip))

\* The next state of an RNN.
RnnStep(xg, hf, clip) == Tanhs(Add(xg, hf), clip)

\* Gate order z, r, h.  With linear_before_reset the reset gate applies to the product
\* and its bias, without it to the state.
GruStep(xg, hf, state, rd, rb, h, clip, linearBeforeReset) ==
  LET z == Sigm(Add(GateCol(xg, 0, h), GateCol(hf, 0, h)), clip)
      r == Sigm(Add(GateCol(xg, 1, h), GateCol(hf, 1, h)), clip)
      rh == Transpose(Cut(rd, 1, 2 * h, 3 * h), <<2, 1>>)
      product == MatMul(Mul(r, state), rh)
      biased == IF rb = Fail THEN product ELSE Add(product, Part(rb, 2, h))
      hidden == IF linearBeforeReset THEN Mul(r, GateCol(hf, 2, h)) ELSE biased
      new == Tanhs(Add(GateCol(xg, 2, h), hidden), clip)
  IN Add(Mul(OneMinus(z), new), Mul(z, state))

\* Mutant: the output gate looks at the former cell.
LstmStepFormerCell(xg, hf, cell, peep, h, clip, inputForget) ==
  LET sum(g) == Add(GateCol(xg, g, h), GateCol(hf, g, h))
      with(t, p, c) == IF peep = Fail THEN t ELSE Add(t, Mul(Part(peep, p, h), c))
      i == Sigm(with(sum(0), 0, cell), clip)
      f == IF inputForget THEN OneMinus(i) ELSE Sigm(with(sum(2), 2, cell), clip)
      new == Add(Mul(f, cell), Mul(i, Tanhs(sum(3), clip)))
      o == Sigm(with(sum(1), 1, cell), clip)
  IN [state |-> Mul(o, Map(Tanh, new)), cell |-> new]

\* Gate order i, o, f, c; peepholes i, o, f, the output gate's on the new cell.
LstmStep(xg, hf, cell, peep, h, clip, inputForget) ==
  LET sum(g) == Add(GateCol(xg, g, h), GateCol(hf, g, h))
      with(t, p, c) == IF peep = Fail THEN t ELSE Add(t, Mul(Part(peep, p, h), c))
      i == Sigm(with(sum(0), 0, cell), clip)
      f == IF inputForget THEN OneMinus(i) ELSE Sigm(with(sum(2), 2, cell), clip)
      new == Add(Mul(f, cell), Mul(i, Tanhs(sum(3), clip)))
      o == Sigm(with(sum(1), 1, new), clip)
  IN [state |-> Mul(o, Map(Tanh, new)), cell |-> new]

\* run_direction: the projections of the inputs once for the whole sequence, then step
\* after step; the output of a reversed step is put at the time it read.
RunDirection(n, d, reverse) ==
  LET x == In(n, 1)
      steps == x.shape[1]
      batch == x.shape[2]
      h == n.attrs.hidden_size
      gh == GateCount(n.op) * h
      clip == Attr(n, "clip", 0)
      rd == Slab(In(n, 3), d)
      bias == Present(n, 4)
      bd == Slab(In(n, 4), d)
      rb == IF bias THEN Cut(bd, 1, gh, 2 * gh) ELSE Fail
      product == MatMul(x, Transpose(Slab(In(n, 2), d), <<2, 1>>))
      projected == IF bias THEN Add(product, Cut(bd, 1, 0, gh)) ELSE product
      first(i) == IF Present(n, i) THEN Slab(In(n, i), d) ELSE Full(<<batch, h>>, 0)
      peep == IF n.op = "LSTM" /\ Present(n, 8) THEN Slab(In(n, 8), d) ELSE Fail
      next(s, step) ==
        LET t == IF reverse THEN steps - step ELSE step - 1
            xg == Slab(projected, t)
            recurrent == MatMul(s.state, Transpose(rd, <<2, 1>>))
            hf == IF bias THEN Add(recurrent, rb) ELSE recurrent
            new == CASE n.op = "RNN" -> [state |-> RnnStep(xg, hf, clip), cell |-> s.cell]
                     [] n.op = "GRU" ->
                          [state |-> GruStep(xg, hf, s.state, rd, rb, h, clip,
                                             Attr(n, "linear_before_reset", 0) # 0), cell |-> s.cell]
                     [] OTHER -> LstmStep(xg, hf, s.cell, peep, h, clip, Attr(n, "input_forget", 0) # 0)
        IN new @@ [ys |-> With(s.ys, t + 1, new.state)]
  IN FoldLeft(next, [state |-> first(6), cell |-> IF n.op = "LSTM" THEN first(7) ELSE Fail,
                     ys |-> Repeated(x, steps)], [i \in 1..steps |-> i])

\* Y, Y_h and for an LSTM Y_c: the directions one after the other.
RecurrentOp(n) ==
  LET way == Attr(n, "direction", "forward")
      runs == IF way = "bidirectional" THEN <<RunDirection(n, 0, FALSE), RunDirection(n, 1, TRUE)>>
              ELSE <<RunDirection(n, 0, way = "reverse")>>
      y == Stack([r \in DOMAIN runs |-> Stack(runs[r].ys, 1)], 2)
      all == <<y, Stack([r \in DOMAIN runs |-> runs[r].state], 1)>>
  IN SubSeq(IF n.op = "LSTM" THEN Append(all, Stack([r \in DOMAIN runs |-> runs[r].cell], 1)) ELSE all,
            1, Len(n.outs))

RecurrentClaim(n) ==
  LET t == n.ins[1].dtype
  IN /\ Len(n.ins) >= 3 /\ n.outs # <<>>
     /\ t \in Floats /\ n.ins[2].dtype = t /\ n.ins[3].dtype = t
     /\ Len(n.ins[1].info) = 3 /\ n.ins[1].info[1] > 0
     /\ \A i \in {4, 6, 7, 8} : Present(n, i) => n.ins[i].dtype = t
     /\ ~Present(n, 5)
     /\ Attr(n, "layout", 0) = 0
     /\ "hidden_size" \in DOMAIN n.attrs
     /\ Attr(n, "direction", "forward") \in {"forward", "reverse", "bidirectional"}
     /\ Attr(n, "activations", "default") = "default"

=============================================================================
