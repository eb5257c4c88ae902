-------------------------- MODULE RecurrentMeaning ---------------------------
(***************************************************************************)
(* The recurrences of ONNX, one equation per gate: a gate of a unit is a   *)
(* number, the state of a step a matrix <<batch, unit>>.                   *)
(***************************************************************************)
EXTENDS Nodes

\* The rows of W, R and B that belong to a gate of a unit.
Weighted(n, d, row, b, t) ==
  Total([i \in 1..n.ins[1].shape[3] |-> At(In(n, 1), <<t, b, i - 1>>) * At(In(n, 2), <<d, row, i - 1>>)])

Recurred(n, d, row, b, state) ==
  Total([k \in DOMAIN state[b] |-> state[b][k] * At(In(n, 3), <<d, row, k - 1>>)])

Bias(n, d, row) == IF Present(n, 4) THEN At(In(n, 4), <<d, row>>) ELSE 0

Bounded(n, v) ==
  LET c == Attr(n, "clip", 0) IN IF c = 0 THEN v ELSE IF v > c THEN c ELSE IF v < -c THEN -c ELSE v

\* The state (and the cell) of a step from those of the step before it.
StepMeaning(n, d, t, before) ==
  LET units == n.attrs.hidden_size
      gates == n.ins[2].shape[2]
      H == before.state
      C == before.cell
      input(g, b, j) == Weighted(n, d, g * units + j - 1, b - 1, t) + Bias(n, d, g * units + j - 1)
      rbias(g, j) == Bias(n, d, gates + g * units + j - 1)
      sum(g, b, j, state) == input(g, b, j) + Recurred(n, d, g * units + j - 1, b, state) + rbias(g, j)
      peep(p, b, j, c) == IF Present(n, 8) THEN At(In(n, 8), <<d, p * units + j - 1>>) * c ELSE 0
      sigma(v) == Sigmoid(Bounded(n, v))
      tanh(v) == Tanh(Bounded(n, v))
      matrix(F(_, _)) == [b \in DOMAIN H |-> [j \in 1..units |-> F(b, j)]]
      z(b, j) == sigma(sum(0, b, j, H))
      r(b, j) == sigma(sum(1, b, j, H))
      reset == matrix(LAMBDA b, j : r(b, j) * H[b][j])
      candidate(b, j) ==
        IF Attr(n, "linear_before_reset", 0) = 1
        THEN tanh(input(2, b, j) + r(b, j) * (Recurred(n, d, 2 * units + j - 1, b, H) + rbias(2, j)))
        ELSE tanh(sum(2, b, j, reset))
      i(b, j) == sigma(sum(0, b, j, H) + peep(0, b, j, C[b][j]))
      f(b, j) == IF Attr(n, "input_forget", 0) = 1 THEN 1 - i(b, j)
                 ELSE sigma(sum(2, b, j, H) + peep(2, b, j, C[b][j]))
      cell == matrix(LAMBDA b, j : f(b, j) * C[b][j] + i(b, j) * tanh(sum(3, b, j, H)))
      o(b, j) == sigma(sum(1, b, j, H) + peep(1, b, j, cell[b][j]))
  IN CASE n.op = "RNN" -> [state |-> matrix(LAMBDA b, j : tanh(sum(0, b, j, H))), cell |-> C]
       [] n.op = "GRU" ->
            [state |-> matrix(LAMBDA b, j : (1 - z(b, j)) * candidate(b, j) + z(b, j) * H[b][j]), cell |-> C]
       [] n.op = "LSTM" -> [state |-> matrix(LAMBDA b, j : o(b, j) * Tanh(cell[b][j])), cell |-> cell]

RecurrentMeaning(n) ==
  LET steps == n.ins[1].shape[1]
      batch == n.ins[1].shape[2]
      units == n.attrs.hidden_size
      way == Attr(n, "direction", "forward")
      backward(d) == way = "reverse" \/ d = 1
      start(d, i) == [b \in 1..batch |-> [j \in 1..units |->
                        IF Present(n, i) THEN At(In(n, i), <<d, b - 1, j - 1>>) ELSE 0]]
      after(d) == FoldLeft(LAMBDA s, k : Append(s, StepMeaning(n, d, IF backward(d) THEN steps - k ELSE k - 1,
                                                               s[Len(s)])),
                           <<[state |-> start(d, 6), cell |-> start(d, 7)]>>, [k \in 1..steps |-> k])
      directions == IF way = "bidirectional" THEN 2 ELSE 1
      runs == [d \in 1..directions |-> after(d - 1)]
      when(d, t) == IF backward(d) THEN steps - t ELSE t + 1
      matrices(F(_, _, _)) == Tensor(<<directions, batch, units>>, LAMBDA idx : F(idx[1], idx[2], idx[3]))
      final(d) == runs[d + 1][steps + 1]
      all == <<Tensor(<<steps, directions, batch, units>>, LAMBDA idx :
                        runs[idx[2] + 1][when(idx[2], idx[1]) + 1].state[idx[3] + 1][idx[4] + 1]),
               matrices(LAMBDA d, b, j : final(d).state[b + 1][j + 1]),
               matrices(LAMBDA d, b, j : final(d).cell[b + 1][j + 1])>>
  IN SubSeq(all, 1, Len(n.outs))

=============================================================================
