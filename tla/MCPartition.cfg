\* Every graph of four nodes, padded, and seven-node graphs that need a second pass over
\* the edges or whose clusters feed each other through nodes outside both.
CONSTANTS
  N = 7
  c1 = c1
  c2 = c2
  Colours = {c1, c2}
  Unsupported = Unsupported
  Graphs <- AllGraphs
  Spans = {1, 2}
SPECIFICATION MCSpec
INVARIANTS TypeOK ClaimSound FusedAcyclic MergedToFixpoint
PROPERTIES Terminates
CHECK_DEADLOCK FALSE
