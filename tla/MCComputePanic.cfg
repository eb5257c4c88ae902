\* One subgraph, handlers that may panic in a trace only: the message of trace_thunk.
CONSTANTS
  t1 = t1
  t2 = t2
  g1 = g1
  g2 = g2
  Thread = {t1, t2}
  Subgraph = {g1}
  Enabled <- DecodeThenGeneral
  Rope <- RopeAsData
  MayPanic = {"trace"}
  NoThread = NoThread
SPECIFICATION Spec
INVARIANTS OkMeansWrittenAfterPanic
CHECK_DEADLOCK FALSE
