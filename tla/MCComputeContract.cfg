\* Two threads on one decoder, handlers that never panic.
CONSTANTS
  t1 = t1
  t2 = t2
  g1 = g1
  g2 = g2
  Thread = {t1, t2}
  Subgraph = {g1}
  Enabled <- DecoderAndGeneral
  Rope <- RopeAsData
  MayPanic = {}
  NoThread = NoThread
SPECIFICATION Spec
PROPERTIES ContractSpec CallReturns
CHECK_DEADLOCK FALSE
