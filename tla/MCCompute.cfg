\* Two threads on one graph without attention, handlers that may panic.
CONSTANTS
  t1 = t1
  t2 = t2
  g1 = g1
  g2 = g2
  Thread = {t1, t2}
  Subgraph = {g1}
  Enabled <- DecodeThenGeneral
  Rope <- RopeAsData
  MayPanic = {"trace", "eager"}
  NoThread = NoThread
SPECIFICATION Spec
INVARIANTS TypeOK PlanOwnedAndExclusive SerialUncontended PlanIntact OkMeansWritten
PROPERTIES SlotNeverRevived
CHECK_DEADLOCK FALSE
