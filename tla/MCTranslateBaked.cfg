CONSTANTS
  Programs <- MCPrograms
  CtxInputs = {"x", "c"}
  Numbers = {0, 1, 2}
  MaxCalls = 2
  SharedNames = FALSE
  HostAxes = TRUE
SPECIFICATION Spec
INVARIANTS TraceReadsFixed
