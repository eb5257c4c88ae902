CONSTANTS
  Programs <- MCPrograms
  CtxInputs = {"x", "c"}
  Numbers = {0, 1, 2}
  MaxCalls = 2
  SharedNames = FALSE
  HostAxes = FALSE
SPECIFICATION Spec
INVARIANTS TypeOK AnswersMeaning EnvScoped OperandsFound FixedIsFixed TraceReadsFixed
PROPERTIES KeepsScopes
