CONSTANTS
  Programs <- MCPrograms
  CtxInputs = {"x", "c"}
  Numbers = {0, 1, 2}
  MaxCalls = 2
  SharedNames = TRUE
  HostAxes = FALSE
SPECIFICATION Spec
INVARIANTS AnswersMeaning
