\* Five control-flow nodes, at most two specializations.
CONSTANTS
  M = 5
  kind <- Kinds
  above <- Nesting
  source <- AllSources
  Cap = 2
  Decisions <- AllDecisions
  Lengths = {0, 1}
SPECIFICATION Spec
INVARIANTS TypeOK ReplayIsCurrent TracesReadable
