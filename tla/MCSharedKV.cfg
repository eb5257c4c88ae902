\* Two tokens, a buffer of three rows, calls of up to four tokens.
CONSTANTS
  x = x
  y = y
  Tok = {x, y}
  Cap = 3
  Window = 2
  MaxNew = 4
  MaxLen = 5
  PaddedMask = FALSE
  Ownership = {TRUE, FALSE}
SPECIFICATION Spec
INVARIANTS TypeOK RowsKept DetectionRight
PROPERTIES ContractSpec
