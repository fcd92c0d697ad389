\* In-order reading, 32- and 64-bit tables, allocation failures.
CONSTANTS
  Files <- MCFiles
  Version <- MCVersionMixed
  SectMax = 3
  Wrap = 8
  MaxBatch = 2
  MaxEntries = 3
  InOrder = TRUE
  Reuse = FALSE
  IOFail = TRUE

SPECIFICATION Spec

INVARIANTS
  TypeOK
  BoundsExact
  PutMatchesInrange

\* An assert() ends the process: those states have no successor.
CHECK_DEADLOCK FALSE
