\* A 64-bit table copied into a freshly initialised one.
CONSTANTS
  Files <- MCFiles
  Version <- MCVersionV5
  SectMax = 3
  Wrap = 8
  MaxBatch = 2
  MaxEntries = 3
  InOrder = TRUE
  Reuse = FALSE
  IOFail = TRUE

SPECIFICATION Spec

INVARIANTS
  WidthAgrees

\* An assert() ends the process: those states have no successor.
CHECK_DEADLOCK FALSE
