\* Chunks read in any order: the asserts of ndz_reloc_get keep the bounds.
CONSTANTS
  Files <- MCFiles
  Version <- MCVersionMixed
  SectMax = 3
  Wrap = 8
  MaxBatch = 2
  MaxEntries = 3
  InOrder = FALSE
  Reuse = FALSE
  IOFail = TRUE

SPECIFICATION Spec

INVARIANTS
  TypeOK
  BoundsExact

\* An assert() ends the process: those states have no successor.
CHECK_DEADLOCK FALSE
