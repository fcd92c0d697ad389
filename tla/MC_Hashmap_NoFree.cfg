CONSTANTS
  HashBlkSize = 2
  SSect = 1
  NSect = 4
  HashFree = FALSE
  IOFail = TRUE
  CurRangeInputs <- MCCurRangeInputs
  HashInfoInputs <- MCHashInfoInputs
  ModifiedInputs <- MCSmallSets
  FixupInputs <- MCSmallSets
  Hashes <- MCHashes

SPECIFICATION Spec

INVARIANTS
  TypeOK
  DeltaExact
  NewSignatureExact
  FixupsRestored
  Assertions

PROPERTIES
  Termination
  OutputAppendOnly

CHECK_DEADLOCK FALSE
