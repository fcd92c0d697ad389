CONSTANTS
  HashBlkSize = 2
  SSect = 1
  NSect = 4
  HashFree = TRUE
  IOFail = TRUE
  CurRangeInputs <- MCCurRangeInputs
  HashInfoInputs <- MCHashInfoInputs
  ModifiedInputs <- MCSmallSets
  FixupInputs <- MCNoFixups
  Hashes <- MCHashes
  Word = 16
  SpanBit = 64
  MaxWrites = 2

SPECIFICATION SigSpec

INVARIANT ChunkAnnotated
CHECK_DEADLOCK FALSE

