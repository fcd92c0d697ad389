CONSTANTS
  HashBlkSize = 2
  SSect = 1
  NSect = 4
  HashFree = FALSE
  IOFail = TRUE
  CurRangeInputs <- MCCurRangeInputs
  HashInfoInputs <- MCHashInfoInputs
  ModifiedInputs <- MCSmallSets
  FixupInputs <- MCNoFixups
  Hashes <- MCHashes
  Word = 16
  SpanBit = 64
  MaxWrites = 2

SPECIFICATION SigSpec

INVARIANT SigRoundTrip
CHECK_DEADLOCK FALSE

