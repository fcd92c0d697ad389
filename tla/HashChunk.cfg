CONSTANTS
  HashBlkSize = 4
  SSect = 3
  Starts = {3, 4, 5, 6, 7, 8, 9, 10, 11, 12, 13, 14}
  MaxSize = 11

SPECIFICATION Spec

INVARIANTS
  ChunkingAgrees
