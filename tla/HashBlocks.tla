----------------------------- MODULE HashBlocks -----------------------------
(***************************************************************************)
(* Extents and hash blocks, shared by the hash-map modules.  A struct      *)
(* range of imagezip (start, size in sectors), and the division of a       *)
(* partition starting at sector SSect into blocks of HashBlkSize sectors   *)
(* that add_to_hashmap() in src/src/imagezip/hashmap/hashmap.c cuts the    *)
(* new signature's regions at.                                             *)
(***************************************************************************)
EXTENDS Integers, Sequences

CONSTANTS
  HashBlkSize,     \* hashblksize: largest hash region, in sectors
  SSect            \* ssect / poffset: first sector of the partition

ASSUME BlocksAssumption ==
  /\ HashBlkSize \in Nat \ {0}
  /\ SSect \in Nat

(* struct range and its extent *)
Ranges == [start : Nat, size : Nat]
End(r) == r.start + r.size
Sectors(r) == r.start..(End(r) - 1)
Covers(rl) == UNION {Sectors(rl[i]) : i \in DOMAIN rl}

(* Index of the hash block of sector s, measured from the partition base. *)
BlockOf(s) == (s - SSect) \div HashBlkSize

(* The cut with the block boundaries measured from sector 0, as if       *)
(* poffset were not subtracted.                                            *)
PiecesUnbased(rstart, rsize) ==
  LET k0 == rstart \div HashBlkSize
      n  == (rstart + rsize - 1) \div HashBlkSize - k0 + 1
      lo(i) == IF i = 1 THEN rstart ELSE (k0 + i - 1) * HashBlkSize
      hi(i) == IF i = n THEN rstart + rsize ELSE (k0 + i) * HashBlkSize
  IN [i \in 1..n |-> [start |-> lo(i), size |-> hi(i) - lo(i)]]

(* add_to_hashmap() cuts [rstart, rstart+rsize) at the hash-block          *)
(* boundaries measured from SSect: the first piece ends at the first       *)
(* boundary, the middle ones are whole blocks, the last ends at the range   *)
(* end.  (HashChunk.tla checks this against the loop as written.)         *)
Pieces(rstart, rsize) ==
  LET k0 == BlockOf(rstart)
      n  == BlockOf(rstart + rsize - 1) - k0 + 1
      lo(i) == IF i = 1 THEN rstart ELSE SSect + (k0 + i - 1) * HashBlkSize
      hi(i) == IF i = n THEN rstart + rsize ELSE SSect + (k0 + i) * HashBlkSize
  IN [i \in 1..n |-> [start |-> lo(i), size |-> hi(i) - lo(i)]]

=============================================================================
