----------------------------- MODULE HashChunk ------------------------------
(***************************************************************************)
(* The while loop of add_to_hashmap() in src/src/imagezip/hashmap/        *)
(* hashmap.c, one iteration per step: it cuts [rstart, rstart + rsize)     *)
(* into the pieces it passes to addhash().  Checked against Pieces, the   *)
(* closed form the delta-engine model (Hashmap.tla) uses.                  *)
(***************************************************************************)
EXTENDS Integers, Sequences, HashBlocks

CONSTANTS
  Starts,      \* sectors a range may start at
  MaxSize      \* largest range size tried

ASSUME ChunkInputsAssumption ==
  /\ Starts \subseteq Nat
  /\ \A s \in Starts : s >= SSect
  /\ MaxSize \in Nat \ {0}

VARIABLES
  r0,       \* the range add_to_hashmap() was called with
  rstart,   \* loop state: start of what is left
  rsize,    \* loop state: size of what is left
  offset,   \* loop state: offset into the first hash block, then 0
  pieces    \* the (start, size) pairs passed to addhash() so far

vars == <<r0, rstart, rsize, offset, pieces>>

(* Entry: offset = (rstart - poffset) % hashblksize. *)
Call ==
  /\ rsize = 0
  /\ \E s \in Starts, n \in 1..MaxSize :
       /\ r0' = [start |-> s, size |-> n]
       /\ rstart' = s
       /\ rsize' = n
       /\ offset' = (s - SSect) % HashBlkSize
       /\ pieces' = <<>>

(* One iteration: the first piece runs to the block end, later ones are   *)
(* whole blocks, the last is what remains; addhash(); advance.             *)
Iterate ==
  /\ rsize > 0
  /\ LET hsize == IF offset # 0
                  THEN IF HashBlkSize - offset > rsize THEN rsize ELSE HashBlkSize - offset
                  ELSE IF rsize > HashBlkSize THEN HashBlkSize ELSE rsize
     IN /\ pieces' = Append(pieces, [start |-> rstart, size |-> hsize])
        /\ rstart' = rstart + hsize
        /\ rsize' = rsize - hsize
        /\ offset' = 0
        /\ UNCHANGED r0

Init ==
  /\ r0 = [start |-> SSect, size |-> 0]
  /\ rstart = SSect
  /\ rsize = 0
  /\ offset = 0
  /\ pieces = <<>>

Next == Call \/ Iterate

Spec == Init /\ [][Next]_vars

(* The loop of add_to_hashmap() and the closed form Pieces agree: what it *)
(* has emitted, followed by the pieces of what is left, is always the cut  *)
(* of the whole range, and the offset is that of the next start until the  *)
(* loop is done.                                                           *)
ChunkingAgrees ==
  /\ r0.size > 0 =>
       pieces \o (IF rsize > 0 THEN Pieces(rstart, rsize) ELSE <<>>)
         = Pieces(r0.start, r0.size)
  /\ rsize > 0 => offset = (rstart - SSect) % HashBlkSize

=============================================================================
