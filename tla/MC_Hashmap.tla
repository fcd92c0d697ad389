----------------------------- MODULE MC_Hashmap -----------------------------
(***************************************************************************)
(* Hashmap for TLC: a partition of NSect sectors from SSect, hash blocks   *)
(* of HashBlkSize sectors, and every input the caller and the signature   *)
(* file can supply over it.                                                *)
(***************************************************************************)
EXTENDS Hashmap

SE == INSTANCE SequencesExt

(* A layout marks each sector "none" (not in any extent), "start" (first  *)
(* sector of an extent) or "cont" (continues the extent before it).        *)
Layouts(breakAt(_)) ==
  {f \in [Sect -> {"none", "start", "cont"}] :
     \A s \in Sect : f[s] = "cont" =>
        s - 1 \in Sect /\ f[s - 1] # "none" /\ ~breakAt(s)}

(* The ordered extent list a layout describes. *)
ToExtents(f) ==
  LET S == SE!SetToSortSeq({s \in Sect : f[s] = "start"}, <)
      e(st) == CHOOSE t \in (st + 1)..(SSect + NSect) :
                 /\ t = SSect + NSect \/ f[t] # "cont"
                 /\ \A u \in (st + 1)..(t - 1) : f[u] = "cont"
  IN [i \in DOMAIN S |-> [start |-> S[i], size |-> e(S[i]) - S[i]]]

NoBreak(s) == FALSE
BlockStart(s) == (s - SSect) % HashBlkSize = 0

(* Every non-empty allocated-range list over the partition. *)
MCCurRangeInputs ==
  {ToExtents(f) : f \in {f \in Layouts(NoBreak) : \E s \in Sect : f[s] # "none"}}

(* Every signature this code can have written over it: aligned extents,   *)
(* hashed when every sector held its prior-image content.                  *)
MCHashInfoInputs ==
  {[i \in DOMAIN x |-> [start |-> x[i].start, size |-> x[i].size, chunkno |-> 0,
                        hash |-> [s \in Sectors(x[i]) |-> "old"]]] :
     x \in {ToExtents(f) : f \in Layouts(BlockStart)}}

(* At most one modified sector, at most one sector with a pending fixup. *)
MCSmallSets == {{}} \cup {{s} : s \in Sect}

(* Hashes as TLC enumerates them: over sectors of the partition. *)
MCHashes == UNION {[S -> Content] : S \in SUBSET Sect}

=============================================================================
