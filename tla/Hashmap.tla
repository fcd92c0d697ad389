------------------------------ MODULE Hashmap ------------------------------
(***************************************************************************)
(* The hash-map delta engine of imagezip, src/src/imagezip/hashmap/       *)
(* hashmap.c: hashmap_compute_delta() walks the current disk's allocated   *)
(* ranges (curranges) against the hash regions of a prior signature        *)
(* (hinfo), producing the ranges that must go into the image (nranges)     *)
(* and, when asked, a new signature (nhinfo).                              *)
(*                                                                         *)
(* Data abstraction.  A sector's content is one of three tokens: "old"     *)
(* (as in the prior image), "new" (modified since) or "fixed" (a pending   *)
(* fixup has been applied to it in the read buffer).  A hash is the        *)
(* function from the sectors it covers to their contents: an ideal hash,   *)
(* equal exactly when the contents are equal.  The fixup subsystem (not    *)
(* under src/) is a set of sectors carrying a pending fixup.               *)
(***************************************************************************)
EXTENDS Integers, Sequences, FiniteSets, HashBlocks

CONSTANTS
  NSect,           \* sectors of the partition that the inputs may use
  HashFree,        \* the hash_free global
  IOFail,          \* whether reads and allocations may fail
  CurRangeInputs,  \* allocated-range lists the caller may pass
  HashInfoInputs,  \* signatures readhashinfo() may return
  ModifiedInputs,  \* sets of sectors modified since the prior image
  FixupInputs      \* fixup lists pending at the call

Sect == SSect..(SSect + NSect - 1)

Content == {"old", "new", "fixed"}

(* An ordered, non-overlapping list of non-empty extents inside Sect:     *)
(* each ends at or before every later one begins.                         *)
IsRangeList(rl) ==
  /\ \A i \in DOMAIN rl : rl[i].size > 0 /\ Sectors(rl[i]) \subseteq Sect
  /\ \A i, j \in DOMAIN rl : i < j => End(rl[i]) <= rl[j].start

(* A hash: the contents of the sectors it was computed over. *)
Hashes == UNION {[S -> Content] : S \in SUBSET Int}

(* struct hashregion: start, size, chunkno, hash *)
HashRegion == [start : Int, size : Int, chunkno : Nat, hash : Hashes]

(* A signature as this code writes it: ordered extents of at most          *)
(* hashblksize sectors, none crossing a hash-block boundary.              *)
IsHashInfo(hl) ==
  /\ IsRangeList([i \in DOMAIN hl |-> [start |-> hl[i].start, size |-> hl[i].size]])
  /\ \A i \in DOMAIN hl :
       /\ hl[i].size <= HashBlkSize
       /\ BlockOf(hl[i].start) = BlockOf(End(hl[i]) - 1)
       /\ hl[i].chunkno = 0
       /\ hl[i].hash \in [Sectors(hl[i]) -> Content]

ASSUME ConstantsAssumption ==
  /\ NSect \in Nat
  /\ HashFree \in BOOLEAN
  /\ IOFail \in BOOLEAN

ASSUME InputsAssumption ==
  /\ CurRangeInputs \subseteq Seq(Ranges)
  /\ \A rl \in CurRangeInputs : rl # <<>> /\ IsRangeList(rl)
  /\ HashInfoInputs \subseteq Seq(HashRegion)
  /\ \A hl \in HashInfoInputs : IsHashInfo(hl)
  /\ ModifiedInputs \subseteq SUBSET Sect
  /\ FixupInputs \subseteq SUBSET Sect

VARIABLES
  pc,           \* where hashmap_compute_delta is
  curranges,    \* argument: current allocated ranges
  hinfo,        \* regions of the signature read by readhashinfo()
  modified,     \* sectors whose content differs from the prior image
  fixin,        \* the fixup list as it was at the call
  newhashfile,  \* argument: build a new signature
  fixups,       \* the fixup list (external, consumed by applyfixups)
  saved,        \* the copy taken by savefixups()
  hreg,         \* index of the current hash region in hinfo
  di,           \* index in curranges of the range drange was copied from
  drange,       \* tmprange: the current range, narrowed by splits
  changed,      \* verdict on the current hash region
  nranges,      \* the output list after dummy_head
  nhinfo,       \* regions of the new signature
  nhstate       \* the nhinfo pointer: "null", "live" or "freed"

vars == <<pc, curranges, hinfo, modified, fixin, newhashfile, fixups, saved,
          hreg, di, drange, changed, nranges, nhinfo, nhstate>>

-----------------------------------------------------------------------------
(* Disk reads, hashes and the lists the walk appends to.                   *)

(* Content of sector s as read, with the fixups of F applied. *)
ContentOf(s, F) ==
  IF s \in F THEN "fixed" ELSE IF s \in modified THEN "new" ELSE "old"

(* hash_range(): read r, apply the fixups of F overlapping it, hash. *)
DiskHash(r, F) == [s \in Sectors(r) |-> ContentOf(s, F)]

(* hasfixup() *)
HasFixup(F, r) == F \cap Sectors(r) # {}

(* addhash() for each piece of r: with the hash hash_range() computes for *)
(* the piece, or with one hash given for the whole of r.                    *)
NewHashEntriesUnfixed(r) ==
  LET P == Pieces(r.start, r.size)
  IN [i \in DOMAIN P |-> [start |-> P[i].start, size |-> P[i].size, chunkno |-> 0,
                          hash |-> DiskHash(P[i], {})]]
NewHashEntries(r) ==
  LET P == Pieces(r.start, r.size)
  IN [i \in DOMAIN P |-> [start |-> P[i].start, size |-> P[i].size, chunkno |-> 0,
                          hash |-> DiskHash(P[i], fixups)]]
GivenHashEntries(r, hash) ==
  LET P == Pieces(r.start, r.size)
  IN [i \in DOMAIN P |-> [start |-> P[i].start, size |-> P[i].size, chunkno |-> 0,
                          hash |-> hash]]

(* add_to_hashmap(&nhinfo, r, NULL): each piece is read by hash_range(),   *)
(* which applies its fixups, and so consumes them.                          *)
AddToHashmap(r) ==
  /\ nhinfo' = nhinfo \o NewHashEntries(r)
  /\ nhstate' = "live"
  /\ fixups' = fixups \ Sectors(r)

(* add_to_hashmap(&nhinfo, r, hash) *)
AddGivenToHashmap(r, hash) ==
  /\ nhinfo' = nhinfo \o GivenHashEntries(r, hash)
  /\ nhstate' = "live"
  /\ UNCHANGED fixups

(* add_to_range(): coalesce with the tail or append a new node. *)
Coalesces(nr, start) == nr # <<>> /\ End(nr[Len(nr)]) = start
AddToRangeOverwrite(nr, r) ==
  IF Coalesces(nr, r.start)
    THEN [nr EXCEPT ![Len(nr)].size = r.size]
    ELSE Append(nr, r)
AddToRange(nr, r) ==
  IF Coalesces(nr, r.start)
    THEN [nr EXCEPT ![Len(nr)].size = @ + r.size]
    ELSE Append(nr, r)

(* Emit a range of new data: add_to_range(), then add_to_hashmap() with no *)
(* hash when a new signature is being built.                               *)
EmitNew(r) ==
  /\ nranges' = AddToRange(nranges, r)
  /\ IF newhashfile THEN AddToHashmap(r)
                    ELSE UNCHANGED <<nhinfo, nhstate, fixups>>

(* The emission of r can fail: malloc in add_to_range() when it does not  *)
(* coalesce, a read or malloc in add_to_hashmap().                         *)
EmitCanFail(r) == IOFail /\ (~Coalesces(nranges, r.start) \/ newhashfile)

(* drange = COPYRANGE(drange->next) *)
DrangeNull == di > Len(curranges)
AdvanceDrange ==
  /\ di' = di + 1
  /\ drange' = IF di + 1 <= Len(curranges) THEN curranges[di + 1] ELSE drange

H == hinfo[hreg]

(* hreg++ of the for loop. *)
NextHregStuck(h) == h
NextHreg(h) == h + 1

(* The for-loop head: another hash region, or the trailing ranges. *)
GoLoop(h) == pc' = IF h <= Len(hinfo) THEN "drain" ELSE "trail"

FailNoRestore ==
  /\ pc' = "error"
  /\ nhstate' = IF nhstate = "null" THEN "null" ELSE "freed"
  /\ nranges' = <<>>
  /\ UNCHANGED <<curranges, hinfo, modified, fixin, newhashfile, fixups, saved,
                 hreg, di, drange, changed, nhinfo>>

(* The error label: restorefixups(0), free(nhinfo) without clearing the    *)
(* pointer, freeranges() of the partial output.                            *)
Fail ==
  /\ pc' = "error"
  /\ fixups' = IF newhashfile THEN saved ELSE fixups
  /\ nhstate' = IF nhstate = "null" THEN "null" ELSE "freed"
  /\ nranges' = <<>>
  /\ UNCHANGED <<curranges, hinfo, modified, fixin, newhashfile, saved,
                 hreg, di, drange, changed, nhinfo>>

-----------------------------------------------------------------------------
(* The operations.                                                         *)

(* Entry of hashmap_compute_delta(): readhashinfo(), savefixups() when a    *)
(* new signature is wanted, the first range copied, the loop entered.       *)
Call ==
  /\ pc = "idle"
  /\ \E cr \in CurRangeInputs, hl \in HashInfoInputs, m \in ModifiedInputs,
        fx \in FixupInputs, nh \in BOOLEAN :
       /\ curranges' = cr
       /\ hinfo' = hl
       /\ modified' = m
       /\ fixin' = fx
       /\ newhashfile' = nh
       /\ fixups' = fx
       /\ \/ /\ saved' = IF nh THEN fx ELSE saved
             /\ hreg' = 1
             /\ di' = 1
             /\ drange' = cr[1]
             /\ nranges' = <<>>
             /\ pc' = IF 1 <= Len(hl) THEN "drain" ELSE "trail"
          \/ /\ IOFail
             /\ pc' = "error"
             /\ UNCHANGED <<saved, hreg, di, drange, nranges>>
  /\ UNCHANGED <<changed, nhinfo, nhstate>>

(* A range wholly before the hash region is new data. *)
Drain ==
  /\ pc = "drain"
  /\ ~DrangeNull
  /\ End(drange) <= H.start
  /\ \/ /\ EmitNew(drange)
        /\ AdvanceDrange
        /\ UNCHANGED <<pc, curranges, hinfo, modified, fixin, newhashfile,
                       saved, hreg, changed>>
     \/ EmitCanFail(drange) /\ Fail

(* The ranges ran out before this hash region: leave the loop. *)
DrangeExhausted ==
  /\ pc = "drain"
  /\ DrangeNull
  /\ pc' = "trail"
  /\ UNCHANGED <<curranges, hinfo, modified, fixin, newhashfile, fixups, saved,
                 hreg, di, drange, changed, nranges, nhinfo, nhstate>>

(* hreg + size <= drange->start: the hash region ends before the range. *)
DeallocatedStrict(h, d) == End(h) < d.start
Deallocated(h, d) == End(h) <= d.start

(* A hash region wholly before the range was deallocated: skip it. *)
SkipHreg ==
  /\ pc = "drain"
  /\ ~DrangeNull
  /\ End(drange) > H.start
  /\ Deallocated(H, drange)
  /\ hreg' = NextHreg(hreg)
  /\ GoLoop(NextHreg(hreg))
  /\ UNCHANGED <<curranges, hinfo, modified, fixin, newhashfile, fixups, saved,
                 di, drange, changed, nranges, nhinfo, nhstate>>

(* drange->start += before; drange->size -= before *)
NarrowForgotten(d, h) == d
Narrow(d, h) == [start |-> h.start, size |-> d.size - (h.start - d.start)]

(* The range overlaps the hash region; the part before it is new data. *)
HeadSplit ==
  /\ pc = "drain"
  /\ ~DrangeNull
  /\ End(drange) > H.start
  /\ ~Deallocated(H, drange)
  /\ LET head == [start |-> drange.start, size |-> H.start - drange.start]
     IN IF drange.start < H.start
          THEN \/ /\ EmitNew(head)
                  /\ drange' = Narrow(drange, H)
                  /\ pc' = "decide"
                  /\ UNCHANGED <<curranges, hinfo, modified, fixin, newhashfile,
                                 saved, hreg, di, changed>>
               \/ EmitCanFail(head) /\ Fail
          ELSE /\ pc' = "decide"
               /\ UNCHANGED <<curranges, hinfo, modified, fixin, newhashfile,
                              fixups, saved, hreg, di, drange, changed,
                              nranges, nhinfo, nhstate>>

(* Compare the hash region when hash_free is set or one range covers it:   *)
(* a fixup forces changed = 3, otherwise the region is read and hashed and *)
(* its new hash recorded; with a gap and no hash_free, changed = 2.         *)
CompareAnyStart == HashFree \/ drange.start = H.start
Compare == HashFree \/ (drange.start = H.start /\ drange.size >= H.size)

Decide ==
  /\ pc = "decide"
  /\ \/ /\ Compare
        /\ HasFixup(fixups, H)
        /\ changed' = 3
        /\ pc' = "covered"
        /\ UNCHANGED <<fixups, nhinfo, nhstate>>
     \/ /\ Compare
        /\ ~HasFixup(fixups, H)
        /\ LET hash == DiskHash(H, {})
           IN /\ changed' = IF hash = H.hash THEN 0 ELSE 1
              /\ IF newhashfile THEN AddGivenToHashmap(H, hash)
                                ELSE UNCHANGED <<fixups, nhinfo, nhstate>>
        /\ pc' = "covered"
     \/ /\ ~Compare
        /\ changed' = 2
        /\ pc' = "covered"
        /\ UNCHANGED <<fixups, nhinfo, nhstate>>
  /\ UNCHANGED <<curranges, hinfo, modified, fixin, newhashfile, saved,
                 hreg, di, drange, nranges>>

(* The same, with hash_and_cmp()'s -1 taken for a verdict. *)
DecideFailsUnchecked ==
  /\ pc = "decide"
  /\ IOFail
  /\ Compare
  /\ ~HasFixup(fixups, H)
  /\ changed' = -1
  /\ pc' = "covered"
  /\ UNCHANGED <<curranges, hinfo, modified, fixin, newhashfile, fixups, saved,
                 hreg, di, drange, nranges, nhinfo, nhstate>>

(* The read in hash_and_cmp() or the allocation in addhash() fails. *)
DecideFails ==
  /\ pc = "decide"
  /\ IOFail
  /\ Compare
  /\ ~HasFixup(fixups, H)
  /\ Fail

(* curend > hregend: the range crosses the end of the hash region. *)
Splits(d, h) == End(d) > End(h)

(* changed > 1: no hash of the whole region was recorded, so each range   *)
(* inside it gets hashes of its own.                                       *)
PerRangeHashesFixupOnly(c) == c > 2
PerRangeHashes(c) == c > 1

(* Unless the range was split, bump drange to the next entry. *)
BumpAlways(split) == AdvanceDrange
Bump(split) ==
  IF split
    THEN /\ drange' = [start |-> End(H), size |-> End(drange) - End(H)]
         /\ di' = di
    ELSE AdvanceDrange

(* One range starting inside the hash region: the part inside is emitted  *)
(* unless the hash matched, with per-range hashes when no compare was      *)
(* made; a range crossing the region's end is split and its tail kept.     *)
CoverStep ==
  /\ pc = "covered"
  /\ ~DrangeNull
  /\ drange.start < End(H)
  /\ LET split == Splits(drange, H)
         cur == [start |-> drange.start,
                 size |-> IF split THEN End(H) - drange.start ELSE drange.size]
     IN \/ /\ IF changed # 0
                THEN /\ nranges' = AddToRange(nranges, cur)
                     /\ IF PerRangeHashes(changed) /\ newhashfile
                          THEN AddToHashmap(cur)
                          ELSE UNCHANGED <<nhinfo, nhstate, fixups>>
                ELSE UNCHANGED <<nranges, nhinfo, nhstate, fixups>>
           /\ Bump(split)
           /\ UNCHANGED <<pc, curranges, hinfo, modified, fixin, newhashfile,
                          saved, hreg, changed>>
        \/ /\ changed # 0
           /\ IOFail
           /\ ~Coalesces(nranges, cur.start) \/ (PerRangeHashes(changed) /\ newhashfile)
           /\ Fail

(* No more ranges inside the hash region: next region, or leave the loop  *)
(* when the ranges ran out.                                                 *)
CoverDone ==
  /\ pc = "covered"
  /\ DrangeNull \/ drange.start >= End(H)
  /\ IF DrangeNull
       THEN pc' = "trail" /\ hreg' = hreg
       ELSE hreg' = NextHreg(hreg) /\ GoLoop(NextHreg(hreg))
  /\ UNCHANGED <<curranges, hinfo, modified, fixin, newhashfile, fixups, saved,
                 di, drange, changed, nranges, nhinfo, nhstate>>

(* Ranges after the last hash region are new data. *)
Trail ==
  /\ pc = "trail"
  /\ ~DrangeNull
  /\ \/ /\ EmitNew(drange)
        /\ AdvanceDrange
        /\ UNCHANGED <<pc, curranges, hinfo, modified, fixin, newhashfile,
                       saved, hreg, changed>>
     \/ EmitCanFail(drange) /\ Fail

FinishNoRestore ==
  /\ pc = "trail"
  /\ DrangeNull
  /\ pc' = "done"
  /\ nhstate' = IF newhashfile THEN "live" ELSE nhstate
  /\ UNCHANGED <<curranges, hinfo, modified, fixin, newhashfile, fixups, saved,
                 hreg, di, drange, changed, nranges, nhinfo>>

(* Success: the new signature's header is set up (calloc if no region was *)
(* added) and restorefixups(1) puts the saved fixup list back.             *)
Finish ==
  /\ pc = "trail"
  /\ DrangeNull
  /\ pc' = "done"
  /\ nhstate' = IF newhashfile THEN "live" ELSE nhstate
  /\ fixups' = IF newhashfile THEN saved ELSE fixups
  /\ UNCHANGED <<curranges, hinfo, modified, fixin, newhashfile, saved,
                 hreg, di, drange, changed, nranges, nhinfo>>

Init ==
  /\ pc = "idle"
  /\ curranges = <<>>
  /\ hinfo = <<>>
  /\ modified = {}
  /\ fixin = {}
  /\ newhashfile = FALSE
  /\ fixups = {}
  /\ saved = {}
  /\ hreg = 1
  /\ di = 1
  /\ drange = [start |-> 0, size |-> 0]
  /\ changed = 0
  /\ nranges = <<>>
  /\ nhinfo = <<>>
  /\ nhstate = "null"

(* One step of the walk, once called. *)
Walk ==
  \/ Drain
  \/ DrangeExhausted
  \/ SkipHreg
  \/ HeadSplit
  \/ Decide
  \/ DecideFails
  \/ CoverStep
  \/ CoverDone
  \/ Trail
  \/ Finish

Next == Call \/ Walk

(* The walk is straight-line code in one thread: once called it keeps     *)
(* running.  Nothing obliges the caller to call.                           *)
Spec == Init /\ [][Next]_vars /\ WF_vars(Walk)

-----------------------------------------------------------------------------
(* Properties.                                                             *)

TypeOK ==
  /\ pc \in {"idle", "drain", "decide", "covered", "trail", "done", "error"}
  /\ curranges \in Seq(Ranges)
  /\ hinfo \in Seq(HashRegion)
  /\ modified \subseteq Int
  /\ fixin \subseteq Int
  /\ newhashfile \in BOOLEAN
  /\ fixups \subseteq Int
  /\ saved \subseteq Int
  /\ hreg \in Nat \ {0}
  /\ di \in Nat \ {0}
  /\ drange \in [start : Int, size : Int]
  /\ changed \in 0..3
  /\ nranges \in Seq([start : Int, size : Int])
  /\ nhinfo \in Seq(HashRegion)
  /\ nhstate \in {"null", "live", "freed"}

(* The sectors the current disk has allocated. *)
Alloc == Covers(curranges)

(* A hash region the walk compares with the disk: it meets an allocated    *)
(* range, and hash_free is set or a single range covers it whole.          *)
Compared(h) ==
  /\ Sectors(h) \cap Alloc # {}
  /\ HashFree \/ \E i \in DOMAIN curranges :
                  curranges[i].start <= h.start /\ End(h) <= End(curranges[i])

(* Sectors shown unchanged: those of a compared hash region with no       *)
(* pending fixup whose recorded hash still matches the disk.               *)
ShownUnchanged ==
  UNION {Sectors(hinfo[k]) :
           k \in {k \in DOMAIN hinfo : /\ Compared(hinfo[k])
                                       /\ ~HasFixup(fixin, hinfo[k])
                                       /\ hinfo[k].hash = DiskHash(hinfo[k], {})}}

(* Delta exactness (spec 8, "delta coverage"; hashmap_compute_delta):     *)
(* on success the output ranges are exactly the allocated sectors that no  *)
(* compared, fixup-free hash region shows unchanged, in ascending order,   *)
(* coalesced by add_to_range() so that no two are adjacent.                *)
DeltaExact ==
  pc = "done" =>
    /\ Covers(nranges) = Alloc \ ShownUnchanged
    /\ \A i \in DOMAIN nranges : nranges[i].size > 0
    /\ \A i \in 1..(Len(nranges) - 1) : End(nranges[i]) < nranges[i + 1].start

(* Signature exactness (spec 8, "signature faithfulness"; add_to_hashmap  *)
(* and the hash_range() reads of hashmap_compute_delta): on success with a *)
(* new signature, its regions are ordered, of at most hashblksize sectors, *)
(* none crossing a hash block; they cover the allocated sectors and the    *)
(* whole of each compared fixup-free hash region, and nothing else; and    *)
(* each carries the hash of its sectors as on disk with the fixups applied.*)
NewSignatureExact ==
  pc = "done" /\ newhashfile =>
    /\ \A i \in DOMAIN nhinfo :
         /\ 0 < nhinfo[i].size /\ nhinfo[i].size <= HashBlkSize
         /\ BlockOf(nhinfo[i].start) = BlockOf(End(nhinfo[i]) - 1)
         /\ nhinfo[i].hash = DiskHash(nhinfo[i], fixin)
    /\ \A i \in 1..(Len(nhinfo) - 1) : End(nhinfo[i]) <= nhinfo[i + 1].start
    /\ Covers(nhinfo) =
         Alloc \cup UNION {Sectors(hinfo[k]) :
                             k \in {k \in DOMAIN hinfo : Compared(hinfo[k])
                                                       /\ ~HasFixup(fixin, hinfo[k])}}

(* Fixup restoration (spec 4.4, "isolating the save/restore at the scope  *)
(* boundary is a hard requirement"; savefixups/restorefixups around the    *)
(* walk): when hashmap_compute_delta returns, success or error, the fixup  *)
(* list is the one it was called with, though hash_range() consumed some.  *)
FixupsRestored ==
  pc \in {"done", "error"} => fixups = fixin

(* The assert()s of hashmap_compute_delta hold: a range being split or    *)
(* emitted against a hash region starts inside it (lines 1033, 1064), no   *)
(* current range is empty (869, 1115, 1236), and ranges are left over only *)
(* once every hash region is consumed (1168, 1216).                        *)
Assertions ==
  /\ pc = "decide" => ~DrangeNull /\ drange.start < End(H)
  /\ pc \in {"decide", "covered"} /\ ~DrangeNull /\ drange.start < End(H)
       => H.start <= drange.start
  /\ pc \in {"drain", "decide", "covered", "trail"} /\ ~DrangeNull
       => drange.size > 0
  /\ pc = "trail" /\ ~DrangeNull => hreg > Len(hinfo)

(* The output grows at its tail only (add_to_range(), the sole writer of *)
(* the delta list of hashmap_compute_delta): until an error, no step takes *)
(* a sector out of the output ranges, and every sector a step adds lies    *)
(* past all those already in it, so the list is built in disk order.       *)
OutputAppendOnly ==
  [][pc' # "error" =>
       /\ Covers(nranges) \subseteq Covers(nranges')
       /\ \A s \in Covers(nranges') \ Covers(nranges) :
            \A t \in Covers(nranges) : t < s]_vars

(* Termination: once called, hashmap_compute_delta's walk over the two     *)
(* ordered lists always returns, the for loop, the drain, covered and      *)
(* trailing loops each advancing hreg or drange.                           *)
Termination == (pc # "idle") ~> (pc \in {"done", "error"})

=============================================================================
