--------------------------- MODULE HashmapProofs ----------------------------
(***************************************************************************)
(* Proofs about the delta engine of Hashmap.tla, for every partition,     *)
(* hash-block size and input the assumptions allow.                        *)
(***************************************************************************)
EXTENDS Hashmap, SequenceTheorems, TLAPS

-----------------------------------------------------------------------------
(* Lemmas about the helpers.                                               *)

Ext == [start : Int, size : Int]

(* A function on 1..n is a sequence, whatever the sign of n. *)
LEMMA FcnOnIntervalIsSeq ==
  ASSUME NEW S, NEW n \in Int, NEW f \in [1..n -> S]
  PROVE  f \in Seq(S)
<1>1. CASE n >= 0
  BY <1>1
<1>2. CASE n < 0
  <2>1. 1..n = 1..0
    BY <1>2
  <2>. QED
    BY <2>1
<1>. QED
  BY <1>1, <1>2

(* The hash hash_range() computes over an extent is a hash. *)
LEMMA DiskHashType ==
  ASSUME NEW r, r.start \in Int, r.size \in Int, NEW F
  PROVE  DiskHash(r, F) \in Hashes
<1>1. Sectors(r) \in SUBSET Int
  BY DEF Sectors, End
<1>2. DiskHash(r, F) \in [Sectors(r) -> Content]
  BY DEF DiskHash, ContentOf, Content
<1>. QED
  BY <1>1, <1>2 DEF Hashes

(* add_to_hashmap()'s cut of an extent is a sequence of extents. *)
LEMMA PiecesType ==
  ASSUME NEW s \in Int, NEW z \in Int
  PROVE  /\ Pieces(s, z) \in Seq(Ext)
         /\ \E n \in Int : DOMAIN Pieces(s, z) = 1..n
<1>. DEFINE k0 == BlockOf(s)
            n  == BlockOf(s + z - 1) - k0 + 1
<1>1. k0 \in Int /\ n \in Int
  BY BlocksAssumption DEF BlockOf
<1>2. Pieces(s, z) \in [1..n -> Ext]
  BY <1>1, BlocksAssumption DEF Pieces, Ext
<1>. QED
  BY <1>1, <1>2, FcnOnIntervalIsSeq DEF Pieces

(* The entries add_to_hashmap() appends are hash regions. *)
LEMMA EntriesType ==
  ASSUME NEW r, r.start \in Int, r.size \in Int, NEW h \in Hashes
  PROVE  /\ GivenHashEntries(r, h) \in Seq(HashRegion)
         /\ NewHashEntries(r) \in Seq(HashRegion)
<1>. DEFINE P == Pieces(r.start, r.size)
<1>1. P \in Seq(Ext) /\ \E n \in Int : DOMAIN P = 1..n
  BY PiecesType
<1>2. PICK n \in Int : DOMAIN P = 1..n
  BY <1>1
<1>3. \A i \in DOMAIN P : P[i] \in Ext
  BY <1>1, <1>2, ElementOfSeq, LenProperties
<1>4. \A i \in DOMAIN P : DiskHash(P[i], fixups) \in Hashes
  BY <1>3, DiskHashType DEF Ext
<1>5. GivenHashEntries(r, h) \in [1..n -> HashRegion]
  BY <1>2, <1>3 DEF GivenHashEntries, HashRegion, Ext
<1>6. NewHashEntries(r) \in [1..n -> HashRegion]
  BY <1>2, <1>3, <1>4 DEF NewHashEntries, HashRegion, Ext
<1>. QED
  BY <1>5, <1>6, FcnOnIntervalIsSeq

(* add_to_range() keeps the output a sequence of extents. *)
LEMMA AddToRangeType ==
  ASSUME NEW nr \in Seq(Ext), NEW r \in Ext
  PROVE  AddToRange(nr, r) \in Seq(Ext)
<1>1. CASE Coalesces(nr, r.start)
  <2>1. nr # <<>> /\ Len(nr) \in 1..Len(nr)
    BY <1>1, EmptySeq DEF Coalesces
  <2>2. nr[Len(nr)] \in Ext
    BY <2>1, ElementOfSeq
  <2>3. [nr[Len(nr)] EXCEPT !.size = @ + r.size] \in Ext
    BY <2>2 DEF Ext
  <2>4. [nr EXCEPT ![Len(nr)].size = @ + r.size]
          = [nr EXCEPT ![Len(nr)] = [nr[Len(nr)] EXCEPT !.size = @ + r.size]]
    OBVIOUS
  <2>. QED
    BY <1>1, <2>1, <2>3, <2>4, ExceptSeq DEF AddToRange
<1>2. CASE ~Coalesces(nr, r.start)
  BY <1>2, AppendProperties DEF AddToRange
<1>. QED
  BY <1>1, <1>2

-----------------------------------------------------------------------------
(* Type correctness.                                                       *)

LEMMA InitTypeOK == Init => TypeOK
<1>. SUFFICES ASSUME Init PROVE TypeOK
  OBVIOUS
<1>1. curranges \in Seq(Ranges) /\ hinfo \in Seq(HashRegion)
      /\ nranges \in Seq(Ext) /\ nhinfo \in Seq(HashRegion)
  BY EmptySeq DEF Init
<1>2. drange \in Ext
  BY DEF Init, Ext
<1>3. /\ pc \in {"idle", "drain", "decide", "covered", "trail", "done", "error"}
      /\ nhstate \in {"null", "live", "freed"}
      /\ newhashfile \in BOOLEAN
  BY DEF Init
<1>4. /\ modified \subseteq Int /\ fixin \subseteq Int
      /\ fixups \subseteq Int /\ saved \subseteq Int
      /\ hreg \in Nat \ {0} /\ di \in Nat \ {0} /\ changed \in 0..3
  BY DEF Init
<1>. QED
  BY <1>1, <1>2, <1>3, <1>4 DEF TypeOK, Ext

(* Each action that ends in the error label keeps the types. *)
LEMMA FailTypeOK == TypeOK /\ Fail => TypeOK'
BY EmptySeq DEF TypeOK, Fail

(* Emitting a range of new data keeps the types. *)
LEMMA EmitNewTypeOK ==
  ASSUME TypeOK, NEW r \in Ext, EmitNew(r)
  PROVE  /\ nranges' \in Seq(Ext)
         /\ nhinfo' \in Seq(HashRegion)
         /\ nhstate' \in {"null", "live", "freed"}
         /\ fixups' \subseteq Int
<1>1. nranges' \in Seq(Ext)
  BY AddToRangeType DEF TypeOK, EmitNew, Ext
<1>2. CASE newhashfile
  <2>1. NewHashEntries(r) \in Seq(HashRegion)
    BY DiskHashType, EntriesType DEF Ext
  <2>2. nhinfo \o NewHashEntries(r) \in Seq(HashRegion)
    BY <2>1, ConcatProperties DEF TypeOK
  <2>3. fixups \ Sectors(r) \subseteq Int
    BY DEF TypeOK
  <2>. QED
    BY <1>1, <1>2, <2>2, <2>3 DEF EmitNew, AddToHashmap
<1>3. CASE ~newhashfile
  BY <1>1, <1>3 DEF TypeOK, EmitNew
<1>. QED
  BY <1>1, <1>2, <1>3

LEMMA AdvanceDrangeType ==
  ASSUME TypeOK, AdvanceDrange
  PROVE  di' \in Nat \ {0} /\ drange' \in Ext
<1>1. CASE di + 1 <= Len(curranges)
  <2>1. curranges[di + 1] \in Ranges
    BY <1>1, ElementOfSeq DEF TypeOK
  <2>. QED
    BY <1>1, <2>1 DEF TypeOK, AdvanceDrange, Ranges, Ext
<1>2. CASE ~(di + 1 <= Len(curranges))
  BY <1>2 DEF TypeOK, AdvanceDrange, Ext
<1>. QED
  BY <1>1, <1>2

LEMMA CallTypeOK == TypeOK /\ Call => TypeOK'
<1>. SUFFICES ASSUME TypeOK, Call PROVE TypeOK'
  OBVIOUS
<1>1. PICK cr \in CurRangeInputs, hl \in HashInfoInputs, m \in ModifiedInputs,
           fx \in FixupInputs, nh \in BOOLEAN :
        /\ curranges' = cr /\ hinfo' = hl /\ modified' = m /\ fixin' = fx
        /\ newhashfile' = nh /\ fixups' = fx
        /\ \/ /\ saved' = IF nh THEN fx ELSE saved
              /\ hreg' = 1 /\ di' = 1 /\ drange' = cr[1] /\ nranges' = <<>>
              /\ pc' = IF 1 <= Len(hl) THEN "drain" ELSE "trail"
           \/ /\ pc' = "error"
              /\ UNCHANGED <<saved, hreg, di, drange, nranges>>
  BY DEF Call
<1>2. cr \in Seq(Ranges) /\ cr # <<>> /\ hl \in Seq(HashRegion)
      /\ m \subseteq Int /\ fx \subseteq Int
  BY InputsAssumption DEF Sect
<1>3. cr[1] \in Ranges
  BY <1>2, EmptySeq, ElementOfSeq
<1>4. CASE /\ saved' = IF nh THEN fx ELSE saved
           /\ hreg' = 1 /\ di' = 1 /\ drange' = cr[1] /\ nranges' = <<>>
           /\ pc' = IF 1 <= Len(hl) THEN "drain" ELSE "trail"
  <2>1. <<>> \in Seq(Ext)
    BY EmptySeq
  <2>2. cr[1] \in Ext
    BY <1>3 DEF Ranges, Ext
  <2>3. saved' \subseteq Int
    BY <1>2, <1>4 DEF TypeOK
  <2>4. pc' \in {"drain", "trail"}
    BY <1>4
  <2>5. /\ curranges' \in Seq(Ranges) /\ hinfo' \in Seq(HashRegion)
        /\ modified' \subseteq Int /\ fixin' \subseteq Int
        /\ newhashfile' \in BOOLEAN /\ fixups' \subseteq Int
    BY <1>1, <1>2
  <2>6. /\ hreg' \in Nat \ {0} /\ di' \in Nat \ {0}
        /\ changed' \in 0..3 /\ nhinfo' \in Seq(HashRegion)
        /\ nhstate' \in {"null", "live", "freed"}
    BY <1>4 DEF TypeOK, Call
  <2>. QED
    BY <1>4, <2>1, <2>2, <2>3, <2>4, <2>5, <2>6 DEF TypeOK, Ext
<1>5. CASE pc' = "error" /\ UNCHANGED <<saved, hreg, di, drange, nranges>>
  BY <1>1, <1>2, <1>5 DEF TypeOK, Call
<1>. QED
  BY <1>1, <1>4, <1>5

LEMMA DrainTypeOK == TypeOK /\ Drain => TypeOK'
<1>. SUFFICES ASSUME TypeOK, Drain PROVE TypeOK'
  OBVIOUS
<1>0. drange \in Ext
  BY DEF TypeOK, Ext
<1>1. CASE EmitNew(drange) /\ AdvanceDrange
              /\ UNCHANGED <<pc, curranges, hinfo, modified, fixin, newhashfile,
                             saved, hreg, changed>>
  BY <1>0, <1>1, EmitNewTypeOK, AdvanceDrangeType DEF TypeOK, Ext
<1>2. CASE Fail
  BY <1>2, FailTypeOK
<1>. QED
  BY <1>1, <1>2 DEF Drain

LEMMA TrailTypeOK == TypeOK /\ Trail => TypeOK'
<1>. SUFFICES ASSUME TypeOK, Trail PROVE TypeOK'
  OBVIOUS
<1>0. drange \in Ext
  BY DEF TypeOK, Ext
<1>1. CASE EmitNew(drange) /\ AdvanceDrange
              /\ UNCHANGED <<pc, curranges, hinfo, modified, fixin, newhashfile,
                             saved, hreg, changed>>
  BY <1>0, <1>1, EmitNewTypeOK, AdvanceDrangeType DEF TypeOK, Ext
<1>2. CASE Fail
  BY <1>2, FailTypeOK
<1>. QED
  BY <1>1, <1>2 DEF Trail

LEMMA DrangeExhaustedTypeOK == TypeOK /\ DrangeExhausted => TypeOK'
BY DEF TypeOK, DrangeExhausted

LEMMA SkipHregTypeOK == TypeOK /\ SkipHreg => TypeOK'
BY DEF TypeOK, SkipHreg, GoLoop, NextHreg

LEMMA CoverDoneTypeOK == TypeOK /\ CoverDone => TypeOK'
BY DEF TypeOK, CoverDone, GoLoop, NextHreg

LEMMA FinishTypeOK == TypeOK /\ Finish => TypeOK'
BY DEF TypeOK, Finish

(* While the walk is inside the for loop, hreg points at a hash region. *)
HregOK == pc \in {"drain", "decide", "covered"} => hreg \in 1..Len(hinfo)

LEMMA HType ==
  ASSUME TypeOK, HregOK, pc \in {"drain", "decide", "covered"}
  PROVE  /\ H \in HashRegion
         /\ H.start \in Int /\ H.size \in Int /\ H.hash \in Hashes
<1>1. H \in HashRegion
  BY ElementOfSeq DEF TypeOK, HregOK, H
<1>. QED
  BY <1>1 DEF HashRegion

LEMMA HeadSplitTypeOK == TypeOK /\ HregOK /\ HeadSplit => TypeOK'
<1>. SUFFICES ASSUME TypeOK, HregOK, HeadSplit PROVE TypeOK'
  OBVIOUS
<1>. DEFINE head == [start |-> drange.start, size |-> H.start - drange.start]
<1>0. H.start \in Int /\ drange \in Ext /\ head \in Ext
  BY HType DEF HeadSplit, TypeOK, Ext
<1>1. CASE drange.start < H.start /\ EmitNew(head)
           /\ drange' = Narrow(drange, H) /\ pc' = "decide"
           /\ UNCHANGED <<curranges, hinfo, modified, fixin, newhashfile,
                          saved, hreg, di, changed>>
  <2>1. drange' \in Ext
    BY <1>0, <1>1 DEF Narrow, Ext
  <2>. QED
    BY <1>0, <1>1, <2>1, EmitNewTypeOK DEF TypeOK, Ext
<1>2. CASE drange.start < H.start /\ Fail
  BY <1>2, FailTypeOK
<1>3. CASE ~(drange.start < H.start)
  BY <1>3 DEF HeadSplit, TypeOK
<1>. QED
  BY <1>1, <1>2, <1>3 DEF HeadSplit

LEMMA DecideTypeOK == TypeOK /\ HregOK /\ Decide => TypeOK'
<1>. SUFFICES ASSUME TypeOK, HregOK, Decide PROVE TypeOK'
  OBVIOUS
<1>0. H.start \in Int /\ H.size \in Int
  BY HType DEF Decide
<1>1. /\ pc' = "covered" /\ changed' \in 0..3
      /\ UNCHANGED <<curranges, hinfo, modified, fixin, newhashfile, saved,
                     hreg, di, drange, nranges>>
  BY DEF Decide
<1>2. nhinfo' \in Seq(HashRegion) /\ nhstate' \in {"null", "live", "freed"}
      /\ fixups' \subseteq Int
  <2>1. CASE Compare /\ ~HasFixup(fixups, H) /\ newhashfile
    <3>1. DiskHash(H, {}) \in Hashes
      BY <1>0, DiskHashType
    <3>2. GivenHashEntries(H, DiskHash(H, {})) \in Seq(HashRegion)
      BY <1>0, <3>1, EntriesType
    <3>3. nhinfo \o GivenHashEntries(H, DiskHash(H, {})) \in Seq(HashRegion)
      BY <3>2, ConcatProperties DEF TypeOK
    <3>. QED
      BY <2>1, <3>3 DEF Decide, TypeOK, AddGivenToHashmap
  <2>2. CASE ~(Compare /\ ~HasFixup(fixups, H) /\ newhashfile)
    BY <2>2 DEF Decide, TypeOK
  <2>. QED
    BY <2>1, <2>2
<1>. QED
  BY <1>1, <1>2 DEF TypeOK

LEMMA DecideFailsTypeOK == TypeOK /\ DecideFails => TypeOK'
BY FailTypeOK DEF DecideFails

LEMMA CoverStepTypeOK == TypeOK /\ HregOK /\ CoverStep => TypeOK'
<1>. SUFFICES ASSUME TypeOK, HregOK, CoverStep PROVE TypeOK'
  OBVIOUS
<1>. DEFINE split == Splits(drange, H)
            cur == [start |-> drange.start,
                    size |-> IF split THEN End(H) - drange.start ELSE drange.size]
<1>0. H.start \in Int /\ H.size \in Int /\ drange \in Ext /\ cur \in Ext
  BY HType DEF CoverStep, TypeOK, Ext, End
<1>1. CASE Fail
  BY <1>1, FailTypeOK
<1>2. CASE ~Fail
  <2>1. /\ IF changed # 0
             THEN /\ nranges' = AddToRange(nranges, cur)
                  /\ IF PerRangeHashes(changed) /\ newhashfile
                       THEN AddToHashmap(cur)
                       ELSE UNCHANGED <<nhinfo, nhstate, fixups>>
             ELSE UNCHANGED <<nranges, nhinfo, nhstate, fixups>>
        /\ Bump(split)
        /\ UNCHANGED <<pc, curranges, hinfo, modified, fixin, newhashfile,
                       saved, hreg, changed>>
    BY <1>2 DEF CoverStep
  <2>2. nranges' \in Seq(Ext)
    BY <1>0, <2>1, AddToRangeType DEF TypeOK, Ext
  <2>3. nhinfo' \in Seq(HashRegion) /\ nhstate' \in {"null", "live", "freed"}
        /\ fixups' \subseteq Int
    <3>1. NewHashEntries(cur) \in Seq(HashRegion)
      BY <1>0, DiskHashType, EntriesType DEF Ext
    <3>2. nhinfo \o NewHashEntries(cur) \in Seq(HashRegion)
      BY <3>1, ConcatProperties DEF TypeOK
    <3>. QED
      BY <2>1, <3>2 DEF TypeOK, AddToHashmap
  <2>4. drange' \in Ext /\ di' \in Nat \ {0}
    <3>1. CASE split
      BY <1>0, <2>1, <3>1 DEF Bump, Ext, End, TypeOK
    <3>2. CASE ~split
      BY <2>1, <3>2, AdvanceDrangeType DEF Bump
    <3>. QED
      BY <3>1, <3>2
  <2>. QED
    BY <2>1, <2>2, <2>3, <2>4 DEF TypeOK, Ext
<1>. QED
  BY <1>1, <1>2

LEMMA HregOKStep == TypeOK /\ HregOK /\ [Next]_vars => HregOK'
<1>. SUFFICES ASSUME TypeOK, HregOK, [Next]_vars PROVE HregOK'
  OBVIOUS
<1>1. CASE Call
  <2>1. PICK hl \in HashInfoInputs :
          hinfo' = hl /\ (pc' = "error" \/ (hreg' = 1 /\ pc' = IF 1 <= Len(hl) THEN "drain" ELSE "trail"))
    BY <1>1 DEF Call
  <2>2. Len(hl) \in Nat
    BY InputsAssumption, LenProperties
  <2>. QED
    BY <2>1, <2>2 DEF HregOK
<1>2. CASE SkipHreg \/ CoverDone
  <2>1. hreg \in Nat
    BY DEF TypeOK
  <2>. QED
    BY <1>2, <2>1 DEF SkipHreg, CoverDone, GoLoop, NextHreg, HregOK
<1>3. CASE Drain \/ Trail
  BY <1>3 DEF Drain, Trail, EmitNew, AddToHashmap, Fail, AdvanceDrange, HregOK
<1>4. CASE HeadSplit \/ Decide \/ DecideFails \/ CoverStep
  BY <1>4 DEF HeadSplit, Decide, DecideFails, CoverStep, Fail, Bump,
              AdvanceDrange, HregOK
<1>5. CASE DrangeExhausted \/ Finish \/ UNCHANGED vars
  BY <1>5 DEF DrangeExhausted, Finish, vars, HregOK
<1>. QED
  BY <1>1, <1>2, <1>3, <1>4, <1>5 DEF Next, Walk

LEMMA TypeOKStep == TypeOK /\ HregOK /\ [Next]_vars => TypeOK'
<1>. SUFFICES ASSUME TypeOK, HregOK, [Next]_vars PROVE TypeOK'
  OBVIOUS
<1>1. CASE UNCHANGED vars
  BY <1>1 DEF TypeOK, vars
<1>. QED
  BY <1>1, CallTypeOK, DrainTypeOK, DrangeExhaustedTypeOK, SkipHregTypeOK,
     HeadSplitTypeOK, DecideTypeOK, DecideFailsTypeOK, CoverStepTypeOK,
     CoverDoneTypeOK, TrailTypeOK, FinishTypeOK DEF Next, Walk

(* Type correctness of the delta engine: every variable of                *)
(* hashmap_compute_delta keeps its type on every path through the walk,   *)
(* the error label included, for every partition and block size.           *)
THEOREM TypeCorrect == Spec => []TypeOK
<1>1. Init => TypeOK /\ HregOK
  BY InitTypeOK DEF Init, HregOK
<1>2. TypeOK /\ HregOK /\ [Next]_vars => (TypeOK /\ HregOK)'
  BY TypeOKStep, HregOKStep
<1>. QED
  BY <1>1, <1>2, PTL DEF Spec

-----------------------------------------------------------------------------
(* The fixup list is restored.                                             *)

(* Why FixupsRestored holds: without a new signature nothing consumes a   *)
(* fixup; with one, the copy savefixups() took is the list of the call    *)
(* while the walk runs, and both exits put it back.                        *)
FixInv ==
  /\ ~newhashfile => fixups = fixin
  /\ newhashfile /\ pc \in {"drain", "decide", "covered", "trail"} => saved = fixin
  /\ pc \in {"done", "error"} => fixups = fixin

(* The error label restores the list from anywhere inside the walk. *)
LEMMA FailFixInv ==
  ASSUME FixInv, pc \in {"drain", "decide", "covered", "trail"}, Fail
  PROVE  FixInv'
BY DEF FixInv, Fail

(* Appending to the new signature consumes fixups only when there is one. *)
LEMMA EmitNewFixInv ==
  ASSUME FixInv, NEW r, EmitNew(r), pc \in {"drain", "decide", "covered", "trail"},
         UNCHANGED <<pc, fixin, newhashfile, saved>>
  PROVE  FixInv'
BY DEF FixInv, EmitNew, AddToHashmap

LEMMA FixInvStep == FixInv /\ [Next]_vars => FixInv'
<1>. SUFFICES ASSUME FixInv, [Next]_vars PROVE FixInv'
  OBVIOUS
<1>1. CASE Call
  <2>1. PICK fx \in FixupInputs, nh \in BOOLEAN :
          /\ fixin' = fx /\ newhashfile' = nh /\ fixups' = fx
          /\ \/ saved' = (IF nh THEN fx ELSE saved) /\ pc' \in {"drain", "trail"}
             \/ pc' = "error"
    BY <1>1 DEF Call
  <2>. QED
    BY <2>1 DEF FixInv
<1>2. CASE Drain
  BY <1>2, FailFixInv, EmitNewFixInv DEF Drain, AdvanceDrange
<1>3. CASE Trail
  BY <1>3, FailFixInv, EmitNewFixInv DEF Trail, AdvanceDrange
<1>4. CASE HeadSplit
  <2>. DEFINE head == [start |-> drange.start, size |-> H.start - drange.start]
  <2>1. CASE drange.start < H.start /\ EmitNew(head) /\ pc' = "decide"
             /\ UNCHANGED <<fixin, newhashfile, saved>>
    BY <1>4, <2>1 DEF FixInv, EmitNew, AddToHashmap, HeadSplit
  <2>2. CASE drange.start < H.start /\ Fail
    BY <1>4, <2>2, FailFixInv DEF HeadSplit
  <2>3. CASE ~(drange.start < H.start)
    BY <1>4, <2>3 DEF HeadSplit, FixInv
  <2>. QED
    BY <1>4, <2>1, <2>2, <2>3 DEF HeadSplit
<1>5. CASE Decide
  BY <1>5 DEF Decide, AddGivenToHashmap, FixInv
<1>6. CASE DecideFails
  BY <1>6, FailFixInv DEF DecideFails
<1>7. CASE CoverStep
  <2>1. CASE Fail
    BY <1>7, <2>1, FailFixInv DEF CoverStep
  <2>2. CASE ~Fail
    BY <1>7, <2>2 DEF CoverStep, AddToHashmap, Bump, AdvanceDrange, FixInv
  <2>. QED
    BY <2>1, <2>2
<1>8. CASE DrangeExhausted \/ SkipHreg \/ CoverDone \/ UNCHANGED vars
  BY <1>8 DEF DrangeExhausted, SkipHreg, CoverDone, GoLoop, vars, FixInv
<1>9. CASE Finish
  BY <1>9 DEF Finish, FixInv
<1>. QED
  BY <1>1, <1>2, <1>3, <1>4, <1>5, <1>6, <1>7, <1>8, <1>9 DEF Next, Walk

(* Fixup restoration: whenever hashmap_compute_delta has returned, by     *)
(* success or by its error label, the fixup list is the one it was called *)
(* with, although hash_range() consumed fixups while the walk ran.         *)
THEOREM FixupsAlwaysRestored == Spec => []FixupsRestored
<1>1. Init => FixInv
  BY DEF Init, FixInv
<1>2. FixInv => FixupsRestored
  BY DEF FixInv, FixupsRestored
<1>. QED
  BY <1>1, <1>2, FixInvStep, PTL DEF Spec

-----------------------------------------------------------------------------
(* The assertions of the walk.                                             *)

(* What the walk relies on in the caller's range list: it is not empty,   *)
(* its ranges are non-empty and each ends before the next begins.          *)
LEMMA CurInputFacts ==
  ASSUME NEW cr \in CurRangeInputs
  PROVE  /\ cr \in Seq(Ranges)
         /\ Len(cr) >= 1
         /\ \A i \in 1..Len(cr) : cr[i].size > 0
         /\ \A i \in 1..(Len(cr) - 1) : End(cr[i]) <= cr[i + 1].start
         /\ \A i, j \in 1..Len(cr) : i < j => End(cr[i]) <= cr[j].start
<1>1. cr \in Seq(Ranges) /\ cr # <<>> /\ IsRangeList(cr)
  BY InputsAssumption
<1>2. Len(cr) >= 1 /\ DOMAIN cr = 1..Len(cr)
  BY <1>1, EmptySeq, LenProperties
<1>3. \A i, j \in 1..Len(cr) : i < j => End(cr[i]) <= cr[j].start
  BY <1>1, <1>2 DEF IsRangeList
<1>4. \A i \in 1..(Len(cr) - 1) : End(cr[i]) <= cr[i + 1].start
  <2>. SUFFICES ASSUME NEW i \in 1..(Len(cr) - 1) PROVE End(cr[i]) <= cr[i + 1].start
    OBVIOUS
  <2>1. i \in 1..Len(cr) /\ i + 1 \in 1..Len(cr) /\ i < i + 1
    BY <1>2
  <2>. QED
    BY <2>1, <1>3
<1>. QED
  BY <1>1, <1>2, <1>3, <1>4 DEF IsRangeList

(* and in the signature's: its hash regions are non-empty. *)
LEMMA HinfoInputFacts ==
  ASSUME NEW hl \in HashInfoInputs, NEW i \in 1..Len(hl)
  PROVE  hl[i].size > 0 /\ hl[i].start \in Int /\ hl[i].size \in Int
<1>1. hl \in Seq(HashRegion) /\ IsHashInfo(hl)
  BY InputsAssumption
<1>2. hl[i] \in HashRegion
  BY <1>1, ElementOfSeq
<1>3. DOMAIN hl = 1..Len(hl)
  BY <1>1
<1>4. hl[i].size > 0
  BY <1>1, <1>3 DEF IsHashInfo, IsRangeList
<1>. QED
  BY <1>2, <1>4 DEF HashRegion

(* drange = COPYRANGE(drange->next) from a non-null drange: the next range *)
(* is a whole, non-empty range that starts where the current one ended or *)
(* later.                                                                   *)
LEMMA AdvanceFacts ==
  ASSUME TypeOK, curranges \in CurRangeInputs, ~DrangeNull, AdvanceDrange,
         curranges' = curranges, ~DrangeNull'
  PROVE  /\ End(drange') = End(curranges[di'])
         /\ drange'.size > 0
         /\ drange'.start >= End(curranges[di])
         /\ drange' \in Ranges
<1>1. di \in 1..Len(curranges) /\ di + 1 \in 1..Len(curranges)
  BY DEF TypeOK, DrangeNull, AdvanceDrange
<1>2. di' = di + 1 /\ drange' = curranges[di + 1]
  BY <1>1 DEF AdvanceDrange
<1>3. curranges[di + 1] \in Ranges
  BY <1>1, CurInputFacts, ElementOfSeq
<1>. QED
  BY <1>1, <1>2, <1>3, CurInputFacts

(* Why the asserts of hashmap_compute_delta hold.  The inputs are those   *)
(* readhashinfo() and the caller supply, unchanged by the walk; drange     *)
(* is a non-empty tail of curranges[di] (a split or a narrowing only moves *)
(* its start); in "decide" it starts inside the hash region, in "covered"  *)
(* not before it; and it is left over in "trail" only after the last       *)
(* hash region.                                                            *)
WalkInv ==
  /\ pc # "idle" => curranges \in CurRangeInputs /\ hinfo \in HashInfoInputs
  /\ pc \in {"drain", "decide", "covered", "trail"} /\ ~DrangeNull =>
       /\ End(drange) = End(curranges[di])
       /\ drange.size > 0
  /\ pc = "decide" => ~DrangeNull /\ H.start <= drange.start /\ drange.start < End(H)
  /\ pc = "covered" /\ ~DrangeNull => H.start <= drange.start
  /\ pc = "trail" /\ ~DrangeNull => hreg > Len(hinfo)


(* The entry of hashmap_compute_delta sets up WalkInv from the inputs. *)
LEMMA CallWalkInv ==
  ASSUME TypeOK, Call
  PROVE  WalkInv'
<1>1. PICK cr \in CurRangeInputs, hl \in HashInfoInputs :
        /\ curranges' = cr /\ hinfo' = hl
        /\ \/ /\ hreg' = 1 /\ di' = 1 /\ drange' = cr[1]
              /\ pc' = IF 1 <= Len(hl) THEN "drain" ELSE "trail"
           \/ pc' = "error"
  BY DEF Call
<1>2. Len(cr) >= 1 /\ cr[1].size > 0 /\ Len(hl) \in Nat
  BY CurInputFacts, InputsAssumption, LenProperties
<1>. QED
  BY <1>1, <1>2 DEF WalkInv, DrangeNull

(* Drain and Trail: the range is emitted and drange advances, or the walk *)
(* fails.                                                                   *)
LEMMA EmitAdvanceWalkInv ==
  ASSUME TypeOK, WalkInv, Drain \/ Trail
  PROVE  WalkInv'
<1>1. CASE Fail
  BY <1>1 DEF Drain, Trail, Fail, WalkInv
<1>2. CASE ~Fail
  <2>1. /\ pc \in {"drain", "trail"} /\ ~DrangeNull /\ AdvanceDrange
        /\ UNCHANGED <<pc, curranges, hinfo, hreg>>
    BY <1>2 DEF Drain, Trail
  <2>2. ~DrangeNull' => End(drange') = End(curranges'[di']) /\ drange'.size > 0
    BY <2>1, AdvanceFacts DEF WalkInv
  <2>. QED
    BY <2>1, <2>2 DEF WalkInv, DrangeNull
<1>. QED
  BY <1>1, <1>2

(* The moves between labels that leave drange alone. *)
LEMMA LoopHeadWalkInv ==
  ASSUME TypeOK, WalkInv, DrangeExhausted \/ SkipHreg \/ CoverDone \/ Finish
  PROVE  WalkInv'
<1>1. UNCHANGED <<curranges, hinfo, di, drange>>
  BY DEF DrangeExhausted, SkipHreg, CoverDone, Finish
<1>2. pc \in {"drain", "covered", "trail"} /\ pc' \in {"drain", "trail", "done"}
  BY DEF DrangeExhausted, SkipHreg, CoverDone, Finish, GoLoop
<1>4. DrangeNull' = DrangeNull
  BY <1>1 DEF DrangeNull
<1>3. pc' = "trail" /\ ~DrangeNull' => hreg' > Len(hinfo')
  <2>1. CASE DrangeExhausted
    BY <2>1, <1>4 DEF DrangeExhausted
  <2>2. CASE SkipHreg \/ (CoverDone /\ ~DrangeNull)
    <3>1. hreg' = hreg + 1 /\ pc' = IF hreg + 1 <= Len(hinfo) THEN "drain" ELSE "trail"
      BY <2>2 DEF SkipHreg, CoverDone, GoLoop, NextHreg
    <3>. QED
      BY <1>1, <3>1 DEF TypeOK
  <2>4. CASE CoverDone /\ DrangeNull
    BY <2>4, <1>4
  <2>5. CASE Finish
    BY <2>5 DEF Finish
  <2>. QED
    BY <2>1, <2>2, <2>4, <2>5
<1>5. curranges' \in CurRangeInputs /\ hinfo' \in HashInfoInputs
  BY <1>1, <1>2 DEF WalkInv
<1>6. ~DrangeNull' => End(drange') = End(curranges'[di']) /\ drange'.size > 0
  BY <1>1, <1>2, <1>4 DEF WalkInv
<1>. QED
  BY <1>2, <1>3, <1>5, <1>6 DEF WalkInv

(* The head of the range before the hash region is cut off: drange then   *)
(* starts inside the region.                                                *)
LEMMA HeadSplitWalkInv ==
  ASSUME TypeOK, HregOK, WalkInv, HeadSplit
  PROVE  WalkInv'
<1>. DEFINE head == [start |-> drange.start, size |-> H.start - drange.start]
<1>0. /\ pc = "drain" /\ ~DrangeNull
      /\ End(drange) > H.start /\ ~(End(H) <= drange.start)
      /\ H.start \in Int /\ H.size \in Int /\ H.size > 0
      /\ drange \in [start : Int, size : Int]
  <2>1. hreg \in 1..Len(hinfo) /\ hinfo \in HashInfoInputs
    BY DEF HeadSplit, HregOK, WalkInv
  <2>. QED
    BY <2>1, HinfoInputFacts DEF HeadSplit, Deallocated, H, TypeOK
<1>1. CASE drange.start < H.start /\ EmitNew(head)
           /\ drange' = Narrow(drange, H) /\ pc' = "decide"
           /\ UNCHANGED <<curranges, hinfo, hreg, di>>
  <2>1. drange'.start = H.start /\ End(drange') = End(drange) /\ drange'.size > 0
    BY <1>0, <1>1 DEF Narrow, End
  <2>2. H' = H /\ DrangeNull' = DrangeNull
    BY <1>1 DEF H, DrangeNull
  <2>3. curranges' \in CurRangeInputs /\ hinfo' \in HashInfoInputs
        /\ End(drange') = End(curranges'[di'])
    BY <1>0, <1>1, <2>1 DEF WalkInv
  <2>4. H'.start <= drange'.start /\ drange'.start < End(H')
    <3>1. H.start <= drange'.start /\ drange'.start < End(H)
      BY <1>0, <2>1 DEF End
    <3>. QED
      BY <3>1, <1>1 DEF H
  <2>. QED
    BY <1>0, <1>1, <2>1, <2>2, <2>3, <2>4 DEF WalkInv
<1>2. CASE drange.start < H.start /\ Fail
  BY <1>0, <1>2 DEF Fail, WalkInv
<1>3. CASE ~(drange.start < H.start)
  <2>1. pc' = "decide" /\ UNCHANGED <<curranges, hinfo, hreg, di, drange>>
    <3>1. IF drange.start < H.start THEN TRUE
          ELSE pc' = "decide" /\ UNCHANGED <<curranges, hinfo, hreg, di, drange>>
      BY DEF HeadSplit
    <3>. QED
      BY <1>3, <3>1
  <2>2. H' = H /\ DrangeNull' = DrangeNull
    BY <2>1 DEF H, DrangeNull
  <2>3. curranges' \in CurRangeInputs /\ hinfo' \in HashInfoInputs
        /\ End(drange') = End(curranges'[di']) /\ drange'.size > 0
    BY <1>0, <2>1 DEF WalkInv
  <2>4. H'.start <= drange'.start /\ drange'.start < End(H')
    <3>1. H.start <= drange.start /\ drange.start < End(H)
      BY <1>0, <1>3 DEF End
    <3>. QED
      BY <3>1, <2>1 DEF H
  <2>. QED
    BY <1>0, <2>1, <2>2, <2>3, <2>4 DEF WalkInv
<1>. QED
  BY <1>1, <1>2, <1>3 DEF HeadSplit

(* The verdict leaves drange where HeadSplit put it. *)
LEMMA DecideWalkInv ==
  ASSUME WalkInv, Decide \/ DecideFails
  PROVE  WalkInv'
<1>1. CASE Decide
  <2>1. pc = "decide" /\ pc' = "covered"
        /\ UNCHANGED <<curranges, hinfo, hreg, di, drange>>
    BY <1>1 DEF Decide
  <2>. QED
    BY <2>1 DEF WalkInv, DrangeNull, H
<1>2. CASE DecideFails
  BY <1>2 DEF DecideFails, Fail, WalkInv
<1>. QED
  BY <1>1, <1>2


(* A range inside the hash region: drange is split at the region's end or *)
(* advances to the next range, which starts after it.                      *)
LEMMA CoverStepWalkInv ==
  ASSUME TypeOK, HregOK, WalkInv, CoverStep
  PROVE  WalkInv'
<1>0. /\ pc = "covered" /\ ~DrangeNull /\ drange.start < End(H)
      /\ H.start <= drange.start
      /\ H.start \in Int /\ H.size \in Int /\ H.size > 0
      /\ drange \in [start : Int, size : Int]
      /\ End(drange) = End(curranges[di]) /\ drange.size > 0
      /\ curranges \in CurRangeInputs /\ hinfo \in HashInfoInputs
  <2>1. hreg \in 1..Len(hinfo) /\ hinfo \in HashInfoInputs
    BY DEF CoverStep, HregOK, WalkInv
  <2>. QED
    BY <2>1, HinfoInputFacts DEF CoverStep, WalkInv, H, TypeOK
<1>1. CASE Fail
  BY <1>0, <1>1 DEF Fail, WalkInv
<1>2. CASE ~Fail
  <2>1. Bump(Splits(drange, H)) /\ UNCHANGED <<pc, curranges, hinfo, hreg>>
    BY <1>2 DEF CoverStep
  <2>2. H' = H
    BY <2>1 DEF H
  <2>3. CASE Splits(drange, H)
    <3>1. drange' = [start |-> End(H), size |-> End(drange) - End(H)] /\ di' = di
      BY <2>1, <2>3 DEF Bump
    <3>2. /\ End(drange') = End(curranges[di]) /\ drange'.size > 0
          /\ H.start <= drange'.start
      BY <1>0, <2>3, <3>1 DEF Splits, End
    <3>3. ~DrangeNull'
      BY <1>0, <2>1, <3>1 DEF DrangeNull
    <3>. QED
      BY <1>0, <2>1, <2>2, <3>1, <3>2, <3>3 DEF WalkInv
  <2>4. CASE ~Splits(drange, H)
    <3>1. AdvanceDrange
      BY <2>1, <2>4 DEF Bump
    <3>2. CASE ~DrangeNull'
      <4>1. /\ End(drange') = End(curranges[di']) /\ drange'.size > 0
            /\ drange'.start >= End(curranges[di]) /\ drange' \in Ranges
        BY <1>0, <2>1, <3>1, <3>2, AdvanceFacts
      <4>2. H.start <= drange'.start
        BY <1>0, <4>1 DEF End, Ranges
      <4>. QED
        BY <1>0, <2>1, <2>2, <3>2, <4>1, <4>2 DEF WalkInv
    <3>3. CASE DrangeNull'
      BY <1>0, <2>1, <3>3 DEF WalkInv
    <3>. QED
      BY <3>2, <3>3
  <2>. QED
    BY <2>3, <2>4
<1>. QED
  BY <1>1, <1>2

LEMMA WalkInvStep == TypeOK /\ HregOK /\ WalkInv /\ [Next]_vars => WalkInv'
<1>. SUFFICES ASSUME TypeOK, HregOK, WalkInv, [Next]_vars PROVE WalkInv'
  OBVIOUS
<1>1. CASE UNCHANGED vars
  BY <1>1 DEF vars, WalkInv, DrangeNull, H
<1>. QED
  BY <1>1, CallWalkInv, EmitAdvanceWalkInv, LoopHeadWalkInv, HeadSplitWalkInv,
     DecideWalkInv, CoverStepWalkInv DEF Next, Walk

(* The assert()s of hashmap_compute_delta never fire, for every partition, *)
(* block size and input readhashinfo() and the caller may supply: a range *)
(* split or emitted against a hash region starts inside it, no current     *)
(* range is empty, and ranges are left over only after the last region.    *)
THEOREM AssertionsHold == Spec => []Assertions
<1>1. Init => TypeOK /\ HregOK /\ WalkInv
  BY InitTypeOK DEF Init, HregOK, WalkInv
<1>2. TypeOK /\ HregOK /\ WalkInv /\ [Next]_vars => (TypeOK /\ HregOK /\ WalkInv)'
  BY TypeOKStep, HregOKStep, WalkInvStep
<1>3. WalkInv => Assertions
  BY DEF WalkInv, Assertions
<1>. QED
  BY <1>1, <1>2, <1>3, PTL DEF Spec

=============================================================================
