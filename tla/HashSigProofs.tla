--------------------------- MODULE HashSigProofs ----------------------------
(***************************************************************************)
(* Proofs about the life of the new signature, HashSig.tla: its regions   *)
(* keep their types through hashmap_update_chunk and the rebase of         *)
(* hashmap_write_hashfile, and a signature file written at the first       *)
(* attempt reads back as the regions the write was called with.            *)
(***************************************************************************)
EXTENDS HashSig, HashmapProofs, TLAPS

(* The types HashSig adds to those of Hashmap: the chunk windows form a   *)
(* sequence (their length is the next chunk number) and writes counts.     *)
SigTypeOK ==
  /\ TypeOK
  /\ HregOK
  /\ \E S : windows \in Seq(S)
  /\ writes \in Nat

(* Why a first write round-trips: before any attempt there is no file,    *)
(* and a file written by the first attempt holds nhinfo as it was then,    *)
(* rebased and perhaps narrowed, while nothing changes it afterwards.      *)
SigInv ==
  /\ writes = 0 => sigfile.state = "none"
  /\ writes <= 1 /\ sigfile.state = "written" => ReadBack(sigfile) = before


-----------------------------------------------------------------------------
(* The conversion write and read.                                          *)

(* The regions hashmap_write_hashfile() writes for nhinfo = hl: rebased,   *)
(* and in V2 cut to uint32_t.                                              *)
Written(hl, v) ==
  [state |-> "written", version |-> v, regions |->
     [i \in DOMAIN hl |-> [Rebase(hl)[i] EXCEPT !.start = IF v = 2 THEN @ % Word ELSE @]]]

(* One region: rebasing, cutting to 32 bits a start that fits, and adding  *)
(* poffset back give the region again.                                     *)
LEMMA RegionRoundTrip ==
  ASSUME NEW r \in HashRegion, r.start >= SSect, NEW v \in {2, 3},
         v = 2 => r.start - SSect < Word
  PROVE  LET b == [r EXCEPT !.start = @ - SSect]
             w == [b EXCEPT !.start = IF v = 2 THEN @ % Word ELSE @]
         IN  [w EXCEPT !.start = @ + SSect] = r
<1>. DEFINE x == r.start - SSect
            y == IF v = 2 THEN x % Word ELSE x
<1>1. x \in Int /\ 0 <= x
  BY BlocksAssumption DEF HashRegion
<1>2. y = x
  BY <1>1, SigAssumption
<1>3. r = [start |-> r.start, size |-> r.size, chunkno |-> r.chunkno, hash |-> r.hash]
  BY DEF HashRegion
<1>4. [r EXCEPT !.start = @ - SSect]
        = [start |-> x, size |-> r.size, chunkno |-> r.chunkno, hash |-> r.hash]
  BY <1>3
<1>5. [[start |-> x, size |-> r.size, chunkno |-> r.chunkno, hash |-> r.hash]
         EXCEPT !.start = IF v = 2 THEN @ % Word ELSE @]
        = [start |-> x, size |-> r.size, chunkno |-> r.chunkno, hash |-> r.hash]
  BY <1>2
<1>6. [[start |-> x, size |-> r.size, chunkno |-> r.chunkno, hash |-> r.hash]
         EXCEPT !.start = @ + SSect] = r
  BY <1>1, <1>3, BlocksAssumption DEF HashRegion
<1>. QED
  BY <1>4, <1>5, <1>6

(* A written file read back gives the regions of the write, when all of   *)
(* them start in the partition and, for V2, below 2^32 once rebased.        *)
LEMMA ReadBackWritten ==
  ASSUME NEW hl \in Seq(HashRegion), \A i \in DOMAIN hl : hl[i].start >= SSect,
         NEW v \in {2, 3}, v = 2 => \A i \in DOMAIN hl : Rebase(hl)[i].start < Word
  PROVE  ReadBack(Written(hl, v)) = hl
<1>1. DOMAIN Written(hl, v).regions = DOMAIN hl
  BY DEF Written
<1>2. ASSUME NEW i \in DOMAIN hl
      PROVE  ReadBack(Written(hl, v))[i] = hl[i]
  <2>1. hl[i] \in HashRegion
    BY ElementOfSeq
  <2>2. Rebase(hl)[i] = [hl[i] EXCEPT !.start = @ - SSect]
    BY DEF Rebase
  <2>3. v = 2 => hl[i].start - SSect < Word
    BY <2>1, <2>2, BlocksAssumption DEF HashRegion
  <2>. QED
    BY <1>1, <2>1, <2>2, <2>3, RegionRoundTrip DEF ReadBack, Written
<1>. QED
  BY <1>1, <1>2 DEF ReadBack


-----------------------------------------------------------------------------
(* Types.                                                                  *)

(* A new chunk number is a chunk number. *)
LEMMA NewChunkNoType ==
  ASSUME NEW h, NEW last, NEW c \in Nat
  PROVE  NewChunkNo(h, last, c) \in Nat
BY SigAssumption DEF NewChunkNo, SetSpan

(* hashmap_update_chunk only sets chunk numbers: the regions stay regions. *)
LEMMA UpdateChunkType ==
  ASSUME nhinfo \in Seq(HashRegion), NEW ssect, NEW lsect, NEW c \in Nat,
         UpdateChunk(ssect, lsect, c)
  PROVE  nhinfo' \in Seq(HashRegion)
<1>1. \A h \in HashRegion : \A last : [h EXCEPT !.chunkno = NewChunkNo(h, last, c)] \in HashRegion
  BY NewChunkNoType DEF HashRegion
<1>2. \/ UNCHANGED nhinfo
      \/ /\ nhinfo' = [i \in 1..Len(nhinfo) |-> nhinfo'[i]]
         /\ \A i \in 1..Len(nhinfo) :
              \/ nhinfo'[i] = nhinfo[i]
              \/ nhinfo'[i] = [nhinfo[i] EXCEPT !.chunkno =
                                 NewChunkNo(nhinfo[i], lsect - 1, c)]
  BY DEF UpdateChunk
<1>3. ASSUME NEW i \in 1..Len(nhinfo)
      PROVE  nhinfo[i] \in HashRegion
  BY ElementOfSeq
<1>4. CASE UNCHANGED nhinfo
  BY <1>4
<1>5. CASE ~UNCHANGED nhinfo
  <2>1. ASSUME NEW i \in 1..Len(nhinfo)
        PROVE  nhinfo'[i] \in HashRegion
    <3>1. nhinfo[i] \in HashRegion
      BY <1>3
    <3>2. [nhinfo[i] EXCEPT !.chunkno = NewChunkNo(nhinfo[i], lsect - 1, c)] \in HashRegion
      BY <1>1, <3>1
    <3>3. \/ nhinfo'[i] = nhinfo[i]
          \/ nhinfo'[i] = [nhinfo[i] EXCEPT !.chunkno = NewChunkNo(nhinfo[i], lsect - 1, c)]
      BY <1>2, <1>5
    <3>. QED
      BY <3>1, <3>2, <3>3
  <2>2. nhinfo' \in [1..Len(nhinfo) -> HashRegion]
    BY <1>2, <1>5, <2>1, Zenon
  <2>. QED
    BY <2>2, FcnOnIntervalIsSeq
<1>. QED
  BY <1>4, <1>5


(* The rebase of hashmap_write_hashfile keeps the regions regions, and    *)
(* moves each start down by poffset.                                       *)
LEMMA RebaseType ==
  ASSUME NEW hl \in Seq(HashRegion)
  PROVE  /\ Rebase(hl) \in Seq(HashRegion)
         /\ DOMAIN Rebase(hl) = DOMAIN hl
         /\ \A i \in DOMAIN hl : Rebase(hl)[i].start = hl[i].start - SSect
<1>1. ASSUME NEW i \in 1..Len(hl)
      PROVE  /\ Rebase(hl)[i] \in HashRegion
             /\ Rebase(hl)[i].start = hl[i].start - SSect
  <2>1. hl[i] \in HashRegion
    BY ElementOfSeq
  <2>. DEFINE r == hl[i]
  <2>2. r = [start |-> r.start, size |-> r.size, chunkno |-> r.chunkno, hash |-> r.hash]
    BY <2>1 DEF HashRegion
  <2>3. Rebase(hl)[i] = [r EXCEPT !.start = r.start - SSect]
    BY DEF Rebase
  <2>4. [r EXCEPT !.start = r.start - SSect]
          = [start |-> r.start - SSect, size |-> r.size, chunkno |-> r.chunkno, hash |-> r.hash]
    BY <2>2
  <2>5. [start |-> r.start - SSect, size |-> r.size, chunkno |-> r.chunkno, hash |-> r.hash]
          \in HashRegion
    BY <2>1, BlocksAssumption DEF HashRegion
  <2>. QED
    BY <2>3, <2>4, <2>5
<1>0. DOMAIN hl = 1..Len(hl)
  OBVIOUS
<1>2. Rebase(hl) \in [1..Len(hl) -> HashRegion]
  BY <1>0, <1>1 DEF Rebase
<1>. QED
  BY <1>0, <1>1, <1>2, FcnOnIntervalIsSeq DEF Rebase

(* The steps of the delta walk keep SigTypeOK: Hashmap's lemmas apply. *)
LEMMA DeltaSigType ==
  ASSUME SigTypeOK, phase = "delta", Next, UNCHANGED sigvars
  PROVE  SigTypeOK'
BY TypeOKStep, HregOKStep DEF SigTypeOK, sigvars

(* Placing a chunk: nhinfo gets chunk numbers, windows grows by one. *)
LEMMA WriteChunkSigType ==
  ASSUME SigTypeOK, WriteChunk
  PROVE  SigTypeOK'
<1>1. PICK S : windows \in Seq(S)
  BY DEF SigTypeOK
<1>2. Len(windows) \in Nat
  BY <1>1
<1>3. PICK e, l :
        LET first == IF csplit THEN ccur ELSE NextImg(ccur)
        IN  /\ UpdateChunk(first, l, Len(windows))
            /\ windows' = Append(windows, [first |-> first, last |-> l])
  BY DEF WriteChunk
<1>4. nhinfo' \in Seq(HashRegion)
  BY <1>2, <1>3, UpdateChunkType DEF SigTypeOK, TypeOK
<1>5. \E T : windows' \in Seq(T)
  <2>. DEFINE w == [first |-> IF csplit THEN ccur ELSE NextImg(ccur), last |-> l]
  <2>1. windows \in Seq(S \cup {w}) /\ w \in S \cup {w}
    BY <1>1
  <2>2. Append(windows, w) \in Seq(S \cup {w})
    BY <2>1, AppendProperties
  <2>. QED
    BY <1>3, <2>2
<1>6. UNCHANGED <<pc, curranges, hinfo, modified, fixin, newhashfile, fixups,
                  saved, hreg, di, drange, changed, nranges, nhstate, writes>>
  BY DEF WriteChunk
<1>. QED
  BY <1>4, <1>5, <1>6 DEF SigTypeOK, TypeOK, HregOK

(* A write attempt rebases nhinfo or leaves it, and counts. *)
LEMMA WriteHashfileSigType ==
  ASSUME SigTypeOK, WriteHashfile
  PROVE  SigTypeOK'
<1>1. nhinfo' = nhinfo \/ nhinfo' = Rebase(nhinfo)
  BY DEF WriteHashfile
<1>2. nhinfo' \in Seq(HashRegion)
  BY <1>1, RebaseType DEF SigTypeOK, TypeOK
<1>3. UNCHANGED <<pc, curranges, hinfo, modified, fixin, newhashfile, fixups,
                  saved, hreg, di, drange, changed, nranges, nhstate, windows>>
      /\ writes' = writes + 1
  BY DEF WriteHashfile
<1>. QED
  BY <1>2, <1>3 DEF SigTypeOK, TypeOK, HregOK

LEMMA SigTypeStep == SigTypeOK /\ [SigNext]_allvars => SigTypeOK'
<1>. SUFFICES ASSUME SigTypeOK, [SigNext]_allvars PROVE SigTypeOK'
  OBVIOUS
<1>1. CASE BeginChunks
  <2>1. UNCHANGED vars /\ UNCHANGED writes /\ windows' = <<>>
    BY <1>1 DEF BeginChunks
  <2>2. windows' \in Seq({})
    BY <2>1, EmptySeq
  <2>. QED
    BY <2>1, <2>2 DEF SigTypeOK, TypeOK, HregOK, vars
<1>2. CASE UNCHANGED allvars
  BY <1>2 DEF allvars, vars, sigvars, SigTypeOK, TypeOK, HregOK
<1>. QED
  BY <1>1, <1>2, DeltaSigType, WriteChunkSigType, WriteHashfileSigType DEF SigNext


-----------------------------------------------------------------------------
(* The round trip.                                                         *)

(* The first attempt of hashmap_write_hashfile: what it leaves in the file *)
(* is none, a partial write, or the rebased regions of nhinfo as it found  *)
(* them, narrowed to V2 only when every rebased start fits.                *)
LEMMA FirstWrite ==
  ASSUME SigTypeOK, WriteHashfile, writes = 0, sigfile.state = "none"
  PROVE  /\ before' = nhinfo
         /\ \/ sigfile'.state \in {"none", "partial"}
            \/ /\ \A i \in DOMAIN nhinfo : nhinfo[i].start >= SSect
               /\ \E v \in {2, 3} :
                    /\ v = 2 => \A i \in DOMAIN nhinfo : Rebase(nhinfo)[i].start < Word
                    /\ sigfile' = Written(nhinfo, v)
<1>1. before' = nhinfo
  BY DEF WriteHashfile
<1>2. PICK ivers \in {3, 5}, ht \in {"md5", "sha256"} :
        \/ /\ \E i \in DOMAIN nhinfo : nhinfo[i].start < SSect
           /\ UNCHANGED sigfile
        \/ /\ \A i \in DOMAIN nhinfo : nhinfo[i].start >= SSect
           /\ \/ UNCHANGED sigfile
              \/ sigfile' = [sigfile EXCEPT !.state = "partial"]
              \/ \E v \in {2, 3} :
                   /\ v = 2 => Narrows(ivers, ht, Rebase(nhinfo))
                   /\ sigfile' = [state |-> "written", version |-> v, regions |->
                                    [i \in DOMAIN nhinfo |->
                                       [Rebase(nhinfo)[i] EXCEPT !.start =
                                          IF v = 2 THEN @ % Word ELSE @]]]
  BY DEF WriteHashfile
<1>3. DOMAIN Rebase(nhinfo) = DOMAIN nhinfo
  BY RebaseType DEF SigTypeOK, TypeOK
<1>4. ASSUME NEW v \in {2, 3}, v = 2 => Narrows(ivers, ht, Rebase(nhinfo))
      PROVE  v = 2 => \A i \in DOMAIN nhinfo : Rebase(nhinfo)[i].start < Word
  BY <1>3, <1>4 DEF Narrows
<1>5. [sigfile EXCEPT !.state = "partial"].state = "partial"
  OBVIOUS
<1>. QED
  BY <1>1, <1>2, <1>4, <1>5 DEF Written

LEMMA SigInvStep == SigTypeOK /\ SigInv /\ [SigNext]_allvars => SigInv'
<1>. SUFFICES ASSUME SigTypeOK, SigInv, [SigNext]_allvars PROVE SigInv'
  OBVIOUS
<1>1. CASE WriteHashfile
  <2>1. writes' = writes + 1 /\ writes \in Nat
    BY <1>1 DEF WriteHashfile, SigTypeOK
  <2>2. CASE writes = 0
    <3>1. sigfile.state = "none"
      BY <2>2 DEF SigInv
    <3>2. /\ before' = nhinfo
          /\ \/ sigfile'.state \in {"none", "partial"}
             \/ /\ \A i \in DOMAIN nhinfo : nhinfo[i].start >= SSect
                /\ \E v \in {2, 3} :
                     /\ v = 2 => \A i \in DOMAIN nhinfo : Rebase(nhinfo)[i].start < Word
                     /\ sigfile' = Written(nhinfo, v)
      BY <1>1, <2>2, <3>1, FirstWrite
    <3>3. nhinfo \in Seq(HashRegion)
      BY DEF SigTypeOK, TypeOK
    <3>4. sigfile'.state = "written" => ReadBack(sigfile') = before'
      BY <3>2, <3>3, ReadBackWritten DEF Written
    <3>. QED
      BY <2>1, <2>2, <3>4 DEF SigInv
  <2>3. CASE writes # 0
    BY <2>1, <2>3 DEF SigInv
  <2>. QED
    BY <2>2, <2>3
<1>2. CASE ~WriteHashfile
  <2>1. UNCHANGED <<sigfile, before, writes>>
    BY <1>2 DEF SigNext, BeginChunks, WriteChunk, allvars, sigvars
  <2>. QED
    BY <2>1 DEF SigInv
<1>. QED
  BY <1>1, <1>2

(* Spec 8, "round-trip of signature", for every partition, hash-block     *)
(* size and word width: a signature file that hashmap_write_hashfile()     *)
(* writes at its first attempt, V2-narrowed or not, reads back through     *)
(* readhashinfo() as the regions the write was called with.  (A retry     *)
(* after a failed write breaks this: see the hashsig_retry run.)           *)
THEOREM SigFirstWriteRoundTrip == SigSpec => [](writes <= 1 => SigRoundTrip)
<1>1. SigInit => SigTypeOK /\ SigInv
  <2>1. SigInit => TypeOK /\ HregOK
    BY InitTypeOK DEF SigInit, Init, HregOK
  <2>2. SigInit => windows \in Seq({}) /\ writes \in Nat /\ SigInv
    BY EmptySeq DEF SigInit, SigInv
  <2>. QED
    BY <2>1, <2>2 DEF SigTypeOK
<1>2. SigTypeOK /\ SigInv /\ [SigNext]_allvars => (SigTypeOK /\ SigInv)'
  BY SigTypeStep, SigInvStep
<1>3. SigInv => (writes <= 1 => SigRoundTrip)
  BY DEF SigInv, SigRoundTrip
<1>. QED
  BY <1>1, <1>2, <1>3, PTL DEF SigSpec

=============================================================================
