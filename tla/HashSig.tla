------------------------------ MODULE HashSig ------------------------------
(***************************************************************************)
(* The life of the new signature after hashmap_compute_delta() returns,    *)
(* src/src/imagezip/hashmap/hashmap.c: the chunk writer places the delta's *)
(* ranges into chunks and calls hashmap_update_chunk(ssect, lsect,         *)
(* chunkno) for each; hashmap_write_hashfile() then rebases the regions    *)
(* and writes them, narrowed to V2 when it can.                           *)
(*                                                                         *)
(* The chunk writer is not under src/: it is modelled from spec 4.3, a     *)
(* chunk's firstsect being its first region's start (or the previous       *)
(* lastsect when a range is split) and its lastsect one past its data or   *)
(* further, crediting free space up to the next chunk's data.             *)
(***************************************************************************)
EXTENDS Hashmap

CONSTANTS
  Word,        \* 2^32: uint32_t arithmetic of hrssect, hrlsect, V2 starts
  SpanBit,     \* HASH_CHUNKSETSPAN's bit, above every chunk number
  MaxWrites    \* attempts of hashmap_write_hashfile() explored

ASSUME SigAssumption ==
  /\ Word \in Nat \ {0}
  /\ SpanBit \in Nat \ {0}
  /\ MaxWrites \in Nat

VARIABLES
  phase,       \* "delta" (compute_delta), "chunking" (writer and update_chunk)
  ccur,        \* the sector the next chunk's data starts from
  csplit,      \* the previous chunk ended inside a range
  windows,     \* the (ssect, lsect) of each hashmap_update_chunk() call
  afail,       \* an assert() that aborted: "none", "span" (712), "start" (431)
  before,      \* nhinfo as hashmap_write_hashfile() first found it
  sigfile,     \* the signature file: its state ("none", "partial",
               \* "written"), version and regions
  writes       \* hashmap_write_hashfile() calls made

sigvars == <<phase, ccur, csplit, windows, afail, before, sigfile, writes>>
allvars == <<vars, sigvars>>

-----------------------------------------------------------------------------
(* hashmap_update_chunk(ssect, lsect, chunkno)                             *)

SetSpan(c) == c + SpanBit
DoesSpan(c) == c >= SpanBit

(* uint32_t hrssect = hreg->start; hrlsect = hrssect + hreg->size - 1 *)
Hrs(h) == h.start % Word
Hrl(h) == (Hrs(h) + h.size - 1) % Word

(* The chunk number a region starting in the window gets; last is lsect-1. *)
NewChunkNoStrict(h, last, chunkno) == IF Hrl(h) < last THEN chunkno ELSE SetSpan(chunkno)
NewChunkNo(h, last, chunkno) == IF Hrl(h) <= last THEN chunkno ELSE SetSpan(chunkno)

(* The loop over nhinfo: regions wholly before are skipped, the first     *)
(* wholly after ends it, one starting before ssect must carry the span    *)
(* bit, the others get their chunk number.                                 *)
UpdateChunk(ssect, lsect, chunkno) ==
  LET last == lsect - 1
      N == Len(nhinfo)
      skip(i) == Hrl(nhinfo[i]) < ssect
      stop(i) == ~skip(i) /\ Hrs(nhinfo[i]) > last
      loopEnd == IF \E i \in 1..N : stop(i)
                   THEN CHOOSE i \in 1..N : stop(i) /\ \A j \in 1..(i - 1) : ~stop(j)
                   ELSE N + 1
      visited == {i \in 1..(loopEnd - 1) : ~skip(i)}
  IN \/ nhstate # "live" /\ UNCHANGED <<nhinfo, afail>>      \* nhinfo == NULL
     \/ /\ nhstate = "live"
        /\ \E i \in visited : Hrs(nhinfo[i]) < ssect /\ ~DoesSpan(nhinfo[i].chunkno)
        /\ afail' = "span"
        /\ UNCHANGED nhinfo
     \/ /\ nhstate = "live"
        /\ \A i \in visited : Hrs(nhinfo[i]) < ssect => DoesSpan(nhinfo[i].chunkno)
        /\ nhinfo' = [i \in 1..N |->
                        IF i \in visited /\ Hrs(nhinfo[i]) >= ssect
                          THEN [nhinfo[i] EXCEPT !.chunkno =
                                  NewChunkNo(nhinfo[i], last, chunkno)]
                          ELSE nhinfo[i]]
        /\ UNCHANGED afail

-----------------------------------------------------------------------------
(* The chunk writer (spec 4.3), one chunk per step.                        *)

(* The sectors the image holds, and where the next data starts. *)
Img == Covers(nranges)
PartEnd == SSect + NSect
NextImg(s) ==
  IF \E t \in Img : t >= s THEN CHOOSE t \in Img : t >= s /\ \A u \in Img : u >= s => t <= u
                           ELSE PartEnd
ChunkingDone == NextImg(ccur) = PartEnd

BeginChunks ==
  /\ phase = "delta" /\ pc = "done"
  /\ phase' = "chunking"
  /\ ccur' = SSect
  /\ csplit' = FALSE
  /\ windows' = <<>>
  /\ UNCHANGED <<vars, afail, before, sigfile, writes>>

(* A chunk holds the image's data from ccur up to e, which ends a range   *)
(* (lastsect may then credit free space up to the next data) or splits one *)
(* (the next chunk then starts at lastsect).                               *)
WriteChunk ==
  /\ phase = "chunking" /\ afail = "none"
  /\ ~ChunkingDone
  /\ \E e \in (ccur + 1)..PartEnd :
       /\ e - 1 \in Img
       /\ \E l \in IF e \in Img THEN {e} ELSE e..NextImg(e) :
            LET first == IF csplit THEN ccur ELSE NextImg(ccur)
            IN /\ UpdateChunk(first, l, Len(windows))
               /\ windows' = Append(windows, [first |-> first, last |-> l])
               /\ ccur' = l
               /\ csplit' = (e \in Img)
  /\ UNCHANGED <<pc, curranges, hinfo, modified, fixin, newhashfile, fixups,
                 saved, hreg, di, drange, changed, nranges, nhstate,
                 phase, before, sigfile, writes>>

-----------------------------------------------------------------------------
(* hashmap_write_hashfile(fname, iname, ivers)                             *)

(* hreg->start -= poffset for each region *)
RebaseNone(hl) == hl
Rebase(hl) == [i \in DOMAIN hl |-> [hl[i] EXCEPT !.start = @ - SSect]]

(* The V2 conversion succeeds: an older image version, a hash that fits,  *)
(* every start below 2^32, and the malloc.                                 *)
Narrows(ivers, ht, hl) ==
  /\ ivers < 5 /\ ht # "sha256"
  /\ \A i \in DOMAIN hl : hl[i].start < Word

(* Rebase; open the file (or the /tmp fallback); convert to V2 if it can; *)
(* write.  A failed open or a short write returns -1 with the regions      *)
(* already rebased.                                                        *)
WriteHashfile ==
  /\ phase = "chunking" /\ afail = "none" /\ ChunkingDone
  /\ newhashfile
  /\ sigfile.state # "written"
  /\ writes < MaxWrites
  /\ writes' = writes + 1
  /\ before' = IF writes = 0 THEN nhinfo ELSE before
  /\ \E ivers \in {3, 5}, ht \in {"md5", "sha256"} :
       \/ /\ \E i \in DOMAIN nhinfo : nhinfo[i].start < SSect
          /\ afail' = "start"
          /\ UNCHANGED <<nhinfo, sigfile>>
       \/ /\ \A i \in DOMAIN nhinfo : nhinfo[i].start >= SSect
          /\ nhinfo' = Rebase(nhinfo)
          /\ UNCHANGED afail
          /\ \/ IOFail /\ UNCHANGED sigfile                    \* both opens fail
             \/ IOFail /\ sigfile' = [sigfile EXCEPT !.state = "partial"] \* short write
             \/ \E v \in {2, 3} :
                  /\ v = 2 => Narrows(ivers, ht, Rebase(nhinfo))
                  /\ v = 3 => ~Narrows(ivers, ht, Rebase(nhinfo)) \/ IOFail
                  /\ sigfile' = [state |-> "written", version |-> v, regions |->
                                   [i \in DOMAIN nhinfo |->
                                      [Rebase(nhinfo)[i] EXCEPT !.start =
                                         IF v = 2 THEN @ % Word ELSE @]]]
  /\ UNCHANGED <<pc, curranges, hinfo, modified, fixin, newhashfile, fixups,
                 saved, hreg, di, drange, changed, nranges, nhstate,
                 phase, ccur, csplit, windows>>

SigInit ==
  /\ Init
  /\ phase = "delta"
  /\ ccur = SSect
  /\ csplit = FALSE
  /\ windows = <<>>
  /\ afail = "none"
  /\ before = <<>>
  /\ sigfile = [state |-> "none", version |-> 0, regions |-> <<>>]
  /\ writes = 0

SigNext ==
  \/ phase = "delta" /\ Next /\ UNCHANGED sigvars
  \/ BeginChunks
  \/ WriteChunk
  \/ WriteHashfile

SigSpec == SigInit /\ [][SigNext]_allvars

-----------------------------------------------------------------------------
(* Properties.                                                             *)

(* The assert of hashmap_update_chunk (line 712) never fails: every       *)
(* region that starts before a chunk's ssect and reaches into it was      *)
(* marked as spanning by the pass of an earlier chunk.                    *)
SpanAssertHolds == afail # "span"

(* Spec 8, "chunk-number annotation": once every chunk has been passed to *)
(* hashmap_update_chunk, each region of the new signature that holds      *)
(* image data starts in some chunk, and carries that chunk's number, with *)
(* the span bit exactly when it reaches past the chunk's lastsect.         *)
ChunkAnnotated ==
  (/\ phase = "chunking" /\ ChunkingDone /\ afail = "none" /\ nhstate = "live"
   /\ writes = 0)
    => \A i \in DOMAIN nhinfo :
         Sectors(nhinfo[i]) \cap Img # {} =>
           \E k \in DOMAIN windows :
             /\ windows[k].first <= nhinfo[i].start
             /\ nhinfo[i].start < windows[k].last
             /\ nhinfo[i].chunkno = IF End(nhinfo[i]) > windows[k].last
                                      THEN SetSpan(k - 1) ELSE k - 1

(* Spec 8, "round-trip of signature", and spec 4.5: the file written,     *)
(* read back by readhashinfo() (V2 widened, poffset added), gives the     *)
(* regions hashmap_write_hashfile() was called with.                      *)
ReadBack(f) == [i \in DOMAIN f.regions |-> [f.regions[i] EXCEPT !.start = @ + SSect]]
SigRoundTrip ==
  sigfile.state = "written" => ReadBack(sigfile) = before

=============================================================================
