-------------------------------- MODULE Reloc --------------------------------
(***************************************************************************)
(* The relocation table of libndz, src/imagezip/libndz/reloc.c: per image *)
(* file an array of relocation records, the reloc32 width flag and the     *)
(* [reloclo, relochi] bounds.  ndz_reloc_get appends the records of a      *)
(* chunk header, ndz_reloc_copy clones a table, ndz_reloc_free drops it,   *)
(* ndz_reloc_init (re)initialises it; ndz_reloc_put and ndz_reloc_inrange  *)
(* read it.                                                                *)
(*                                                                         *)
(* A record is its sector and the width (1 = struct blockreloc_32, 0 =     *)
(* struct blockreloc_64) it was stored in; type, sectoff and size are not  *)
(* read by this code beyond an assert and are left out.  Versions are the  *)
(* magic numbers less COMPRESSED_MAGIC_BASE, plus one.                    *)
(***************************************************************************)
EXTENDS Integers, Sequences, FiniteSets

CONSTANTS
  Files,       \* image files, each with its own struct ndz_file
  Version,     \* Version[f]: format version of f's chunk headers
  SectMax,     \* sectors are 0..SectMax
  Wrap,        \* 2^32 scaled down: the range of a uint32_t header field
  MaxBatch,    \* most records in one chunk header
  MaxEntries,  \* bound on a table's length
  InOrder,     \* chunks are read in ascending order (the spec's contract)
  Reuse,       \* a table is used again after ndz_reloc_free without init
  IOFail       \* malloc/realloc may fail

Sect == 0..SectMax

(* NDZ_HIADDR and NDZ_LOADDR: above and at the bottom of every sector. *)
HIADDR == SectMax + 1
LOADDR == 0

ASSUME RelocAssumption ==
  /\ Version \in [Files -> {1, 2, 3, 5, 6}]
  /\ SectMax \in Nat /\ Wrap \in Nat \ {0}
  /\ MaxBatch \in Nat \ {0} /\ MaxEntries \in Nat
  /\ InOrder \in BOOLEAN /\ Reuse \in BOOLEAN /\ IOFail \in BOOLEAN

VARIABLES
  reloc32,    \* ndz->reloc32
  data,       \* ndz->relocdata, ndz->relocentries = Len(data[f])
  reloclo,    \* ndz->reloclo
  relochi,    \* ndz->relochi
  life,       \* "open", or "freed" once ndz_reloc_free has run
  failed      \* "none", or the assert() that aborted the process

vars == <<reloc32, data, reloclo, relochi, life, failed>>

Record == [sector : Sect, w : {0, 1}]

(* hdr->magic >= COMPRESSED_V5 ? 0 : 1 *)
Is32(v) == IF v >= 5 THEN 0 ELSE 1

(* A table may be worked on: open, or freed and used regardless. *)
Usable(f) == failed = "none" /\ (life[f] = "open" \/ Reuse)

(* The relocation lists a chunk header can carry: ascending sectors, more *)
(* than one record per sector allowed.                                     *)
Batches ==
  UNION {{b \in [1..n -> Sect] : \A i, j \in 1..n : i <= j => b[i] <= b[j]} :
           n \in 1..MaxBatch}

LastSector(f) == data[f][Len(data[f])].sector

(* relochi after the loop's "if (rsector > relochi) relochi = rsector". *)
NewHiPastEnd(hi, b) ==
  LET top == CHOOSE s \in {b[i] : i \in DOMAIN b} : \A i \in DOMAIN b : b[i] <= s
  IN IF top + 1 > hi THEN top + 1 ELSE hi
NewHi(hi, b) ==
  LET top == CHOOSE s \in {b[i] : i \in DOMAIN b} : \A i \in DOMAIN b : b[i] <= s
  IN IF top > hi THEN top ELSE hi

(* assert(ndz->reloclo <= rsector), for every record of the chunk. *)
OrderUnchecked(lo, b) == TRUE
OrderOK(lo, b) == \A i \in DOMAIN b : lo <= b[i]

(* ndz_reloc_free: the array goes, the entry count is zeroed; reloc32,    *)
(* reloclo and relochi are left as they were.                              *)
FreeTable(f) ==
  /\ data' = [data EXCEPT ![f] = <<>>]
  /\ life' = [life EXCEPT ![f] = "freed"]

-----------------------------------------------------------------------------
(* The operations.                                                         *)

(* The width the records are stored in: set by the first chunk. *)
ChunkWidth(f) == IF data[f] = <<>> THEN Is32(Version[f]) ELSE reloc32[f]

(* reloclo once the chunk's first record is seen. *)
ChunkLo(f, b) == IF reloclo[f] = HIADDR THEN b[1] ELSE reloclo[f]

(* The records pass the order assert: raise relochi, append them. *)
AppendChunk(f, b) ==
  /\ reloclo' = [reloclo EXCEPT ![f] = ChunkLo(f, b)]
  /\ relochi' = [relochi EXCEPT ![f] = NewHi(relochi[f], b)]
  /\ data' = [data EXCEPT ![f] =
                @ \o [i \in DOMAIN b |-> [sector |-> b[i], w |-> ChunkWidth(f)]]]
  /\ UNCHANGED <<life, failed>>

(* ndz_reloc_get for a chunk of f carrying the relocation list b (V1 and  *)
(* reloccount 0 return before touching anything).  The width is locked by  *)
(* the first chunk and asserted after; the buffer grows, and on failure    *)
(* the table is freed; each record then sets reloclo if unset, is asserted *)
(* not below it, raises relochi, and is appended.                          *)
GetChunk(f, b) ==
  \/ /\ data[f] # <<>> /\ Is32(Version[f]) # reloc32[f]
     /\ failed' = "width"
     /\ UNCHANGED <<reloc32, data, reloclo, relochi, life>>
  \/ /\ data[f] = <<>> \/ Is32(Version[f]) = reloc32[f]
     /\ reloc32' = [reloc32 EXCEPT ![f] = ChunkWidth(f)]
     /\ \/ /\ IOFail
           /\ FreeTable(f)
           /\ UNCHANGED <<reloclo, relochi, failed>>
        \/ /\ ~OrderOK(ChunkLo(f, b), b)
           /\ failed' = "order"
           /\ UNCHANGED <<data, reloclo, relochi, life>>
        \/ /\ OrderOK(ChunkLo(f, b), b)
           /\ AppendChunk(f, b)

Get(f) ==
  /\ Usable(f)
  /\ Version[f] >= 2
  /\ \E b \in Batches :
       /\ InOrder /\ data[f] # <<>> => LastSector(f) <= b[1]
       /\ Len(data[f]) + Len(b) <= MaxEntries
       /\ GetChunk(f, b)

(* ndz_reloc_copy(from, to): refused when to has entries, nothing to do   *)
(* when from has none, else the array, count and bounds are cloned.       *)
(* reloc32 is not copied.                                                  *)
CopyKeepsBounds(from, to) ==
  /\ from # to /\ Usable(to)
  /\ data[to] = <<>> /\ data[from] # <<>>
  /\ data' = [data EXCEPT ![to] = data[from]]
  /\ UNCHANGED <<reloc32, reloclo, relochi, life, failed>>
Copy(from, to) ==
  /\ from # to /\ Usable(to)
  /\ data[to] = <<>> /\ data[from] # <<>>
  /\ data' = [data EXCEPT ![to] = data[from]]
  /\ reloclo' = [reloclo EXCEPT ![to] = reloclo[from]]
  /\ relochi' = [relochi EXCEPT ![to] = relochi[from]]
  /\ UNCHANGED <<reloc32, life, failed>>

(* ndz_reloc_free *)
Free(f) ==
  /\ Usable(f)
  /\ FreeTable(f)
  /\ UNCHANGED <<reloc32, reloclo, relochi, failed>>

(* ndz_reloc_init, run when the struct is set up for a file (again). *)
Reinit(f) ==
  /\ failed = "none"
  /\ life[f] = "freed"
  /\ reloc32' = [reloc32 EXCEPT ![f] = 1]
  /\ data' = [data EXCEPT ![f] = <<>>]
  /\ reloclo' = [reloclo EXCEPT ![f] = HIADDR]
  /\ relochi' = [relochi EXCEPT ![f] = LOADDR]
  /\ life' = [life EXCEPT ![f] = "open"]
  /\ UNCHANGED failed

Init ==
  /\ reloc32 = [f \in Files |-> 1]
  /\ data = [f \in Files |-> <<>>]
  /\ reloclo = [f \in Files |-> HIADDR]
  /\ relochi = [f \in Files |-> LOADDR]
  /\ life = [f \in Files |-> "open"]
  /\ failed = "none"

Next ==
  \/ \E f \in Files : Get(f) \/ Free(f) \/ Reinit(f)
  \/ \E from, to \in Files : Copy(from, to)

Spec == Init /\ [][Next]_vars

-----------------------------------------------------------------------------
(* The readers.                                                            *)

(* ndz_reloc_put for a chunk covering [first, last): the header fields it *)
(* compares with are the uint32_t firstsect/lastsect.  It copies, in       *)
(* stored order, every record in the window, unless the table is empty or  *)
(* the window misses [reloclo, relochi].                                   *)
PutSel(f, first, last) ==
  LET first32 == first % Wrap
      last32 == last % Wrap
  IN IF data[f] = <<>> \/ first32 > relochi[f] \/ last32 <= reloclo[f]
       THEN <<>>
       ELSE SelectSeq(data[f], LAMBDA r : first32 <= r.sector /\ r.sector < last32)

(* ndz_reloc_inrange(addr, size): size 0 counts to relochi; the scan     *)
(* stops at the first record past the end, as the table is taken to be     *)
(* ascending.                                                              *)
InrangeEarlyInclusive(f, addr, eaddr) ==
  data[f] = <<>> \/ addr > relochi[f] \/ eaddr <= reloclo[f]
InrangeEarly(f, addr, eaddr) ==
  data[f] = <<>> \/ addr > relochi[f] \/ eaddr < reloclo[f]

Inrange(f, addr, size) ==
  LET d == data[f]
      eaddr == IF size = 0 THEN (IF relochi[f] > addr THEN relochi[f] ELSE addr)
                           ELSE addr + size - 1
      past == {i \in DOMAIN d : d[i].sector > eaddr}
      stop == IF past = {} THEN Len(d) + 1
              ELSE CHOOSE i \in past : \A j \in past : i <= j
  IN IF InrangeEarly(f, addr, eaddr)
       THEN 0
       ELSE Cardinality({i \in 1..(stop - 1) : addr <= d[i].sector /\ d[i].sector <= eaddr})

-----------------------------------------------------------------------------
(* Properties.                                                             *)

TypeOK ==
  /\ reloc32 \in [Files -> {0, 1}]
  /\ data \in [Files -> Seq(Record)]
  /\ reloclo \in [Files -> Sect \cup {HIADDR}]
  /\ relochi \in [Files -> Sect \cup {LOADDR}]
  /\ life \in [Files -> {"open", "freed"}]
  /\ failed \in {"none", "width", "order"}

SectorsOf(f) == {data[f][i].sector : i \in DOMAIN data[f]}

(* Spec 8, "relocation ordering": the bounds ndz_reloc_get and            *)
(* ndz_reloc_copy maintain are exactly the lowest and highest sector of    *)
(* the table's records.                                                    *)
BoundsExact ==
  \A f \in Files : data[f] # <<>> =>
    /\ reloclo[f] \in SectorsOf(f) /\ \A s \in SectorsOf(f) : reloclo[f] <= s
    /\ relochi[f] \in SectorsOf(f) /\ \A s \in SectorsOf(f) : s <= relochi[f]

(* What a chunk writer sizes the header's relocation area by agrees with  *)
(* what it then gets: for every chunk window [first, last) of an open      *)
(* table, ndz_reloc_inrange(first, last - first) counts exactly the        *)
(* records ndz_reloc_put writes.                                           *)
PutMatchesInrange ==
  \A f \in Files : life[f] = "open" =>
    \A first \in Sect, last \in 1..(SectMax + 1) :
      first < last => Len(PutSel(f, first, last)) = Inrange(f, first, last - first)

(* Every record of a table is stored in the width the table reads it in   *)
(* (RELOC_ADDR/RELOC_NEXT and the r32/r64 choice all follow reloc32).      *)
WidthAgrees ==
  \A f \in Files : \A i \in DOMAIN data[f] : data[f][i].w = reloc32[f]

=============================================================================
