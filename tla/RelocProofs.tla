---------------------------- MODULE RelocProofs -----------------------------
(***************************************************************************)
(* Proofs about the relocation table of Reloc.tla, for every set of files, *)
(* header versions, sector range and batch bound.                          *)
(***************************************************************************)
EXTENDS Reloc, SequenceTheorems, TLAPS

-----------------------------------------------------------------------------
(* Lemmas about the helpers.                                               *)

(* The records ndz_reloc_get appends for a chunk's relocation list. *)
Recs(b, w) == [i \in DOMAIN b |-> [sector |-> b[i], w |-> w]]

(* A chunk's relocation list is a non-empty ascending list of sectors. *)
LEMMA BatchShape ==
  ASSUME NEW b \in Batches
  PROVE  /\ b \in Seq(Sect)
         /\ b \in [1..Len(b) -> Sect]
         /\ Len(b) \in Nat \ {0}
         /\ DOMAIN b = 1..Len(b)
         /\ \A i, j \in 1..Len(b) : i <= j => b[i] <= b[j]
<1>1. PICK n \in 1..MaxBatch :
        b \in {c \in [1..n -> Sect] : \A i, j \in 1..n : i <= j => c[i] <= c[j]}
  BY DEF Batches
<1>2. n \in Nat \ {0} /\ b \in [1..n -> Sect]
  BY <1>1, RelocAssumption
<1>3. b \in Seq(Sect) /\ Len(b) = n
  BY <1>2
<1>. QED
  BY <1>1, <1>2, <1>3

(* The appended records are records, and their sectors are the list's. *)
LEMMA RecsShape ==
  ASSUME NEW b \in Seq(Sect), NEW w \in {0, 1}
  PROVE  /\ Recs(b, w) \in Seq(Record)
         /\ Len(Recs(b, w)) = Len(b)
         /\ \A i \in 1..Len(b) : Recs(b, w)[i] = [sector |-> b[i], w |-> w]
<1>1. Recs(b, w) \in [1..Len(b) -> Record]
  BY DEF Recs, Record
<1>. QED
  BY <1>1 DEF Recs

(* relochi after a chunk: the larger of the old value and the chunk's     *)
(* highest sector.                                                         *)
LEMMA NewHiMax ==
  ASSUME NEW hi \in Int, NEW b \in Batches
  PROVE  /\ NewHi(hi, b) \in {hi} \cup {b[i] : i \in 1..Len(b)}
         /\ hi <= NewHi(hi, b)
         /\ \A i \in 1..Len(b) : b[i] <= NewHi(hi, b)
<1>1. /\ b \in Seq(Sect) /\ Len(b) \in Nat \ {0} /\ DOMAIN b = 1..Len(b)
      /\ b \in [1..Len(b) -> Sect]
      /\ \A i, j \in 1..Len(b) : i <= j => b[i] <= b[j]
  BY BatchShape
<1>. DEFINE top == CHOOSE s \in {b[i] : i \in DOMAIN b} : \A i \in DOMAIN b : b[i] <= s
<1>2. \E s \in {b[i] : i \in DOMAIN b} : \A i \in DOMAIN b : b[i] <= s
  <2>1. b[Len(b)] \in {b[i] : i \in DOMAIN b}
    BY <1>1
  <2>2. \A i \in DOMAIN b : b[i] <= b[Len(b)]
    BY <1>1
  <2>. QED
    BY <2>1, <2>2
<1>3. top \in {b[i] : i \in DOMAIN b} /\ \A i \in DOMAIN b : b[i] <= top
  BY <1>2
<1>6. NewHi(hi, b) = IF top > hi THEN top ELSE hi
  BY DEF NewHi
<1> HIDE DEF top
<1>4. PICK k \in 1..Len(b) : top = b[k]
  BY <1>1, <1>3
<1>5. top \in Int
  <2>1. b[k] \in Int
    BY <1>1, RelocAssumption DEF Sect
  <2>. QED
    BY <1>4, <2>1
<1>7. \A i \in 1..Len(b) : b[i] <= top /\ b[i] \in Int
  BY <1>1, <1>3, RelocAssumption DEF Sect
<1>8. CASE top > hi
  BY <1>4, <1>5, <1>6, <1>7, <1>8
<1>9. CASE ~(top > hi)
  BY <1>5, <1>6, <1>7, <1>9
<1>. QED
  BY <1>8, <1>9

(* Appending records unites the sectors. *)
LEMMA ConcatSectors ==
  ASSUME NEW s \in Seq(Record), NEW t \in Seq(Record)
  PROVE  /\ s \o t \in Seq(Record)
         /\ {(s \o t)[i].sector : i \in DOMAIN (s \o t)}
              = {s[i].sector : i \in DOMAIN s} \cup {t[i].sector : i \in DOMAIN t}
<1>1. /\ s \o t \in Seq(Record)
      /\ Len(s \o t) = Len(s) + Len(t)
      /\ \A i \in 1..(Len(s) + Len(t)) :
           (s \o t)[i] = IF i <= Len(s) THEN s[i] ELSE t[i - Len(s)]
  BY ConcatProperties
<1>2. DOMAIN (s \o t) = 1..(Len(s) + Len(t))
  BY <1>1
<1>3. \A i \in DOMAIN (s \o t) :
        (s \o t)[i].sector \in {s[j].sector : j \in DOMAIN s} \cup {t[j].sector : j \in DOMAIN t}
  <2>. SUFFICES ASSUME NEW i \in DOMAIN (s \o t)
                PROVE  (s \o t)[i].sector \in {s[j].sector : j \in DOMAIN s}
                                                \cup {t[j].sector : j \in DOMAIN t}
    OBVIOUS
  <2>1. CASE i <= Len(s)
    <3>1. i \in DOMAIN s /\ (s \o t)[i] = s[i]
      BY <1>1, <1>2, <2>1
    <3>. QED
      BY <3>1
  <2>2. CASE ~(i <= Len(s))
    <3>1. i - Len(s) \in DOMAIN t /\ (s \o t)[i] = t[i - Len(s)]
      BY <1>1, <1>2, <2>2
    <3>. QED
      BY <3>1
  <2>. QED
    BY <2>1, <2>2
<1>4. \A j \in DOMAIN s : s[j].sector \in {(s \o t)[i].sector : i \in DOMAIN (s \o t)}
  <2>. SUFFICES ASSUME NEW j \in DOMAIN s
                PROVE  s[j].sector \in {(s \o t)[i].sector : i \in DOMAIN (s \o t)}
    OBVIOUS
  <2>1. j \in DOMAIN (s \o t) /\ (s \o t)[j] = s[j]
    BY <1>1, <1>2
  <2>. QED
    BY <2>1
<1>5. \A j \in DOMAIN t : t[j].sector \in {(s \o t)[i].sector : i \in DOMAIN (s \o t)}
  <2>. SUFFICES ASSUME NEW j \in DOMAIN t
                PROVE  t[j].sector \in {(s \o t)[i].sector : i \in DOMAIN (s \o t)}
    OBVIOUS
  <2>1. Len(s) + j \in DOMAIN (s \o t) /\ (s \o t)[Len(s) + j] = t[j]
    BY <1>1, <1>2
  <2>. QED
    BY <2>1
<1>. QED
  BY <1>1, <1>3, <1>4, <1>5

-----------------------------------------------------------------------------
(* The inductive invariant behind BoundsExact.                             *)

(* BoundsExact for one table. *)
ExactAt(f) ==
  data[f] # <<>> =>
    /\ reloclo[f] \in SectorsOf(f) /\ \A s \in SectorsOf(f) : reloclo[f] <= s
    /\ relochi[f] \in SectorsOf(f) /\ \A s \in SectorsOf(f) : s <= relochi[f]

(* An open table with no records still has the bounds ndz_reloc_init gave *)
(* it: only ndz_reloc_free empties a table, and the table is then left     *)
(* alone until ndz_reloc_init runs again.                                  *)
FreshBounds ==
  \A f \in Files : life[f] = "open" /\ data[f] = <<>> =>
                     reloclo[f] = HIADDR /\ relochi[f] = LOADDR

IInv == TypeOK /\ (\A f \in Files : ExactAt(f)) /\ FreshBounds

LEMMA SectorsOfType ==
  ASSUME TypeOK, NEW f \in Files
  PROVE  SectorsOf(f) \subseteq Sect
<1>1. data[f] \in Seq(Record)
  BY DEF TypeOK
<1>2. \A i \in DOMAIN data[f] : data[f][i] \in Record
  BY <1>1, ElementOfSeq, LenProperties
<1>. QED
  BY <1>2 DEF SectorsOf, Record

LEMMA InitIInv == Init => IInv
<1>. SUFFICES ASSUME Init PROVE IInv
  OBVIOUS
<1>1. TypeOK
  BY RelocAssumption DEF Init, TypeOK, Sect, HIADDR, LOADDR
<1>2. \A f \in Files : ExactAt(f)
  BY DEF Init, ExactAt
<1>3. FreshBounds
  BY DEF Init, FreshBounds
<1>. QED
  BY <1>1, <1>2, <1>3 DEF IInv

(* ndz_reloc_free, and the allocation failure in ndz_reloc_get that calls *)
(* it, keep the invariant.                                                 *)
LEMMA FreeIInv ==
  ASSUME IInv, NEW f \in Files, FreeTable(f),
         NEW c \in [Files -> {0, 1}], reloc32' = c,
         UNCHANGED <<reloclo, relochi, failed>>
  PROVE  IInv'
<1>1. TypeOK'
  <2>1. data' \in [Files -> Seq(Record)]
    BY EmptySeq DEF IInv, TypeOK, FreeTable
  <2>2. life' \in [Files -> {"open", "freed"}]
    BY DEF IInv, TypeOK, FreeTable
  <2>. QED
    BY <2>1, <2>2 DEF IInv, TypeOK
<1>2. \A g \in Files : ExactAt(g)'
  <2>. SUFFICES ASSUME NEW g \in Files PROVE ExactAt(g)'
    OBVIOUS
  <2>1. CASE g = f
    BY <2>1 DEF IInv, TypeOK, FreeTable, ExactAt
  <2>2. CASE g # f
    <3>1. data'[g] = data[g]
      BY <2>2 DEF IInv, TypeOK, FreeTable
    <3>. QED
      BY <3>1 DEF IInv, ExactAt, SectorsOf
  <2>. QED
    BY <2>1, <2>2
<1>3. FreshBounds'
  <2>. SUFFICES ASSUME NEW g \in Files, life'[g] = "open", data'[g] = <<>>
                PROVE  reloclo'[g] = HIADDR /\ relochi'[g] = LOADDR
    BY DEF FreshBounds
  <2>1. g # f
    BY DEF IInv, TypeOK, FreeTable
  <2>2. life[g] = "open" /\ data[g] = <<>>
    BY <2>1 DEF IInv, TypeOK, FreeTable
  <2>. QED
    BY <2>2 DEF IInv, FreshBounds
<1>. QED
  BY <1>1, <1>2, <1>3 DEF IInv

LEMMA CopyIInv ==
  ASSUME IInv, NEW from \in Files, NEW to \in Files, Copy(from, to)
  PROVE  IInv'
<1>1. /\ data' = [data EXCEPT ![to] = data[from]]
      /\ reloclo' = [reloclo EXCEPT ![to] = reloclo[from]]
      /\ relochi' = [relochi EXCEPT ![to] = relochi[from]]
      /\ UNCHANGED <<reloc32, life, failed>>
      /\ data[from] # <<>>
  BY DEF Copy
<1>2. TypeOK'
  BY <1>1 DEF IInv, TypeOK
<1>3. \A g \in Files : ExactAt(g)'
  <2>. SUFFICES ASSUME NEW g \in Files PROVE ExactAt(g)'
    OBVIOUS
  <2>1. CASE g = to
    <3>1. data'[g] = data[from] /\ reloclo'[g] = reloclo[from] /\ relochi'[g] = relochi[from]
      BY <1>1, <2>1 DEF IInv, TypeOK
    <3>. QED
      BY <3>1 DEF IInv, ExactAt, SectorsOf
  <2>2. CASE g # to
    <3>1. data'[g] = data[g] /\ reloclo'[g] = reloclo[g] /\ relochi'[g] = relochi[g]
      BY <1>1, <2>2 DEF IInv, TypeOK
    <3>. QED
      BY <3>1 DEF IInv, ExactAt, SectorsOf
  <2>. QED
    BY <2>1, <2>2
<1>4. FreshBounds'
  <2>. SUFFICES ASSUME NEW g \in Files, life'[g] = "open", data'[g] = <<>>
                PROVE  reloclo'[g] = HIADDR /\ relochi'[g] = LOADDR
    BY DEF FreshBounds
  <2>1. g # to
    BY <1>1 DEF IInv, TypeOK
  <2>2. life[g] = "open" /\ data[g] = <<>> /\ reloclo'[g] = reloclo[g] /\ relochi'[g] = relochi[g]
    BY <1>1, <2>1 DEF IInv, TypeOK
  <2>. QED
    BY <2>2 DEF IInv, FreshBounds
<1>. QED
  BY <1>2, <1>3, <1>4 DEF IInv

LEMMA ReinitIInv ==
  ASSUME IInv, NEW f \in Files, Reinit(f)
  PROVE  IInv'
<1>1. /\ reloc32' = [reloc32 EXCEPT ![f] = 1]
      /\ data' = [data EXCEPT ![f] = <<>>]
      /\ reloclo' = [reloclo EXCEPT ![f] = HIADDR]
      /\ relochi' = [relochi EXCEPT ![f] = LOADDR]
      /\ life' = [life EXCEPT ![f] = "open"]
      /\ UNCHANGED failed
  BY DEF Reinit
<1>2. TypeOK'
  <2>1. HIADDR \in Sect \cup {HIADDR} /\ LOADDR \in Sect \cup {LOADDR}
    OBVIOUS
  <2>2. <<>> \in Seq(Record)
    BY EmptySeq
  <2>. QED
    BY <1>1, <2>1, <2>2 DEF IInv, TypeOK
<1>3. \A g \in Files : ExactAt(g)'
  <2>. SUFFICES ASSUME NEW g \in Files PROVE ExactAt(g)'
    OBVIOUS
  <2>1. CASE g = f
    BY <1>1, <2>1 DEF IInv, TypeOK, ExactAt
  <2>2. CASE g # f
    <3>1. data'[g] = data[g] /\ reloclo'[g] = reloclo[g] /\ relochi'[g] = relochi[g]
      BY <1>1, <2>2 DEF IInv, TypeOK
    <3>. QED
      BY <3>1 DEF IInv, ExactAt, SectorsOf
  <2>. QED
    BY <2>1, <2>2
<1>4. FreshBounds'
  <2>. SUFFICES ASSUME NEW g \in Files, life'[g] = "open", data'[g] = <<>>
                PROVE  reloclo'[g] = HIADDR /\ relochi'[g] = LOADDR
    BY DEF FreshBounds
  <2>1. CASE g = f
    BY <1>1, <2>1 DEF IInv, TypeOK
  <2>2. CASE g # f
    <3>1. life[g] = "open" /\ data[g] = <<>> /\ reloclo'[g] = reloclo[g] /\ relochi'[g] = relochi[g]
      BY <1>1, <2>2 DEF IInv, TypeOK
    <3>. QED
      BY <3>1 DEF IInv, FreshBounds
  <2>. QED
    BY <2>1, <2>2
<1>. QED
  BY <1>2, <1>3, <1>4 DEF IInv

(* A chunk's records that pass the order assert keep the bounds exact:   *)
(* reloclo stays the first sector ever appended (the assert keeps every    *)
(* later one above it), relochi is raised to the new maximum.              *)
LEMMA AppendIInv ==
  ASSUME IInv, NEW f \in Files, life[f] = "open", NEW b \in Batches,
         OrderOK(ChunkLo(f, b), b), AppendChunk(f, b),
         NEW c \in [Files -> {0, 1}], reloc32' = c
  PROVE  IInv'
<1>. DEFINE w == ChunkWidth(f)
            lo == ChunkLo(f, b)
            hi == NewHi(relochi[f], b)
            new == Recs(b, w)
            B == {b[i] : i \in 1..Len(b)}
<1>1. /\ b \in Seq(Sect) /\ b \in [1..Len(b) -> Sect] /\ Len(b) \in Nat \ {0}
      /\ DOMAIN b = 1..Len(b) /\ \A i, j \in 1..Len(b) : i <= j => b[i] <= b[j]
  BY BatchShape
<1>2. /\ data[f] \in Seq(Record) /\ w \in {0, 1}
      /\ reloclo[f] \in Sect \cup {HIADDR} /\ relochi[f] \in Sect \cup {LOADDR}
      /\ SectorsOf(f) \subseteq Sect
  BY SectorsOfType DEF IInv, TypeOK, ChunkWidth, Is32
<1>3. /\ new \in Seq(Record) /\ Len(new) = Len(b)
      /\ \A i \in 1..Len(b) : new[i] = [sector |-> b[i], w |-> w]
  BY <1>1, <1>2, RecsShape
<1>4. /\ data' = [data EXCEPT ![f] = data[f] \o new]
      /\ reloclo' = [reloclo EXCEPT ![f] = lo]
      /\ relochi' = [relochi EXCEPT ![f] = hi]
      /\ UNCHANGED <<life, failed>>
  BY DEF AppendChunk, Recs
<1>5. /\ data'[f] \in Seq(Record)
      /\ SectorsOf(f)' = SectorsOf(f) \cup B
  <2>1. data'[f] = data[f] \o new
    BY <1>4 DEF IInv, TypeOK
  <2>2. {new[i].sector : i \in DOMAIN new} = B
    BY <1>3 DEF Recs
  <2>3. /\ data[f] \o new \in Seq(Record)
        /\ {(data[f] \o new)[i].sector : i \in DOMAIN (data[f] \o new)}
             = {data[f][i].sector : i \in DOMAIN data[f]} \cup {new[i].sector : i \in DOMAIN new}
    BY <1>2, <1>3, ConcatSectors
  <2>. QED
    BY <2>1, <2>2, <2>3 DEF SectorsOf
<1>6. /\ hi \in {relochi[f]} \cup B /\ relochi[f] <= hi /\ \A i \in 1..Len(b) : b[i] <= hi
  <2>1. relochi[f] \in Int
    BY <1>2, RelocAssumption DEF Sect, LOADDR
  <2>. QED
    BY <2>1, NewHiMax
<1>7. /\ lo \in SectorsOf(f)' /\ \A x \in SectorsOf(f)' : lo <= x
      /\ hi \in SectorsOf(f)' /\ \A x \in SectorsOf(f)' : x <= hi
  <2>1. B \subseteq Sect /\ b[1] \in B
    BY <1>1
  <2>2. \A x \in B : lo <= x
    BY <1>1 DEF OrderOK
  <2>3. CASE data[f] = <<>>
    <3>1. reloclo[f] = HIADDR /\ relochi[f] = LOADDR
      BY <2>3 DEF IInv, FreshBounds
    <3>2. lo = b[1] /\ SectorsOf(f) = {}
      BY <2>3, <3>1 DEF ChunkLo, SectorsOf
    <3>3. hi \in B
      <4>1. b[1] <= hi /\ b[1] \in Sect
        BY <1>1, <1>6
      <4>2. CASE hi = relochi[f]
        <5>1. hi = 0 /\ b[1] = 0
          BY <3>1, <4>1, <4>2, RelocAssumption DEF Sect, LOADDR
        <5>. QED
          BY <2>1, <5>1
      <4>. QED
        BY <1>6, <4>2
    <3>. QED
      BY <1>5, <1>6, <2>1, <2>2, <3>2, <3>3
  <2>4. CASE data[f] # <<>>
    <3>1. /\ reloclo[f] \in SectorsOf(f) /\ \A x \in SectorsOf(f) : reloclo[f] <= x
          /\ relochi[f] \in SectorsOf(f) /\ \A x \in SectorsOf(f) : x <= relochi[f]
      BY <2>4 DEF IInv, ExactAt
    <3>2. lo = reloclo[f]
      <4>1. reloclo[f] # HIADDR
        BY <1>2, <3>1, RelocAssumption DEF Sect, HIADDR
      <4>. QED
        BY <4>1 DEF ChunkLo
    <3>3. \A x \in SectorsOf(f) : x \in Int
      BY <1>2, RelocAssumption DEF Sect
    <3>4. hi \in Int /\ relochi[f] \in Int
      BY <1>2, <1>6, <2>1, <3>1, RelocAssumption DEF Sect
    <3>. QED
      BY <1>5, <1>6, <2>2, <3>1, <3>2, <3>3, <3>4
  <2>. QED
    BY <2>3, <2>4
<1>8. TypeOK'
  <2>1. lo \in Sect /\ hi \in Sect
    <3>1. SectorsOf(f)' \subseteq Sect
      BY <1>1, <1>2, <1>5
    <3>. QED
      BY <1>7, <3>1
  <2>. QED
    BY <1>4, <1>5, <2>1 DEF IInv, TypeOK
<1>9. \A g \in Files : ExactAt(g)'
  <2>. SUFFICES ASSUME NEW g \in Files PROVE ExactAt(g)'
    OBVIOUS
  <2>1. CASE g = f
    <3>1. reloclo'[g] = lo /\ relochi'[g] = hi
      BY <1>4, <2>1 DEF IInv, TypeOK
    <3>. QED
      BY <1>7, <2>1, <3>1 DEF ExactAt
  <2>2. CASE g # f
    <3>1. data'[g] = data[g] /\ reloclo'[g] = reloclo[g] /\ relochi'[g] = relochi[g]
      BY <1>4, <2>2 DEF IInv, TypeOK
    <3>. QED
      BY <3>1 DEF IInv, ExactAt, SectorsOf
  <2>. QED
    BY <2>1, <2>2
<1>10. FreshBounds'
  <2>. SUFFICES ASSUME NEW g \in Files, life'[g] = "open", data'[g] = <<>>
                PROVE  reloclo'[g] = HIADDR /\ relochi'[g] = LOADDR
    BY DEF FreshBounds
  <2>1. g # f
    <3>1. b[1] \in SectorsOf(f)'
      BY <1>1, <1>5
    <3>. QED
      BY <3>1 DEF SectorsOf
  <2>2. life[g] = "open" /\ data[g] = <<>> /\ reloclo'[g] = reloclo[g] /\ relochi'[g] = relochi[g]
    BY <1>4, <2>1 DEF IInv, TypeOK
  <2>. QED
    BY <2>2 DEF IInv, FreshBounds
<1>. QED
  BY <1>8, <1>9, <1>10 DEF IInv

(* ndz_reloc_get on a table in use: the width assert and the order       *)
(* assert abort without touching the table, an allocation failure frees   *)
(* it, anything else appends.                                              *)
LEMMA GetIInv ==
  ASSUME IInv, ~Reuse, NEW f \in Files, Get(f)
  PROVE  IInv'
<1>1. life[f] = "open"
  BY DEF Get, Usable
<1>2. PICK b \in Batches : GetChunk(f, b)
  BY DEF Get
<1>3. ChunkWidth(f) \in {0, 1}
  BY DEF IInv, TypeOK, ChunkWidth, Is32
<1>4. [reloc32 EXCEPT ![f] = ChunkWidth(f)] \in [Files -> {0, 1}]
  BY <1>3 DEF IInv, TypeOK
<1>5. CASE /\ failed' = "width"
           /\ UNCHANGED <<reloc32, data, reloclo, relochi, life>>
  <2>1. TypeOK'
    BY <1>5 DEF IInv, TypeOK
  <2>. QED
    BY <1>5, <2>1 DEF IInv, ExactAt, SectorsOf, FreshBounds
<1>6. CASE /\ reloc32' = [reloc32 EXCEPT ![f] = ChunkWidth(f)]
           /\ IOFail /\ FreeTable(f)
           /\ UNCHANGED <<reloclo, relochi, failed>>
  BY <1>4, <1>6, FreeIInv
<1>7. CASE /\ reloc32' = [reloc32 EXCEPT ![f] = ChunkWidth(f)]
           /\ failed' = "order"
           /\ UNCHANGED <<data, reloclo, relochi, life>>
  <2>1. TypeOK'
    BY <1>4, <1>7 DEF IInv, TypeOK
  <2>. QED
    BY <1>7, <2>1 DEF IInv, ExactAt, SectorsOf, FreshBounds
<1>8. CASE /\ reloc32' = [reloc32 EXCEPT ![f] = ChunkWidth(f)]
           /\ OrderOK(ChunkLo(f, b), b) /\ AppendChunk(f, b)
  BY <1>1, <1>4, <1>8, AppendIInv
<1>. QED
  BY <1>2, <1>5, <1>6, <1>7, <1>8 DEF GetChunk

LEMMA FreeActionIInv ==
  ASSUME IInv, ~Reuse, NEW f \in Files, Free(f)
  PROVE  IInv'
<1>1. reloc32 \in [Files -> {0, 1}]
  BY DEF IInv, TypeOK
<1>. QED
  BY <1>1, FreeIInv DEF Free

LEMMA NextIInv ==
  ASSUME IInv, ~Reuse, [Next]_vars
  PROVE  IInv'
<1>1. CASE \E f \in Files : Get(f)
  BY <1>1, GetIInv
<1>2. CASE \E f \in Files : Free(f)
  BY <1>2, FreeActionIInv
<1>3. CASE \E f \in Files : Reinit(f)
  BY <1>3, ReinitIInv
<1>4. CASE \E from, to \in Files : Copy(from, to)
  BY <1>4, CopyIInv
<1>5. CASE UNCHANGED vars
  BY <1>5 DEF vars, IInv, TypeOK, ExactAt, SectorsOf, FreshBounds
<1>. QED
  BY <1>1, <1>2, <1>3, <1>4, <1>5 DEF Next

-----------------------------------------------------------------------------
(* The theorems.                                                           *)

(* Spec 8, "relocation ordering", for every set of files, versions,       *)
(* sector range and batch bound: as long as a freed table is not used      *)
(* again before ndz_reloc_init, ndz_reloc_get, ndz_reloc_copy and          *)
(* ndz_reloc_free keep reloclo and relochi exactly the lowest and highest  *)
(* sector stored, whatever order the chunks come in and whichever          *)
(* allocations fail.                                                       *)
THEOREM BoundsAlwaysExact ==
  ASSUME ~Reuse
  PROVE  Spec => []BoundsExact
<1>1. Init => IInv
  BY InitIInv
<1>2. IInv /\ [Next]_vars => IInv'
  BY NextIInv
<1>3. IInv => BoundsExact
  BY DEF IInv, ExactAt, BoundsExact, SectorsOf
<1>. QED
  BY <1>1, <1>2, <1>3, PTL DEF Spec

(* The relocation table stays well formed: widths, records, bounds and    *)
(* the table's life cycle keep their types through every call.            *)
THEOREM RelocTypeCorrect ==
  ASSUME ~Reuse
  PROVE  Spec => []TypeOK
<1>1. IInv => TypeOK
  BY DEF IInv
<1>. QED
  BY <1>1, InitIInv, NextIInv, PTL DEF Spec

=============================================================================
