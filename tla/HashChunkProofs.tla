-------------------------- MODULE HashChunkProofs ---------------------------
(***************************************************************************)
(* Proof that the loop of add_to_hashmap() (HashChunk.tla) cuts a range   *)
(* as the closed form Pieces of HashBlocks.tla does, for every hash-block  *)
(* size, partition base and range.                                         *)
(***************************************************************************)
EXTENDS HashChunk, SequenceTheorems, TLAPS

-----------------------------------------------------------------------------
(* Arithmetic.                                                             *)

(* Division by the block size is determined by quotient and remainder. *)
LEMMA DivModUnique ==
  ASSUME NEW q \in Int, NEW r \in 0..(HashBlkSize - 1)
  PROVE  /\ (q * HashBlkSize + r) \div HashBlkSize = q
         /\ (q * HashBlkSize + r) % HashBlkSize = r
BY BlocksAssumption

(* and a sector's offset from the partition base splits into block index  *)
(* and offset in the block.                                                *)
LEMMA DivModSplit ==
  ASSUME NEW x \in Int
  PROVE  /\ x = (x \div HashBlkSize) * HashBlkSize + (x % HashBlkSize)
         /\ x % HashBlkSize \in 0..(HashBlkSize - 1)
         /\ x \div HashBlkSize \in Int
<1>0. HashBlkSize \in Int /\ HashBlkSize > 0
  BY BlocksAssumption
<1>1. x % HashBlkSize \in 0..(HashBlkSize - 1)
  BY <1>0
<1>2. x \div HashBlkSize \in Int
  BY <1>0
<1>3. x = HashBlkSize * (x \div HashBlkSize) + (x % HashBlkSize)
  BY <1>0
<1>. QED
  BY <1>1, <1>2, <1>3, BlocksAssumption


-----------------------------------------------------------------------------
(* The closed form, piece by piece.                                        *)

Ext == [start : Int, size : Int]

(* The number of pieces of [s, s+z) and the bounds of the i-th, as Pieces *)
(* computes them.                                                           *)
PN(s, z) == BlockOf(s + z - 1) - BlockOf(s) + 1
PLo(s, z, i) == IF i = 1 THEN s ELSE SSect + (BlockOf(s) + i - 1) * HashBlkSize
PHi(s, z, i) == IF i = PN(s, z) THEN s + z ELSE SSect + (BlockOf(s) + i) * HashBlkSize

LEMMA PiecesDef ==
  ASSUME NEW s, NEW z
  PROVE  Pieces(s, z) = [i \in 1..PN(s, z) |->
                           [start |-> PLo(s, z, i), size |-> PHi(s, z, i) - PLo(s, z, i)]]
BY DEF Pieces, PN, PLo, PHi

(* The size of the piece the loop cuts first: to the end of the block, or *)
(* the whole range if it ends sooner.                                      *)
FirstSize(s, z) ==
  LET off == (s - SSect) % HashBlkSize
  IN  IF z < HashBlkSize - off THEN z ELSE HashBlkSize - off

(* A range that fits in the rest of its block is one piece. *)
LEMMA PiecesOne ==
  ASSUME NEW s \in Int, NEW z \in Nat \ {0}, FirstSize(s, z) = z
  PROVE  Pieces(s, z) = <<[start |-> s, size |-> z]>>
<1>. DEFINE x == s - SSect
            k0 == x \div HashBlkSize
            off == x % HashBlkSize
<1>0. x \in Int
  BY BlocksAssumption DEF x
<1>1. x = k0 * HashBlkSize + off /\ off \in 0..(HashBlkSize - 1) /\ k0 \in Int
  <2>1. x = (x \div HashBlkSize) * HashBlkSize + (x % HashBlkSize)
        /\ x % HashBlkSize \in 0..(HashBlkSize - 1)
        /\ x \div HashBlkSize \in Int
    BY <1>0, DivModSplit
  <2>. QED
    BY <2>1 DEF k0, off
<1>2. z <= HashBlkSize - off
  BY <1>1, BlocksAssumption DEF FirstSize, off, x
<1>3. (s + z - 1) - SSect = k0 * HashBlkSize + (off + z - 1)
      /\ off + z - 1 \in 0..(HashBlkSize - 1)
  <2>1. (s + z - 1) - SSect = x + (z - 1)
    BY BlocksAssumption DEF x
  <2>2. off + z - 1 \in 0..(HashBlkSize - 1)
    BY <1>1, <1>2, BlocksAssumption
  <2>. QED
    BY <2>1, <2>2, <1>1, <1>0, BlocksAssumption
<1>4. BlockOf(s + z - 1) = k0 /\ BlockOf(s) = k0
  BY <1>1, <1>3, DivModUnique DEF BlockOf, x, k0
<1>5. PN(s, z) = 1
  BY <1>4, <1>1 DEF PN
<1>6. PLo(s, z, 1) = s /\ PHi(s, z, 1) = s + z
  BY <1>5 DEF PLo, PHi
<1>7. Pieces(s, z) = [i \in 1..1 |-> [start |-> PLo(s, z, i), size |-> PHi(s, z, i) - PLo(s, z, i)]]
  BY <1>5, PiecesDef
<1>. QED
  BY <1>6, <1>7

(* Block indices do not decrease along the disk. *)
LEMMA DivMono ==
  ASSUME NEW a \in Int, NEW b \in Int, a <= b
  PROVE  a \div HashBlkSize <= b \div HashBlkSize
<1>1. /\ a = (a \div HashBlkSize) * HashBlkSize + (a % HashBlkSize)
      /\ a % HashBlkSize \in 0..(HashBlkSize - 1)
      /\ a \div HashBlkSize \in Int
  BY DivModSplit
<1>2. /\ b = (b \div HashBlkSize) * HashBlkSize + (b % HashBlkSize)
      /\ b % HashBlkSize \in 0..(HashBlkSize - 1)
      /\ b \div HashBlkSize \in Int
  BY DivModSplit
<1>. DEFINE qa == a \div HashBlkSize
            qb == b \div HashBlkSize
<1>3. SUFFICES ASSUME qb < qa PROVE FALSE
  BY <1>1, <1>2 DEF qa, qb
<1>4. (qa - qb) * HashBlkSize >= HashBlkSize
  BY <1>1, <1>2, <1>3, BlocksAssumption DEF qa, qb
<1>5. a - b = (qa - qb) * HashBlkSize + (a % HashBlkSize) - (b % HashBlkSize)
  BY <1>1, <1>2, BlocksAssumption DEF qa, qb
<1>. QED
  BY <1>1, <1>2, <1>4, <1>5, BlocksAssumption

(* The closed form is a sequence of extents with PN pieces. *)
LEMMA PiecesType ==
  ASSUME NEW s \in Int, NEW z \in Nat \ {0}
  PROVE  /\ PN(s, z) \in Nat \ {0}
         /\ Pieces(s, z) \in Seq(Ext)
         /\ Len(Pieces(s, z)) = PN(s, z)
<1>1. BlockOf(s) \in Int /\ BlockOf(s + z - 1) \in Int
      /\ BlockOf(s) <= BlockOf(s + z - 1)
  <2>1. s - SSect \in Int /\ s + z - 1 - SSect \in Int /\ s - SSect <= s + z - 1 - SSect
    BY BlocksAssumption
  <2>2. (s - SSect) \div HashBlkSize <= (s + z - 1 - SSect) \div HashBlkSize
    BY <2>1, DivMono
  <2>3. (s - SSect) \div HashBlkSize \in Int /\ (s + z - 1 - SSect) \div HashBlkSize \in Int
    BY <2>1, BlocksAssumption
  <2>. QED
    BY <2>2, <2>3, BlocksAssumption DEF BlockOf
<1>2. PN(s, z) \in Nat \ {0}
  BY <1>1 DEF PN
<1>3. \A i \in 1..PN(s, z) : PLo(s, z, i) \in Int /\ PHi(s, z, i) \in Int
  BY <1>1, BlocksAssumption DEF PLo, PHi
<1>4. Pieces(s, z) \in [1..PN(s, z) -> Ext]
  BY <1>3, PiecesDef DEF Ext
<1>. QED
  BY <1>2, <1>4

(* A range that runs past the end of its block is cut there: its first    *)
(* piece is followed by the pieces of the rest, which starts on a block    *)
(* boundary.                                                               *)
LEMMA PiecesHead ==
  ASSUME NEW s \in Int, NEW z \in Nat \ {0}, FirstSize(s, z) < z
  PROVE  LET h == FirstSize(s, z) IN
         /\ h \in 1..(z - 1)
         /\ (s + h - SSect) % HashBlkSize = 0
         /\ Pieces(s, z) = <<[start |-> s, size |-> h]>> \o Pieces(s + h, z - h)
<1>1. PICK k0 \in Int, off \in 0..(HashBlkSize - 1) :
        /\ s - SSect = k0 * HashBlkSize + off
        /\ k0 = BlockOf(s)
        /\ off = (s - SSect) % HashBlkSize
  <2>1. s - SSect \in Int
    BY BlocksAssumption
  <2>2. /\ s - SSect = ((s - SSect) \div HashBlkSize) * HashBlkSize + ((s - SSect) % HashBlkSize)
        /\ (s - SSect) % HashBlkSize \in 0..(HashBlkSize - 1)
        /\ (s - SSect) \div HashBlkSize \in Int
    BY <2>1, DivModSplit
  <2>. QED
    BY <2>2 DEF BlockOf
<1>2. PICK h \in Int : h = FirstSize(s, z)
  BY BlocksAssumption DEF FirstSize
<1>3. h = HashBlkSize - off /\ h \in 1..(z - 1)
  BY <1>1, <1>2, BlocksAssumption DEF FirstSize
<1>4. s + h - SSect = (k0 + 1) * HashBlkSize + 0
  BY <1>1, <1>3, BlocksAssumption
<1>5. BlockOf(s + h) = k0 + 1 /\ (s + h - SSect) % HashBlkSize = 0
  <2>1. /\ ((k0 + 1) * HashBlkSize + 0) \div HashBlkSize = k0 + 1
        /\ ((k0 + 1) * HashBlkSize + 0) % HashBlkSize = 0
    BY BlocksAssumption, DivModUnique
  <2>. QED
    BY <2>1, <1>4, BlocksAssumption DEF BlockOf
<1>6. PICK ke \in Int : ke = BlockOf(s + z - 1) /\ ke >= k0 + 1
  <2>1. (k0 + 1) * HashBlkSize \in Int /\ s + z - 1 - SSect \in Int
    BY BlocksAssumption
  <2>2. (k0 + 1) * HashBlkSize <= s + z - 1 - SSect
    BY <1>3, <1>4, BlocksAssumption
  <2>3. ((k0 + 1) * HashBlkSize) \div HashBlkSize <= (s + z - 1 - SSect) \div HashBlkSize
    BY <2>1, <2>2, DivMono
  <2>4. ((k0 + 1) * HashBlkSize + 0) \div HashBlkSize = k0 + 1
    BY BlocksAssumption, DivModUnique
  <2>5. (s + z - 1 - SSect) \div HashBlkSize \in Int
    BY <2>1, BlocksAssumption
  <2>. QED
    BY <2>1, <2>3, <2>4, <2>5, BlocksAssumption DEF BlockOf
<1>7. BlockOf((s + h) + (z - h) - 1) = ke
  <2>1. (s + h) + (z - h) - 1 = s + z - 1
    BY <1>3
  <2>. QED
    BY <2>1, <1>6
<1>8. PN(s, z) = ke - k0 + 1 /\ PN(s + h, z - h) = ke - k0
  BY <1>1, <1>5, <1>6, <1>7 DEF PN
<1>. DEFINE hd == <<[start |-> s, size |-> h]>>
            tl == Pieces(s + h, z - h)
            whole == Pieces(s, z)
<1>9. /\ hd \in Seq(Ext) /\ Len(hd) = 1
      /\ tl \in Seq(Ext) /\ Len(tl) = ke - k0
      /\ whole \in Seq(Ext) /\ Len(whole) = ke - k0 + 1
  <2>1. s + h \in Int /\ z - h \in Nat \ {0}
    BY <1>3
  <2>2. tl \in Seq(Ext) /\ Len(tl) = PN(s + h, z - h)
    BY <2>1, PiecesType, Zenon DEF tl
  <2>3. whole \in Seq(Ext) /\ Len(whole) = PN(s, z)
    BY PiecesType DEF whole
  <2>4. hd \in Seq(Ext) /\ Len(hd) = 1
    BY <1>3 DEF hd, Ext
  <2>. QED
    BY <1>8, <2>2, <2>3, <2>4
<1>10. /\ hd \o tl \in Seq(Ext)
       /\ Len(hd \o tl) = ke - k0 + 1
       /\ \A i \in 1..(ke - k0 + 1) :
             (hd \o tl)[i] = IF i <= 1 THEN hd[i] ELSE tl[i - 1]
  <2>1. /\ hd \o tl \in Seq(Ext)
        /\ Len(hd \o tl) = Len(hd) + Len(tl)
        /\ \A i \in 1..(Len(hd) + Len(tl)) :
              (hd \o tl)[i] = IF i <= Len(hd) THEN hd[i] ELSE tl[i - Len(hd)]
    BY <1>9, ConcatProperties
  <2>2. Len(hd) + Len(tl) = ke - k0 + 1
    BY <1>9
  <2>. QED
    BY <1>9, <2>1, <2>2
<1>11. ASSUME NEW i \in 1..(ke - k0 + 1) PROVE whole[i] = (hd \o tl)[i]
  <2>0. whole[i] = [start |-> PLo(s, z, i), size |-> PHi(s, z, i) - PLo(s, z, i)]
    <3>1. i \in 1..PN(s, z)
      BY <1>8
    <3>. QED
      BY <3>1, PiecesDef, Zenon DEF whole
  <2>1. CASE i = 1
    <3>1. PLo(s, z, 1) = s
      BY DEF PLo
    <3>2. PHi(s, z, 1) = s + h
      BY <1>1, <1>4, <1>6, <1>8, BlocksAssumption DEF PHi
    <3>3. (hd \o tl)[1] = [start |-> s, size |-> h]
      BY <1>6, <1>10 DEF hd
    <3>4. (s + h) - s = h
      BY <1>3
    <3>. QED
      BY <2>0, <2>1, <3>1, <3>2, <3>3, <3>4
  <2>2. CASE i > 1
    <3>1. i - 1 \in 1..PN(s + h, z - h)
      BY <2>2, <1>8, <1>6
    <3>2. tl[i - 1] = [start |-> PLo(s + h, z - h, i - 1),
                       size |-> PHi(s + h, z - h, i - 1) - PLo(s + h, z - h, i - 1)]
      BY <3>1, PiecesDef, Zenon DEF tl
    <3>3. PLo(s, z, i) = PLo(s + h, z - h, i - 1)
      BY <2>2, <1>1, <1>4, <1>5, <1>6, BlocksAssumption DEF PLo, BlockOf
    <3>4. PHi(s, z, i) = PHi(s + h, z - h, i - 1)
      BY <2>2, <1>1, <1>3, <1>5, <1>6, <1>8, BlocksAssumption DEF PHi, BlockOf
    <3>5. (hd \o tl)[i] = tl[i - 1]
      BY <2>2, <1>6, <1>10
    <3>. QED
      BY <2>0, <3>2, <3>3, <3>4, <3>5, Zenon
  <2>3. i = 1 \/ i > 1
    BY <1>1, <1>6
  <2>. QED
    BY <2>1, <2>2, <2>3
<1>12. whole = hd \o tl
  BY <1>9, <1>10, <1>11, SeqEqual
<1>. QED
  BY <1>2, <1>3, <1>5, <1>12 DEF hd, tl, whole

(* The size the loop's if-chain picks is FirstSize of what is left, once the  *)
(* offset is that of its start, and it lies in 1..rsize.                   *)
LEMMA HsizeFirst ==
  ASSUME NEW s \in Int, NEW z \in Nat \ {0},
         NEW o, o = (s - SSect) % HashBlkSize
  PROVE  /\ (IF o # 0
             THEN IF HashBlkSize - o > z THEN z ELSE HashBlkSize - o
             ELSE IF z > HashBlkSize THEN HashBlkSize ELSE z) = FirstSize(s, z)
         /\ FirstSize(s, z) \in 1..z
<1>1. o \in 0..(HashBlkSize - 1)
  BY BlocksAssumption
<1>. QED
  BY <1>1, BlocksAssumption DEF FirstSize

-----------------------------------------------------------------------------
(* The loop invariant.                                                     *)

(* ChunkingAgrees with the types it needs: the loop's variables are        *)
(* integers and what it has emitted is a sequence of extents.              *)
IInv ==
  /\ r0 \in [start : Nat, size : Nat]
  /\ rstart \in Int /\ rsize \in Nat /\ offset \in Int
  /\ pieces \in Seq(Ext)
  /\ ChunkingAgrees

LEMMA InitIInv == Init => IInv
<1>. SUFFICES ASSUME Init PROVE IInv
  OBVIOUS
<1>1. <<>> \in Seq(Ext)
  BY EmptySeq
<1>. QED
  BY <1>1, BlocksAssumption DEF Init, IInv, ChunkingAgrees

LEMMA CallIInv == IInv /\ Call => IInv'
<1>. SUFFICES ASSUME IInv, Call PROVE IInv'
  OBVIOUS
<1>1. PICK st \in Starts, n \in 1..MaxSize :
        /\ r0' = [start |-> st, size |-> n]
        /\ rstart' = st
        /\ rsize' = n
        /\ offset' = (st - SSect) % HashBlkSize
        /\ pieces' = <<>>
  BY DEF Call
<1>2. st \in Nat /\ n \in Nat \ {0}
  BY ChunkInputsAssumption
<1>3. Pieces(st, n) \in Seq(Ext)
  BY <1>2, PiecesType
<1>4. <<>> \o Pieces(st, n) = Pieces(st, n) /\ <<>> \in Seq(Ext)
  BY <1>3, ConcatEmptySeq, EmptySeq
<1>5. offset' \in Int
  BY <1>1, <1>2, BlocksAssumption
<1>. QED
  BY <1>1, <1>2, <1>4, <1>5 DEF IInv, ChunkingAgrees

LEMMA IterateIInv == IInv /\ Iterate => IInv'
<1>. SUFFICES ASSUME IInv, Iterate PROVE IInv'
  OBVIOUS
<1>1. rsize \in Nat \ {0} /\ rstart \in Int /\ offset = (rstart - SSect) % HashBlkSize
  BY DEF Iterate, IInv, ChunkingAgrees
<1>2. PICK h \in 1..rsize : h = FirstSize(rstart, rsize)
  BY <1>1, HsizeFirst
<1>. DEFINE e == [start |-> rstart, size |-> h]
<1>3. /\ pieces' = Append(pieces, e)
      /\ rstart' = rstart + h
      /\ rsize' = rsize - h
      /\ offset' = 0
      /\ r0' = r0
  <2>1. (IF offset # 0
         THEN IF HashBlkSize - offset > rsize THEN rsize ELSE HashBlkSize - offset
         ELSE IF rsize > HashBlkSize THEN HashBlkSize ELSE rsize) = h
    BY <1>1, <1>2, HsizeFirst
  <2>. QED
    BY <2>1 DEF Iterate, e
<1>4. e \in Ext /\ pieces \in Seq(Ext)
  BY <1>1, <1>2 DEF e, Ext, IInv
<1>5. pieces' = pieces \o <<e>> /\ <<e>> \in Seq(Ext)
  <2>1. Append(pieces, e) = pieces \o <<e>>
    BY <1>4, AppendIsConcat, Zenon
  <2>2. <<e>> \in Seq(Ext)
    BY <1>4
  <2>. QED
    BY <1>3, <2>1, <2>2
<1>6. r0.size > 0 => pieces \o Pieces(rstart, rsize) = Pieces(r0.start, r0.size)
  BY <1>1 DEF IInv, ChunkingAgrees
<1>7. CASE h = rsize
  <2>1. Pieces(rstart, rsize) = <<e>>
    BY <1>1, <1>2, <1>7, PiecesOne, Zenon DEF e
  <2>2. rsize' = 0
    BY <1>3, <1>7, <1>1
  <2>3. pieces' \in Seq(Ext)
    BY <1>4, <1>5, ConcatProperties, Zenon
  <2>4. r0'.size > 0 => pieces' = Pieces(r0'.start, r0'.size)
    BY <1>3, <1>5, <1>6, <2>1
  <2>5. r0' \in [start : Nat, size : Nat] /\ rstart' \in Int /\ rsize' \in Nat /\ offset' \in Int
    BY <1>1, <1>2, <1>3, <2>2 DEF IInv
  <2>. QED
    BY <2>2, <2>3, <2>4, <2>5 DEF IInv, ChunkingAgrees
<1>8. CASE h < rsize
  <2>1. /\ (rstart + h - SSect) % HashBlkSize = 0
        /\ Pieces(rstart, rsize) = <<e>> \o Pieces(rstart + h, rsize - h)
    BY <1>1, <1>2, <1>8, PiecesHead, Zenon DEF e
  <2>2. rsize' > 0 /\ rsize' \in Nat /\ rstart' \in Int /\ offset' \in Int
        /\ rstart + h \in Int /\ rsize - h \in Nat \ {0}
    BY <1>3, <1>8, <1>1, <1>2
  <2>3. Pieces(rstart + h, rsize - h) \in Seq(Ext)
    BY <2>2, PiecesType, Zenon
  <2>4. (pieces \o <<e>>) \o Pieces(rstart + h, rsize - h)
          = pieces \o (<<e>> \o Pieces(rstart + h, rsize - h))
    <3>1. \A s1, t1, u1 \in Seq(Ext) : (s1 \o t1) \o u1 = s1 \o (t1 \o u1)
      BY ConcatAssociative
    <3>. QED
      BY <1>4, <1>5, <2>3, <3>1
  <2>5. r0'.size > 0 => pieces' \o Pieces(rstart', rsize') = Pieces(r0'.start, r0'.size)
    BY <1>3, <1>5, <1>6, <2>1, <2>4
  <2>6. offset' = (rstart' - SSect) % HashBlkSize
    BY <1>1, <1>3, <2>1, BlocksAssumption
  <2>7. pieces' \in Seq(Ext)
    BY <1>4, <1>5, ConcatProperties, Zenon
  <2>8. r0' \in [start : Nat, size : Nat]
    BY <1>3 DEF IInv
  <2>. QED
    BY <2>2, <2>5, <2>6, <2>7, <2>8 DEF IInv, ChunkingAgrees
<1>9. h = rsize \/ h < rsize
  BY <1>1, <1>2
<1>. QED
  BY <1>7, <1>8, <1>9

LEMMA IInvStep == IInv /\ [Next]_vars => IInv'
<1>. SUFFICES ASSUME IInv, [Next]_vars PROVE IInv'
  OBVIOUS
<1>1. CASE Call
  BY <1>1, CallIInv
<1>2. CASE Iterate
  BY <1>2, IterateIInv
<1>3. CASE UNCHANGED vars
  BY <1>3 DEF IInv, ChunkingAgrees, vars
<1>. QED
  BY <1>1, <1>2, <1>3 DEF Next

(* Every state the loop of add_to_hashmap() reaches agrees with the       *)
(* closed form: the pieces it has passed to addhash(), followed by the     *)
(* cut of what is left, are the cut of the whole range at the hash-block   *)
(* boundaries measured from the partition base, for every block size,      *)
(* base and range.                                                         *)
THEOREM ChunkingAlwaysAgrees == Spec => []ChunkingAgrees
<1>1. IInv => ChunkingAgrees
  BY DEF IInv
<1>. QED
  BY <1>1, InitIInv, IInvStep, PTL DEF Spec

=============================================================================
