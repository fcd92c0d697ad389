------------------------ MODULE HashmapDeltaProofs -------------------------
(***************************************************************************)
(* Proof of delta exactness (DeltaExact of Hashmap.tla): when             *)
(* hashmap_compute_delta() succeeds, its output ranges are exactly the     *)
(* allocated sectors that no compared, fixup-free, matching hash region    *)
(* shows unchanged, ascending and coalesced.                               *)
(***************************************************************************)
EXTENDS HashmapProofs

-----------------------------------------------------------------------------
(* The invariant.                                                          *)

(* The allocated sectors the walk has dealt with: all of them once the    *)
(* ranges ran out, else those below the current range's start.           *)
Processed == IF DrangeNull THEN Alloc ELSE {s \in Alloc : s < drange.start}

(* Hash region k is one the walk must show unchanged. *)
Shown(k) ==
  /\ Compared(hinfo[k])
  /\ ~HasFixup(fixin, hinfo[k])
  /\ hinfo[k].hash = DiskHash(hinfo[k], {})

(* add_to_range()'s output: non-empty, ascending, never adjacent. *)
OutputOrdered(nr) ==
  /\ \A i \in DOMAIN nr : nr[i].size > 0
  /\ \A i \in 1..(Len(nr) - 1) : End(nr[i]) < nr[i + 1].start

(* While the walk runs and once it is done: the output is exactly what it *)
(* has processed less what is shown unchanged, ordered; the fixups hashed  *)
(* away lie in the output; drange is a tail of its range and past every    *)
(* hash region already left; what is processed lies before the current     *)
(* region (before its end once it is being covered); and the verdict on    *)
(* the region being covered is 0 exactly when it is shown unchanged; the  *)
(* walk is done only once the ranges ran out.                              *)
DeltaInv ==
  pc \in {"drain", "decide", "covered", "trail", "done"} =>
    /\ Covers(nranges) = Processed \ ShownUnchanged
    /\ OutputOrdered(nranges)
    /\ fixups \subseteq fixin /\ fixin \ fixups \subseteq Covers(nranges)
    /\ ~DrangeNull =>
         /\ curranges[di].start <= drange.start
         /\ \A k \in DOMAIN hinfo : k < hreg => End(hinfo[k]) <= drange.start
    /\ pc \in {"drain", "decide"} /\ hreg <= Len(hinfo) =>
         \A s \in Processed : s < H.start
    /\ pc = "covered" => \A s \in Processed : s < End(H)
    /\ pc = "covered" => (changed = 0 <=> Shown(hreg))
    /\ pc = "done" => DrangeNull

-----------------------------------------------------------------------------
(* Extent lists.                                                           *)

LEMMA CoversMem ==
  ASSUME NEW rl \in Seq(Ext), NEW s \in Int
  PROVE  s \in Covers(rl) <=> \E i \in 1..Len(rl) : rl[i].start <= s /\ s < End(rl[i])
<1>0. DOMAIN rl = 1..Len(rl)
  OBVIOUS
<1>1. s \in Covers(rl) <=> \E i \in 1..Len(rl) : s \in Sectors(rl[i])
  BY <1>0, Zenon DEF Covers
<1>2. ASSUME NEW i \in 1..Len(rl)
      PROVE  s \in Sectors(rl[i]) <=> rl[i].start <= s /\ s < End(rl[i])
  <2>1. rl[i] \in Ext
    BY ElementOfSeq
  <2>. QED
    BY <2>1 DEF Sectors, End, Ext
<1>. QED
  BY <1>1, <1>2

(* The last extent of a non-empty output reaches its last sector. *)
LEMMA LastInCovers ==
  ASSUME NEW nr \in Seq(Ext), nr # <<>>, OutputOrdered(nr)
  PROVE  End(nr[Len(nr)]) - 1 \in Covers(nr)
<1>1. Len(nr) \in 1..Len(nr)
  BY EmptySeq, LenProperties
<1>2. nr[Len(nr)] \in Ext /\ nr[Len(nr)].size > 0
  BY <1>1, ElementOfSeq DEF OutputOrdered
<1>. QED
  BY <1>1, <1>2, CoversMem DEF End, Ext


LEMMA CoversInt ==
  ASSUME NEW rl \in Seq(Ext)
  PROVE  Covers(rl) \subseteq Int
<1>1. \A i \in DOMAIN rl : rl[i] \in Ext
  BY ElementOfSeq
<1>. QED
  BY <1>1 DEF Covers, Sectors, End, Ext

(* add_to_range() on an ordered output and a non-empty range that starts  *)
(* at or after its end: it covers one range more, and stays ordered.       *)
LEMMA AddToRangeFacts ==
  ASSUME NEW nr \in Seq(Ext), NEW r \in Ext, r.size > 0, OutputOrdered(nr),
         nr # <<>> => End(nr[Len(nr)]) <= r.start
  PROVE  /\ Covers(AddToRange(nr, r)) = Covers(nr) \cup Sectors(r)
         /\ OutputOrdered(AddToRange(nr, r))
<1>. DEFINE a == AddToRange(nr, r)
<1>0. a \in Seq(Ext)
  BY AddToRangeType
<1>1. Covers(a) \subseteq Int /\ Covers(nr) \subseteq Int /\ Sectors(r) \subseteq Int
  BY <1>0, CoversInt DEF Sectors, End, Ext
<1>2. \A i \in 1..Len(nr) : nr[i] \in Ext /\ nr[i].size > 0
  BY ElementOfSeq DEF OutputOrdered
<1>3. CASE Coalesces(nr, r.start)
  <2>. DEFINE L == Len(nr)
              last == nr[L]
              b == [nr EXCEPT ![L] = [start |-> last.start, size |-> last.size + r.size]]
  <2>1. nr # <<>> /\ L \in 1..L /\ End(last) = r.start
    BY <1>3, EmptySeq DEF Coalesces
  <2>2. last \in Ext
    BY <2>1, <1>2
  <2>3. [last EXCEPT !.size = @ + r.size] = [start |-> last.start, size |-> last.size + r.size]
    BY <2>2 DEF Ext
  <2>4. a = b
    BY <1>3, <2>3 DEF AddToRange
  <2>5. /\ Len(b) = L
        /\ \A i \in 1..L : i # L => b[i] = nr[i]
        /\ b[L].start = last.start /\ b[L].size = last.size + r.size
    BY <2>1
  <2>6. ASSUME NEW s \in Int
        PROVE  s \in Covers(b) <=> s \in Covers(nr) \/ s \in Sectors(r)
    <3>1. b \in Seq(Ext)
      BY <1>0, <2>4
    <3>2. s \in Covers(b) <=> \E i \in 1..L : b[i].start <= s /\ s < End(b[i])
      BY <3>1, <2>5, CoversMem
    <3>3. s \in Covers(nr) <=> \E i \in 1..L : nr[i].start <= s /\ s < End(nr[i])
      BY CoversMem
    <3>4. r.start \in Int /\ r.size \in Int /\ last.start \in Int /\ last.size \in Int
      BY <2>2 DEF Ext
    <3>5. ASSUME NEW i \in 1..L, b[i].start <= s, s < End(b[i])
          PROVE  s \in Covers(nr) \/ s \in Sectors(r)
      <4>1. CASE i = L
        BY <4>1, <3>5, <3>4, <2>1, <2>5, <3>3 DEF End, Sectors
      <4>2. CASE i # L
        BY <4>2, <3>5, <2>5, <3>3
      <4>. QED
        BY <4>1, <4>2
    <3>6. ASSUME NEW i \in 1..L, nr[i].start <= s, s < End(nr[i])
          PROVE  s \in Covers(b)
      <4>1. CASE i = L
        <5>1. b[L].start <= s /\ s < End(b[L])
          BY <4>1, <3>6, <3>4, <2>1, <2>5, <1>2 DEF End
        <5>. QED
          BY <5>1, <3>2, <2>1
      <4>2. CASE i # L
        BY <4>2, <3>6, <2>5, <3>2
      <4>. QED
        BY <4>1, <4>2
    <3>7. ASSUME s \in Sectors(r) PROVE s \in Covers(b)
      <4>1. b[L].start <= s /\ s < End(b[L])
        <5>1. r.start <= s /\ s < r.start + r.size
          BY <3>7, <3>4 DEF Sectors, End
        <5>2. /\ b[L].start = last.start /\ b[L].size = last.size + r.size
              /\ last.start + last.size = r.start
          BY <2>1, <2>5 DEF End
        <5>3. last.size > 0
          BY <2>1, <1>2
        <5>. QED
          BY <5>1, <5>2, <5>3, <3>4 DEF End
      <4>. QED
        BY <4>1, <3>2, <2>1
    <3>. QED
      BY <3>2, <3>3, <3>5, <3>6, <3>7
  <2>7. OutputOrdered(b)
    <3>1. \A i \in 1..L : b[i].size > 0
      BY <2>1, <2>2, <2>5, <1>2 DEF Ext
    <3>2. \A i \in 1..(L - 1) : End(b[i]) < b[i + 1].start
      <4>1. \A i \in 1..(L - 1) : End(nr[i]) < nr[i + 1].start
        BY DEF OutputOrdered
      <4>. QED
        BY <4>1, <2>1, <2>5 DEF End
    <3>. QED
      BY <3>1, <3>2, <2>5, <1>0, <2>4 DEF OutputOrdered
  <2>. QED
    BY <2>4, <2>6, <2>7, <1>1
<1>4. CASE ~Coalesces(nr, r.start)
  <2>. DEFINE L == Len(nr)
  <2>1. a = Append(nr, r)
    BY <1>4 DEF AddToRange
  <2>2. /\ Len(a) = L + 1
        /\ \A i \in 1..L : a[i] = nr[i]
        /\ a[L + 1] = r
    BY <2>1, AppendProperties
  <2>3. L > 0 => End(nr[L]) < r.start
    <3>1. L > 0 => nr # <<>> /\ End(nr[L]) # r.start
      BY <1>4 DEF Coalesces
    <3>2. L > 0 => nr[L] \in Ext
      BY <1>2
    <3>. QED
      BY <3>1, <3>2 DEF End, Ext
  <2>4. ASSUME NEW s \in Int
        PROVE  s \in Covers(a) <=> s \in Covers(nr) \/ s \in Sectors(r)
    <3>2. s \in Covers(a) <=> \E i \in 1..(L + 1) : a[i].start <= s /\ s < End(a[i])
      BY <1>0, <2>2, CoversMem
    <3>3. s \in Covers(nr) <=> \E i \in 1..L : nr[i].start <= s /\ s < End(nr[i])
      BY CoversMem
    <3>4. ASSUME NEW i \in 1..(L + 1), a[i].start <= s, s < End(a[i])
          PROVE  s \in Covers(nr) \/ s \in Sectors(r)
      <4>1. CASE i = L + 1
        BY <4>1, <3>4, <2>2 DEF End, Sectors, Ext
      <4>2. CASE i \in 1..L
        BY <4>2, <3>4, <2>2, <3>3
      <4>. QED
        BY <4>1, <4>2
    <3>5. ASSUME s \in Sectors(r) PROVE s \in Covers(a)
      <4>1. a[L + 1].start <= s /\ s < End(a[L + 1])
        BY <3>5, <2>2 DEF End, Sectors, Ext
      <4>. QED
        BY <4>1, <3>2
    <3>6. ASSUME NEW i \in 1..L, nr[i].start <= s, s < End(nr[i])
          PROVE  s \in Covers(a)
      BY <3>6, <2>2, <3>2
    <3>. QED
      BY <3>2, <3>3, <3>4, <3>5, <3>6
  <2>5. OutputOrdered(a)
    <3>1. \A i \in 1..(L + 1) : a[i].size > 0
      BY <2>2, <1>2
    <3>2. \A i \in 1..L : End(a[i]) < a[i + 1].start
      <4>1. \A i \in 1..(L - 1) : End(nr[i]) < nr[i + 1].start
        BY DEF OutputOrdered
      <4>. QED
        BY <4>1, <2>2, <2>3 DEF End
    <3>3. DOMAIN a = 1..(L + 1) /\ 1..(Len(a) - 1) = 1..L
      BY <2>2, <1>0
    <3>. QED
      BY <3>1, <3>2, <3>3 DEF OutputOrdered
  <2>. QED
    BY <2>4, <2>5, <1>1
<1>. QED
  BY <1>3, <1>4

-----------------------------------------------------------------------------
(* The caller's allocated ranges.                                          *)

LEMMA CurExt ==
  ASSUME NEW cr \in CurRangeInputs
  PROVE  /\ cr \in Seq(Ext)
         /\ \A i \in 1..Len(cr) : cr[i] \in Ext /\ cr[i].size > 0
<1>1. cr \in Seq(Ranges) /\ \A i \in 1..Len(cr) : cr[i].size > 0
  BY CurInputFacts
<1>2. \A i \in 1..Len(cr) : cr[i] \in Ext
  <2>1. \A i \in 1..Len(cr) : cr[i] \in Ranges
    BY <1>1, ElementOfSeq
  <2>2. Ranges \subseteq Ext
    BY DEF Ranges, Ext
  <2>. QED
    BY <2>1, <2>2
<1>3. cr \in [1..Len(cr) -> Ext]
  BY <1>1, <1>2
<1>. QED
  BY <1>1, <1>2, <1>3, FcnOnIntervalIsSeq

(* A sector of range j lies between the ranges before j and after it. *)
LEMMA AllocOrder ==
  ASSUME NEW cr \in CurRangeInputs, NEW i \in 1..Len(cr), NEW j \in 1..Len(cr),
         NEW s \in Int, cr[j].start <= s, s < End(cr[j])
  PROVE  /\ j < i => s < cr[i].start
         /\ i < j => s >= End(cr[i])
<1>1. cr[i] \in Ext /\ cr[j] \in Ext /\ cr[i].size > 0 /\ cr[j].size > 0
  BY CurExt
<1>2. (j < i => End(cr[j]) <= cr[i].start) /\ (i < j => End(cr[i]) <= cr[j].start)
  BY CurInputFacts
<1>. QED
  BY <1>1, <1>2 DEF End, Ext

(* Moving drange's start from a to b inside range i adds a..b-1. *)
LEMMA AllocWithin ==
  ASSUME NEW cr \in CurRangeInputs, NEW i \in 1..Len(cr), NEW a \in Int, NEW b \in Int,
         cr[i].start <= a, a <= b, b <= End(cr[i])
  PROVE  {s \in Covers(cr) : s < b} = {s \in Covers(cr) : s < a} \cup a..(b - 1)
<1>1. cr \in Seq(Ext) /\ cr[i] \in Ext
  BY CurExt
<1>2. Covers(cr) \subseteq Int
  BY <1>1, CoversInt
<1>3. a..(b - 1) \subseteq Covers(cr)
  <2>. SUFFICES ASSUME NEW s \in a..(b - 1) PROVE s \in Covers(cr)
    OBVIOUS
  <2>1. cr[i].start <= s /\ s < End(cr[i])
    BY <1>1 DEF Ext, End
  <2>. QED
    BY <2>1, <1>1, CoversMem
<1>. QED
  BY <1>2, <1>3

(* Past the end of range i: nothing allocated before the next range, and *)
(* nothing at all after the last one.                                      *)
LEMMA AllocNext ==
  ASSUME NEW cr \in CurRangeInputs, NEW i \in 1..Len(cr)
  PROVE  (IF i + 1 <= Len(cr) THEN {s \in Covers(cr) : s < cr[i + 1].start} ELSE Covers(cr))
           = {s \in Covers(cr) : s < End(cr[i])}
<1>0. \A k \in 1..Len(cr) : cr[k] \in Ext /\ cr[k].size > 0
  BY CurExt
<1>1. cr \in Seq(Ext) /\ Covers(cr) \subseteq Int
  BY CurExt, CoversInt
<1>2. ASSUME NEW s \in Covers(cr)
      PROVE  /\ i + 1 <= Len(cr) => (s < cr[i + 1].start <=> s < End(cr[i]))
             /\ i + 1 > Len(cr) => s < End(cr[i])
  <2>1. s \in Int
    BY <1>1
  <2>2. PICK j \in 1..Len(cr) : cr[j].start <= s /\ s < End(cr[j])
    BY <1>1, <2>1, CoversMem
  <2>3. i + 1 <= Len(cr) => End(cr[i]) <= cr[i + 1].start
    BY CurInputFacts
  <2>4. CASE j <= i
    <3>0. j < i => s < cr[i].start
      BY <2>1, <2>2, AllocOrder
    <3>1. s < End(cr[i])
      <4>1. CASE j = i
        BY <4>1, <2>2
      <4>2. CASE j # i
        <5>1. s < cr[i].start
          BY <4>2, <2>4, <3>0
        <5>2. cr[i] \in Ext /\ cr[i].size > 0
          BY <1>0
        <5>. QED
          BY <5>1, <5>2, <2>1 DEF End, Ext
      <4>. QED
        BY <4>1, <4>2
    <3>. QED
      BY <3>1, <2>3, <2>1, <1>0 DEF Ext, End
  <2>5. CASE j > i
    <3>1. j >= i + 1 /\ i + 1 <= Len(cr)
      BY <2>5
    <3>2. s >= cr[i + 1].start
      <4>1. CASE j = i + 1
        BY <4>1, <2>2
      <4>2. CASE j > i + 1
        <5>1. s >= End(cr[i + 1])
          BY <4>2, <3>1, <2>1, <2>2, AllocOrder
        <5>. QED
          BY <5>1, <3>1, <2>1, <1>0 DEF End, Ext
      <4>. QED
        BY <4>1, <4>2, <3>1, <1>1
    <3>3. s >= End(cr[i])
      BY <2>5, <2>1, <2>2, <1>1, AllocOrder
    <3>. QED
      BY <3>1, <3>2, <3>3, <2>1, <1>0 DEF End, Ext
  <2>. QED
    BY <2>4, <2>5
<1>. QED
  BY <1>2

(* Nothing is allocated before the first range. *)
LEMMA AllocFirst ==
  ASSUME NEW cr \in CurRangeInputs
  PROVE  {s \in Covers(cr) : s < cr[1].start} = {}
<1>0. \A k \in 1..Len(cr) : cr[k] \in Ext /\ cr[k].size > 0
  BY CurExt
<1>1. cr \in Seq(Ext) /\ Covers(cr) \subseteq Int /\ 1 \in 1..Len(cr)
  BY CurExt, CoversInt, CurInputFacts
<1>2. ASSUME NEW s \in Covers(cr) PROVE s >= cr[1].start
  <2>1. s \in Int
    BY <1>1
  <2>2. PICK j \in 1..Len(cr) : cr[j].start <= s /\ s < End(cr[j])
    BY <1>1, <2>1, CoversMem
  <2>3. CASE j = 1
    BY <2>3, <2>2
  <2>4. CASE j > 1
    <3>1. s >= End(cr[1])
      BY <2>4, <1>1, <2>1, <2>2, AllocOrder
    <3>. QED
      BY <3>1, <2>1, <1>1, <1>0 DEF End, Ext
  <2>. QED
    BY <2>3, <2>4, <1>1
<1>. QED
  BY <1>0, <1>1, <1>2 DEF Ext

-----------------------------------------------------------------------------
(* The signature's hash regions.                                           *)

(* Each region ends at or before every later one begins. *)
LEMMA HinfoOrder ==
  ASSUME NEW hl \in HashInfoInputs, NEW k \in 1..Len(hl), NEW m \in 1..Len(hl), k < m
  PROVE  End(hl[k]) <= hl[m].start
<1>. DEFINE pr == [i \in DOMAIN hl |-> [start |-> hl[i].start, size |-> hl[i].size]]
<1>1. hl \in Seq(HashRegion) /\ IsHashInfo(hl)
  BY InputsAssumption
<1>2. DOMAIN hl = 1..Len(hl) /\ DOMAIN pr = 1..Len(hl)
  BY <1>1
<1>3. End(pr[k]) <= pr[m].start
  BY <1>1, <1>2 DEF IsHashInfo, IsRangeList
<1>. QED
  BY <1>2, <1>3 DEF End

LEMMA ShownMem ==
  ASSUME hinfo \in HashInfoInputs, NEW s \in Int
  PROVE  s \in ShownUnchanged <=>
           \E k \in 1..Len(hinfo) : Shown(k) /\ hinfo[k].start <= s /\ s < End(hinfo[k])
<1>1. hinfo \in Seq(HashRegion)
  BY InputsAssumption
<1>2. DOMAIN hinfo = 1..Len(hinfo)
  BY <1>1
<1>3. \A k \in 1..Len(hinfo) : hinfo[k].start \in Int /\ hinfo[k].size \in Int
  BY HinfoInputFacts
<1>4. s \in ShownUnchanged <=> \E k \in 1..Len(hinfo) : Shown(k) /\ s \in Sectors(hinfo[k])
  BY <1>2, Zenon DEF ShownUnchanged, Shown
<1>. QED
  BY <1>3, <1>4 DEF Sectors, End

(* No sector between a and b is shown unchanged when every region lies    *)
(* wholly before a or wholly after b.                                      *)
LEMMA NotShown ==
  ASSUME hinfo \in HashInfoInputs, NEW a \in Int, NEW b \in Int,
         \A k \in 1..Len(hinfo) : End(hinfo[k]) <= a \/ b <= hinfo[k].start
  PROVE  a..(b - 1) \cap ShownUnchanged = {}
<1>. SUFFICES ASSUME NEW s \in a..(b - 1), s \in ShownUnchanged PROVE FALSE
  OBVIOUS
<1>1. PICK k \in 1..Len(hinfo) : Shown(k) /\ hinfo[k].start <= s /\ s < End(hinfo[k])
  BY ShownMem
<1>2. hinfo[k].start \in Int /\ hinfo[k].size \in Int
  BY HinfoInputFacts
<1>. QED
  BY <1>1, <1>2 DEF End

(* Regions before hreg end by a and a..b-1 lies before H: every region is  *)
(* wholly before a or wholly after b.                                      *)
LEMMA AroundHreg ==
  ASSUME hinfo \in HashInfoInputs, hreg \in 1..Len(hinfo), NEW a \in Int, NEW b \in Int,
         \A k \in DOMAIN hinfo : k < hreg => End(hinfo[k]) <= a,
         b <= H.start
  PROVE  \A k \in 1..Len(hinfo) : End(hinfo[k]) <= a \/ b <= hinfo[k].start
<1>. SUFFICES ASSUME NEW k \in 1..Len(hinfo) PROVE End(hinfo[k]) <= a \/ b <= hinfo[k].start
  OBVIOUS
<1>1. DOMAIN hinfo = 1..Len(hinfo)
  BY InputsAssumption
<1>2. hinfo[k].start \in Int /\ hinfo[k].size \in Int
      /\ H.size > 0 /\ H.start \in Int /\ H.size \in Int
  BY HinfoInputFacts DEF H
<1>3. CASE k < hreg
  BY <1>1, <1>3
<1>4. CASE k = hreg
  BY <1>4 DEF H
<1>5. CASE hreg < k
  <2>1. End(H) <= hinfo[k].start
    BY <1>5, HinfoOrder DEF H
  <2>3. b <= hinfo[k].start
    BY <2>1, <1>2 DEF End
  <2>. QED
    BY <2>3
<1>. QED
  BY <1>3, <1>4, <1>5

(* A sector of the region being covered is shown unchanged exactly when  *)
(* that region is.                                                         *)
LEMMA RegionShown ==
  ASSUME hinfo \in HashInfoInputs, hreg \in 1..Len(hinfo), NEW s \in Int,
         H.start <= s, s < End(H)
  PROVE  s \in ShownUnchanged <=> Shown(hreg)
<1>1. Shown(hreg) => s \in ShownUnchanged
  BY ShownMem DEF H
<1>2. ASSUME NEW k \in 1..Len(hinfo), hinfo[k].start <= s, s < End(hinfo[k])
      PROVE  k = hreg
  <2>1. hinfo[k].start \in Int /\ hinfo[k].size \in Int /\ H.start \in Int /\ H.size \in Int
    BY HinfoInputFacts DEF H
  <2>2. k < hreg => End(hinfo[k]) <= H.start
    BY HinfoOrder DEF H
  <2>3. hreg < k => End(H) <= hinfo[k].start
    BY HinfoOrder DEF H
  <2>. QED
    BY <1>2, <2>1, <2>2, <2>3 DEF End
<1>3. s \in ShownUnchanged => Shown(hreg)
  BY <1>2, ShownMem
<1>. QED
  BY <1>1, <1>3

-----------------------------------------------------------------------------
(* A step of the walk.                                                     *)

IInv == TypeOK /\ HregOK /\ WalkInv /\ FixInv /\ DeltaInv

Walking == pc \in {"drain", "decide", "covered", "trail"}

(* What the earlier invariants give inside the walk. *)
LEMMA WalkFacts ==
  ASSUME TypeOK, HregOK, WalkInv, Walking
  PROVE  /\ curranges \in CurRangeInputs /\ hinfo \in HashInfoInputs
         /\ nranges \in Seq(Ext) /\ drange \in Ext
         /\ Alloc \subseteq Int /\ Covers(nranges) \subseteq Int
         /\ ~DrangeNull =>
              /\ di \in 1..Len(curranges) /\ curranges[di] \in Ext
              /\ drange.size > 0 /\ End(drange) = End(curranges[di])
         /\ pc \in {"drain", "decide", "covered"} =>
              /\ hreg \in 1..Len(hinfo)
              /\ H.start \in Int /\ H.size \in Int /\ H.size > 0
<1>1. curranges \in CurRangeInputs /\ hinfo \in HashInfoInputs
  BY DEF WalkInv, Walking
<1>2. nranges \in Seq(Ext) /\ drange \in Ext
  BY DEF TypeOK, Ext
<1>3. Alloc \subseteq Int /\ Covers(nranges) \subseteq Int
  BY <1>1, <1>2, CurExt, CoversInt DEF Alloc
<1>4. ~DrangeNull =>
        /\ di \in 1..Len(curranges) /\ curranges[di] \in Ext
        /\ drange.size > 0 /\ End(drange) = End(curranges[di])
  <2>. SUFFICES ASSUME ~DrangeNull PROVE di \in 1..Len(curranges) /\ curranges[di] \in Ext
    BY DEF WalkInv, Walking
  <2>1. di \in 1..Len(curranges)
    BY DEF TypeOK, DrangeNull
  <2>. QED
    BY <2>1, <1>1, CurExt
<1>5. pc \in {"drain", "decide", "covered"} =>
        /\ hreg \in 1..Len(hinfo)
        /\ H.start \in Int /\ H.size \in Int /\ H.size > 0
  <2>. SUFFICES ASSUME pc \in {"drain", "decide", "covered"}
               PROVE  hreg \in 1..Len(hinfo) /\ H.start \in Int /\ H.size \in Int /\ H.size > 0
    OBVIOUS
  <2>1. hreg \in 1..Len(hinfo)
    BY DEF HregOK
  <2>. QED
    BY <2>1, <1>1, HinfoInputFacts DEF H
<1>. QED
  BY <1>1, <1>2, <1>3, <1>4, <1>5

(* What the output holds ends before drange. *)
LEMMA OutputBefore ==
  ASSUME TypeOK, HregOK, WalkInv, DeltaInv, Walking, ~DrangeNull, nranges # <<>>
  PROVE  End(nranges[Len(nranges)]) <= drange.start
<1>1. nranges \in Seq(Ext) /\ drange \in Ext /\ Alloc \subseteq Int
  BY WalkFacts
<1>2. End(nranges[Len(nranges)]) - 1 \in Covers(nranges)
  BY <1>1, LastInCovers DEF DeltaInv, Walking
<1>3. Covers(nranges) \subseteq {s \in Alloc : s < drange.start}
  BY DEF DeltaInv, Processed, Walking
<1>4. nranges[Len(nranges)] \in Ext
  BY <1>1, ElementOfSeq, EmptySeq, LenProperties
<1>. QED
  BY <1>1, <1>2, <1>3, <1>4 DEF Ext, End

(* add_to_range() of a piece r of drange, with or without add_to_hashmap() *)
(* consuming its fixups: the output grows by r and stays ordered, and the  *)
(* fixups hashed away still lie in it.                                     *)
LEMMA EmitFacts ==
  ASSUME TypeOK, HregOK, WalkInv, DeltaInv, Walking, ~DrangeNull,
         NEW r \in Ext, r.size > 0, r.start = drange.start,
         nranges' = AddToRange(nranges, r),
         fixups' = fixups \/ fixups' = fixups \ Sectors(r)
  PROVE  /\ Covers(nranges') = Covers(nranges) \cup Sectors(r)
         /\ OutputOrdered(nranges')
         /\ fixups' \subseteq fixin /\ fixin \ fixups' \subseteq Covers(nranges')
<1>1. nranges \in Seq(Ext) /\ OutputOrdered(nranges)
  BY WalkFacts DEF DeltaInv, Walking
<1>2. nranges # <<>> => End(nranges[Len(nranges)]) <= r.start
  BY OutputBefore
<1>3. Covers(nranges') = Covers(nranges) \cup Sectors(r) /\ OutputOrdered(nranges')
  BY <1>1, <1>2, AddToRangeFacts
<1>4. fixups \subseteq fixin /\ fixin \ fixups \subseteq Covers(nranges)
  BY DEF DeltaInv, Walking
<1>. QED
  BY <1>3, <1>4

(* drange = COPYRANGE(drange->next): the rest of drange is processed. *)
LEMMA ProcessedAdvance ==
  ASSUME TypeOK, HregOK, WalkInv, DeltaInv, Walking, ~DrangeNull,
         AdvanceDrange, curranges' = curranges
  PROVE  Processed' = Processed \cup Sectors(drange)
<1>. DEFINE cr == curranges
<1>1. /\ cr \in CurRangeInputs /\ di \in 1..Len(cr) /\ cr[di] \in Ext /\ drange \in Ext
      /\ drange.size > 0 /\ End(drange) = End(cr[di])
  BY WalkFacts
<1>2. cr[di].start <= drange.start
  BY DEF DeltaInv, Walking
<1>0. Alloc' = Covers(cr)
  BY DEF Alloc
<1>3. Processed' = IF di + 1 <= Len(cr) THEN {s \in Covers(cr) : s < cr[di + 1].start}
                                       ELSE Covers(cr)
  <2>1. CASE di + 1 <= Len(cr)
    <3>1. ~DrangeNull' /\ drange' = cr[di + 1]
      BY <2>1 DEF DrangeNull, AdvanceDrange
    <3>. QED
      BY <2>1, <3>1, <1>0 DEF Processed
  <2>2. CASE ~(di + 1 <= Len(cr))
    <3>1. DrangeNull'
      BY <2>2, <1>1 DEF DrangeNull, AdvanceDrange
    <3>. QED
      BY <2>2, <3>1, <1>0 DEF Processed
  <2>. QED
    BY <2>1, <2>2
<1>4. Processed' = {s \in Covers(cr) : s < End(cr[di])}
  BY <1>1, <1>3, AllocNext
<1>5. PICK a \in Int : a = drange.start
  BY <1>1 DEF Ext
<1>6. PICK b \in Int : b = End(cr[di])
  BY <1>1 DEF Ext, End
<1>7. cr[di].start <= a /\ a <= b /\ b <= End(cr[di])
  BY <1>1, <1>2, <1>5, <1>6 DEF Ext, End
<1>8. {s \in Covers(cr) : s < b} = {s \in Covers(cr) : s < a} \cup a..(b - 1)
  BY <1>1, <1>7, AllocWithin
<1>9. Sectors(drange) = a..(b - 1)
  BY <1>1, <1>5, <1>6 DEF Sectors
<1>. QED
  BY <1>4, <1>5, <1>6, <1>8, <1>9 DEF Processed, Alloc

(* drange->start moves to b inside the same range: a..b-1 is processed. *)
LEMMA ProcessedWithin ==
  ASSUME TypeOK, HregOK, WalkInv, DeltaInv, Walking, ~DrangeNull,
         NEW b \in Int, drange.start <= b, b <= End(drange),
         di' = di, drange'.start = b, curranges' = curranges
  PROVE  Processed' = Processed \cup drange.start..(b - 1)
<1>. DEFINE cr == curranges
<1>1. /\ cr \in CurRangeInputs /\ di \in 1..Len(cr) /\ cr[di] \in Ext /\ drange \in Ext
      /\ End(drange) = End(cr[di])
  BY WalkFacts
<1>2. cr[di].start <= drange.start
  BY DEF DeltaInv, Walking
<1>3. PICK a \in Int : a = drange.start
  BY <1>1 DEF Ext
<1>4. cr[di].start <= a /\ a <= b /\ b <= End(cr[di])
  BY <1>1, <1>2, <1>3
<1>5. {s \in Covers(cr) : s < b} = {s \in Covers(cr) : s < a} \cup a..(b - 1)
  BY <1>1, <1>4, AllocWithin
<1>6. ~DrangeNull'
  BY DEF DrangeNull
<1>. QED
  BY <1>3, <1>5, <1>6 DEF Processed, Alloc

(* The walk leaves its inputs alone. *)
LEMMA InputsKept ==
  ASSUME UNCHANGED <<curranges, hinfo, modified, fixin>>
  PROVE  /\ Alloc' = Alloc
         /\ ShownUnchanged' = ShownUnchanged
         /\ \A k : Shown(k)' = Shown(k)
BY DEF Alloc, ShownUnchanged, Shown, Compared, HasFixup, DiskHash, ContentOf

(* Drain and Trail: the whole of drange goes to the output, and drange     *)
(* moves to the next range.                                                *)
LEMMA EmitAdvanceDelta ==
  ASSUME IInv, pc \in {"drain", "trail"}, ~DrangeNull,
         pc = "drain" => End(drange) <= H.start,
         EmitNew(drange), AdvanceDrange,
         UNCHANGED <<pc, curranges, hinfo, modified, fixin, newhashfile, saved, hreg, changed>>
  PROVE  DeltaInv'
<1>0. TypeOK /\ HregOK /\ WalkInv /\ DeltaInv /\ Walking
  BY DEF IInv, Walking
<1>1. /\ curranges \in CurRangeInputs /\ hinfo \in HashInfoInputs /\ drange \in Ext
      /\ di \in 1..Len(curranges) /\ drange.size > 0 /\ End(drange) = End(curranges[di])
  BY <1>0, WalkFacts
<1>2. /\ Covers(nranges') = Covers(nranges) \cup Sectors(drange)
      /\ OutputOrdered(nranges')
      /\ fixups' \subseteq fixin /\ fixin \ fixups' \subseteq Covers(nranges')
  <2>1. nranges' = AddToRange(nranges, drange)
        /\ (fixups' = fixups \/ fixups' = fixups \ Sectors(drange))
    BY DEF EmitNew, AddToHashmap
  <2>. QED
    BY <1>0, <1>1, <2>1, EmitFacts
<1>3. Processed' = Processed \cup Sectors(drange)
  BY <1>0, ProcessedAdvance
<1>4. Alloc' = Alloc /\ ShownUnchanged' = ShownUnchanged
  BY InputsKept
<1>5. Sectors(drange) \cap ShownUnchanged = {}
  <2>1. \A k \in DOMAIN hinfo : k < hreg => End(hinfo[k]) <= drange.start
    BY <1>0 DEF DeltaInv, Walking
  <2>2. PICK a \in Int : a = drange.start
    BY <1>1 DEF Ext
  <2>3. PICK b \in Int : b = End(drange)
    BY <1>1 DEF Ext, End
  <2>4. \A k \in 1..Len(hinfo) : End(hinfo[k]) <= a \/ b <= hinfo[k].start
    <3>1. CASE pc = "drain"
      <4>1. hreg \in 1..Len(hinfo) /\ b <= H.start
        BY <3>1, <2>3, <1>0 DEF HregOK
      <4>. QED
        BY <4>1, <2>1, <2>2, <1>1, AroundHreg
    <3>2. CASE pc = "trail"
      <4>. SUFFICES ASSUME NEW k \in 1..Len(hinfo) PROVE End(hinfo[k]) <= a
        OBVIOUS
      <4>1. hreg > Len(hinfo) /\ DOMAIN hinfo = 1..Len(hinfo) /\ hreg \in Nat
        BY <3>2, <1>0, <1>1, InputsAssumption DEF WalkInv, TypeOK
      <4>2. k < hreg
        BY <4>1
      <4>. QED
        BY <4>1, <4>2, <2>1, <2>2
    <3>. QED
      BY <3>1, <3>2
  <2>5. Sectors(drange) = a..(b - 1)
    BY <2>2, <2>3 DEF Sectors
  <2>. QED
    BY <2>4, <2>5, <1>1, NotShown
<1>6. Covers(nranges') = Processed' \ ShownUnchanged'
  <2>1. Covers(nranges) = Processed \ ShownUnchanged
    BY <1>0 DEF DeltaInv, Walking
  <2>. QED
    BY <2>1, <1>2, <1>3, <1>4, <1>5
<1>7. ~DrangeNull' =>
        /\ curranges'[di'].start <= drange'.start
        /\ \A k \in DOMAIN hinfo' : k < hreg' => End(hinfo'[k]) <= drange'.start
  <2>. SUFFICES ASSUME ~DrangeNull'
               PROVE  /\ curranges[di'].start <= drange'.start
                      /\ \A k \in DOMAIN hinfo : k < hreg => End(hinfo[k]) <= drange'.start
    OBVIOUS
  <2>1. drange'.start >= End(curranges[di]) /\ drange' = curranges[di'] /\ drange' \in Ranges
    BY <1>0, <1>1, AdvanceFacts DEF AdvanceDrange, DrangeNull
  <2>2. \A k \in DOMAIN hinfo : k < hreg => End(hinfo[k]) <= drange.start
    BY <1>0 DEF DeltaInv, Walking
  <2>3. \A k \in DOMAIN hinfo : End(hinfo[k]) \in Int
    BY <1>1, InputsAssumption, HinfoInputFacts DEF End
  <2>4. drange.start <= drange'.start /\ drange.start \in Int /\ drange'.start \in Int
    BY <2>1, <1>1 DEF Ext, End, Ranges
  <2>. QED
    BY <2>1, <2>2, <2>3, <2>4
<1>8. pc' \in {"drain", "decide"} /\ hreg' <= Len(hinfo') => \A s \in Processed' : s < H'.start
  <2>. SUFFICES ASSUME pc = "drain" PROVE \A s \in Processed' : s < H.start
    BY DEF H
  <2>1. \A s \in Processed : s < H.start
    BY <1>0 DEF DeltaInv, HregOK, Walking
  <2>2. H.start \in Int /\ End(drange) <= H.start
    BY <1>0, WalkFacts
  <2>. QED
    BY <2>1, <2>2, <1>3, <1>1 DEF Sectors, Ext, End
<1>. QED
  BY <1>2, <1>6, <1>7, <1>8 DEF DeltaInv

(* A step that leaves the inputs, the output and drange alone. *)
LEMMA Carry ==
  ASSUME UNCHANGED <<curranges, hinfo, modified, fixin, fixups, di, drange, nranges>>
  PROVE  /\ Processed' = Processed
         /\ ShownUnchanged' = ShownUnchanged
         /\ Covers(nranges') = Covers(nranges)
         /\ OutputOrdered(nranges') = OutputOrdered(nranges)
         /\ DrangeNull' = DrangeNull
BY InputsKept DEF Processed, Alloc, DrangeNull, OutputOrdered

(* Entry: nothing is processed and nothing is output. *)
LEMMA CallDelta ==
  ASSUME TypeOK, Call
  PROVE  DeltaInv'
<1>1. PICK cr \in CurRangeInputs, hl \in HashInfoInputs, fx \in FixupInputs :
        /\ curranges' = cr /\ hinfo' = hl /\ fixin' = fx /\ fixups' = fx
        /\ \/ /\ hreg' = 1 /\ di' = 1 /\ drange' = cr[1] /\ nranges' = <<>>
              /\ pc' \in {"drain", "trail"}
           \/ pc' = "error"
  BY DEF Call
<1>2. CASE pc' = "error"
  BY <1>2 DEF DeltaInv
<1>3. CASE hreg' = 1 /\ di' = 1 /\ drange' = cr[1] /\ nranges' = <<>>
  <2>1. Len(cr) >= 1 /\ ~DrangeNull'
    BY <1>1, <1>3, CurInputFacts DEF DrangeNull
  <2>2. Processed' = {}
    BY <1>1, <1>3, <2>1, AllocFirst DEF Processed, Alloc
  <2>3. Covers(nranges') = {} /\ OutputOrdered(nranges')
    BY <1>3 DEF Covers, OutputOrdered
  <2>4. \A k \in DOMAIN hinfo' : ~(k < hreg')
    <3>1. hl \in Seq(HashRegion)
      BY InputsAssumption
    <3>. QED
      BY <3>1, <1>1, <1>3
  <2>5. cr[1].start \in Int
    BY <2>1, CurExt DEF Ext
  <2>. QED
    BY <1>1, <1>3, <2>1, <2>2, <2>3, <2>4, <2>5 DEF DeltaInv
<1>. QED
  BY <1>1, <1>2, <1>3

(* The ranges ran out before a hash region: on to the trailing ranges. *)
LEMMA DrangeExhaustedDelta ==
  ASSUME IInv, DrangeExhausted
  PROVE  DeltaInv'
<1>1. /\ Processed' = Processed /\ ShownUnchanged' = ShownUnchanged
      /\ Covers(nranges') = Covers(nranges) /\ OutputOrdered(nranges') = OutputOrdered(nranges)
      /\ DrangeNull' = DrangeNull
  BY Carry DEF DrangeExhausted
<1>. QED
  BY <1>1 DEF DrangeExhausted, IInv, DeltaInv

(* Success: the saved fixup list is put back, and the ranges ran out. *)
LEMMA FinishDelta ==
  ASSUME IInv, Finish
  PROVE  DeltaInv'
<1>1. /\ Processed' = Processed /\ ShownUnchanged' = ShownUnchanged
      /\ DrangeNull' = DrangeNull
  BY InputsKept DEF Finish, Processed, Alloc, DrangeNull
<1>2. fixups' \subseteq fixin' /\ fixin' \ fixups' \subseteq Covers(nranges')
  <2>1. fixups \subseteq fixin /\ fixin \ fixups \subseteq Covers(nranges)
    BY DEF IInv, DeltaInv, Finish
  <2>2. newhashfile => saved = fixin
    BY DEF IInv, FixInv, Finish
  <2>. QED
    BY <2>1, <2>2 DEF Finish
<1>. QED
  BY <1>1, <1>2 DEF Finish, IInv, DeltaInv

(* The hash region ends at or before drange: skip it. *)
LEMMA SkipHregDelta ==
  ASSUME IInv, SkipHreg
  PROVE  DeltaInv'
<1>0. TypeOK /\ HregOK /\ WalkInv /\ DeltaInv /\ Walking /\ pc = "drain" /\ ~DrangeNull
  BY DEF IInv, Walking, SkipHreg
<1>1. /\ Processed' = Processed /\ ShownUnchanged' = ShownUnchanged
      /\ Covers(nranges') = Covers(nranges) /\ OutputOrdered(nranges') = OutputOrdered(nranges)
      /\ DrangeNull' = DrangeNull
  BY Carry DEF SkipHreg
<1>2. /\ hinfo \in HashInfoInputs /\ hreg \in 1..Len(hinfo) /\ drange \in Ext
      /\ H.start \in Int /\ H.size \in Int /\ H.size > 0
  BY <1>0, WalkFacts
<1>3. hreg' = hreg + 1 /\ hinfo' = hinfo /\ drange' = drange /\ End(H) <= drange.start
  BY DEF SkipHreg, NextHreg, Deallocated
<1>4. \A k \in DOMAIN hinfo : k < hreg + 1 => End(hinfo[k]) <= drange.start
  <2>1. \A k \in DOMAIN hinfo : k < hreg => End(hinfo[k]) <= drange.start
    BY <1>0 DEF DeltaInv, Walking
  <2>2. DOMAIN hinfo = 1..Len(hinfo)
    BY <1>2, InputsAssumption
  <2>. QED
    BY <2>1, <2>2, <1>2, <1>3 DEF H
<1>5. pc' = "drain" /\ hreg + 1 <= Len(hinfo) => \A s \in Processed : s < hinfo[hreg + 1].start
  <2>. SUFFICES ASSUME hreg + 1 <= Len(hinfo) PROVE \A s \in Processed : s < hinfo[hreg + 1].start
    OBVIOUS
  <2>1. \A s \in Processed : s < H.start
    BY <1>0, <1>2 DEF DeltaInv, Walking
  <2>2. End(H) <= hinfo[hreg + 1].start
    BY <1>2, HinfoOrder DEF H
  <2>3. Processed \subseteq Int
    BY <1>0, WalkFacts DEF Processed
  <2>4. hinfo[hreg + 1].start \in Int
    BY <1>2, HinfoInputFacts
  <2>. QED
    BY <2>1, <2>2, <2>3, <2>4, <1>2 DEF End
<1>. QED
  BY <1>0, <1>1, <1>3, <1>4, <1>5 DEF SkipHreg, GoLoop, NextHreg, DeltaInv, H

(* No more ranges inside the hash region: on to the next one. *)
LEMMA CoverDoneDelta ==
  ASSUME IInv, CoverDone
  PROVE  DeltaInv'
<1>0. TypeOK /\ HregOK /\ WalkInv /\ DeltaInv /\ Walking /\ pc = "covered"
  BY DEF IInv, Walking, CoverDone
<1>1. /\ Processed' = Processed /\ ShownUnchanged' = ShownUnchanged
      /\ Covers(nranges') = Covers(nranges) /\ OutputOrdered(nranges') = OutputOrdered(nranges)
      /\ DrangeNull' = DrangeNull
  BY Carry DEF CoverDone
<1>2. /\ hinfo \in HashInfoInputs /\ hreg \in 1..Len(hinfo) /\ drange \in Ext
      /\ H.start \in Int /\ H.size \in Int /\ H.size > 0
  BY <1>0, WalkFacts
<1>3. CASE DrangeNull
  BY <1>0, <1>1, <1>3 DEF CoverDone, DeltaInv
<1>4. CASE ~DrangeNull
  <2>1. hreg' = hreg + 1 /\ hinfo' = hinfo /\ drange' = drange /\ End(H) <= drange.start
        /\ pc' = IF hreg + 1 <= Len(hinfo) THEN "drain" ELSE "trail"
    BY <1>4 DEF CoverDone, NextHreg, GoLoop
  <2>2. \A k \in DOMAIN hinfo : k < hreg + 1 => End(hinfo[k]) <= drange.start
    <3>1. \A k \in DOMAIN hinfo : k < hreg => End(hinfo[k]) <= drange.start
      BY <1>0, <1>4 DEF DeltaInv, Walking
    <3>2. DOMAIN hinfo = 1..Len(hinfo)
      BY <1>2, InputsAssumption
    <3>. QED
      BY <3>1, <3>2, <1>2, <2>1 DEF H
  <2>3. hreg + 1 <= Len(hinfo) => \A s \in Processed : s < hinfo[hreg + 1].start
    <3>. SUFFICES ASSUME hreg + 1 <= Len(hinfo) PROVE \A s \in Processed : s < hinfo[hreg + 1].start
      OBVIOUS
    <3>1. \A s \in Processed : s < End(H)
      BY <1>0 DEF DeltaInv, Walking
    <3>2. End(H) <= hinfo[hreg + 1].start
      BY <1>2, HinfoOrder DEF H
    <3>3. Processed \subseteq Int
      BY <1>0, WalkFacts DEF Processed
    <3>4. hinfo[hreg + 1].start \in Int
      BY <1>2, HinfoInputFacts
    <3>. QED
      BY <3>1, <3>2, <3>3, <3>4, <1>2 DEF End
  <2>. QED
    BY <1>0, <1>1, <1>4, <2>1, <2>2, <2>3 DEF CoverDone, DeltaInv, H
<1>. QED
  BY <1>3, <1>4

(* The range overlaps the hash region: its head before the region goes   *)
(* to the output, and drange narrows to the region's start.                 *)
LEMMA HeadSplitDelta ==
  ASSUME IInv, HeadSplit
  PROVE  DeltaInv'
<1>0. TypeOK /\ HregOK /\ WalkInv /\ DeltaInv /\ Walking /\ pc = "drain" /\ ~DrangeNull
  BY DEF IInv, Walking, HeadSplit
<1>1. /\ curranges \in CurRangeInputs /\ hinfo \in HashInfoInputs /\ drange \in Ext
      /\ di \in 1..Len(curranges) /\ drange.size > 0 /\ End(drange) = End(curranges[di])
      /\ hreg \in 1..Len(hinfo) /\ H.start \in Int /\ H.size \in Int /\ H.size > 0
      /\ Covers(nranges) \subseteq Int /\ Alloc \subseteq Int
  BY <1>0, WalkFacts
<1>2. /\ curranges[di].start <= drange.start
      /\ \A k \in DOMAIN hinfo : k < hreg => End(hinfo[k]) <= drange.start
      /\ \A s \in Processed : s < H.start
  BY <1>0, <1>1 DEF DeltaInv, Walking
<1>. DEFINE head == [start |-> drange.start, size |-> H.start - drange.start]
<1>3. CASE drange.start < H.start /\ EmitNew(head) /\ drange' = Narrow(drange, H)
           /\ pc' = "decide"
           /\ UNCHANGED <<curranges, hinfo, modified, fixin, newhashfile, saved, hreg, di, changed>>
  <2>1. head \in Ext /\ head.size > 0 /\ head.start = drange.start
    <3>1. drange.start \in Int /\ H.start \in Int /\ drange.start < H.start
      BY <1>1, <1>3 DEF Ext
    <3>. QED
      BY <3>1 DEF Ext
  <2>2. /\ Covers(nranges') = Covers(nranges) \cup Sectors(head)
        /\ OutputOrdered(nranges')
        /\ fixups' \subseteq fixin /\ fixin \ fixups' \subseteq Covers(nranges')
    <3>1. nranges' = AddToRange(nranges, head)
          /\ (fixups' = fixups \/ fixups' = fixups \ Sectors(head))
      BY <1>3 DEF EmitNew, AddToHashmap
    <3>. QED
      BY <1>0, <2>1, <3>1, EmitFacts
  <2>3. PICK a \in Int : a = drange.start
    BY <1>1 DEF Ext
  <2>4. Sectors(head) = a..(H.start - 1) /\ a < H.start /\ H.start <= End(drange)
    <3>1. End(drange) > H.start
      BY DEF HeadSplit
    <3>2. H.start \in Int /\ End(drange) \in Int
      BY <1>1 DEF End, Ext
    <3>3. Sectors(head) = a..(H.start - 1)
      BY <2>3, <3>2 DEF Sectors, End
    <3>. QED
      BY <1>3, <2>3, <3>1, <3>2, <3>3
  <2>5. Processed' = Processed \cup a..(H.start - 1)
    <3>1. drange'.start = H.start /\ di' = di
      BY <1>3 DEF Narrow
    <3>2. /\ H.start \in Int /\ drange.start <= H.start /\ H.start <= End(drange)
          /\ curranges' = curranges
      BY <1>1, <1>3, <2>3, <2>4
    <3>3. Processed' = Processed \cup drange.start..(H.start - 1)
      BY <1>0, <3>1, <3>2, ProcessedWithin
    <3>. QED
      BY <3>3, <2>3
  <2>6. a..(H.start - 1) \cap ShownUnchanged = {}
    <3>1. \A k \in 1..Len(hinfo) : End(hinfo[k]) <= a \/ H.start <= hinfo[k].start
      <4>1. hinfo \in HashInfoInputs /\ hreg \in 1..Len(hinfo) /\ H.start \in Int
        BY <1>1
      <4>2. \A k \in DOMAIN hinfo : k < hreg => End(hinfo[k]) <= a
        BY <1>2, <2>3
      <4>3. H.start <= H.start
        BY <4>1
      <4>. QED
        BY <4>1, <4>2, <4>3, AroundHreg
    <3>. QED
      BY <3>1, <1>1, <2>3, NotShown
  <2>7. Alloc' = Alloc /\ ShownUnchanged' = ShownUnchanged
    BY <1>3, InputsKept
  <2>8. Covers(nranges') = Processed' \ ShownUnchanged'
    <3>1. Covers(nranges) = Processed \ ShownUnchanged
      BY <1>0 DEF DeltaInv, Walking
    <3>. QED
      BY <3>1, <2>2, <2>4, <2>5, <2>6, <2>7
  <2>9. /\ curranges'[di'].start <= drange'.start
        /\ \A k \in DOMAIN hinfo' : k < hreg' => End(hinfo'[k]) <= drange'.start
    <3>1. drange'.start = H.start
      BY <1>3 DEF Narrow
    <3>2. \A k \in DOMAIN hinfo : End(hinfo[k]) \in Int
      BY <1>1, InputsAssumption, HinfoInputFacts DEF End
    <3>3. curranges[di].start \in Int
      BY <1>1, CurExt DEF Ext
    <3>4. curranges'[di'].start = curranges[di].start
      BY <1>3
    <3>5. curranges[di].start <= H.start
      BY <3>3, <1>1, <1>2, <2>3, <2>4
    <3>6. \A k \in DOMAIN hinfo : k < hreg => End(hinfo[k]) <= H.start
      BY <3>2, <1>1, <1>2, <2>3, <2>4
    <3>. QED
      BY <3>1, <3>4, <3>5, <3>6, <1>3
  <2>10. \A s \in Processed' : s < H'.start
    <3>1. Processed \subseteq Int
      BY <1>1 DEF Processed
    <3>2. H' = H
      BY <1>3 DEF H
    <3>3. \A s \in Processed \cup a..(H.start - 1) : s < H.start
      BY <3>1, <1>2, <1>1, <2>3
    <3>. QED
      BY <3>2, <3>3, <2>5
  <2>. QED
    BY <1>3, <2>2, <2>8, <2>9, <2>10 DEF DeltaInv
<1>4. CASE pc' = "error"
  BY <1>4 DEF DeltaInv
<1>5. CASE drange.start >= H.start /\ pc' = "decide"
           /\ UNCHANGED <<curranges, hinfo, modified, fixin, newhashfile, fixups, saved, hreg, di,
                          drange, changed, nranges, nhinfo, nhstate>>
  <2>1. /\ Processed' = Processed /\ ShownUnchanged' = ShownUnchanged
        /\ Covers(nranges') = Covers(nranges) /\ OutputOrdered(nranges') = OutputOrdered(nranges)
        /\ DrangeNull' = DrangeNull
    BY <1>5, Carry
  <2>. QED
    BY <1>0, <1>2, <1>5, <2>1 DEF DeltaInv, H
<1>6. \/ drange.start < H.start /\ EmitNew(head) /\ drange' = Narrow(drange, H)
         /\ pc' = "decide"
         /\ UNCHANGED <<curranges, hinfo, modified, fixin, newhashfile, saved, hreg, di, changed>>
      \/ pc' = "error"
      \/ drange.start >= H.start /\ pc' = "decide"
         /\ UNCHANGED <<curranges, hinfo, modified, fixin, newhashfile, fixups, saved, hreg, di,
                        drange, changed, nranges, nhinfo, nhstate>>
  <2>1. drange.start \in Int /\ H.start \in Int
    BY <1>1 DEF Ext
  <2>2. CASE drange.start < H.start
    BY <2>2 DEF HeadSplit, Fail
  <2>3. CASE ~(drange.start < H.start)
    <3>1. drange.start >= H.start
      BY <2>1, <2>3
    <3>. QED
      BY <2>3, <3>1 DEF HeadSplit
  <2>. QED
    BY <2>2, <2>3
<1>. QED
  BY <1>3, <1>4, <1>5, <1>6

(* In "decide" the walk's test agrees with the spec's: the region is      *)
(* compared exactly when hash_free is set or one allocated range covers    *)
(* it.  Nothing before H.start is left unprocessed, so a range covering H  *)
(* must be drange's, and drange must start at H.                           *)
LEMMA CompareIffCompared ==
  ASSUME IInv, pc = "decide"
  PROVE  Compare <=> Compared(H)
<1>. DEFINE cr == curranges
<1>0. TypeOK /\ HregOK /\ WalkInv /\ DeltaInv /\ Walking /\ ~DrangeNull
  BY DEF IInv, Walking, WalkInv
<1>1. /\ cr \in CurRangeInputs /\ drange \in Ext /\ cr \in Seq(Ext)
      /\ di \in 1..Len(cr) /\ cr[di] \in Ext /\ drange.size > 0 /\ End(drange) = End(cr[di])
      /\ H.start \in Int /\ H.size \in Int /\ H.size > 0
      /\ Alloc \subseteq Int
  BY <1>0, WalkFacts, CurExt
<1>2. /\ cr[di].start <= drange.start
      /\ \A s \in Processed : s < H.start
      /\ H.start <= drange.start /\ drange.start < End(H)
  BY <1>0 DEF DeltaInv, Walking, WalkInv, HregOK
<1>3. drange.start \in Alloc
  <2>1. cr[di].start <= drange.start /\ drange.start < End(cr[di])
    BY <1>1, <1>2 DEF Ext, End
  <2>. QED
    BY <2>1, <1>1, CoversMem DEF Alloc, Ext
<1>4. Sectors(H) \cap Alloc # {}
  BY <1>1, <1>2, <1>3 DEF Sectors, End, Ext
<1>5. Compare => Compared(H)
  <2>. SUFFICES ASSUME Compare, ~HashFree
               PROVE  \E i \in DOMAIN cr : cr[i].start <= H.start /\ End(H) <= End(cr[i])
    BY <1>4 DEF Compared
  <2>1. drange.start = H.start /\ drange.size >= H.size
    BY DEF Compare
  <2>2. cr[di].start <= H.start /\ End(H) <= End(cr[di])
    BY <2>1, <1>1, <1>2 DEF End, Ext
  <2>. QED
    BY <2>2, <1>1
<1>6. Compared(H) => Compare
  <2>. SUFFICES ASSUME Compared(H), ~HashFree PROVE drange.start = H.start /\ drange.size >= H.size
    BY DEF Compare
  <2>1. PICK i \in 1..Len(cr) : cr[i].start <= H.start /\ End(H) <= End(cr[i])
    BY <1>1 DEF Compared
  <2>2. H.start \in Alloc
    <3>1. cr[i] \in Ext
      BY <1>1, CurExt
    <3>2. H.start < End(cr[i])
      <4>1. cr[i].start \in Int /\ cr[i].size \in Int
        BY <3>1 DEF Ext
      <4>2. End(H) <= End(cr[i])
        BY <2>1
      <4>. QED
        BY <4>1, <4>2, <1>1 DEF End
    <3>. QED
      BY <2>1, <3>2, <1>1, CoversMem DEF Alloc
  <2>3. drange.start = H.start
    <3>1. ~(H.start < drange.start)
      <4>. SUFFICES ASSUME H.start < drange.start PROVE FALSE
        OBVIOUS
      <4>1. H.start \in Processed
        BY <2>2, <1>0 DEF Processed
      <4>. QED
        BY <4>1, <1>2, <1>1
    <3>. QED
      BY <3>1, <1>2, <1>1 DEF Ext
  <2>4. i = di
    <3>1. cr[i] \in Ext /\ cr[i].size > 0
      BY <1>1, CurExt
    <3>2. cr[i].start <= H.start /\ H.start < End(cr[i])
      <4>1. cr[i].start \in Int /\ cr[i].size \in Int
        BY <3>1 DEF Ext
      <4>2. H.start \in Int /\ H.size \in Int /\ H.size > 0
        BY <1>1
      <4>3. cr[i].start <= H.start /\ End(H) <= End(cr[i])
        BY <2>1
      <4>. QED
        BY <4>1, <4>2, <4>3 DEF End
    <3>3. cr[di].start <= H.start /\ H.start < End(cr[di])
      BY <2>3, <1>1, <1>2 DEF End, Ext
    <3>4. i < di => H.start < cr[di].start
      BY <3>2, <1>1, AllocOrder
    <3>5. di < i => H.start >= End(cr[di])
      BY <3>2, <1>1, AllocOrder
    <3>. QED
      BY <3>3, <3>4, <3>5, <1>1, <3>1 DEF Ext, End
  <2>. QED
    BY <2>1, <2>3, <2>4, <1>1 DEF End, Ext
<1>. QED
  BY <1>5, <1>6

(* In "decide" the list being walked holds exactly the call's fixups that *)
(* fall in H: the ones hashed away lie in the output, before H.            *)
LEMMA FixupIff ==
  ASSUME IInv, pc = "decide"
  PROVE  HasFixup(fixups, H) <=> HasFixup(fixin, H)
<1>0. TypeOK /\ HregOK /\ WalkInv /\ DeltaInv /\ Walking
  BY DEF IInv, Walking
<1>1. /\ fixups \subseteq fixin /\ fixin \ fixups \subseteq Covers(nranges)
      /\ Covers(nranges) \subseteq Processed
      /\ \A s \in Processed : s < H.start
  BY <1>0 DEF DeltaInv, Walking, HregOK
<1>2. H.start \in Int /\ Processed \subseteq Int
  BY <1>0, WalkFacts DEF Processed
<1>3. fixin \cap Sectors(H) \subseteq fixups
  BY <1>1, <1>2 DEF Sectors
<1>. QED
  BY <1>1, <1>3 DEF HasFixup

(* The verdict on the hash region: 0 exactly when it is shown unchanged. *)
LEMMA DecideDelta ==
  ASSUME IInv, Decide
  PROVE  DeltaInv'
<1>0. TypeOK /\ HregOK /\ WalkInv /\ DeltaInv /\ Walking /\ pc = "decide"
  BY DEF IInv, Walking, Decide
<1>1. /\ Processed' = Processed /\ ShownUnchanged' = ShownUnchanged
      /\ Covers(nranges') = Covers(nranges) /\ OutputOrdered(nranges') = OutputOrdered(nranges)
      /\ DrangeNull' = DrangeNull
  <2>1. fixups' = fixups
    BY DEF Decide, AddGivenToHashmap
  <2>. QED
    BY <2>1, Carry DEF Decide
<1>2. pc' = "covered" /\ hreg' = hreg /\ hinfo' = hinfo
  BY DEF Decide
<1>3. \A s \in Processed : s < End(H)
  <2>1. \A s \in Processed : s < H.start
    BY <1>0 DEF DeltaInv, Walking, HregOK
  <2>2. H.start \in Int /\ H.size \in Int /\ H.size > 0 /\ Processed \subseteq Int
    BY <1>0, WalkFacts DEF Processed
  <2>. QED
    BY <2>1, <2>2 DEF End
<1>4. changed' = 0 <=> Shown(hreg)'
  <2>1. Shown(hreg)' = Shown(hreg)
    BY <1>2, InputsKept DEF Decide
  <2>2. Shown(hreg) = (Compared(H) /\ ~HasFixup(fixin, H) /\ H.hash = DiskHash(H, {}))
    BY DEF Shown, H
  <2>3. (Compare <=> Compared(H)) /\ (HasFixup(fixups, H) <=> HasFixup(fixin, H))
    BY <1>0, CompareIffCompared, FixupIff DEF IInv
  <2>4. CASE Compare /\ HasFixup(fixups, H) /\ changed' = 3
    <3>1. changed' # 0
      BY <2>4
    <3>2. ~Shown(hreg)
      BY <2>2, <2>3, <2>4, Zenon
    <3>. QED
      BY <3>1, <3>2, <2>1, Zenon
  <2>5. CASE Compare /\ ~HasFixup(fixups, H)
             /\ changed' = IF DiskHash(H, {}) = H.hash THEN 0 ELSE 1
    <3>1. changed' = 0 <=> DiskHash(H, {}) = H.hash
      BY <2>5
    <3>2. Shown(hreg) <=> DiskHash(H, {}) = H.hash
      BY <2>2, <2>3, <2>5, Zenon
    <3>. QED
      BY <3>1, <3>2, <2>1, Zenon
  <2>6. CASE ~Compare /\ changed' = 2
    <3>1. changed' # 0
      BY <2>6
    <3>2. ~Shown(hreg)
      BY <2>2, <2>3, <2>6, Zenon
    <3>. QED
      BY <3>1, <3>2, <2>1, Zenon
  <2>. QED
    BY <2>4, <2>5, <2>6 DEF Decide
<1>5. UNCHANGED <<curranges, di, drange, fixups, fixin>>
  BY DEF Decide, AddGivenToHashmap
<1>. QED
  BY <1>0, <1>1, <1>2, <1>3, <1>4, <1>5 DEF DeltaInv, H

(* One range inside the hash region: its part inside goes to the output   *)
(* unless the region is shown unchanged; drange moves past that part.      *)
LEMMA CoverStepDelta ==
  ASSUME IInv, CoverStep
  PROVE  DeltaInv'
<1>0. TypeOK /\ HregOK /\ WalkInv /\ DeltaInv /\ Walking /\ pc = "covered" /\ ~DrangeNull
      /\ drange.start < End(H)
  BY DEF IInv, Walking, CoverStep
<1>1. /\ curranges \in CurRangeInputs /\ hinfo \in HashInfoInputs /\ drange \in Ext
      /\ di \in 1..Len(curranges) /\ curranges[di] \in Ext
      /\ drange.size > 0 /\ End(drange) = End(curranges[di])
      /\ hreg \in 1..Len(hinfo) /\ H.start \in Int /\ H.size \in Int /\ H.size > 0
      /\ Alloc \subseteq Int
  BY <1>0, WalkFacts
<1>2. /\ curranges[di].start <= drange.start
      /\ \A k \in DOMAIN hinfo : k < hreg => End(hinfo[k]) <= drange.start
      /\ \A s \in Processed : s < End(H)
      /\ (changed = 0 <=> Shown(hreg))
      /\ H.start <= drange.start
  BY <1>0 DEF DeltaInv, Walking, WalkInv
<1>. DEFINE split == Splits(drange, H)
            cur == [start |-> drange.start,
                    size |-> IF split THEN End(H) - drange.start ELSE drange.size]
<1>3. CASE changed # 0 /\ IOFail /\ pc' = "error"
  BY <1>3 DEF DeltaInv
<1>4. CASE /\ IF changed # 0
                THEN /\ nranges' = AddToRange(nranges, cur)
                     /\ IF PerRangeHashes(changed) /\ newhashfile
                          THEN AddToHashmap(cur)
                          ELSE UNCHANGED <<nhinfo, nhstate, fixups>>
                ELSE UNCHANGED <<nranges, nhinfo, nhstate, fixups>>
           /\ Bump(split)
           /\ UNCHANGED <<pc, curranges, hinfo, modified, fixin, newhashfile,
                          saved, hreg, changed>>
  <2>1. PICK a \in Int : a = drange.start
    BY <1>1 DEF Ext
  <2>2. PICK e \in Int : e = IF split THEN End(H) ELSE End(drange)
    BY <1>1 DEF Ext, End
  <2>3. /\ cur \in Ext /\ cur.size > 0 /\ cur.start = drange.start
        /\ Sectors(cur) = a..(e - 1) /\ a < e /\ e <= End(H) /\ e <= End(drange)
        /\ H.start <= a
    <3>1. drange.start \in Int /\ drange.size \in Int /\ End(H) \in Int
      BY <1>1 DEF Ext, End
    <3>2. /\ a < e /\ e <= End(H) /\ e <= End(drange) /\ H.start <= a
          /\ cur.start = a /\ cur.size = e - a
      <4>0. drange.start < End(H) /\ H.start <= drange.start /\ drange.size > 0
        BY <1>0, <1>1, <1>2
      <4>1. CASE split
        <5>1. e = End(H) /\ End(drange) > End(H) /\ cur.size = End(H) - drange.start
          BY <4>1, <2>2 DEF Splits
        <5>. QED
          BY <5>1, <4>0, <3>1, <2>1 DEF End
      <4>2. CASE ~split
        <5>1. e = End(drange) /\ ~(End(drange) > End(H)) /\ cur.size = drange.size
          BY <4>2, <2>2 DEF Splits
        <5>. QED
          BY <5>1, <4>0, <3>1, <2>1 DEF End
      <4>. QED
        BY <4>1, <4>2
    <3>3. cur.start = a /\ cur.size = e - a
      BY <3>2
    <3>4. cur \in Ext
      BY <3>3, <2>1, <2>2 DEF Ext
    <3>5. Sectors(cur) = a..(e - 1)
      BY <3>3, <2>1, <2>2 DEF Sectors, End
    <3>6. cur.size > 0 /\ cur.start = drange.start
      BY <3>2, <3>3, <2>1, <2>2
    <3>. QED
      BY <3>2, <3>4, <3>5, <3>6
  <2>4. Processed' = Processed \cup a..(e - 1)
    <3>1. CASE split
      <4>1. drange'.start = End(H) /\ di' = di
        BY <3>1, <1>4 DEF Bump
      <4>2. e = End(H) /\ End(H) \in Int
        BY <3>1, <2>2, <1>1 DEF End
      <4>. QED
        BY <4>1, <4>2, <2>1, <2>3, <1>0, <1>4, ProcessedWithin
    <3>2. CASE ~split
      <4>1. AdvanceDrange
        BY <3>2, <1>4 DEF Bump
      <4>2. Sectors(drange) = a..(e - 1)
        BY <3>2, <2>1, <2>2 DEF Sectors
      <4>. QED
        BY <4>1, <4>2, <1>0, <1>4, ProcessedAdvance
    <3>. QED
      BY <3>1, <3>2
  <2>5. \A s \in a..(e - 1) : s \in ShownUnchanged <=> Shown(hreg)
    <3>. SUFFICES ASSUME NEW s \in a..(e - 1) PROVE s \in ShownUnchanged <=> Shown(hreg)
      OBVIOUS
    <3>1. H.start <= s /\ s < End(H)
      BY <2>3, <1>1 DEF End
    <3>. QED
      BY <3>1, <1>1, RegionShown
  <2>6. Alloc' = Alloc /\ ShownUnchanged' = ShownUnchanged /\ Shown(hreg)' = Shown(hreg)
    BY <1>4, InputsKept
  <2>7. Covers(nranges) = Processed \ ShownUnchanged /\ OutputOrdered(nranges)
        /\ fixups \subseteq fixin /\ fixin \ fixups \subseteq Covers(nranges)
    BY <1>0 DEF DeltaInv, Walking
  <2>8. /\ Covers(nranges') = Processed' \ ShownUnchanged'
        /\ OutputOrdered(nranges')
        /\ fixups' \subseteq fixin' /\ fixin' \ fixups' \subseteq Covers(nranges')
    <3>1. CASE changed # 0
      <4>1. nranges' = AddToRange(nranges, cur)
            /\ (fixups' = fixups \/ fixups' = fixups \ Sectors(cur))
        BY <3>1, <1>4 DEF AddToHashmap
      <4>2. /\ Covers(nranges') = Covers(nranges) \cup Sectors(cur)
            /\ OutputOrdered(nranges')
            /\ fixups' \subseteq fixin /\ fixin \ fixups' \subseteq Covers(nranges')
        BY <4>1, <2>3, <1>0, EmitFacts
      <4>3. a..(e - 1) \cap ShownUnchanged = {}
        BY <3>1, <2>5, <1>2
      <4>. QED
        BY <4>2, <4>3, <2>3, <2>4, <2>6, <2>7, <1>4
    <3>2. CASE changed = 0
      <4>1. nranges' = nranges /\ fixups' = fixups
        BY <3>2, <1>4
      <4>2. a..(e - 1) \subseteq ShownUnchanged
        BY <3>2, <2>5, <1>2
      <4>. QED
        BY <4>1, <4>2, <2>4, <2>6, <2>7, <1>4
    <3>. QED
      BY <3>1, <3>2
  <2>9. ~DrangeNull' =>
          /\ curranges'[di'].start <= drange'.start
          /\ \A k \in DOMAIN hinfo' : k < hreg' => End(hinfo'[k]) <= drange'.start
    <3>. SUFFICES ASSUME ~DrangeNull'
                 PROVE  /\ curranges[di'].start <= drange'.start
                        /\ \A k \in DOMAIN hinfo : k < hreg => End(hinfo[k]) <= drange'.start
      BY <1>4
    <3>1. \A k \in DOMAIN hinfo : End(hinfo[k]) \in Int
      BY <1>1, InputsAssumption, HinfoInputFacts DEF End
    <3>2. curranges[di].start \in Int
      BY <1>1 DEF Ext
    <3>3. CASE split
      <4>1. drange'.start = End(H) /\ di' = di /\ End(H) \in Int
        <5>1. drange'.start = End(H) /\ di' = di
          BY <3>3, <1>4 DEF Bump
        <5>2. End(H) \in Int
          BY <1>1 DEF End
        <5>. QED
          BY <5>1, <5>2
      <4>2. a <= End(H)
        BY <2>3, <1>1 DEF End
      <4>. QED
        BY <4>1, <4>2, <3>1, <3>2, <2>1, <1>2
    <3>4. CASE ~split
      <4>1. AdvanceDrange
        BY <3>4, <1>4 DEF Bump
      <4>2. drange'.start >= End(curranges[di]) /\ drange' = curranges[di'] /\ drange' \in Ranges
        <5>1. TypeOK /\ curranges \in CurRangeInputs /\ ~DrangeNull /\ curranges' = curranges
          BY <1>0, <1>1, <1>4
        <5>2. drange'.start >= End(curranges[di]) /\ drange' \in Ranges
          BY <4>1, <5>1, AdvanceFacts
        <5>3. drange' = curranges[di']
          BY <4>1, <5>1 DEF AdvanceDrange, DrangeNull
        <5>. QED
          BY <5>2, <5>3
      <4>3. a <= drange'.start /\ drange'.start \in Int
        BY <4>2, <2>1, <1>1 DEF Ext, End, Ranges
      <4>. QED
        BY <4>2, <4>3, <3>1, <2>1, <1>2
    <3>. QED
      BY <3>3, <3>4
  <2>10. \A s \in Processed' : s < End(H')
    <3>0. Processed \subseteq Int
      BY <1>1 DEF Processed
    <3>1. End(H) \in Int
      BY <1>1 DEF End
    <3>2. End(H') = End(H)
      BY <1>4 DEF H
    <3>3. \A s \in Processed : s < End(H)
      BY <1>2
    <3>4. \A s \in a..(e - 1) : s < End(H)
      BY <2>3, <2>1, <2>2, <3>1
    <3>. QED
      BY <3>2, <3>3, <3>4, <2>4
  <2>11. changed' = 0 <=> Shown(hreg)'
    <3>1. changed' = changed /\ hreg' = hreg
      BY <1>4
    <3>. QED
      BY <3>1, <1>2, <2>6, Zenon
  <2>. QED
    BY <1>0, <1>4, <2>8, <2>9, <2>10, <2>11 DEF DeltaInv
<1>. QED
  BY <1>3, <1>4 DEF CoverStep, Fail

-----------------------------------------------------------------------------
(* Delta exactness.                                                        *)

LEMMA DeltaStep == IInv /\ [Next]_vars => DeltaInv'
<1>. SUFFICES ASSUME IInv, [Next]_vars PROVE DeltaInv'
  OBVIOUS
<1>0. TypeOK
  BY DEF IInv
<1>1. CASE UNCHANGED vars
  <2>1. /\ pc' = pc /\ curranges' = curranges /\ hinfo' = hinfo
        /\ modified' = modified /\ fixin' = fixin /\ fixups' = fixups
        /\ hreg' = hreg /\ di' = di /\ drange' = drange
        /\ changed' = changed /\ nranges' = nranges
    BY <1>1 DEF vars
  <2>2. /\ DrangeNull' = DrangeNull /\ Alloc' = Alloc /\ H' = H
    BY <2>1 DEF DrangeNull, Alloc, H
  <2>3. Processed' = Processed
    BY <2>1, <2>2 DEF Processed
  <2>4. ShownUnchanged' = ShownUnchanged
    BY <2>1, InputsKept
  <2>5. Shown(hreg)' = Shown(hreg)
    BY <2>1, <2>2 DEF Shown, Compared, HasFixup, DiskHash, ContentOf
  <2>6. /\ Covers(nranges)' = Covers(nranges)
        /\ OutputOrdered(nranges)' = OutputOrdered(nranges)
    BY <2>1
  <2>. QED
    BY <2>1, <2>2, <2>3, <2>4, <2>5, <2>6 DEF IInv, DeltaInv
<1>2. CASE Call
  BY <1>0, <1>2, CallDelta
<1>3. CASE Drain \/ Trail
  <2>1. CASE pc' = "error"
    BY <2>1 DEF DeltaInv
  <2>2. CASE pc' # "error"
    <3>1. /\ pc \in {"drain", "trail"} /\ ~DrangeNull
          /\ pc = "drain" => End(drange) <= H.start
          /\ EmitNew(drange) /\ AdvanceDrange
          /\ UNCHANGED <<pc, curranges, hinfo, modified, fixin, newhashfile, saved, hreg, changed>>
      BY <1>3, <2>2 DEF Drain, Trail, Fail
    <3>. QED
      BY <3>1, EmitAdvanceDelta
  <2>. QED
    BY <2>1, <2>2
<1>4. CASE DecideFails
  BY <1>4 DEF DecideFails, Fail, DeltaInv
<1>. QED
  BY <1>1, <1>2, <1>3, <1>4, DrangeExhaustedDelta, SkipHregDelta, HeadSplitDelta,
     DecideDelta, CoverStepDelta, CoverDoneDelta, FinishDelta DEF Next, Walk

(* Delta exactness of hashmap_compute_delta(), for every partition, block *)
(* size and input readhashinfo() and the caller may supply: on success its *)
(* output ranges cover exactly the allocated sectors that no compared,     *)
(* fixup-free, matching hash region shows unchanged, each non-empty and    *)
(* each ending before the next begins, so add_to_range() coalesced every   *)
(* pair of adjacent ranges.                                                 *)
THEOREM DeltaAlwaysExact == Spec => []DeltaExact
<1>1. Init => IInv
  BY InitTypeOK DEF Init, IInv, HregOK, WalkInv, FixInv, DeltaInv
<1>2. IInv /\ [Next]_vars => IInv'
  BY TypeOKStep, HregOKStep, WalkInvStep, FixInvStep, DeltaStep DEF IInv
<1>3. IInv => DeltaExact
  BY DEF IInv, DeltaInv, DeltaExact, Processed, OutputOrdered
<1>. QED
  BY <1>1, <1>2, <1>3, PTL DEF Spec

-----------------------------------------------------------------------------
(* The output list only grows at its tail.                                 *)

(* The step of OutputAppendOnly. *)
AppendStep ==
  pc' # "error" =>
    /\ Covers(nranges) \subseteq Covers(nranges')
    /\ \A s \in Covers(nranges') \ Covers(nranges) :
         \A t \in Covers(nranges) : t < s

(* Before the call the output list is empty. *)
IdleEmpty == pc = "idle" => nranges = <<>>

AInv == IInv /\ IdleEmpty

(* No step of hashmap_compute_delta returns to before its call. *)
LEMMA IdleEmptyStep == IdleEmpty /\ [Next]_vars => IdleEmpty'
<1>. SUFFICES ASSUME IdleEmpty, [Next]_vars PROVE IdleEmpty'
  OBVIOUS
<1>1. CASE UNCHANGED vars
  BY <1>1 DEF vars, IdleEmpty
<1>2. CASE Call
  BY <1>2 DEF Call, IdleEmpty
<1>3. CASE Walk
  <2>1. pc' # "idle"
    BY <1>3 DEF Walk, Drain, DrangeExhausted, SkipHreg, HeadSplit, Decide, DecideFails,
                CoverStep, CoverDone, Trail, Finish, Fail, GoLoop
  <2>. QED
    BY <2>1 DEF IdleEmpty
<1>. QED
  BY <1>1, <1>2, <1>3 DEF Next

(* add_to_range() of a piece r starting at drange: what it adds lies past *)
(* all the output, which ends before drange.                               *)
LEMMA AppendEmit ==
  ASSUME TypeOK, HregOK, WalkInv, DeltaInv, Walking, ~DrangeNull,
         NEW r \in Ext, r.size > 0, r.start = drange.start,
         nranges' = AddToRange(nranges, r)
  PROVE  AppendStep
<1>1. nranges \in Seq(Ext) /\ OutputOrdered(nranges) /\ Covers(nranges) \subseteq Int
  BY WalkFacts DEF DeltaInv, Walking
<1>2. nranges # <<>> => End(nranges[Len(nranges)]) <= r.start
  BY OutputBefore
<1>3. Covers(nranges') = Covers(nranges) \cup Sectors(r)
  BY <1>1, <1>2, AddToRangeFacts
<1>4. \A t \in Covers(nranges) : t < r.start
  BY DEF DeltaInv, Processed, Walking
<1>5. \A s \in Sectors(r) : s \in Int /\ r.start <= s
  BY DEF Sectors, End, Ext
<1>6. Covers(nranges) \subseteq Covers(nranges')
  BY <1>3
<1>7. ASSUME NEW s \in Covers(nranges') \ Covers(nranges), NEW t \in Covers(nranges)
      PROVE  t < s
  <2>1. s \in Sectors(r) /\ t \in Int /\ t < r.start
    BY <1>1, <1>3, <1>4
  <2>2. s \in Int /\ r.start <= s /\ r.start \in Int
    BY <2>1, <1>5 DEF Ext
  <2>. QED
    BY <2>1, <2>2
<1>. QED
  BY <1>6, <1>7 DEF AppendStep

(* Every step of the walk keeps the output or appends past it. *)
LEMMA AppendStepHolds == AInv /\ [Next]_vars => [AppendStep]_vars
<1>. SUFFICES ASSUME AInv, [Next]_vars, pc' # "error" PROVE AppendStep
  BY DEF AppendStep
<1>0. TypeOK /\ HregOK /\ WalkInv /\ DeltaInv
  BY DEF AInv, IInv
<1>1. CASE nranges' = nranges
  BY <1>1 DEF AppendStep
<1>2. CASE UNCHANGED vars \/ DrangeExhausted \/ SkipHreg \/ Decide \/ DecideFails
           \/ CoverDone \/ Finish
  BY <1>2, <1>1 DEF vars, DrangeExhausted, SkipHreg, Decide, DecideFails, Fail,
                    CoverDone, Finish
<1>3. CASE Call
  BY <1>3, <1>1 DEF Call, AInv, IdleEmpty
<1>4. CASE Drain \/ Trail
  <2>1. /\ Walking /\ ~DrangeNull
        /\ nranges' = AddToRange(nranges, drange)
    BY <1>4 DEF Drain, Trail, Fail, EmitNew, Walking
  <2>2. drange \in Ext /\ drange.size > 0
    BY <1>0, <2>1, WalkFacts
  <2>. QED
    BY <1>0, <2>1, <2>2, AppendEmit
<1>5. CASE HeadSplit
  <2>. DEFINE head == [start |-> drange.start, size |-> H.start - drange.start]
  <2>1. /\ Walking /\ ~DrangeNull /\ pc = "drain"
        /\ (nranges' = nranges \/ (drange.start < H.start
                                  /\ nranges' = AddToRange(nranges, head)))
    BY <1>5 DEF HeadSplit, Fail, EmitNew, Walking
  <2>2. drange \in Ext /\ H.start \in Int
    BY <1>0, <2>1, WalkFacts
  <2>3. CASE drange.start < H.start /\ nranges' = AddToRange(nranges, head)
    <3>1. head \in Ext /\ head.size > 0 /\ head.start = drange.start
      BY <2>2, <2>3 DEF Ext
    <3>. QED
      BY <1>0, <2>1, <2>3, <3>1, AppendEmit
  <2>. QED
    BY <2>1, <2>3, <1>1
<1>6. CASE CoverStep
  <2>. DEFINE split == Splits(drange, H)
              cur == [start |-> drange.start,
                      size |-> IF split THEN End(H) - drange.start ELSE drange.size]
  <2>1. /\ Walking /\ ~DrangeNull /\ pc = "covered" /\ drange.start < End(H)
        /\ (nranges' = nranges \/ nranges' = AddToRange(nranges, cur))
    BY <1>6 DEF CoverStep, Fail, Walking
  <2>2. drange \in Ext /\ drange.size > 0 /\ H.start \in Int /\ H.size \in Int
    BY <1>0, <2>1, WalkFacts
  <2>3. cur \in Ext /\ cur.size > 0 /\ cur.start = drange.start
    BY <2>1, <2>2 DEF Splits, End, Ext
  <2>. QED
    BY <1>0, <1>1, <2>1, <2>3, AppendEmit
<1>. QED
  BY <1>1, <1>2, <1>3, <1>4, <1>5, <1>6 DEF Next, Walk

(* Append-only output of hashmap_compute_delta(), for every input: until  *)
(* an error no step drops a sector from the delta list, and each sector a  *)
(* step adds through add_to_range() lies past every sector already in it.  *)
THEOREM OutputAlwaysAppends == Spec => OutputAppendOnly
<1>1. Init => AInv
  BY InitTypeOK DEF Init, AInv, IdleEmpty, IInv, HregOK, WalkInv, FixInv, DeltaInv
<1>2. AInv /\ [Next]_vars => AInv'
  BY TypeOKStep, HregOKStep, WalkInvStep, FixInvStep, DeltaStep, IdleEmptyStep
  DEF AInv, IInv
<1>3. AInv /\ [Next]_vars => [AppendStep]_vars
  BY AppendStepHolds
<1>. QED
  BY <1>1, <1>2, <1>3, PTL DEF Spec, OutputAppendOnly, AppendStep
=============================================================================
