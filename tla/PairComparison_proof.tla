------------------------ MODULE PairComparison_proof ------------------------
(***************************************************************************)
(* Proofs about the comparison of one pair of signatures.                  *)
(*                                                                         *)
(* Loading: however many segments and frames a file claims, the bit reader *)
(* stays inside it, and the segments of what is loaded are spans of frames *)
(* (LoaderInv).  Searching: every similar pair of segments is looked at,   *)
(* and the best match is the best of what all of them led to (SearchInv).  *)
(* Between the two, what the frames of two similar segments share is among *)
(* their candidates (SharedInv), by what the vote and the choice of cells  *)
(* compute.                                                                *)
(***************************************************************************)
EXTENDS PairComparison, FiniteSetTheorems, WellFoundedInduction, TLAPS

Sorted == \A i, j \in DOMAIN fine : i < j => fine[i].pts <= fine[j].pts
Span(n) == \A i \in DOMAIN fine :
             i \in linked[n].first .. linked[n].last <=> Covers(coarse[n], fine[i])

LoaderType ==
  /\ file \in Files
  /\ phase \in {"waiting", "opening", "header", "coarse", "fine", "linking", "loaded", "rejected"}
  /\ pos \in Nat
  /\ coarse \in Seq(Coarse)
  /\ fine \in Seq(Fine)
  /\ linked \in Seq([first : Nat, last : Nat])

Empty == pos = 0 /\ coarse = <<>> /\ fine = <<>> /\ linked = <<>>
Small == 8 * (file.bytes + PADDING) <= INT_MAX

\* Where the bit reader is, of what the header claims.
Reading ==
  /\ pos <= 8 * file.bytes
  /\ phase = "opening" => Empty
  /\ phase = "header" => Empty /\ Small /\ 274 <= 8 * file.bytes
  /\ phase = "coarse" => /\ HeaderIsGood /\ Small /\ fine = <<>> /\ linked = <<>>
                         /\ Len(coarse) <= file.segments
                         /\ pos = 274 + 1344 * Len(coarse)
  /\ phase = "fine" => /\ HeaderIsGood /\ Small /\ linked = <<>>
                       /\ Len(fine) <= file.frames
                       /\ pos = 274 + 1344 * file.segments + 1 + 689 * Len(fine)

Linking ==
  /\ phase \in {"linking", "loaded"} => Sorted /\ \A n \in DOMAIN linked : Span(n)
  /\ phase = "linking" => Len(linked) <= Len(coarse)
  /\ phase = "loaded" => Len(linked) = Len(coarse)

LoaderInv == LoaderType /\ Reading /\ Linking

-----------------------------------------------------------------------------

\* The fields of a file.
LEMMA FileFields ==
  ASSUME NEW f \in Files
  PROVE  /\ f.bytes \in Nat /\ f.segments \in Nat /\ f.frames \in Nat
         /\ f.coarse \in Seq(Coarse) /\ f.fine \in Seq(Fine)
         /\ Backed(f) => f.segments <= Len(f.coarse) /\ f.frames <= Len(f.fine)
BY FilesAssumption DEF File

\* The counts are backed: what is read for them is in the file.
LEMMA BackedReading ==
  ASSUME NEW f \in Files, Backed(f)
  PROVE  274 + f.segments * 1344 + 1 + f.frames * 689 <= 8 * f.bytes
<1> DEFINE need == 274 + f.segments * 1344 + 1 + f.frames * 689
<1>1. f.bytes \in Nat /\ f.segments \in Nat /\ f.frames \in Nat
  BY FileFields
<1>2. need \in Nat
  BY <1>1
<1>3. (need + 7) \div 8 <= f.bytes
  BY DEF Backed, NeedBits, SIG_HEADER_BITS, SIG_COARSE_BITS, SIG_FLAG_BITS, SIG_FINE_BITS
<1>4. QED
  <2> HIDE DEF need
  <2>1. need <= 8 * f.bytes BY <1>1, <1>2, <1>3
  <2> QED BY <2>1 DEF need

\* One segment more, the flag and one frame more are inside what is backed.
LEMMA RoomLeft ==
  ASSUME NEW f \in Files, Backed(f)
  PROVE  /\ \A k \in Nat : k < f.segments => 274 + 1344 * k + 1344 <= 8 * f.bytes
         /\ 274 + 1344 * f.segments + 1 <= 8 * f.bytes
         /\ \A k \in Nat : k < f.frames =>
              274 + 1344 * f.segments + 1 + 689 * k + 689 <= 8 * f.bytes
<1> DEFINE segs == f.segments
<1> DEFINE frames == f.frames
<1> DEFINE bits == 8 * f.bytes
<1>1. segs \in Nat /\ frames \in Nat /\ bits \in Nat
  BY FileFields
<1>2. 274 + segs * 1344 + 1 + frames * 689 <= bits
  BY BackedReading
<1> SUFFICES /\ \A k \in Nat : k < segs => 274 + 1344 * k + 1344 <= bits
             /\ 274 + 1344 * segs + 1 <= bits
             /\ \A k \in Nat : k < frames => 274 + 1344 * segs + 1 + 689 * k + 689 <= bits
  OBVIOUS
<1> HIDE DEF segs, frames, bits
<1>3. ASSUME NEW k \in Nat, k < segs PROVE 274 + 1344 * k + 1344 <= bits
  BY <1>1, <1>2, <1>3
<1>4. 274 + 1344 * segs + 1 <= bits
  BY <1>1, <1>2
<1>5. ASSUME NEW k \in Nat, k < frames PROVE 274 + 1344 * segs + 1 + 689 * k + 689 <= bits
  BY <1>1, <1>2, <1>5
<1> QED BY <1>3, <1>4, <1>5

LEMMA LoaderInit == Init => LoaderInv
<1>1. ASSUME Init PROVE LoaderInv
  <2>1. LoaderType
    BY <1>1 DEF Init, LoaderType
  <2>2. Reading
    BY <1>1, FileFields DEF Init, Reading
  <2>3. Linking
    BY <1>1 DEF Init, Linking
  <2> QED BY <2>1, <2>2, <2>3 DEF LoaderInv
<1> QED BY <1>1

LEMMA OpenStep ==
  ASSUME LoaderInv, Open PROVE LoaderInv'
<1>1. PICK f \in Files : Import(f)
  BY DEF Open
<1>2. /\ file' = f /\ phase' = "opening" /\ pos' = 0
      /\ coarse' = <<>> /\ fine' = <<>> /\ linked' = <<>>
  BY <1>1 DEF Import
<1>3. LoaderType'
  BY <1>2 DEF LoaderType
<1>4. Reading'
  BY <1>2, FileFields DEF Reading, Empty
<1>5. Linking'
  BY <1>2 DEF Linking
<1> QED BY <1>3, <1>4, <1>5 DEF LoaderInv

LEMMA MeasureStep ==
  ASSUME LoaderInv, Measure PROVE LoaderInv'
<1>1. /\ phase = "opening" /\ Empty
      /\ UNCHANGED <<file, pos, coarse, fine, linked>>
      /\ phase' \in {"header", "rejected"}
      /\ phase' = "header" => /\ file.bytes <= (INT_MAX - PADDING * 8) \div 8
                              /\ file.bytes >= (SIG_HEADER_BITS + 7) \div 8
  BY DEF Measure, In, Enter, Reject, LoaderInv, Reading
<1>2. LoaderType'
  BY <1>1 DEF LoaderInv, LoaderType
<1>3. phase' = "header" => Small /\ 274 <= 8 * file.bytes
  BY <1>1, FileFields DEF Small, INT_MAX, PADDING, SIG_HEADER_BITS, LoaderInv, LoaderType
<1>4. Reading'
  BY <1>1, <1>3 DEF LoaderInv, Reading, Empty, Small
<1>5. Linking'
  BY <1>1 DEF Linking
<1> QED BY <1>2, <1>4, <1>5 DEF LoaderInv

LEMMA ReadHeaderStep ==
  ASSUME LoaderInv, ReadHeader PROVE LoaderInv'
<1>1. /\ phase = "header" /\ pos = 0 /\ pos' = 274
      /\ coarse = <<>> /\ fine = <<>> /\ linked = <<>>
      /\ UNCHANGED <<file, coarse, fine, linked>>
      /\ phase' \in {"coarse", "rejected"}
      /\ phase' = "coarse" => HeaderIsGood
      /\ Small /\ 274 <= 8 * file.bytes
  BY DEF ReadHeader, In, Enter, Reject, LoaderInv, Reading, Empty, HeaderRead
<1>2. LoaderType'
  BY <1>1 DEF LoaderInv, LoaderType
<1>3. HeaderIsGood' = HeaderIsGood /\ Small' = Small
  BY <1>1 DEF HeaderIsGood, Backed, NeedBits, Small
<1>4. file \in Files /\ Len(coarse) = 0
  BY <1>1 DEF LoaderInv, LoaderType
<1>5. Reading'
  BY <1>1, <1>3, <1>4, FileFields DEF Reading
<1>6. Linking'
  BY <1>1 DEF Linking
<1> QED BY <1>2, <1>5, <1>6 DEF LoaderInv

LEMMA ReadCoarseStep ==
  ASSUME LoaderInv, ReadCoarse PROVE LoaderInv'
<1>1. /\ phase = "coarse" /\ HeaderIsGood /\ Small /\ fine = <<>> /\ linked = <<>>
      /\ Len(coarse) < file.segments
      /\ pos = 274 + 1344 * Len(coarse) /\ pos' = pos + 1344
      /\ UNCHANGED <<file, fine, linked>>
      /\ \/ coarse' = Append(coarse, file.coarse[Len(coarse) + 1]) /\ phase' = phase
         \/ coarse' = coarse /\ phase' = "rejected"
  BY DEF ReadCoarse, In, Enter, Reject, LoaderInv, Reading, CoarseRead
<1>2. file \in Files /\ coarse \in Seq(Coarse) /\ Len(coarse) \in Nat
  BY DEF LoaderInv, LoaderType
<1>3. Backed(file)
  BY <1>1 DEF HeaderIsGood
<1>4. /\ 274 + file.segments * 1344 + 1 + file.frames * 689 <= 8 * file.bytes
      /\ file.coarse[Len(coarse) + 1] \in Coarse
  BY <1>1, <1>2, <1>3, BackedReading, FileFields
<1>4a. coarse' \in Seq(Coarse) /\ pos' \in Nat /\ phase' \in {"coarse", "rejected"}
  BY <1>1, <1>2, <1>4
<1>5. LoaderType'
  BY <1>1, <1>2, <1>4a DEF LoaderInv, LoaderType
<1>6. HeaderIsGood' = HeaderIsGood /\ Small' = Small
  BY <1>1 DEF HeaderIsGood, Backed, NeedBits, Small
<1>7. phase' = "coarse" => Len(coarse') = Len(coarse) + 1
  BY <1>1, <1>2
<1>7a. file.segments \in Nat /\ file.frames \in Nat /\ file.bytes \in Nat
  BY <1>2, FileFields
<1>7b. pos' <= 8 * file.bytes
  <2>1. 8 * file.bytes \in Nat
    BY <1>7a
  <2>1a. \A k \in Nat : k < file.segments => 274 + 1344 * k + 1344 <= 8 * file.bytes
    BY <1>2, <1>3, RoomLeft
  <2>2. 274 + 1344 * Len(coarse) + 1344 <= 8 * file.bytes
    BY <1>1, <1>2, <2>1a
  <2>3. pos' = 274 + 1344 * Len(coarse) + 1344
    BY <1>1
  <2> QED BY <2>2, <2>3
<1>7c. phase' = "coarse" => Len(coarse') <= file.segments /\ pos' = 274 + 1344 * Len(coarse')
  BY <1>1, <1>2, <1>7, <1>7a
<1>8. Reading'
  BY <1>1, <1>4a, <1>6, <1>7b, <1>7c DEF Reading
<1>9. Linking'
  BY <1>1 DEF Linking
<1> QED BY <1>5, <1>8, <1>9 DEF LoaderInv

LEMMA ReadFlagStep ==
  ASSUME LoaderInv, ReadFlag PROVE LoaderInv'
<1>1. /\ phase = "coarse" /\ HeaderIsGood /\ Small /\ fine = <<>> /\ linked = <<>>
      /\ Len(coarse) = file.segments
      /\ pos = 274 + 1344 * Len(coarse) /\ pos' = pos + 1
      /\ UNCHANGED <<file, coarse, fine, linked>>
      /\ phase' \in {"fine", "rejected"}
  BY DEF ReadFlag, In, Enter, Reject, LoaderInv, Reading, SIG_FLAG_BITS
<1>2. file \in Files /\ Len(fine) = 0 /\ pos \in Nat
  BY <1>1 DEF LoaderInv, LoaderType
<1>3. Backed(file)
  BY <1>1 DEF HeaderIsGood
<1>4. 274 + file.segments * 1344 + 1 + file.frames * 689 <= 8 * file.bytes
  BY <1>2, <1>3, BackedReading
<1>5. LoaderType'
  BY <1>1, <1>2 DEF LoaderInv, LoaderType
<1>6. HeaderIsGood' = HeaderIsGood /\ Small' = Small
  BY <1>1 DEF HeaderIsGood, Backed, NeedBits, Small
<1>7. file.segments \in Nat /\ file.frames \in Nat /\ file.bytes \in Nat
  BY <1>2, FileFields
<1>7a. /\ pos' <= 8 * file.bytes /\ Len(fine) <= file.frames
       /\ pos' = 274 + 1344 * file.segments + 1 + 689 * Len(fine)
  <2>1. 8 * file.bytes \in Nat
    BY <1>7
  <2>2. 274 + 1344 * file.segments + 1 <= 8 * file.bytes
    BY <1>2, <1>3, RoomLeft
  <2>3. pos' = 274 + 1344 * file.segments + 1
    BY <1>1
  <2>4. 274 + 1344 * file.segments + 1 = 274 + 1344 * file.segments + 1 + 689 * 0
    BY <1>7
  <2> QED BY <2>2, <2>3, <2>4, <1>2, <1>7
<1>8. Reading'
  BY <1>1, <1>6, <1>7a DEF Reading
<1>9. Linking'
  BY <1>1 DEF Linking
<1> QED BY <1>5, <1>8, <1>9 DEF LoaderInv

LEMMA ReadFineStep ==
  ASSUME LoaderInv, ReadFine PROVE LoaderInv'
<1>1. /\ phase = "fine" /\ HeaderIsGood /\ Small /\ linked = <<>>
      /\ Len(fine) < file.frames
      /\ pos = 274 + 1344 * file.segments + 1 + 689 * Len(fine) /\ pos' = pos + 689
      /\ UNCHANGED <<file, coarse, linked>>
      /\ \/ fine' = Append(fine, file.fine[Len(fine) + 1]) /\ phase' = phase
         \/ fine' = fine /\ phase' = "rejected"
  BY DEF ReadFine, In, Enter, Reject, LoaderInv, Reading, FineRead
<1>2. file \in Files /\ fine \in Seq(Fine) /\ Len(fine) \in Nat
  BY DEF LoaderInv, LoaderType
<1>3. Backed(file)
  BY <1>1 DEF HeaderIsGood
<1>4. /\ 274 + file.segments * 1344 + 1 + file.frames * 689 <= 8 * file.bytes
      /\ file.fine[Len(fine) + 1] \in Fine
  BY <1>1, <1>2, <1>3, BackedReading, FileFields
<1>4a. file.segments \in Nat /\ file.frames \in Nat /\ file.bytes \in Nat
  BY <1>2, FileFields
<1>4b. /\ fine' \in Seq(Fine) /\ phase' \in {"fine", "rejected"}
       /\ pos' \in Nat
  <2>0. Append(fine, file.fine[Len(fine) + 1]) \in Seq(Fine)
    BY <1>2, <1>4
  <2>1. fine' \in Seq(Fine) /\ phase' \in {"fine", "rejected"}
    BY <1>1, <1>2, <2>0
  <2>2. pos \in Nat
    BY DEF LoaderInv, LoaderType
  <2> QED BY <2>1, <2>2, <1>1
<1>5. LoaderType'
  BY <1>1, <1>2, <1>4b DEF LoaderInv, LoaderType
<1>6. HeaderIsGood' = HeaderIsGood /\ Small' = Small
  BY <1>1 DEF HeaderIsGood, Backed, NeedBits, Small
<1>7. phase' = "fine" => Len(fine') = Len(fine) + 1
  BY <1>1, <1>2
<1>7a. pos' <= 8 * file.bytes
  <2>1. 8 * file.bytes \in Nat
    BY <1>4a
  <2>1a. \A k \in Nat : k < file.frames =>
            274 + 1344 * file.segments + 1 + 689 * k + 689 <= 8 * file.bytes
    BY <1>2, <1>3, RoomLeft
  <2>2. 274 + 1344 * file.segments + 1 + 689 * Len(fine) + 689 <= 8 * file.bytes
    BY <1>1, <1>2, <2>1a
  <2>3. pos' = 274 + 1344 * file.segments + 1 + 689 * Len(fine) + 689
    BY <1>1
  <2> QED BY <2>2, <2>3
<1>7b. phase' = "fine" => /\ Len(fine') <= file.frames
                         /\ pos' = 274 + 1344 * file.segments + 1 + 689 * Len(fine')
  <2>1. ASSUME phase' = "fine" PROVE Len(fine') = Len(fine) + 1
    BY <1>7, <2>1
  <2>2. ASSUME NEW k \in Nat
        PROVE  274 + 1344 * file.segments + 1 + 689 * k + 689
                 = 274 + 1344 * file.segments + 1 + 689 * (k + 1)
    BY <1>4a
  <2>3. pos' = 274 + 1344 * file.segments + 1 + 689 * Len(fine) + 689
    BY <1>1
  <2>4. pos' = 274 + 1344 * file.segments + 1 + 689 * (Len(fine) + 1)
    BY <2>2, <2>3, <1>2
  <2>5. Len(fine) + 1 <= file.frames
    BY <1>1, <1>2, <1>4a
  <2> QED BY <2>1, <2>4, <2>5
<1>8. Reading'
  BY <1>1, <1>4b, <1>6, <1>7a, <1>7b DEF Reading
<1>9. Linking'
  BY <1>1 DEF Linking
<1> QED BY <1>5, <1>8, <1>9 DEF LoaderInv

LEMMA SortStep ==
  ASSUME LoaderInv, Sort PROVE LoaderInv'
<1>1. PICK o \in Orders : fine' = [i \in DOMAIN fine |-> fine[o[i]]]
  BY DEF Sort
<1>2. /\ phase = "fine" /\ phase' = "linking" /\ linked = <<>>
      /\ UNCHANGED <<file, pos, coarse, linked>>
  BY DEF Sort, In, Enter, LoaderInv, Reading
<1>3. fine \in Seq(Fine) /\ DOMAIN fine = 1..Len(fine) /\ Len(fine) \in Nat
  BY DEF LoaderInv, LoaderType
<1>4. o \in [DOMAIN fine -> DOMAIN fine]
  BY DEF Orders
<1>5. fine' \in Seq(Fine) /\ DOMAIN fine' = DOMAIN fine
  <2>1. fine' \in [1..Len(fine) -> Fine]
    BY <1>1, <1>3, <1>4
  <2> QED BY <2>1, <1>3
<1>6. LoaderType'
  BY <1>2, <1>5 DEF LoaderInv, LoaderType
<1>7. Reading'
  BY <1>2 DEF LoaderInv, Reading
<1>8. Sorted'
  BY <1>1, <1>5 DEF Sorted, Orders
<1>9. Linking'
  BY <1>2, <1>6, <1>8 DEF Linking, LoaderType
<1> QED BY <1>6, <1>7, <1>9 DEF LoaderInv

\* In a sorted list, the frames from the first of a segment to its last are its own.
LEMMA SpanOfCovered ==
  ASSUME LoaderType, Sorted, NEW c \in Coarse, NEW first \in DOMAIN fine, NEW last \in DOMAIN fine,
         Covers(c, fine[first]), Covers(c, fine[last]),
         \A j \in DOMAIN fine : Covers(c, fine[j]) => j \in first..last
  PROVE  \A i \in DOMAIN fine : i \in first..last <=> Covers(c, fine[i])
<1>0. fine \in Seq(Fine)
  BY DEF LoaderType
<1>1a. DOMAIN fine = 1..Len(fine) /\ Len(fine) \in Nat /\ \A i \in DOMAIN fine : fine[i] \in Fine
  BY <1>0
<1>1b. \A f \in Fine : f.pts \in Nat
  BY DEF Fine
<1>1c. c.firstPts \in Nat /\ c.lastPts \in Nat
  BY DEF Coarse
<1>1. /\ DOMAIN fine = 1..Len(fine) /\ Len(fine) \in Nat
      /\ \A i \in DOMAIN fine : fine[i].pts \in Nat
      /\ c.firstPts \in Nat /\ c.lastPts \in Nat
  BY <1>1a, <1>1b, <1>1c
<1>2. ASSUME NEW i \in DOMAIN fine, i \in first..last PROVE Covers(c, fine[i])
  <2>1. fine[first].pts <= fine[i].pts /\ fine[i].pts <= fine[last].pts
    BY <1>1, <1>2 DEF Sorted
  <2> QED BY <2>1, <1>1 DEF Covers
<1> QED BY <1>2

LEMMA LinkStep ==
  ASSUME LoaderInv, Link PROVE LoaderInv'
<1> DEFINE c == coarse[Len(linked) + 1]
<1> DEFINE covered == {j \in DOMAIN fine : Covers(c, fine[j])}
<1>1. /\ phase = "linking" /\ Len(linked) < Len(coarse)
      /\ UNCHANGED <<file, pos, coarse, fine>>
      /\ Sorted /\ \A n \in DOMAIN linked : Span(n)
      /\ LoaderType
  BY DEF Link, In, LoaderInv, Linking
<1>2. /\ linked \in Seq([first : Nat, last : Nat]) /\ Len(linked) \in Nat
      /\ coarse \in Seq(Coarse) /\ Len(coarse) \in Nat /\ c \in Coarse
      /\ fine \in Seq(Fine) /\ DOMAIN fine = 1..Len(fine) /\ Len(fine) \in Nat
  BY <1>1 DEF LoaderType
<1>3. CASE linked' = linked /\ phase' = "rejected"
  <2>1. LoaderType' BY <1>1, <1>3 DEF LoaderType
  <2>2. Reading' BY <1>1, <1>3 DEF LoaderInv, Reading
  <2>3. Linking' BY <1>3 DEF Linking
  <2> QED BY <2>1, <2>2, <2>3 DEF LoaderInv
<1>4. ASSUME NEW first \in covered, NEW last \in covered, covered \subseteq first..last,
             linked' = Append(linked, [first |-> first, last |-> last]), phase' = phase
      PROVE  LoaderInv'
  <2>1. first \in Nat /\ last \in Nat
    BY <1>2
  <2>2. /\ linked' \in Seq([first : Nat, last : Nat])
        /\ Len(linked') = Len(linked) + 1
        /\ DOMAIN linked = 1..Len(linked) /\ DOMAIN linked' = 1..(Len(linked) + 1)
        /\ \A n \in DOMAIN linked : linked'[n] = linked[n]
        /\ linked'[Len(linked) + 1] = [first |-> first, last |-> last]
    BY <1>2, <1>4, <2>1
  <2>3. LoaderType' BY <1>1, <1>4, <2>2 DEF LoaderType
  <2>4. Reading' BY <1>1, <1>4 DEF LoaderInv, Reading
  <2>5. Covers(c, fine[first]) /\ Covers(c, fine[last])
    OBVIOUS
  <2>6. \A j \in DOMAIN fine : Covers(c, fine[j]) => j \in first..last
    BY <1>4
  <2>7. \A i \in DOMAIN fine : i \in first..last <=> Covers(c, fine[i])
    <3> HIDE DEF c
    <3> QED BY <1>1, <1>2, <2>5, <2>6, SpanOfCovered
  <2>8. \A n \in DOMAIN linked : \A i \in DOMAIN fine :
          i \in linked'[n].first .. linked'[n].last <=> Covers(coarse[n], fine[i])
    BY <1>1, <2>2 DEF Span
  <2>9. \A i \in DOMAIN fine : i \in linked'[Len(linked) + 1].first .. linked'[Len(linked) + 1].last
                                <=> Covers(coarse[Len(linked) + 1], fine[i])
    BY <2>2, <2>7
  <2>9a. \A n \in DOMAIN linked' : n \in DOMAIN linked \/ n = Len(linked) + 1
    BY <1>2, <2>2
  <2>10. \A n \in DOMAIN linked' : Span(n)'
    BY <1>1, <2>8, <2>9, <2>9a DEF Span, Covers
  <2>11. Linking'
    BY <1>1, <1>2, <1>4, <2>2, <2>10 DEF Linking, Sorted
  <2> QED BY <2>3, <2>4, <2>11 DEF LoaderInv
<1>5. \/ linked' = linked /\ phase' = "rejected"
      \/ \E first, last \in covered : /\ covered \subseteq first..last
                                      /\ linked' = Append(linked, [first |-> first, last |-> last])
                                      /\ phase' = phase
  BY DEF Link, Reject, Enter
<1> QED BY <1>3, <1>4, <1>5

LEMMA LoadedStep ==
  ASSUME LoaderInv, Loaded PROVE LoaderInv'
<1>1. /\ phase = "linking" /\ phase' = "loaded" /\ Len(linked) = Len(coarse)
      /\ UNCHANGED <<file, pos, coarse, fine, linked>>
  BY DEF Loaded, In, Enter
<1>2. LoaderType' BY <1>1 DEF LoaderInv, LoaderType
<1>3. Reading' BY <1>1 DEF LoaderInv, Reading
<1>4. Sorted' = Sorted /\ \A n : Span(n)' = Span(n)
  BY <1>1 DEF Sorted, Span
<1>5. Linking' BY <1>1, <1>4 DEF LoaderInv, Linking
<1> QED BY <1>2, <1>3, <1>5 DEF LoaderInv

LEMMA HoldStep ==
  ASSUME LoaderInv, Hold PROVE LoaderInv'
<1>1. phase' = "waiting" /\ UNCHANGED <<file, pos, coarse, fine, linked>>
  BY DEF Hold
<1>2. LoaderType' BY <1>1 DEF LoaderInv, LoaderType
<1>3. Reading' BY <1>1 DEF LoaderInv, Reading
<1>4. Linking' BY <1>1 DEF Linking
<1> QED BY <1>2, <1>3, <1>4 DEF LoaderInv

LEMMA LoaderStays ==
  ASSUME LoaderInv, UNCHANGED loader PROVE LoaderInv'
<1>1. UNCHANGED <<file, phase, pos, coarse, fine, linked>>
  BY DEF loader
<1>2. LoaderType' BY <1>1 DEF LoaderInv, LoaderType
<1>3. Reading'
  <2>1. HeaderIsGood' = HeaderIsGood /\ Small' = Small /\ Empty' = Empty
    BY <1>1 DEF HeaderIsGood, Backed, NeedBits, Small, Empty
  <2> QED BY <1>1, <2>1 DEF LoaderInv, Reading
<1>4. Sorted' = Sorted /\ \A n : Span(n)' = Span(n)
  BY <1>1 DEF Sorted, Span
<1>5. Linking' BY <1>1, <1>4 DEF LoaderInv, Linking
<1> QED BY <1>2, <1>3, <1>5 DEF LoaderInv

LEMMA LoaderNext == LoaderInv /\ [Next]_vars => LoaderInv'
<1>1. SUFFICES ASSUME LoaderInv, [Next]_vars PROVE LoaderInv'
  OBVIOUS
<1>2. CASE Open BY <1>1, <1>2, OpenStep
<1>3. CASE Hold BY <1>1, <1>3, HoldStep
<1>4. CASE Load
  BY <1>1, <1>4, MeasureStep, ReadHeaderStep, ReadCoarseStep, ReadFlagStep, ReadFineStep,
     SortStep, LinkStep, LoadedStep DEF Load
<1>5. CASE UNCHANGED loader BY <1>1, <1>5, LoaderStays
<1> QED BY <1>1, <1>2, <1>3, <1>4, <1>5 DEF Next, Process, vars

-----------------------------------------------------------------------------

\* The invariant of the loader holds throughout a comparison.
THEOREM LoaderInvariant == Spec => []LoaderInv
BY LoaderInit, LoaderNext, PTL DEF Spec

\* The bit reader never leaves the file, whatever its header claims.
THEOREM StaysInTheFile == Spec => []NeverPastTheEnd
<1>1. LoaderInv => NeverPastTheEnd
  BY DEF LoaderInv, Reading, NeverPastTheEnd, Small
<1> QED BY <1>1, LoaderInvariant, PTL

\* The segments of whatever file is loaded are all frames of their time.
THEOREM LoadsSpans == Spec => []SegmentsAreSpans
<1>1. LoaderInv => SegmentsAreSpans
  <2>1. SUFFICES ASSUME LoaderInv, phase = "loaded"
                 PROVE  /\ Sorted
                        /\ \A n \in DOMAIN coarse : Span(n)
    BY DEF SegmentsAreSpans, Sorted, Span, Covers
  <2>2. DOMAIN coarse = DOMAIN linked
    BY <2>1 DEF LoaderInv, LoaderType, Linking
  <2> QED BY <2>1, <2>2 DEF LoaderInv, Linking
<1> QED BY <1>1, LoaderInvariant, PTL

-----------------------------------------------------------------------------
(* The sweep over the pairs of segments, and the best match *)

\* A clip as it is held, and what is loaded of the one that is not held yet.
Clip == [coarse : Seq(Coarse), fine : Seq(Fine), linked : Seq([first : Nat, last : Nat])]
WholeClip(clip) ==
  /\ Len(clip.coarse) > 0 /\ Len(clip.linked) = Len(clip.coarse)
  /\ \A n \in DOMAIN clip.linked : clip.linked[n].first >= 1
Held ==
  /\ phase \in {"fine", "linking", "loaded"} => Len(coarse) > 0
  /\ phase \in {"linking", "loaded"} => \A n \in DOMAIN linked : linked[n].first >= 1
  /\ clips \in Seq(Clip)
  /\ Len(clips) <= 2
  /\ Len(clips) = 2 => phase = "waiting"
  /\ \A n \in DOMAIN clips : WholeClip(clips[n])

\* The pairs of segments the search is past, and those it has candidates of.
Here == <<cs, cs2>>
Passed(x) == x[1] < cs \/ (x[1] = cs /\ x[2] < cs2)
Places == {f.at : f \in found}
Visited ==
  IF stage \in {"evaluating", "done"} THEN {x \in SimilarPairs : Passed(x) \/ x = Here}
                                      ELSE {x \in SimilarPairs : Passed(x)}

Swept ==
  /\ stage \in {"waiting", "comparing", "pairing", "voting", "choosing", "evaluating", "done"}
  /\ stage = "waiting" => cs = 1 /\ cs2 = 1 /\ found = {} /\ best = Sentinel
  /\ stage # "waiting" =>
       /\ Len(clips) = 2
       /\ cs \in DOMAIN clips[1].coarse /\ cs2 \in DOMAIN clips[2].coarse
       /\ stage \in {"pairing", "voting", "choosing", "evaluating"} => Here \in SimilarPairs
       /\ stage = "done" => cs = Len(clips[1].coarse) /\ cs2 = Len(clips[2].coarse)
       /\ Places = Visited

\* The best match is of a walk that passed the filters, and of those only one
\* that is still to be evaluated may be better.
Seen == UNION {Range(f.walks) : f \in found}
Ranking ==
  /\ \A f \in found : \A c \in DOMAIN f.walks : f.walks[c] \in Walks
  /\ \A c \in DOMAIN infos : infos[c] \in Seen
  /\ stage # "evaluating" => DOMAIN infos = {}
  /\ best = Sentinel \/ \E c \in Reported : best = Match(c)
  /\ \A d \in Reported : Better(d, best) => \E c \in DOMAIN infos : infos[c] = d

SearchInv == Held /\ Swept /\ Ranking

-----------------------------------------------------------------------------
(* Loading *)

LEMMA HeldInit == Init => Held
BY DEF Init, Held

\* A clip that is loaded has a segment, and each of them a first frame.
LEMMA HeldLoad == LoaderInv /\ Held /\ Load /\ UNCHANGED clips => Held'
<1> SUFFICES ASSUME LoaderInv, Held, Load, UNCHANGED clips PROVE Held'
  OBVIOUS
<1>1. /\ file \in Files /\ coarse \in Seq(Coarse) /\ fine \in Seq(Fine)
      /\ linked \in Seq([first : Nat, last : Nat]) /\ file.segments \in Nat
  BY FileFields DEF LoaderInv, LoaderType
<1>2. phase # "waiting" /\ Len(clips) # 2
  BY DEF Held, Load, Measure, ReadHeader, ReadCoarse, ReadFlag, ReadFine, Sort, Link, Loaded, In
<1>3. /\ clips' \in Seq(Clip) /\ Len(clips') <= 2 /\ Len(clips') # 2
      /\ \A n \in DOMAIN clips' : WholeClip(clips'[n])
  BY <1>2 DEF Held, WholeClip
<1>4. phase' \in {"fine", "linking", "loaded"} => Len(coarse') > 0
  <2>1. CASE Measure \/ ReadHeader \/ ReadCoarse
    BY <2>1 DEF Measure, ReadHeader, ReadCoarse, In, Enter, Reject
  <2>2. CASE ReadFlag
    <3>1. phase = "coarse" /\ coarse' = coarse /\ Len(coarse) = file.segments
      BY <2>2 DEF ReadFlag, In
    <3>2. HeaderIsGood
      BY <3>1 DEF LoaderInv, Reading
    <3>3. QED
      BY <1>1, <3>1, <3>2 DEF HeaderIsGood
  <2>3. CASE ReadFine \/ Sort \/ Link \/ Loaded
    BY <2>3 DEF ReadFine, Sort, Link, Loaded, In, Enter, Reject, Held
  <2>4. QED
    BY <2>1, <2>2, <2>3 DEF Load
<1>5. phase' \in {"linking", "loaded"} => \A n \in DOMAIN linked' : linked'[n].first >= 1
  <2>1. CASE Measure \/ ReadHeader \/ ReadCoarse \/ ReadFlag \/ ReadFine
    BY <2>1 DEF Measure, ReadHeader, ReadCoarse, ReadFlag, ReadFine, In, Enter, Reject
  <2>2. CASE Sort
    <3>1. linked = <<>> /\ linked' = linked
      BY <2>2 DEF Sort, In, LoaderInv, Reading
    <3>2. QED
      BY <3>1
  <2>3. CASE Link
    <3>1. \A n \in DOMAIN linked : linked[n].first >= 1
      BY <2>3 DEF Link, In, Held
    <3>2. CASE linked' = linked
      BY <3>1, <3>2
    <3>3. ASSUME NEW first \in DOMAIN fine, NEW last \in DOMAIN fine,
                 linked' = Append(linked, [first |-> first, last |-> last])
          PROVE  \A n \in DOMAIN linked' : linked'[n].first >= 1
      <4>1. first \in Nat /\ first >= 1 /\ last \in Nat
        BY <1>1
      <4>2. /\ DOMAIN linked' = 1..(Len(linked) + 1) /\ DOMAIN linked = 1..Len(linked)
            /\ Len(linked) \in Nat
            /\ \A n \in 1..Len(linked) : linked'[n] = linked[n]
            /\ linked'[Len(linked) + 1] = [first |-> first, last |-> last]
        BY <1>1, <3>3, <4>1
      <4>3. \A n \in DOMAIN linked' : n \in DOMAIN linked \/ n = Len(linked) + 1
        BY <4>2
      <4>4. QED
        BY <3>1, <4>1, <4>2, <4>3
    <3>4. QED
      BY <2>3, <3>2, <3>3 DEF Link
  <2>4. CASE Loaded
    BY <2>4 DEF Loaded, In, Held
  <2>5. QED
    BY <2>1, <2>2, <2>3, <2>4 DEF Load
<1>6. QED
  BY <1>3, <1>4, <1>5 DEF Held

LEMMA HeldHold == LoaderInv /\ Held /\ Hold => Held'
<1> SUFFICES ASSUME LoaderInv, Held, Hold PROVE Held'
  OBVIOUS
<1> DEFINE clip == [coarse |-> coarse, fine |-> fine, linked |-> linked]
<1>1. /\ phase = "loaded" /\ phase' = "waiting" /\ clips' = Append(clips, clip)
  BY DEF Hold
<1>2. clip \in Clip
  BY DEF LoaderInv, LoaderType, Clip
<1>3. WholeClip(clip)
  BY <1>1 DEF WholeClip, Held, LoaderInv, Linking
<1> HIDE DEF clip
<1>4. /\ clips \in Seq(Clip) /\ Len(clips) \in Nat /\ Len(clips) < 2
      /\ \A n \in DOMAIN clips : WholeClip(clips[n])
  <2>1. clips \in Seq(Clip) /\ \A n \in DOMAIN clips : WholeClip(clips[n])
    BY DEF Held
  <2>2. Len(clips) <= 2 /\ Len(clips) # 2
    BY <1>1 DEF Held
  <2>3. Len(clips) \in Nat
    BY <2>1
  <2> DEFINE n == Len(clips)
  <2>4. n < 2
    <3>1. n \in Nat /\ n <= 2 /\ n # 2
      BY <2>2, <2>3
    <3> HIDE DEF n
    <3>2. QED
      BY <3>1
  <2>5. QED
    BY <2>1, <2>3, <2>4
<1>5. /\ clips' \in Seq(Clip) /\ Len(clips') = Len(clips) + 1
      /\ DOMAIN clips' = 1..(Len(clips) + 1) /\ DOMAIN clips = 1..Len(clips)
      /\ \A n \in 1..Len(clips) : clips'[n] = clips[n]
      /\ clips'[Len(clips) + 1] = clip
  BY <1>1, <1>2, <1>4
<1>6. \A n \in DOMAIN clips' : WholeClip(clips'[n])
  <2>1. \A n \in DOMAIN clips' : n \in DOMAIN clips \/ n = Len(clips) + 1
    BY <1>4, <1>5
  <2>2. QED
    BY <1>3, <1>4, <1>5, <2>1
<1>7. Len(clips') <= 2
  BY <1>4, <1>5
<1>8. QED
  BY <1>1, <1>5, <1>6, <1>7 DEF Held, WholeClip

LEMMA HeldNext == LoaderInv /\ Held /\ [Next]_vars => Held'
<1> SUFFICES ASSUME LoaderInv, Held, [Next]_vars PROVE Held'
  OBVIOUS
<1>1. CASE Open
  <2>1. /\ phase' = "opening" /\ clips' = clips /\ phase = "waiting" /\ Len(clips) < 2
    BY <1>1 DEF Open, Import
  <2>2. /\ clips \in Seq(Clip) /\ Len(clips) <= 2
        /\ \A n \in DOMAIN clips : WholeClip(clips[n])
    BY DEF Held
  <2>a. Len(clips) \in Nat
    BY <2>2
  <2>3. Len(clips) # 2
    BY <2>1, <2>a
  <2>4. QED
    BY <2>1, <2>2, <2>3 DEF Held, WholeClip
<1>2. CASE UNCHANGED <<loader, clips>>
  BY <1>2 DEF Held, WholeClip, loader
<1>3. QED
  BY <1>1, <1>2, HeldHold, HeldLoad DEF Next, Process, vars

-----------------------------------------------------------------------------
(* The order of the pairs *)

\* The clips of a search, as what the search needs of them.
LEMMA TwoClips ==
  ASSUME Held, Len(clips) = 2
  PROVE  /\ clips[1] \in Clip /\ clips[2] \in Clip
         /\ WholeClip(clips[1]) /\ WholeClip(clips[2])
         /\ \A n \in {1, 2} : /\ Len(clips[n].coarse) \in Nat \ {0}
                               /\ DOMAIN clips[n].coarse = 1..Len(clips[n].coarse)
<1>1. clips \in Seq(Clip) /\ \A n \in DOMAIN clips : WholeClip(clips[n])
  BY DEF Held
<1>a. 1 \in DOMAIN clips /\ 2 \in DOMAIN clips
  BY <1>1
<1>2. /\ clips[1] \in Clip /\ clips[2] \in Clip
      /\ WholeClip(clips[1]) /\ WholeClip(clips[2])
  <2>1. clips[1] \in Clip /\ clips[2] \in Clip
    BY <1>1, <1>a
  <2>2. WholeClip(clips[1])
    BY <1>1, <1>a
  <2>3. WholeClip(clips[2])
    BY <1>1, <1>a
  <2>4. QED
    BY <2>1, <2>2, <2>3
<1>3. QED
  BY <1>2 DEF Clip, WholeClip

\* One pair further: what is behind is what was behind and the pair left.
LEMMA NextPairVisits ==
  ASSUME Held, Len(clips) = 2, clips' = clips,
         cs \in DOMAIN clips[1].coarse, cs2 \in DOMAIN clips[2].coarse,
         NextPair(clips[1], clips[2])
  PROVE  /\ cs' \in DOMAIN clips[1].coarse /\ cs2' \in DOMAIN clips[2].coarse
         /\ stage' \in {"comparing", "done"}
         /\ stage' = "done" => cs' = Len(clips[1].coarse) /\ cs2' = Len(clips[2].coarse)
         /\ SimilarPairs' = SimilarPairs
         /\ Visited' = {x \in SimilarPairs : Passed(x) \/ x = Here}
<1> DEFINE m == Len(clips[1].coarse)
           n == Len(clips[2].coarse)
<1>1. /\ m \in Nat \ {0} /\ n \in Nat \ {0}
      /\ DOMAIN clips[1].coarse = 1..m /\ DOMAIN clips[2].coarse = 1..n
  BY TwoClips
<1>2. SimilarPairs' = SimilarPairs
  BY DEF SimilarPairs, SimilarPair
<1>3. \A x \in SimilarPairs : x = <<x[1], x[2]>> /\ x[1] \in 1..m /\ x[2] \in 1..n
  BY <1>1 DEF SimilarPairs
<1>4. NextPair(clips[1], clips[2])
  OBVIOUS
<1> HIDE DEF m, n
<1>5. \/ cs2 < n /\ cs2' = cs2 + 1 /\ cs' = cs /\ stage' = "comparing"
      \/ cs2 = n /\ cs < m /\ cs' = cs + 1 /\ cs2' = 1 /\ stage' = "comparing"
      \/ cs2 = n /\ cs = m /\ stage' = "done" /\ cs' = cs /\ cs2' = cs2
  BY <1>4 DEF NextPair, m, n
<1>6. cs \in 1..m /\ cs2 \in 1..n
  BY <1>1
<1>7. CASE stage' = "comparing"
  <2>1. \A x \in SimilarPairs : Passed(x)' <=> Passed(x) \/ x = Here
    <3> SUFFICES ASSUME NEW x \in SimilarPairs PROVE Passed(x)' <=> Passed(x) \/ x = Here
      OBVIOUS
    <3>1. x = Here <=> x[1] = cs /\ x[2] = cs2
      BY <1>3 DEF Here
    <3>2. QED
      BY <1>1, <1>3, <1>5, <1>6, <1>7, <3>1 DEF Passed
  <2>2. QED
    BY <1>1, <1>2, <1>5, <1>6, <1>7, <2>1 DEF Visited, m, n
<1>8. CASE stage' = "done"
  <2>1. Here' = Here /\ \A x : Passed(x)' <=> Passed(x)
    BY <1>5, <1>8 DEF Here, Passed
  <2>2. QED
    BY <1>1, <1>2, <1>5, <1>6, <1>8, <2>1 DEF Visited, m, n
<1>9. QED
  BY <1>5, <1>7, <1>8

LEMMA SweptInit == Init => Swept
BY DEF Init, InitSearch, Swept

\* Begin: nothing is behind.
LEMMA SweptBegin == Held /\ Swept /\ Process => Swept'
<1> SUFFICES ASSUME Held, Swept, Process PROVE Swept'
  OBVIOUS
<1>1. /\ Len(clips) = 2 /\ clips' = clips /\ stage = "waiting" /\ stage' = "comparing"
      /\ cs' = cs /\ cs2' = cs2 /\ found' = found /\ cs = 1 /\ cs2 = 1 /\ found = {}
  BY DEF Process, Begin, Swept
<1>2. /\ DOMAIN clips[1].coarse = 1..Len(clips[1].coarse) /\ Len(clips[1].coarse) \in Nat \ {0}
      /\ DOMAIN clips[2].coarse = 1..Len(clips[2].coarse) /\ Len(clips[2].coarse) \in Nat \ {0}
  BY <1>1, TwoClips
<1>3. \A x \in SimilarPairs' : ~Passed(x)'
  <2>1. \A x \in SimilarPairs' : x[1] \in Nat \ {0} /\ x[2] \in Nat \ {0}
    BY <1>1, <1>2 DEF SimilarPairs
  <2>2. QED
    BY <1>1, <2>1 DEF Passed
<1>4. Places' = Visited'
  BY <1>1, <1>3 DEF Places, Visited
<1>5. QED
  BY <1>1, <1>2, <1>4 DEF Swept

\* Every step of the search keeps the places of what is found those it has visited.
LEMMA SweptSearch ==
  Held /\ Swept /\ Search(clips[1], clips[2]) /\ UNCHANGED <<loader, clips>> => Swept'
<1> SUFFICES ASSUME Held, Swept, Search(clips[1], clips[2]), UNCHANGED <<loader, clips>>
             PROVE  Swept'
  OBVIOUS
<1>1. stage # "waiting"
  BY DEF Search, Compare, FindPairs, Vote, Choose, Evaluate, Evaluated
<1>2. /\ Len(clips) = 2 /\ clips' = clips
      /\ cs \in DOMAIN clips[1].coarse /\ cs2 \in DOMAIN clips[2].coarse
      /\ Places = Visited
  BY <1>1 DEF Swept
<1>3. SimilarPairs' = SimilarPairs
  BY <1>2 DEF SimilarPairs, SimilarPair
<1>4. CASE Compare(clips[1], clips[2])
  <2>1. stage = "comparing" /\ found' = found /\ Places' = Places
    BY <1>4 DEF Compare, Places
  <2>2. CASE SimilarPair(clips[1], clips[2], <<cs, cs2>>) /\ stage' = "pairing" /\ UNCHANGED <<cs, cs2>>
    <3>1. Here' \in SimilarPairs'
      BY <1>2, <1>3, <2>2 DEF SimilarPairs, Here
    <3>2. Visited' = Visited
      BY <1>3, <2>1, <2>2 DEF Visited, Passed
    <3>3. QED
      BY <1>2, <2>1, <2>2, <3>1, <3>2 DEF Swept
  <2>3. CASE ~SimilarPair(clips[1], clips[2], <<cs, cs2>>) /\ NextPair(clips[1], clips[2])
    <3>1. /\ cs' \in DOMAIN clips[1].coarse /\ cs2' \in DOMAIN clips[2].coarse
          /\ stage' \in {"comparing", "done"}
          /\ stage' = "done" => cs' = Len(clips[1].coarse) /\ cs2' = Len(clips[2].coarse)
          /\ Visited' = {x \in SimilarPairs : Passed(x) \/ x = Here}
      BY <1>2, <2>3, NextPairVisits
    <3>2. Here \notin SimilarPairs
      BY <2>3 DEF SimilarPairs, Here
    <3>3. Visited' = Visited
      BY <2>1, <3>1, <3>2 DEF Visited
    <3>4. QED
      BY <1>2, <2>1, <3>1, <3>3 DEF Swept
  <2>4. QED
    BY <1>4, <2>2, <2>3 DEF Compare
<1>5. CASE FindPairs(clips[1], clips[2]) \/ Vote
  <2>1. /\ stage \in {"pairing", "voting"} /\ stage' \in {"voting", "choosing"}
        /\ cs' = cs /\ cs2' = cs2 /\ found' = found
    BY <1>5 DEF FindPairs, Vote
  <2>2. Visited' = Visited /\ Places' = Places /\ Here' = Here
    BY <1>3, <2>1 DEF Visited, Places, Passed, Here
  <2>3. QED
    BY <1>2, <1>3, <2>1, <2>2 DEF Swept
<1>6. CASE Choose
  <2>1. /\ stage = "choosing" /\ stage' = "evaluating" /\ cs' = cs /\ cs2' = cs2
        /\ \E w : found' = found \cup {[at |-> <<cs, cs2>>, walks |-> w]}
    BY <1>6 DEF Choose
  <2>2. Places' = Places \cup {Here}
    <3>1. PICK w : found' = found \cup {[at |-> Here, walks |-> w]}
      BY <2>1 DEF Here
    <3>2. [at |-> Here, walks |-> w].at = Here
      OBVIOUS
    <3> DEFINE new == [at |-> Here, walks |-> w]
    <3> HIDE DEF new
    <3>3. found' = found \cup {new} /\ new.at = Here
      BY <3>1, <3>2 DEF new
    <3>4. QED
      BY <3>3 DEF Places
  <2>3. Here \in SimilarPairs
    BY <2>1 DEF Swept
  <2>4. Visited' = Visited \cup {Here}
    BY <1>3, <2>1, <2>3 DEF Visited, Passed, Here
  <2>5. QED
    BY <1>2, <1>3, <2>1, <2>2, <2>3, <2>4 DEF Swept, Here
<1>7. CASE Evaluate
  <2>1. /\ stage = "evaluating" /\ stage' = stage
        /\ cs' = cs /\ cs2' = cs2 /\ found' = found
    BY <1>7 DEF Evaluate
  <2>2. Visited' = Visited /\ Places' = Places /\ Here' = Here
    BY <1>3, <2>1 DEF Visited, Places, Passed, Here
  <2>3. QED
    BY <1>2, <1>3, <2>1, <2>2 DEF Swept
<1>8. CASE Evaluated(clips[1], clips[2])
  <2>1. stage = "evaluating" /\ NextPair(clips[1], clips[2]) /\ found' = found
    BY <1>8 DEF Evaluated
  <2>2. /\ cs' \in DOMAIN clips[1].coarse /\ cs2' \in DOMAIN clips[2].coarse
        /\ stage' \in {"comparing", "done"}
        /\ stage' = "done" => cs' = Len(clips[1].coarse) /\ cs2' = Len(clips[2].coarse)
        /\ Visited' = {x \in SimilarPairs : Passed(x) \/ x = Here}
    BY <1>2, <2>1, NextPairVisits
  <2>3. Visited' = Visited /\ Places' = Places
    BY <2>1, <2>2 DEF Visited, Places
  <2>4. QED
    BY <1>2, <2>2, <2>3 DEF Swept
<1>9. QED
  BY <1>4, <1>5, <1>6, <1>7, <1>8 DEF Search

\* The clips of a search stay the ones it was begun with.
LEMMA SweptNext == Held /\ Swept /\ [Next]_vars => Swept'
<1> SUFFICES ASSUME Held, Swept, [Next]_vars PROVE Swept'
  OBVIOUS
<1>1. CASE UNCHANGED search /\ (clips' = clips \/ stage = "waiting")
  <2>1. UNCHANGED <<cs, cs2, stage, found, best>>
    BY <1>1 DEF search
  <2>2. CASE stage = "waiting"
    BY <2>1, <2>2 DEF Swept
  <2>3. CASE stage # "waiting"
    BY <1>1, <2>1, <2>3
    DEF Swept, Places, Visited, Passed, Here, SimilarPairs, SimilarPair
  <2>4. QED
    BY <2>2, <2>3
<1>2. CASE Hold
  <2>1. stage = "waiting"
    BY <1>2 DEF Hold, Held, Swept
  <2>2. QED
    BY <1>1, <1>2, <2>1 DEF Hold
<1>3. QED
  BY <1>1, <1>2, SweptBegin, SweptSearch DEF Next, Open, vars

-----------------------------------------------------------------------------
(* The best match *)

\* What a walk that passed the filters says.
LEMMA WalkFields ==
  ASSUME NEW c \in Walks
  PROVE  /\ c.frames \in Nat \ {0} /\ c.meandist \in Nat /\ c.reported \in BOOLEAN
         /\ Match(c).frames = c.frames /\ Match(c).meandist = c.meandist
         /\ Better(c, Sentinel) /\ ~Better(c, Match(c))
         /\ \A d : Better(d, Match(c)) <=> Better(d, c)
BY WalksAssumption DEF Match, Better, Sentinel

\* Longer, then closer, is an order in which nothing is lost.
LEMMA BetterIsTransitive ==
  ASSUME NEW b \in Nat, NEW x \in Nat, NEW c \in Walks, NEW d \in Walks,
         NEW best0, best0.frames = b, best0.meandist = x,
         Better(c, best0), ~Better(d, best0)
  PROVE  ~Better(d, c)
BY WalkFields DEF Better

LEMMA SeenAreWalks ==
  ASSUME Ranking PROVE Seen \subseteq Walks /\ Reported \subseteq Seen
<1>1. \A f \in found : Range(f.walks) \subseteq Walks
  BY DEF Ranking, Range
<1>2. QED
  BY <1>1 DEF Seen, Reported

LEMMA BestFields ==
  ASSUME Ranking PROVE best.frames \in Nat /\ best.meandist \in Nat
<1>1. CASE best = Sentinel
  BY <1>1 DEF Sentinel
<1>2. ASSUME NEW c \in Reported, best = Match(c) PROVE best.frames \in Nat /\ best.meandist \in Nat
  BY <1>2, SeenAreWalks, WalkFields
<1>3. QED
  BY <1>1, <1>2 DEF Ranking

LEMMA RankingInit == Init => Ranking
<1> SUFFICES ASSUME Init PROVE Ranking
  OBVIOUS
<1>1. found = {} /\ infos = <<>> /\ best = Sentinel /\ stage = "waiting"
  BY DEF Init, InitSearch
<1>2. DOMAIN infos = {} /\ Seen = {} /\ Reported = {}
  BY <1>1 DEF Seen, Reported
<1>3. QED
  BY <1>1, <1>2 DEF Ranking

\* The walks of one more pair of segments are all still to be evaluated.
LEMMA RankingChoose == Ranking /\ Choose => Ranking'
<1> SUFFICES ASSUME Ranking, Choose PROVE Ranking'
  OBVIOUS
<1>1. PICK w \in [Chosen(hspace) -> Walks] :
        infos' = w /\ found' = found \cup {[at |-> <<cs, cs2>>, walks |-> w]}
  BY DEF Choose
<1>2. stage' = "evaluating" /\ best' = best
  BY DEF Choose
<1>3. \A f \in found' : \A c \in DOMAIN f.walks : f.walks[c] \in Walks
  BY <1>1 DEF Ranking
<1>4. Seen' = Seen \cup Range(w)
  <2> DEFINE new == [at |-> <<cs, cs2>>, walks |-> w]
  <2>1. new.walks = w /\ found' = found \cup {new}
    BY <1>1
  <2> HIDE DEF new
  <2>2. \A d : d \in Seen' <=> d \in Seen \/ d \in Range(w)
    BY <2>1 DEF Seen
  <2>3. QED
    BY <2>2
<1>5. \A c \in DOMAIN infos' : infos'[c] \in Seen'
  BY <1>1, <1>4 DEF Range
<1>6. Reported' = Reported \cup {d \in Range(w) : d.reported}
  BY <1>4 DEF Reported, Seen
<1>7. \A d \in Reported' : Better(d, best') => \E c \in DOMAIN infos' : infos'[c] = d
  <2> SUFFICES ASSUME NEW d \in Reported', Better(d, best)
               PROVE  \E c \in DOMAIN infos' : infos'[c] = d
    BY <1>2
  <2>1. CASE d \in Range(w)
    BY <1>1, <2>1 DEF Range
  <2>2. CASE d \in Reported
    <3>1. PICK c \in DOMAIN infos : infos[c] = d
      BY <2>2 DEF Ranking
    <3>2. stage = "choosing"
      BY DEF Choose
    <3>3. QED
      BY <3>1, <3>2 DEF Ranking
  <2>3. QED
    BY <1>6, <2>1, <2>2
<1>8. best' = Sentinel \/ \E c \in Reported' : best' = Match(c)
  BY <1>2, <1>6 DEF Ranking
<1>9. QED
  BY <1>2, <1>3, <1>5, <1>7, <1>8 DEF Ranking

\* Of the best match and one more walk the better stays.
LEMMA RankingEvaluate == Ranking /\ Evaluate => Ranking'
<1> SUFFICES ASSUME Ranking, Evaluate PROVE Ranking'
  OBVIOUS
<1>1. PICK n \in DOMAIN infos : /\ best' = Ranked(infos[n], best)
                                /\ infos' = Restrict(infos, DOMAIN infos \ {n})
  BY DEF Evaluate
<1>2. stage = "evaluating" /\ stage' = stage /\ found' = found
  BY DEF Evaluate
<1>3. Seen' = Seen /\ Reported' = Reported
  BY <1>2 DEF Seen, Reported
<1>4. DOMAIN infos' = DOMAIN infos \ {n} /\ \A c \in DOMAIN infos' : infos'[c] = infos[c]
  BY <1>1 DEF Restrict
<1> DEFINE w == infos[n]
<1>5. w \in Walks /\ w \in Seen
  BY SeenAreWalks DEF Ranking
<1>6. Seen \subseteq Walks /\ Reported \subseteq Walks /\ best.frames \in Nat /\ best.meandist \in Nat
  BY SeenAreWalks, BestFields
<1>7. CASE w.reported /\ Better(w, best)
  <2>1. best' = Match(w) /\ w \in Reported
    BY <1>1, <1>5, <1>7 DEF Ranked, Reported, Seen
  <2>2. ASSUME NEW d \in Reported, Better(d, best')
        PROVE  \E c \in DOMAIN infos' : infos'[c] = d
    <3>1. Better(d, w) /\ d # w
      BY <1>5, <1>6, <2>1, <2>2, WalkFields
    <3>2. Better(d, best)
      BY <1>5, <1>6, <1>7, <3>1, BetterIsTransitive
    <3>3. PICK c \in DOMAIN infos : infos[c] = d
      BY <3>2 DEF Ranking
    <3>4. QED
      BY <1>4, <3>1, <3>3
  <2>3. QED
    BY <1>2, <1>3, <1>4, <2>1, <2>2 DEF Ranking
<1>8. CASE ~(w.reported /\ Better(w, best))
  <2>1. best' = best
    BY <1>1, <1>8 DEF Ranked
  <2>2. ASSUME NEW d \in Reported, Better(d, best)
        PROVE  \E c \in DOMAIN infos' : infos'[c] = d
    <3>1. PICK c \in DOMAIN infos : infos[c] = d
      BY <2>2 DEF Ranking
    <3>2. d.reported
      BY DEF Reported
    <3>3. c # n
      BY <1>8, <2>2, <3>1, <3>2
    <3>4. QED
      BY <1>4, <3>1, <3>3
  <2>3. QED
    BY <1>2, <1>3, <1>4, <2>1, <2>2 DEF Ranking
<1>9. QED
  BY <1>7, <1>8

LEMMA RankingNext == Ranking /\ [Next]_vars => Ranking'
<1> SUFFICES ASSUME Ranking, [Next]_vars PROVE Ranking'
  OBVIOUS
<1>1. CASE UNCHANGED <<infos, best, found>> /\ (stage # "evaluating" \/ DOMAIN infos = {} \/ stage' = stage)
  <2>1. Seen' = Seen /\ Reported' = Reported
    BY <1>1 DEF Seen, Reported
  <2>2. stage' # "evaluating" => DOMAIN infos = {}
    BY <1>1 DEF Ranking
  <2>3. QED
    BY <1>1, <2>1, <2>2 DEF Ranking
<1>2. CASE Compare(clips[1], clips[2]) \/ FindPairs(clips[1], clips[2]) \/ Vote \/ Evaluated(clips[1], clips[2])
  BY <1>1, <1>2 DEF Compare, FindPairs, Vote, Evaluated
<1>3. CASE Process
  BY <1>1, <1>3 DEF Process, Begin
<1>4. CASE UNCHANGED search
  BY <1>1, <1>4 DEF search
<1>5. QED
  BY <1>2, <1>3, <1>4, RankingChoose, RankingEvaluate DEF Next, Search, Open, Hold, vars

\* Every similar pair of segments is looked at, and no candidate of any of them
\* that passes the filters is longer than the best match, or as long and closer
\* (find_next_coarsecandidate and evaluate_parameters).
THEOREM BestIsOfAll == Spec => []BestOfAll
<1> DEFINE Inv == LoaderInv /\ SearchInv
<1>1. Init => Inv
  BY LoaderInit, HeldInit, SweptInit, RankingInit DEF SearchInv
<1>2. Inv /\ [Next]_vars => Inv'
  BY LoaderNext, HeldNext, SweptNext, RankingNext DEF SearchInv
<1>3. Inv => BestOfAll
  <2> SUFFICES ASSUME SearchInv, stage = "done"
               PROVE  /\ Places = SimilarPairs
                      /\ \/ Reported = {} /\ best = Sentinel
                         \/ \E c \in Reported : best = Match(c) /\ \A d \in Reported : ~Better(d, c)
    BY DEF BestOfAll, Places
  <2>1. Places = SimilarPairs
    <3>1. /\ Held /\ Len(clips) = 2 /\ Places = {x \in SimilarPairs : Passed(x) \/ x = Here}
          /\ cs = Len(clips[1].coarse) /\ cs2 = Len(clips[2].coarse)
      BY DEF SearchInv, Swept, Visited
    <3>2. \A x \in SimilarPairs : /\ x = <<x[1], x[2]>>
                                   /\ cs \in Nat /\ cs2 \in Nat
                                   /\ x[1] \in 1..cs /\ x[2] \in 1..cs2
      BY <3>1, TwoClips DEF SimilarPairs
    <3>3. \A x \in SimilarPairs : Passed(x) \/ x = Here
      BY <3>2 DEF Passed, Here
    <3>4. QED
      BY <3>1, <3>3
  <2>2. Ranking /\ DOMAIN infos = {} /\ \A d \in Reported : ~Better(d, best)
    BY DEF SearchInv, Ranking
  <2>3. \A d \in Reported : d \in Walks
    BY <2>2, SeenAreWalks
  <2>4. CASE best = Sentinel
    BY <2>1, <2>2, <2>3, <2>4, WalkFields
  <2>5. ASSUME NEW c \in Reported, best = Match(c)
        PROVE  \A d \in Reported : ~Better(d, c)
    BY <2>2, <2>3, <2>5, WalkFields
  <2>6. QED
    BY <2>1, <2>2, <2>4, <2>5 DEF Ranking
<1>4. QED
  BY <1>1, <1>2, <1>3, PTL DEF Spec

-----------------------------------------------------------------------------
(* The candidates of two segments *)

Positions == 0..(COARSE_SIZE - 1)
PairType  == [pos : Positions, b_pos : Positions, dist : Nat]

\* What is between two frames depends on the frames.
OneDistance(close) ==
  \A p, q \in close : p.pos = q.pos /\ p.b_pos = q.b_pos => p = q

LEMMA SegmentSize ==
  /\ COARSE_SIZE \in Nat \ {0} /\ COARSE_SIZE <= 90
  /\ Positions \subseteq Nat /\ \A i \in Positions : i <= COARSE_SIZE - 1
BY SegmentAssumption DEF HOUGH_MAX_OFFSET, Positions

\* The levels only one of two ternary digits reaches are as many as the two are apart.
LEMMA ApartIsDifference ==
  ASSUME NEW x \in 0..2, NEW y \in 0..2
  PROVE  Cardinality(Apart(x, y)) = IF x < y THEN y - x ELSE x - y
<1>0. x \in {0, 1, 2} /\ y \in {0, 1, 2}
  OBVIOUS
<1>1. Apart(x, y) = {l \in {1, 2} : (x < l) # (y < l)}
  BY DEF Apart
<1>2. Cardinality({}) = 0 /\ Cardinality({1}) = 1 /\ Cardinality({2}) = 1 /\ Cardinality({1, 2}) = 2
  <2>1. {1, 2} = {1} \cup {2}
    OBVIOUS
  <2>2. Cardinality({1} \cup {2}) = 2
    <3>1. IsFiniteSet({1}) /\ Cardinality({1}) = 1 /\ 2 \notin {1}
      BY FS_Singleton
    <3>2. Cardinality({1} \cup {2}) = IF 2 \in {1} THEN Cardinality({1}) ELSE Cardinality({1}) + 1
      BY <3>1, FS_AddElement
    <3>3. QED
      BY <3>1, <3>2
  <2>3. QED
    BY <2>1, <2>2, FS_EmptySet, FS_Singleton
<1>3. /\ x = y => Apart(x, y) = {}
      /\ {x, y} = {0, 1} => Apart(x, y) = {1}
      /\ {x, y} = {1, 2} => Apart(x, y) = {2}
      /\ {x, y} = {0, 2} => Apart(x, y) = {1, 2}
  <2>1. x = y => Apart(x, y) = {}
    BY <1>1
  <2>2. ASSUME {x, y} = {0, 1} PROVE Apart(x, y) = {1}
    BY <1>0, <1>1, <2>2
  <2>3. ASSUME {x, y} = {1, 2} PROVE Apart(x, y) = {2}
    BY <1>0, <1>1, <2>3
  <2>4. ASSUME {x, y} = {0, 2} PROVE Apart(x, y) = {1, 2}
    BY <1>0, <1>1, <2>4
  <2>5. QED
    BY <2>1, <2>2, <2>3, <2>4
<1>4. CASE x = y
  BY <1>0, <1>2, <1>3, <1>4
<1>5. CASE x < y
  <2>1. (x = 0 /\ y = 1) \/ (x = 1 /\ y = 2) \/ (x = 0 /\ y = 2)
    BY <1>0, <1>5
  <2>2. QED
    BY <1>2, <1>3, <2>1
<1>6. CASE y < x
  <2>1. (y = 0 /\ x = 1) \/ (y = 1 /\ x = 2) \/ (y = 0 /\ x = 2)
    BY <1>0, <1>6
  <2>2. QED
    BY <1>2, <1>3, <2>1
<1>7. QED
  BY <1>0, <1>4, <1>5, <1>6

\* A distance is a number of levels.
LEMMA DistanceIsNat ==
  ASSUME NEW sig \in Seq(Nat), NEW other
  PROVE  get_l1dist(sig, other) \in Nat
<1> DEFINE Levels == (DOMAIN sig) \X (0..4) \X (1..2)
           S == {s \in Levels : s[3] \in Apart(Digit(sig[s[1]], s[2]), Digit(other[s[1]], s[2]))}
<1>1. IsFiniteSet(DOMAIN sig)
  <2>1. Len(sig) \in Nat /\ DOMAIN sig = 1..Len(sig)
    OBVIOUS
  <2>2. QED
    BY <2>1, FS_Interval
<1>2. IsFiniteSet(0..4) /\ IsFiniteSet(1..2)
  <2>1. \A n, m \in Int : IsFiniteSet(n..m)
    BY FS_Interval
  <2>2. 0 \in Int /\ 1 \in Int /\ 2 \in Int /\ 4 \in Int
    OBVIOUS
  <2>3. QED
    BY <2>1, <2>2, Zenon
<1>3. IsFiniteSet(((DOMAIN sig) \X (0..4)) \X (1..2))
  BY <1>1, <1>2, FS_Product
<1>4. IsFiniteSet(Levels)
  <2> DEFINE T == ((DOMAIN sig) \X (0..4)) \X (1..2)
             f == [t \in T |-> <<t[1][1], t[1][2], t[2]>>]
  <2>1. f \in Surjection(T, Levels)
    <3>1. f \in [T -> Levels]
      OBVIOUS
    <3>2. \A s \in Levels : \E t \in T : f[t] = s
      <4> SUFFICES ASSUME NEW s \in Levels PROVE \E t \in T : f[t] = s
        OBVIOUS
      <4>1. <<<<s[1], s[2]>>, s[3]>> \in T
        OBVIOUS
      <4>2. f[<<<<s[1], s[2]>>, s[3]>>] = <<s[1], s[2], s[3]>>
        BY <4>1
      <4>3. QED
        BY <4>1, <4>2
    <3>3. QED
      BY <3>1, <3>2 DEF Surjection
  <2> HIDE DEF f, T, Levels
  <2>2. IsFiniteSet(T)
    BY <1>3 DEF T
  <2>3. QED
    BY <2>1, <2>2, FS_Surjection
<1>5. IsFiniteSet(S)
  <2>1. S \in SUBSET Levels
    OBVIOUS
  <2> HIDE DEF S, Levels
  <2>2. QED
    BY <1>4, <2>1, FS_Subset
<1>6. get_l1dist(sig, other) = Cardinality(S)
  BY DEF get_l1dist
<1> HIDE DEF S
<1>7. QED
  BY <1>5, <1>6, FS_CardinalityType

\* The close frames of two segments: finitely many, of either window.
LEMMA CloseIs ==
  ASSUME NEW frames \in Seq(Fine), NEW start \in Nat \ {0}, NEW others, NEW from
  PROVE  /\ Close(frames, start, others, from) \subseteq PairType
         /\ OneDistance(Close(frames, start, others, from))
         /\ IsFiniteSet(Close(frames, start, others, from))
<1> DEFINE W == Window(frames, start)
           V == Window(others, from)
           close == Close(frames, start, others, from)
           d(i, j) == get_l1dist(frames[start + i].sig, others[from + j].sig)
<1>1. W \subseteq Positions /\ V \subseteq Positions
  BY DEF Window, Positions
<1>2. \A p \in close : \E i \in W, j \in V : p = [pos |-> i, b_pos |-> j, dist |-> d(i, j)]
  BY DEF Close, Pair
<1>3. \A i \in W, j \in V : d(i, j) \in Nat
  <2> SUFFICES ASSUME NEW i \in W, NEW j \in V PROVE d(i, j) \in Nat
    OBVIOUS
  <2>1. i \in Nat /\ start + i < Len(frames)
    BY SegmentSize, <1>1 DEF Window
  <2>2. start + i \in 1..Len(frames)
    BY <2>1
  <2>3. frames[start + i] \in Fine
    BY <2>2
  <2>4. frames[start + i].sig \in Seq(Nat)
    BY <2>3, SigAssumption DEF Fine
  <2>5. QED
    BY <2>4, DistanceIsNat
<1>4. close \subseteq PairType
  <2> SUFFICES ASSUME NEW p \in close PROVE p \in PairType
    OBVIOUS
  <2>1. PICK i \in W, j \in V : p = [pos |-> i, b_pos |-> j, dist |-> d(i, j)]
    BY <1>2
  <2>2. d(i, j) \in Nat /\ i \in Positions /\ j \in Positions
    BY <1>1, <1>3
  <2> HIDE DEF d
  <2>3. QED
    BY <2>1, <2>2 DEF PairType
<1>5. OneDistance(close)
  <2> SUFFICES ASSUME NEW p \in close, NEW q \in close, p.pos = q.pos, p.b_pos = q.b_pos
               PROVE  p = q
    BY DEF OneDistance
  <2>1. PICK i \in W, j \in V : p = [pos |-> i, b_pos |-> j, dist |-> d(i, j)]
    BY <1>2
  <2>2. PICK k \in W, l \in V : q = [pos |-> k, b_pos |-> l, dist |-> d(k, l)]
    BY <1>2
  <2> HIDE DEF d
  <2>3. i = k /\ j = l
    BY <2>1, <2>2
  <2>4. QED
    BY <2>1, <2>2, <2>3
<1>6. IsFiniteSet(close)
  <2> DEFINE T == W \X V
             f == [t \in T |-> [pos |-> t[1], b_pos |-> t[2], dist |-> d(t[1], t[2])]]
             U == {f[t] : t \in T}
  <2>1. IsFiniteSet(W) /\ IsFiniteSet(V)
    <3>1. IsFiniteSet(Positions)
      BY SegmentSize, FS_Interval DEF Positions
    <3> HIDE DEF W, V
    <3>2. QED
      BY <1>1, <3>1, FS_Subset
  <2>2. IsFiniteSet(T)
    <3> HIDE DEF W, V
    <3>1. QED
      BY <2>1, FS_Product
  <2>3. f \in Surjection(T, U)
    <3> HIDE DEF T, d
    <3>1. QED
      BY DEF Surjection
  <2>4. close \in SUBSET U
    <3> SUFFICES ASSUME NEW p \in close PROVE p \in U
      OBVIOUS
    <3>1. PICK i \in W, j \in V : p = [pos |-> i, b_pos |-> j, dist |-> d(i, j)]
      BY <1>2
    <3>2. <<i, j>> \in T
      OBVIOUS
    <3> HIDE DEF W, V, T, d
    <3>3. f[<<i, j>>] = p
      BY <3>1, <3>2
    <3> HIDE DEF f
    <3>4. QED
      BY <3>2, <3>3
  <2> HIDE DEF T, U, f, close, W, V
  <2>5. IsFiniteSet(U)
    BY <2>2, <2>3, FS_Surjection
  <2>6. QED
    BY <2>4, <2>5, FS_Subset
<1>7. QED
  BY <1>4, <1>5, <1>6

\* Half a frame between two: nearbyint takes the even one of the two.
LEMMA RoundedHalf ==
  ASSUME NEW k \in Int, NEW r \in Nat \ {0}, NEW n, n = 2 * r * k + r
  PROVE  Rounded(n, 2 * r) \in {k, k + 1} /\ (k = 30 => Rounded(n, 2 * r) = 30)
<1> DEFINE D == 2 * r
           f == n \div D
           m == n % D
<1>1. n \in Int /\ D \in Nat \ {0} /\ r < D /\ 2 * r = D /\ n = D * k + r
  OBVIOUS
<1>2. f \in Int /\ m \in 0..(D - 1) /\ n = D * f + m
  <2> HIDE DEF D
  <2>1. QED
    BY <1>1
<1> HIDE DEF D, f, m
<1>3. D * (f - k) = r - m
  BY <1>1, <1>2
<1>4. ~(f - k >= 1)
  <2> SUFFICES ASSUME f - k >= 1 PROVE FALSE
    OBVIOUS
  <2>1. D * (f - k) >= D
    BY <1>1, <1>2
  <2>2. QED
    BY <1>1, <1>2, <1>3, <2>1
<1>5. ~(f - k <= 0 - 1)
  <2> SUFFICES ASSUME f - k <= 0 - 1 PROVE FALSE
    OBVIOUS
  <2>1. D * (f - k) <= 0 - D
    BY <1>1, <1>2
  <2>2. QED
    BY <1>1, <1>2, <1>3, <2>1
<1>6. f = k /\ m = r
  BY <1>1, <1>2, <1>3, <1>4, <1>5
<1>7. Rounded(n, D) = IF 2 * m > D \/ (2 * m = D /\ f % 2 = 1) THEN f + 1 ELSE f
  BY DEF Rounded, f, m
<1>8. Rounded(n, D) = IF k % 2 = 1 THEN k + 1 ELSE k
  BY <1>1, <1>6, <1>7
<1>9. QED
  BY <1>8 DEF D

\* A vote of two pairs of one alignment is for ratio one and its offset.
LEMMA VoteOfShift ==
  ASSUME NEW v \in PairType \X PairType, NEW d \in Int, Run(v) > 0,
         v[1].b_pos - v[1].pos = d, v[2].b_pos - v[2].pos = d
  PROVE  Rise(v) = Run(v) /\ Framerate(v) = 30 /\ Offset(v) \in {d - 1, d}
<1> DEFINE r == Run(v)
           k == v[1].pos
<1>1. /\ v[1].pos \in Nat /\ v[1].b_pos \in Nat /\ v[2].pos \in Nat /\ v[2].b_pos \in Nat
  BY SegmentSize DEF PairType
<1>2. r \in Nat \ {0} /\ Rise(v) = r
  BY <1>1 DEF Run, Rise
<1> HIDE DEF r, k
<1>3. Framerate(v) = Rounded(60 * r + r, 2 * r) /\ Offset(v) = v[1].b_pos - Rounded(2 * r * k + r, 2 * r)
  BY <1>2 DEF Framerate, Offset, r, k
<1>4. Rounded(60 * r + r, 2 * r) = 30
  <2> DEFINE n == 60 * r + r
  <2>1. n = 2 * r * 30 + r /\ 30 \in Int
    BY <1>2
  <2> HIDE DEF n
  <2>2. Rounded(n, 2 * r) = 30
    BY <1>2, <2>1, RoundedHalf
  <2>3. QED
    BY <2>2 DEF n
<1>5. k \in Int /\ Rounded(2 * r * k + r, 2 * r) \in {k, k + 1} /\ v[1].b_pos - k = d
  <2> DEFINE n == 2 * r * k + r
  <2>1. k \in Int /\ v[1].b_pos - k = d
    BY <1>1 DEF k
  <2>a. n = 2 * r * k + r
    OBVIOUS
  <2> HIDE DEF n
  <2>2. Rounded(n, 2 * r) \in {k, k + 1}
    BY <1>2, <2>1, <2>a, RoundedHalf
  <2>3. QED
    BY <2>1, <2>2 DEF n
<1>6. Offset(v) \in {d - 1, d}
  <2> DEFINE R == Rounded(2 * r * k + r, 2 * r)
  <2>1. R \in {k, k + 1} /\ Offset(v) = v[1].b_pos - R
    BY <1>3, <1>5
  <2> HIDE DEF R
  <2>2. QED
    BY <1>1, <1>5, <2>1
<1>7. Framerate(v) = 30 /\ Rise(v) = Run(v)
  BY <1>2, <1>3, <1>4 DEF r
<1>8. QED
  BY <1>6, <1>7

-----------------------------------------------------------------------------
(* The seed of a cell *)

\* A set of naturals has a least one.
LEMMA LeastNat ==
  ASSUME NEW T \in SUBSET Nat, T # {}
  PROVE  \E x \in T : \A y \in T : x <= y
<1>1. PICK x \in T : \A y \in T : ~ (<<y, x>> \in OpToRel(<, Nat))
  BY NatLessThanWellFounded, WFMin
<1>2. \A y \in T : ~(y < x)
  BY <1>1 DEF OpToRel
<1>3. QED
  BY <1>2

\* So has a set whose elements a function ranks.
LEMMA LeastOf ==
  ASSUME NEW S, S # {}, NEW f \in [S -> Nat]
  PROVE  \E x \in S : \A y \in S : f[x] <= f[y]
<1> DEFINE T == {f[x] : x \in S}
<1>1. T \in SUBSET Nat /\ T # {}
  OBVIOUS
<1>2. PICK t \in T : \A y \in T : t <= y
  <2> HIDE DEF T
  <2>1. QED
    BY <1>1, LeastNat
<1>3. QED
  BY <1>2

\* There is a first among the votes for a cell, so its seed is one of their pairs.
LEMMA FirstVote ==
  ASSUME NEW pairs0 \in SUBSET PairType, OneDistance(pairs0),
         NEW cast \in SUBSET (pairs0 \X pairs0), cast # {}
  PROVE  \E v \in cast : \A w \in cast \ {v} :
            \/ Closer(v).dist < Closer(w).dist
            \/ Closer(v).dist = Closer(w).dist /\ Before(v, w)
<1>0. \A v \in cast : /\ v = <<v[1], v[2]>> /\ v[1] \in pairs0 /\ v[2] \in pairs0
                      /\ v[1].pos \in Nat /\ v[2].pos \in Nat
                      /\ v[1].b_pos \in Nat /\ v[2].b_pos \in Nat
                      /\ Closer(v).dist \in Nat
  <2> SUFFICES ASSUME NEW v \in cast
               PROVE  /\ v = <<v[1], v[2]>> /\ v[1] \in pairs0 /\ v[2] \in pairs0
                      /\ v[1].pos \in Nat /\ v[2].pos \in Nat
                      /\ v[1].b_pos \in Nat /\ v[2].b_pos \in Nat
                      /\ Closer(v).dist \in Nat
    OBVIOUS
  <2>1. v = <<v[1], v[2]>> /\ v[1] \in pairs0 /\ v[2] \in pairs0
    OBVIOUS
  <2>2. v[1] \in PairType /\ v[2] \in PairType
    BY <2>1
  <2>3. \A p \in PairType : p.pos \in Nat /\ p.b_pos \in Nat /\ p.dist \in Nat
    BY SegmentSize DEF PairType
  <2>4. Closer(v) \in PairType
    BY <2>2 DEF Closer
  <2>5. QED
    BY <2>1, <2>2, <2>3, <2>4
<1>1. PICK v1 \in cast : \A w \in cast : Closer(v1).dist <= Closer(w).dist
  <2> DEFINE f == [v \in cast |-> Closer(v).dist]
  <2>1. f \in [cast -> Nat]
    BY <1>0
  <2> HIDE DEF f
  <2>2. \E v \in cast : \A w \in cast : f[v] <= f[w]
    BY <2>1, LeastOf
  <2>3. QED
    BY <2>2 DEF f
<1> DEFINE S1 == {w \in cast : Closer(w).dist = Closer(v1).dist}
<1>2. PICK v2 \in S1 : \A w \in S1 : v2[1].pos <= w[1].pos
  <2> DEFINE f == [v \in S1 |-> v[1].pos]
  <2>1. f \in [S1 -> Nat] /\ S1 # {}
    BY <1>0
  <2> HIDE DEF f, S1
  <2>2. \E v \in S1 : \A w \in S1 : f[v] <= f[w]
    BY <2>1, LeastOf
  <2>3. QED
    BY <2>2 DEF f
<1> DEFINE S2 == {w \in S1 : w[1].pos = v2[1].pos}
<1>3. PICK v3 \in S2 : \A w \in S2 : v3[2].pos <= w[2].pos
  <2> DEFINE f == [v \in S2 |-> v[2].pos]
  <2>1. f \in [S2 -> Nat] /\ S2 # {}
    BY <1>0, <1>2
  <2> HIDE DEF f, S2
  <2>2. \E v \in S2 : \A w \in S2 : f[v] <= f[w]
    BY <2>1, LeastOf
  <2>3. QED
    BY <2>2 DEF f
<1> DEFINE S3 == {w \in S2 : w[2].pos = v3[2].pos}
<1>4. PICK v4 \in S3 : \A w \in S3 : v4[1].b_pos <= w[1].b_pos
  <2> DEFINE f == [v \in S3 |-> v[1].b_pos]
  <2>1. f \in [S3 -> Nat] /\ S3 # {}
    BY <1>0, <1>3
  <2> HIDE DEF f, S3
  <2>2. \E v \in S3 : \A w \in S3 : f[v] <= f[w]
    BY <2>1, LeastOf
  <2>3. QED
    BY <2>2 DEF f
<1> DEFINE S4 == {w \in S3 : w[1].b_pos = v4[1].b_pos}
<1>5. PICK v5 \in S4 : \A w \in S4 : v5[2].b_pos <= w[2].b_pos
  <2> DEFINE f == [v \in S4 |-> v[2].b_pos]
  <2>1. f \in [S4 -> Nat] /\ S4 # {}
    BY <1>0, <1>4
  <2> HIDE DEF f, S4
  <2>2. \E v \in S4 : \A w \in S4 : f[v] <= f[w]
    BY <2>1, LeastOf
  <2>3. QED
    BY <2>2 DEF f
<1>6. v5 \in cast /\ Closer(v5).dist = Closer(v1).dist
  OBVIOUS
<1>7. ASSUME NEW w \in cast \ {v5}, Closer(w).dist = Closer(v5).dist PROVE Before(v5, w)
  <2>1. w \in S1 /\ v5 \in S2 /\ v5 \in S3 /\ v5 \in S4
    BY <1>6, <1>7
  <2>2. /\ v5[1].pos = v2[1].pos /\ v5[2].pos = v3[2].pos /\ v5[1].b_pos = v4[1].b_pos
    BY <2>1
  <2>3. v5[1].pos <= w[1].pos
    BY <1>2, <2>1, <2>2
  <2>4. v5[1].pos = w[1].pos => v5[2].pos <= w[2].pos
    BY <1>3, <2>1, <2>2
  <2>5. v5[1].pos = w[1].pos /\ v5[2].pos = w[2].pos => v5[1].b_pos <= w[1].b_pos
    BY <1>4, <2>1, <2>2
  <2>6. v5[1].pos = w[1].pos /\ v5[2].pos = w[2].pos /\ v5[1].b_pos = w[1].b_pos
          => v5[2].b_pos <= w[2].b_pos
    BY <1>5, <2>1, <2>2
  <2>7. ~(/\ v5[1].pos = w[1].pos /\ v5[2].pos = w[2].pos
          /\ v5[1].b_pos = w[1].b_pos /\ v5[2].b_pos = w[2].b_pos)
    <3> SUFFICES ASSUME v5[1].pos = w[1].pos, v5[2].pos = w[2].pos,
                        v5[1].b_pos = w[1].b_pos, v5[2].b_pos = w[2].b_pos
                 PROVE  FALSE
      OBVIOUS
    <3>1. v5[1] = w[1] /\ v5[2] = w[2]
      BY <1>0, <1>6 DEF OneDistance
    <3>2. QED
      BY <1>0, <1>6, <3>1
  <2>8. /\ v5[1].pos \in Nat /\ v5[2].pos \in Nat /\ v5[1].b_pos \in Nat /\ v5[2].b_pos \in Nat
        /\ w[1].pos \in Nat /\ w[2].pos \in Nat /\ w[1].b_pos \in Nat /\ w[2].b_pos \in Nat
    BY <1>0, <1>6
  <2> DEFINE p == <<v5[1].pos, v5[2].pos, v5[1].b_pos, v5[2].b_pos>>
             q == <<w[1].pos, w[2].pos, w[1].b_pos, w[2].b_pos>>
  <2>9. \E n \in 1..4 : p[n] < q[n] /\ \A m \in 1..(n - 1) : p[m] = q[m]
    <3> HIDE DEF S1, S2, S3, S4
    <3>1. CASE v5[1].pos < w[1].pos
      BY <3>1
    <3>2. CASE v5[1].pos = w[1].pos /\ v5[2].pos < w[2].pos
      BY <3>2
    <3>3. CASE v5[1].pos = w[1].pos /\ v5[2].pos = w[2].pos /\ v5[1].b_pos < w[1].b_pos
      BY <3>3
    <3>4. CASE /\ v5[1].pos = w[1].pos /\ v5[2].pos = w[2].pos
               /\ v5[1].b_pos = w[1].b_pos /\ v5[2].b_pos < w[2].b_pos
      BY <3>4
    <3>5. QED
      BY <2>3, <2>4, <2>5, <2>6, <2>7, <2>8, <3>1, <3>2, <3>3, <3>4
  <2>10. QED
    BY <2>9 DEF Before
<1>8. ASSUME NEW w \in cast \ {v5}
      PROVE  \/ Closer(v5).dist < Closer(w).dist
             \/ Closer(v5).dist = Closer(w).dist /\ Before(v5, w)
  <2>1. Closer(v1).dist <= Closer(w).dist /\ Closer(v1).dist \in Nat /\ Closer(w).dist \in Nat
    BY <1>0, <1>1
  <2>2. QED
    BY <1>6, <1>7, <2>1
<1>9. QED
  BY <1>6, <1>8

LEMMA SeedIsCast ==
  ASSUME NEW pairs0 \in SUBSET PairType, OneDistance(pairs0),
         NEW cast \in SUBSET (pairs0 \X pairs0), cast # {}
  PROVE  Seed(cast).vote \in cast /\ Seed(cast).pair \in pairs0
<1> DEFINE P(v) == \A w \in cast \ {v} :
                     \/ Closer(v).dist < Closer(w).dist
                     \/ Closer(v).dist = Closer(w).dist /\ Before(v, w)
           first == CHOOSE v \in cast : P(v)
<1>1. \E v \in cast : P(v)
  BY FirstVote
<1>2. first \in cast
  BY <1>1
<1>3. Seed(cast) = [vote |-> first, pair |-> Closer(first)]
  BY DEF Seed
<1> HIDE DEF first
<1>4. QED
  BY <1>2, <1>3 DEF Closer

-----------------------------------------------------------------------------
(* The candidates of one alignment *)

\* The votes for the cell of a vote, and the cell.
Cast(near, w) == {v \in Votes(near) : SameCell(v, w)}
Cell(cast) == [framerate |-> Framerate(Seed(cast).vote), offset |-> Offset(Seed(cast).vote),
               score |-> Cardinality(cast), seed |-> Seed(cast).pair]

LEMMA CellsAre ==
  ASSUME NEW near
  PROVE  houghTransform(near) = {Cell(Cast(near, w)) : w \in Votes(near)}
<1>1. \A x : x \in houghTransform(near) <=> \E w \in Votes(near) : x = Cell(Cast(near, w))
  BY DEF houghTransform, Cell, Cast
<1>2. QED
  BY <1>1

\* Of a vote's cell: how many votes it has, and that its seed is of two of them.
LEMMA CellOfVote ==
  ASSUME NEW near \in SUBSET PairType, IsFiniteSet(near), OneDistance(near), NEW w \in Votes(near)
  PROVE  LET c == Cell(Cast(near, w)) IN
           /\ c.framerate = Framerate(w) /\ c.offset = Offset(w)
           /\ c.score \in Nat \ {0}
           /\ c.seed \in near
<1> DEFINE cast == Cast(near, w)
<1>1. cast \in SUBSET (near \X near) /\ w \in cast
  BY DEF Cast, Votes, SameCell
<1>2. Seed(cast).vote \in cast /\ Seed(cast).pair \in near
  <2> HIDE DEF cast
  <2>1. QED
    BY <1>1, SeedIsCast
<1>3. SameCell(Seed(cast).vote, w)
  BY <1>2 DEF Cast
<1>4. Cardinality(cast) \in Nat \ {0}
  <2> DEFINE T == near \X near
  <2>1. IsFiniteSet(T)
    BY FS_Product
  <2> HIDE DEF cast, T
  <2>2. cast \in SUBSET T
    BY <1>1 DEF T
  <2>3. IsFiniteSet(cast)
    BY <2>1, <2>2, FS_Subset
  <2>4. Cardinality(cast) # 0 /\ Cardinality(cast) \in Nat
    BY <1>1, <2>3, FS_EmptySet, FS_CardinalityType
  <2>5. QED
    BY <2>4
<1> HIDE DEF cast
<1>5. LET c == Cell(cast) IN
        /\ c.framerate = Framerate(w) /\ c.offset = Offset(w)
        /\ c.score \in Nat \ {0} /\ c.seed \in near
  BY <1>2, <1>3, <1>4 DEF Cell, SameCell
<1>6. QED
  BY <1>5 DEF cast

\* The seed of a candidate is one of the pairs.
LEMMA SeedsArePairs ==
  ASSUME NEW near \in SUBSET PairType, IsFiniteSet(near), OneDistance(near)
  PROVE  \A c \in Chosen(houghTransform(near)) : c.seed \in near
BY CellsAre, CellOfVote DEF Chosen

LEMMA VotesOfShift ==
  ASSUME NEW near \in SUBSET PairType, NEW d \in Int, \A p \in near : p.b_pos - p.pos = d,
         NEW v \in near \X near, Run(v) > 0
  PROVE  Rise(v) = Run(v) /\ Framerate(v) = 30 /\ Offset(v) \in {d - 1, d}
<1>1. v \in PairType \X PairType /\ v[1] \in near /\ v[2] \in near
  OBVIOUS
<1>2. QED
  BY <1>1, VoteOfShift

\* Two pairs of an alignment vote, inside the accumulator.
LEMMA TwoVote ==
  ASSUME NEW near \in SUBSET PairType, OneDistance(near),
         NEW d \in Int, \A p \in near : p.b_pos - p.pos = d,
         NEW p \in near, NEW q \in near, p.pos < q.pos
  PROVE  <<p, q>> \in Votes(near)
<1> DEFINE v == <<p, q>>
<1>1. v \in near \X near /\ v[1] = p /\ v[2] = q
  OBVIOUS
<1>2. /\ p.pos \in Positions /\ q.pos \in Positions /\ p.b_pos \in Positions /\ q.b_pos \in Positions
  BY DEF PairType
<1>3. /\ p.pos \in Nat /\ q.pos \in Nat /\ p.b_pos \in Nat /\ q.b_pos \in Nat
      /\ p.pos <= COARSE_SIZE - 1 /\ q.pos <= COARSE_SIZE - 1
      /\ p.b_pos <= COARSE_SIZE - 1 /\ q.b_pos <= COARSE_SIZE - 1
      /\ COARSE_SIZE \in Nat /\ COARSE_SIZE <= 90
  BY <1>2, SegmentSize
<1> HIDE DEF v
<1>4. Run(v) \in Nat \ {0}
  BY <1>1, <1>3 DEF Run
<1>5. Rise(v) = Run(v) /\ Framerate(v) = 30 /\ Offset(v) \in {d - 1, d}
  BY <1>1, <1>4, VotesOfShift
<1>6. p.b_pos - p.pos = d /\ q.b_pos - q.pos = d
  OBVIOUS
<1>7. 0 - 88 <= d /\ d <= 88
  <2>1. ASSUME NEW a \in Nat, NEW b \in Nat, NEW e \in Nat, NEW g \in Nat, NEW n \in Nat,
               a < b, b <= n - 1, g <= n - 1, e - a = d, g - b = d, n <= 90
        PROVE  0 - 88 <= d /\ d <= 88
    BY <2>1
  <2>2. QED
    BY <1>3, <1>6, <2>1
<1>8. Framerate(v) \in 1..MAX_FRAMERATE /\ Offset(v) \in (1 - HOUGH_MAX_OFFSET)..(HOUGH_MAX_OFFSET - 1)
  <2>1. 30 \in 1..60
    OBVIOUS
  <2>2. \A x \in {d - 1, d} : x \in (1 - 90)..(90 - 1)
    BY <1>7
  <2>3. QED
    BY <1>5, <2>1, <2>2 DEF MAX_FRAMERATE, HOUGH_MAX_OFFSET
<1>9. v \in Votes(near)
  BY <1>1, <1>4, <1>5, <1>8 DEF Votes
<1>10. QED
  BY <1>9 DEF v

\* Two pairs or more, all of one alignment: a candidate has it, rounded.
LEMMA SharedChosen ==
  ASSUME NEW near \in SUBSET PairType, IsFiniteSet(near), OneDistance(near),
         NEW d \in Int, \A p \in near : p.b_pos - p.pos = d,
         NEW p0 \in near, NEW q0 \in near, p0 # q0
  PROVE  \E c \in Chosen(houghTransform(near)) : c.framerate = 30 /\ c.offset \in {d - 1, d}
<1> DEFINE V == Votes(near)
           cell(w) == Cell(Cast(near, w))
           s(w) == cell(w).score
<1>1. \E v \in V : TRUE
  <2>1. /\ p0.pos \in Nat /\ q0.pos \in Nat /\ p0.b_pos \in Int /\ q0.b_pos \in Int
    <3>1. p0 \in PairType /\ q0 \in PairType
      OBVIOUS
    <3>2. \A p \in PairType : p.pos \in Nat /\ p.b_pos \in Nat
      BY SegmentSize DEF PairType
    <3>3. QED
      BY <3>1, <3>2
  <2>2. p0.pos # q0.pos
    <3> SUFFICES ASSUME p0.pos = q0.pos PROVE FALSE
      OBVIOUS
    <3>1. p0.b_pos - p0.pos = d /\ q0.b_pos - q0.pos = d
      OBVIOUS
    <3>2. p0.b_pos = q0.b_pos
      BY <2>1, <3>1
    <3>3. QED
      BY <3>2 DEF OneDistance
  <2>3. p0.pos < q0.pos \/ q0.pos < p0.pos
    BY <2>1, <2>2
  <2>4. <<p0, q0>> \in V \/ <<q0, p0>> \in V
    BY <2>3, TwoVote
  <2>5. QED
    BY <2>4
<1>2. \A w \in V : Framerate(w) = 30 /\ Offset(w) \in {d - 1, d}
  <2> SUFFICES ASSUME NEW w \in V PROVE Framerate(w) = 30 /\ Offset(w) \in {d - 1, d}
    OBVIOUS
  <2>1. w \in near \X near /\ Run(w) > 0
    BY DEF Votes
  <2>2. QED
    BY <2>1, VotesOfShift
<1>3. \A w \in V : cell(w).framerate = 30 /\ cell(w).offset = Offset(w) /\ s(w) \in Nat \ {0}
  BY <1>2, CellOfVote
<1>4. \A w, x \in V : Offset(w) = Offset(x) => s(w) = s(x)
  <2> SUFFICES ASSUME NEW w \in V, NEW x \in V, Offset(w) = Offset(x) PROVE Cast(near, w) = Cast(near, x)
    OBVIOUS
  <2>1. QED
    BY <1>2 DEF Cast, SameCell
<1>5. houghTransform(near) = {cell(w) : w \in V}
  BY CellsAre
<1> HIDE DEF V, cell
<1>6. PICK v \in V : \A w \in V : s(w) <= s(v)
  <2>1. PICK v0 \in V : TRUE
    BY <1>1
  <2>2. CASE \A w \in V : s(w) <= s(v0)
    BY <2>2
  <2>3. ASSUME NEW v1 \in V, ~(s(v1) <= s(v0)) PROVE \A w \in V : s(w) <= s(v1)
    <3> SUFFICES ASSUME NEW w \in V PROVE s(w) <= s(v1)
      OBVIOUS
    <3>1. Offset(v1) # Offset(v0)
      BY <1>3, <1>4, <2>3
    <3>2. Offset(w) = Offset(v1) \/ Offset(w) = Offset(v0)
      BY <1>2, <3>1
    <3>3. s(w) = s(v1) \/ s(w) = s(v0)
      BY <1>4, <3>2
    <3>4. QED
      BY <1>3, <2>3, <3>3
  <2>4. QED
    BY <2>2, <2>3
<1>7. \A w \in V : s(v) > (7 * s(w)) \div 10
  <2>1. ASSUME NEW m \in Nat \ {0}, NEW n \in Nat, n <= m PROVE m > (7 * n) \div 10
    BY <2>1
  <2>2. QED
    BY <1>3, <1>6, <2>1
<1>8. cell(v) \in Chosen(houghTransform(near))
  BY <1>5, <1>7 DEF Chosen
<1>9. cell(v).framerate = 30 /\ cell(v).offset \in {d - 1, d}
  BY <1>2, <1>3
<1>10. QED
  BY <1>8, <1>9

-----------------------------------------------------------------------------
(* What two similar segments share *)

\* What a similar pair's candidates are found from.
Alike(x) == CloseFrames(clips[1], clips[2], x)
SharedOf(f) ==
  \A d \in Shifts(Alike(f.at)) :
    /\ \E c \in DOMAIN f.walks : c.framerate = 30 /\ c.offset \in {d - 1, d}
    /\ \A c \in DOMAIN f.walks : c.seed \in Alike(f.at)

\* If all of it is one alignment, that is a candidate, and all seeds are from it.
LEMMA AlikeIsChosen ==
  ASSUME NEW alike \in SUBSET PairType, IsFiniteSet(alike), OneDistance(alike), NEW d \in Shifts(alike)
  PROVE  LET chosen == Chosen(houghTransform(Nearest(alike))) IN
           /\ \E c \in chosen : c.framerate = 30 /\ c.offset \in {d - 1, d}
           /\ \A c \in chosen : c.seed \in alike
<1>1. ~(Cardinality(alike) < 3) /\ \A p \in alike : p.b_pos - p.pos = d
  BY DEF Shifts
<1>2. PICK p0 \in alike, q0 \in alike : p0 # q0
  <2> SUFFICES ASSUME \A p, q \in alike : p = q PROVE FALSE
    OBVIOUS
  <2>1. alike = {} \/ \E p : alike = {p}
    <3>1. CASE alike = {}
      BY <3>1
    <3>2. ASSUME NEW p \in alike PROVE alike = {p}
      OBVIOUS
    <3>3. QED
      BY <3>1, <3>2
  <2>2. Cardinality(alike) = 0 \/ Cardinality(alike) = 1
    BY <2>1, FS_EmptySet, FS_Singleton
  <2>3. QED
    BY <1>1, <2>2
<1>3. \A p \in alike : p.pos \in Nat /\ p.b_pos \in Nat /\ p.dist \in Nat
  BY SegmentSize DEF PairType
<1>4. d \in Int
  <2>1. p0.b_pos - p0.pos = d
    BY <1>1
  <2>2. QED
    BY <1>3, <2>1
<1>5. Nearest(alike) = alike
  <2>1. ASSUME NEW p \in alike, NEW q \in alike, q.pos = p.pos PROVE p.dist <= q.dist
    <3>1. p.b_pos - p.pos = d /\ q.b_pos - q.pos = d
      BY <1>1
    <3>2. p.b_pos = q.b_pos
      BY <1>3, <1>4, <2>1, <3>1
    <3>3. p = q
      BY <2>1, <3>2 DEF OneDistance
    <3>4. QED
      BY <1>3, <3>3
  <2>2. QED
    BY <2>1 DEF Nearest
<1>6. \E c \in Chosen(houghTransform(alike)) : c.framerate = 30 /\ c.offset \in {d - 1, d}
  BY <1>1, <1>2, <1>4, SharedChosen
<1>7. \A c \in Chosen(houghTransform(alike)) : c.seed \in alike
  BY SeedsArePairs
<1>8. QED
  BY <1>5, <1>6, <1>7

\* Of every similar pair that was looked at; and where the one at hand stands.
SharedInv ==
  /\ \A f \in found : SharedOf(f)
  /\ stage = "voting" => pairs = Nearest(Alike(Here))
  /\ stage = "choosing" => hspace = houghTransform(Nearest(Alike(Here)))

\* The frames of a pair of segments at hand are of two whole clips.
LEMMA AlikeIs ==
  ASSUME Held, Swept, stage # "waiting"
  PROVE  /\ Alike(Here) \in SUBSET PairType
         /\ OneDistance(Alike(Here)) /\ IsFiniteSet(Alike(Here))
<1>1. /\ clips \in Seq(Clip) /\ Len(clips) = 2 /\ WholeClip(clips[1])
      /\ cs \in DOMAIN clips[1].coarse
  <2>1. clips \in Seq(Clip) /\ Len(clips) = 2 /\ cs \in DOMAIN clips[1].coarse
        /\ \A n \in DOMAIN clips : WholeClip(clips[n])
    BY DEF Held, Swept
  <2>2. 1 \in DOMAIN clips
    BY <2>1
  <2>3. QED
    BY <2>1, <2>2
<1>2. clips[1] \in Clip
  BY <1>1
<1>3. /\ clips[1].fine \in Seq(Fine) /\ clips[1].coarse \in Seq(Coarse)
      /\ clips[1].linked \in Seq([first : Nat, last : Nat])
  BY <1>2 DEF Clip
<1> DEFINE first == clips[1].linked[cs].first
<1>4. cs \in DOMAIN clips[1].linked
  BY <1>1, <1>3 DEF WholeClip
<1>5. first \in Nat /\ first >= 1
  <2>1. clips[1].linked[cs] \in [first : Nat, last : Nat]
    <3> DEFINE l == clips[1].linked
               Frames == [first : Nat, last : Nat]
    <3>1. l \in Seq(Frames) /\ cs \in DOMAIN l
      BY <1>3, <1>4
    <3> HIDE DEF l, Frames
    <3>2. l[cs] \in Frames
      BY <3>1
    <3>3. QED
      BY <3>2 DEF l, Frames
  <2>2. QED
    BY <1>1, <1>4, <2>1 DEF WholeClip
<1>6. first \in Nat \ {0}
  BY <1>5
<1>7. Alike(Here) = Close(clips[1].fine, first, clips[2].fine, clips[2].linked[cs2].first)
  BY DEF Alike, CloseFrames, Here
<1> HIDE DEF first
<1>8. QED
  BY <1>3, <1>6, <1>7, CloseIs

LEMMA SharedInit == Init => SharedInv
BY DEF Init, InitSearch, SharedInv

LEMMA SharedNext == Held /\ Swept /\ SharedInv /\ [Next]_vars => SharedInv'
<1> SUFFICES ASSUME Held, Swept, SharedInv, [Next]_vars PROVE SharedInv'
  OBVIOUS
<1>1. CASE UNCHANGED search /\ UNCHANGED clips
  BY <1>1 DEF search, SharedInv, SharedOf, Alike, Here
<1>2. CASE Hold
  <2>1. phase = "loaded" /\ UNCHANGED search
    BY <1>2 DEF Hold
  <2>2. stage = "waiting" /\ found = {}
    BY <2>1 DEF Held, Swept
  <2>3. stage' = "waiting" /\ found' = {}
    BY <2>1, <2>2 DEF search
  <2>4. QED
    BY <2>3 DEF SharedInv
<1>3. CASE UNCHANGED <<clips, found>> /\ stage' \notin {"voting", "choosing"}
  BY <1>3 DEF SharedInv, SharedOf, Alike
<1>4. CASE \/ Process
           \/ UNCHANGED clips /\ (Compare(clips[1], clips[2]) \/ Evaluate \/ Evaluated(clips[1], clips[2]))
  BY <1>3, <1>4 DEF Process, Begin, Compare, Evaluate, Evaluated, NextPair
<1>5. CASE FindPairs(clips[1], clips[2]) /\ UNCHANGED clips
  <2>1. stage' = "voting" /\ pairs' = Nearest(Alike(Here)) /\ UNCHANGED <<cs, cs2, found, clips>>
    BY <1>5 DEF FindPairs, Alike, Here
  <2>2. QED
    BY <2>1 DEF SharedInv, SharedOf, Alike, Here
<1>6. CASE Vote /\ UNCHANGED clips
  <2>1. /\ stage = "voting" /\ stage' = "choosing" /\ hspace' = houghTransform(pairs)
        /\ UNCHANGED <<cs, cs2, found, clips>>
    BY <1>6 DEF Vote
  <2>2. QED
    BY <2>1 DEF SharedInv, SharedOf, Alike, Here
<1>7. CASE Choose /\ UNCHANGED clips
  <2>1. PICK w \in [Chosen(hspace) -> Walks] : found' = found \cup {[at |-> Here, walks |-> w]}
    BY <1>7 DEF Choose, Here
  <2>2. stage = "choosing" /\ stage' = "evaluating"
    BY <1>7 DEF Choose
  <2>3. hspace = houghTransform(Nearest(Alike(Here)))
    BY <2>2 DEF SharedInv
  <2>4. /\ Alike(Here) \in SUBSET PairType
        /\ OneDistance(Alike(Here)) /\ IsFiniteSet(Alike(Here))
    BY <2>2, AlikeIs
  <2>5. SharedOf([at |-> Here, walks |-> w])
    <3>1. ASSUME NEW d \in Shifts(Alike(Here))
          PROVE  /\ \E c \in Chosen(hspace) : c.framerate = 30 /\ c.offset \in {d - 1, d}
                 /\ \A c \in Chosen(hspace) : c.seed \in Alike(Here)
      BY <2>3, <2>4, AlikeIsChosen
    <3>2. DOMAIN w = Chosen(hspace)
      OBVIOUS
    <3>3. QED
      BY <3>1, <3>2 DEF SharedOf
  <2>6. \A f \in found' : SharedOf(f)
    BY <2>1, <2>5 DEF SharedInv
  <2>7. \A f \in found' : SharedOf(f)'
    BY <1>7, <2>6 DEF SharedOf, Alike
  <2>8. QED
    BY <2>2, <2>7 DEF SharedInv
<1>8. CASE Next
  <2>1. CASE Open \/ (Load /\ UNCHANGED <<search, clips>>)
    BY <1>1, <2>1 DEF Open
  <2>2. CASE Search(clips[1], clips[2]) /\ UNCHANGED <<loader, clips>>
    <3>1. UNCHANGED clips
      BY <2>2
    <3>2. QED
      BY <1>4, <1>5, <1>6, <1>7, <2>2, <3>1 DEF Search
  <2>3. CASE Process
    BY <1>4, <2>3
  <2>4. QED
    BY <1>2, <1>8, <2>1, <2>2, <2>3 DEF Next
<1>9. CASE UNCHANGED vars
  BY <1>1, <1>9 DEF vars
<1>10. QED
  BY <1>8, <1>9

\* Whatever two similar segments share in one alignment is a candidate at that
\* alignment, rounded, and the walks start from two of its frames
\* (get_matching_parameters, and the walk that evaluate_parameters starts).
THEOREM SharedSegmentsAreFound == Spec => []SharedIsFound
<1> DEFINE Inv == LoaderInv /\ SearchInv /\ SharedInv
<1>1. Init => Inv
  BY LoaderInit, HeldInit, SweptInit, RankingInit, SharedInit DEF SearchInv
<1>2. Inv /\ [Next]_vars => Inv'
  BY LoaderNext, HeldNext, SweptNext, RankingNext, SharedNext DEF SearchInv
<1>3. Inv => SharedIsFound
  BY DEF SharedInv, SharedOf, Alike, SharedIsFound
<1>4. QED
  BY <1>1, <1>2, <1>3, PTL DEF Spec

-----------------------------------------------------------------------------
(* The search moves on *)

\* The next pair of segments, the next stage of this one, or one candidate less.
Stages == <<"waiting", "comparing", "pairing", "voting", "choosing", "evaluating", "done">>
Forward ==
  \/ cs' > cs
  \/ cs' = cs /\ cs2' > cs2
  \/ /\ cs' = cs /\ cs2' = cs2
     /\ \E i, j \in DOMAIN Stages : i < j /\ stage = Stages[i] /\ stage' = Stages[j]
  \/ /\ UNCHANGED <<cs, cs2, stage>>
     /\ IsFiniteSet(DOMAIN infos)
     /\ \E c \in DOMAIN infos : DOMAIN infos' = DOMAIN infos \ {c}

\* Of the candidates that are left one is the first of the accumulator.
FirstIsLeft ==
  DOMAIN infos # {} => \E c \in DOMAIN infos : \A d \in DOMAIN infos \ {c} : Precedes(c, d)

\* What is left are cells the frames of this pair have voted for.
LeftInv == stage = "evaluating" => DOMAIN infos \subseteq houghTransform(Nearest(Alike(Here)))

LEMMA NearestIs ==
  ASSUME NEW alike \in SUBSET PairType, OneDistance(alike), IsFiniteSet(alike)
  PROVE  /\ Nearest(alike) \in SUBSET PairType
         /\ OneDistance(Nearest(alike)) /\ IsFiniteSet(Nearest(alike))
<1>1. Nearest(alike) \in SUBSET alike
  BY DEF Nearest
<1>2. IsFiniteSet(Nearest(alike))
  BY <1>1, FS_Subset
<1>3. QED
  BY <1>1, <1>2 DEF OneDistance

\* The accumulator has finitely many cells with votes, and no place has two.
LEMMA CellsAreFinite ==
  ASSUME NEW near, IsFiniteSet(near)
  PROVE  IsFiniteSet(houghTransform(near))
<1> DEFINE V == Votes(near)
           T == near \X near
           f == [w \in V |-> Cell(Cast(near, w))]
           U == {f[w] : w \in V}
<1>1. IsFiniteSet(T) /\ V \in SUBSET T
  <2>1. IsFiniteSet(T)
    BY FS_Product
  <2>2. V \in SUBSET T
    BY DEF Votes
  <2>3. QED
    BY <2>1, <2>2
<1>2. houghTransform(near) = U
  BY CellsAre
<1> HIDE DEF V, T
<1>3. IsFiniteSet(V)
  BY <1>1, FS_Subset
<1>4. f \in Surjection(V, U)
  BY DEF Surjection
<1> HIDE DEF f, U
<1>5. IsFiniteSet(U)
  BY <1>3, <1>4, FS_Surjection
<1>6. QED
  BY <1>2, <1>5

LEMMA CellsHavePlaces ==
  ASSUME NEW near \in SUBSET PairType, IsFiniteSet(near), OneDistance(near)
  PROVE  LET cells == houghTransform(near) IN
           /\ \A c \in cells : c.framerate \in Nat /\ c.offset + HOUGH_MAX_OFFSET \in Nat
                               /\ c.offset \in Int
           /\ \A c, d \in cells : c.framerate = d.framerate /\ c.offset = d.offset => c = d
<1> DEFINE V == Votes(near)
           cell(w) == Cell(Cast(near, w))
<1>1. houghTransform(near) = {cell(w) : w \in V}
  BY CellsAre
<1>2. \A w \in V : cell(w).framerate = Framerate(w) /\ cell(w).offset = Offset(w)
  BY CellOfVote
<1>3. \A w \in V : Framerate(w) \in Nat /\ Offset(w) + HOUGH_MAX_OFFSET \in Nat /\ Offset(w) \in Int
  <2>1. \A w \in V : Framerate(w) \in 1..60 /\ Offset(w) \in (1 - 90)..(90 - 1)
    BY DEF Votes, MAX_FRAMERATE, HOUGH_MAX_OFFSET
  <2> HIDE DEF V
  <2>2. QED
    BY <2>1 DEF HOUGH_MAX_OFFSET
<1>4. \A w, x \in V : Framerate(w) = Framerate(x) /\ Offset(w) = Offset(x) => cell(w) = cell(x)
  <2> SUFFICES ASSUME NEW w \in V, NEW x \in V, Framerate(w) = Framerate(x), Offset(w) = Offset(x)
               PROVE  Cast(near, w) = Cast(near, x)
    OBVIOUS
  <2>1. QED
    BY DEF Cast, SameCell
<1> HIDE DEF V, cell
<1>5. QED
  BY <1>1, <1>2, <1>3, <1>4

\* Of any cells with votes one comes first.
LEMMA FirstCell ==
  ASSUME NEW near \in SUBSET PairType, IsFiniteSet(near), OneDistance(near),
         NEW S \in SUBSET houghTransform(near), S # {}
  PROVE  \E c \in S : \A d \in S \ {c} : Precedes(c, d)
<1>1. \A c \in S : /\ c.framerate \in Nat /\ c.offset + HOUGH_MAX_OFFSET \in Nat
                   /\ c.offset \in Int
  BY CellsHavePlaces
<1>2. \A c, d \in S : c.framerate = d.framerate /\ c.offset = d.offset => c = d
  BY CellsHavePlaces
<1>3. PICK c1 \in S : \A d \in S : c1.framerate <= d.framerate
  <2> DEFINE f == [c \in S |-> c.framerate]
  <2>1. f \in [S -> Nat]
    BY <1>1
  <2> HIDE DEF f
  <2>2. \E c \in S : \A d \in S : f[c] <= f[d]
    BY <2>1, LeastOf
  <2>3. QED
    BY <2>2 DEF f
<1> DEFINE R == {d \in S : d.framerate = c1.framerate}
<1>4. PICK c2 \in R : \A d \in R : c2.offset + HOUGH_MAX_OFFSET <= d.offset + HOUGH_MAX_OFFSET
  <2> DEFINE f == [c \in R |-> c.offset + HOUGH_MAX_OFFSET]
  <2>1. f \in [R -> Nat] /\ R # {}
    BY <1>1
  <2> HIDE DEF f, R
  <2>2. \E c \in R : \A d \in R : f[c] <= f[d]
    BY <2>1, LeastOf
  <2>3. QED
    BY <2>2 DEF f
<1>5. ASSUME NEW d \in S \ {c2} PROVE Precedes(c2, d)
  <2>1. /\ c2.framerate = c1.framerate /\ c2 \in S /\ c1.framerate <= d.framerate
        /\ c2.framerate \in Nat /\ d.framerate \in Nat /\ c2.offset \in Int /\ d.offset \in Int
    BY <1>1, <1>3
  <2>2. CASE d.framerate = c1.framerate
    <3>1. c2.offset + HOUGH_MAX_OFFSET <= d.offset + HOUGH_MAX_OFFSET
      BY <1>4, <2>2
    <3>2. c2.offset <= d.offset
      BY <2>1, <3>1 DEF HOUGH_MAX_OFFSET
    <3>3. c2.offset # d.offset
      BY <1>2, <2>1, <2>2
    <3>4. QED
      BY <2>1, <2>2, <3>2, <3>3 DEF Precedes
  <2>3. CASE d.framerate # c1.framerate
    BY <2>1, <2>3 DEF Precedes
  <2>4. QED
    BY <2>2, <2>3
<1>6. QED
  BY <1>5

LEMMA LeftInit == Init => LeftInv
BY DEF Init, InitSearch, LeftInv

LEMMA LeftNext == Held /\ Swept /\ SharedInv /\ LeftInv /\ [Next]_vars => LeftInv'
<1> SUFFICES ASSUME Held, Swept, SharedInv, LeftInv, [Next]_vars PROVE LeftInv'
  OBVIOUS
<1>1. CASE UNCHANGED search /\ UNCHANGED clips
  BY <1>1 DEF search, LeftInv, Alike, Here
<1>2. CASE stage' # "evaluating"
  BY <1>2 DEF LeftInv
<1>3. CASE Hold
  <2>1. phase = "loaded" /\ UNCHANGED search
    BY <1>3 DEF Hold
  <2>2. stage = "waiting" /\ stage' = stage
    BY <2>1 DEF Held, Swept, search
  <2>3. QED
    BY <1>2, <2>2
<1>4. CASE Evaluate /\ UNCHANGED clips
  <2>1. UNCHANGED <<stage, cs, cs2, clips>> /\ DOMAIN infos' \subseteq DOMAIN infos
    BY <1>4 DEF Evaluate, Restrict
  <2>2. QED
    BY <2>1 DEF LeftInv, Alike, Here
<1>5. CASE Choose /\ UNCHANGED clips
  <2>1. /\ stage = "choosing" /\ UNCHANGED <<cs, cs2, clips>>
        /\ infos' \in [Chosen(hspace) -> Walks]
    BY <1>5 DEF Choose
  <2>2. DOMAIN infos' \subseteq hspace /\ hspace = houghTransform(Nearest(Alike(Here)))
    BY <2>1 DEF Chosen, SharedInv
  <2>3. QED
    BY <2>1, <2>2 DEF LeftInv, Alike, Here
<1>6. CASE Next
  <2>1. CASE Open \/ (Load /\ UNCHANGED <<search, clips>>)
    BY <1>1, <2>1 DEF Open
  <2>2. CASE Process
    BY <1>2, <2>2 DEF Process, Begin
  <2>3. CASE Search(clips[1], clips[2]) /\ UNCHANGED <<loader, clips>>
    <3>1. CASE Compare(clips[1], clips[2]) \/ FindPairs(clips[1], clips[2]) \/ Vote
               \/ Evaluated(clips[1], clips[2])
      BY <1>2, <3>1 DEF Compare, FindPairs, Vote, Evaluated, NextPair
    <3>2. QED
      BY <1>4, <1>5, <2>3, <3>1 DEF Search
  <2>4. QED
    BY <1>3, <1>6, <2>1, <2>2, <2>3 DEF Next
<1>7. CASE UNCHANGED vars
  BY <1>1, <1>7 DEF vars
<1>8. QED
  BY <1>6, <1>7

\* The cells of the pair at hand.
LEMMA LeftIs ==
  ASSUME Held, Swept, Ranking, LeftInv
  PROVE  IsFiniteSet(DOMAIN infos) /\ FirstIsLeft
<1>1. CASE stage # "evaluating"
  <2>1. DOMAIN infos = {}
    BY <1>1 DEF Ranking
  <2>2. QED
    BY <2>1, FS_EmptySet DEF FirstIsLeft
<1>2. CASE stage = "evaluating"
  <2> DEFINE near == Nearest(Alike(Here))
  <2>1. near \in SUBSET PairType /\ OneDistance(near) /\ IsFiniteSet(near)
    BY <1>2, AlikeIs, NearestIs
  <2>2. DOMAIN infos \in SUBSET houghTransform(near)
    BY <1>2 DEF LeftInv
  <2> HIDE DEF near
  <2>3. IsFiniteSet(DOMAIN infos)
    BY <2>1, <2>2, CellsAreFinite, FS_Subset
  <2>4. FirstIsLeft
    BY <2>1, <2>2, FirstCell DEF FirstIsLeft
  <2>5. QED
    BY <2>3, <2>4
<1>3. QED
  BY <1>1, <1>2

LEMMA StepsAreForward ==
  ASSUME Held, Swept, Ranking, LeftInv, [Next]_vars
  PROVE  [Forward]_search
<1> USE DEF Stages
<1>1. CASE UNCHANGED search
  BY <1>1
<1>2. CASE Process
  <2>1. stage = Stages[1] /\ stage' = Stages[2] /\ cs' = cs /\ cs2' = cs2
    BY <1>2 DEF Process, Begin
  <2>2. QED
    BY <2>1 DEF Forward
<1>3. ASSUME stage # "waiting" PROVE cs \in Nat /\ cs2 \in Nat
  BY <1>3, TwoClips DEF Swept
<1>4. ASSUME NextPair(clips[1], clips[2]), stage \in {"comparing", "evaluating"} PROVE Forward
  <2>1. cs \in Nat /\ cs2 \in Nat
    BY <1>3, <1>4
  <2>2. CASE cs2' = cs2 + 1 /\ cs' = cs
    BY <2>1, <2>2 DEF Forward
  <2>3. CASE cs' = cs + 1
    BY <2>1, <2>3 DEF Forward
  <2>4. CASE stage' = "done" /\ UNCHANGED <<cs, cs2>>
    <3>1. PICK i \in {2, 6} : stage = Stages[i]
      BY <1>4
    <3>2. i \in DOMAIN Stages /\ 7 \in DOMAIN Stages /\ i < 7 /\ stage' = Stages[7]
      BY <2>4, <3>1
    <3>3. QED
      BY <2>4, <3>1, <3>2 DEF Forward
  <2>5. QED
    BY <1>4, <2>2, <2>3, <2>4 DEF NextPair
<1>5. CASE Compare(clips[1], clips[2])
  <2>1. CASE stage = Stages[2] /\ stage' = Stages[3] /\ UNCHANGED <<cs, cs2>>
    BY <2>1 DEF Forward
  <2>2. QED
    BY <1>4, <1>5, <2>1 DEF Compare
<1>6. CASE FindPairs(clips[1], clips[2])
  <2>1. stage = Stages[3] /\ stage' = Stages[4] /\ UNCHANGED <<cs, cs2>>
    BY <1>6 DEF FindPairs
  <2>2. QED
    BY <2>1 DEF Forward
<1>7. CASE Vote
  <2>1. stage = Stages[4] /\ stage' = Stages[5] /\ UNCHANGED <<cs, cs2>>
    BY <1>7 DEF Vote
  <2>2. QED
    BY <2>1 DEF Forward
<1>8. CASE Choose
  <2>1. stage = Stages[5] /\ stage' = Stages[6] /\ UNCHANGED <<cs, cs2>>
    BY <1>8 DEF Choose
  <2>2. QED
    BY <2>1 DEF Forward
<1>9. CASE Evaluate
  <2>1. UNCHANGED <<cs, cs2, stage>> /\ IsFiniteSet(DOMAIN infos)
    BY <1>9, LeftIs DEF Evaluate
  <2>2. \E c \in DOMAIN infos : DOMAIN infos' = DOMAIN infos \ {c}
    BY <1>9 DEF Evaluate, Restrict
  <2>3. QED
    BY <2>1, <2>2 DEF Forward
<1>10. CASE Evaluated(clips[1], clips[2])
  BY <1>4, <1>10 DEF Evaluated
<1>11. CASE Next
  <2>1. CASE Open \/ Hold \/ (Load /\ UNCHANGED <<search, clips>>)
    BY <1>1, <2>1 DEF Open, Hold
  <2>2. QED
    BY <1>2, <1>5, <1>6, <1>7, <1>8, <1>9, <1>10, <1>11, <2>1 DEF Next, Search
<1>12. CASE UNCHANGED vars
  BY <1>1, <1>12 DEF vars
<1>13. QED
  BY <1>11, <1>12

CompareInv == LoaderInv /\ SearchInv /\ SharedInv /\ LeftInv

LEMMA CompareInvariant == Spec => []CompareInv
<1>1. Init => CompareInv
  BY LoaderInit, HeldInit, SweptInit, RankingInit, SharedInit, LeftInit DEF CompareInv, SearchInv
<1>2. CompareInv /\ [Next]_vars => CompareInv'
  BY LoaderNext, HeldNext, SweptNext, RankingNext, SharedNext, LeftNext DEF CompareInv, SearchInv
<1>3. QED
  BY <1>1, <1>2, PTL DEF Spec

\* A search never goes in circles: whatever it does brings it to a later pair of
\* segments, to a later stage of the same, or leaves one candidate fewer of finitely
\* many (find_next_coarsecandidate and the loop over the candidates).
THEOREM SearchMovesOn == Spec => [][Forward]_search
<1>1. CompareInv /\ [Next]_vars => [Forward]_search
  BY StepsAreForward DEF CompareInv, SearchInv
<1>2. QED
  BY <1>1, CompareInvariant, PTL DEF Spec

\* It never waits for a candidate either: as long as some are left, one of them is
\* first in the order of the accumulator, for no two have one place in it.
THEOREM ACandidateIsNext == Spec => []FirstIsLeft
<1>1. CompareInv => FirstIsLeft
  BY LeftIs DEF CompareInv, SearchInv
<1>2. QED
  BY <1>1, CompareInvariant, PTL
=============================================================================
