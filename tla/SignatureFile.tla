--------------------------- MODULE SignatureFile ---------------------------
(***************************************************************************)
(* Loading one signature (signature_load.c: binary_import): the header,    *)
(* the counts it claims, the coarse signatures of the segments, the fine   *)
(* signatures of the frames, and what links the ones to the others.        *)
(*                                                                         *)
(* Abstracted: a field is there as its value, and as its width in bits;    *)
(* the fields of the header that must have one value are one field.  The   *)
(* file is what it is while it is read.                                    *)
(***************************************************************************)
EXTENDS Integers, Sequences, TLC

CONSTANTS Word, Sig  \* the words of a segment, and a frame's signature

ASSUME SigAssumption == Sig \subseteq Seq(Nat)

\* A file: its length in bytes, what its header claims, and what follows.
Coarse == [timed : BOOLEAN, firstIndex : Nat, lastIndex : Nat, firstPts : Nat, lastPts : Nat,
           words : Seq(Word)]
Fine   == [timed : BOOLEAN, pts : Nat, confidence : Nat, packed : BOOLEAN, sig : Sig]
File   == [bytes : Nat, readable : BOOLEAN, region : BOOLEAN, segments : Nat, frames : Nat,
           den : Nat, firstPts : Nat, lastPts : Nat, coarse : Seq(Coarse),
           compressed : BOOLEAN, fine : Seq(Fine)]

VARIABLES
  file,    \* the file
  phase,   \* where binary_import is: "loaded" and "rejected" are its ends
  pos,     \* how far the bit reader is
  coarse,  \* the segments read: bCoarseList
  fine,    \* the frames read: finesiglist
  linked   \* the first and last frame of each segment

loader == <<file, phase, pos, coarse, fine, linked>>

-----------------------------------------------------------------------------
(* Sizes, in bits *)

SIG_HEADER_BITS == 274
SIG_COARSE_BITS == 1344
SIG_FLAG_BITS   == 1
SIG_FINE_BITS   == 689

\* What the calls of get_bits add up to.
HeaderRead == 32 + 1 + 16 + 16 + 16 + 16 + 32 + 32 + 16 + 1 + 32 + 32 + 32
CoarseRead == 32 + 32 + 1 + 32 + 32 + 5 * (30 * 8 + 3)
FineRead   == 1 + 32 + 8 + 5 * 8 + 76 * 8

INT_MAX  == 2147483647
PADDING  == 64  \* AV_INPUT_BUFFER_PADDING_SIZE

\* Mutated: the flag between the two lists is forgotten.
NeedBits_NoFlag(f) == SIG_HEADER_BITS + f.segments * SIG_COARSE_BITS + f.frames * SIG_FINE_BITS
NeedBits(f) ==
  SIG_HEADER_BITS + f.segments * SIG_COARSE_BITS + SIG_FLAG_BITS + f.frames * SIG_FINE_BITS
Backed(f) == (NeedBits(f) + 7) \div 8 <= f.bytes

-----------------------------------------------------------------------------

In(here) == phase = here
Enter(there) == phase' = there

\* rejectSignature: the process ends.
Reject == Enter("rejected")

Measure ==
  /\ In("opening")
  /\ \/ /\ file.readable
        /\ file.bytes <= (INT_MAX - PADDING * 8) \div 8
        /\ file.bytes >= (SIG_HEADER_BITS + 7) \div 8
        /\ Enter("header")
     \/ /\ \/ ~file.readable
           \/ file.bytes > (INT_MAX - PADDING * 8) \div 8
           \/ file.bytes < (SIG_HEADER_BITS + 7) \div 8
        /\ Reject
  /\ UNCHANGED <<file, pos, coarse, fine, linked>>

\* One region from the origin and frame zero on, with timestamps; counts that
\* the file has the bytes for.
HeaderIsGood ==
  /\ file.region
  /\ file.firstPts <= file.lastPts
  /\ file.segments # 0 /\ file.frames # 0 /\ file.den # 0
  /\ Backed(file)
ReadHeader ==
  /\ In("header")
  /\ pos' = pos + HeaderRead
  /\ \/ HeaderIsGood /\ Enter("coarse")
     \/ ~HeaderIsGood /\ Reject
  /\ UNCHANGED <<file, coarse, fine, linked>>

InRegion(pts) == file.firstPts <= pts /\ pts <= file.lastPts

CoarseIsGood(c) ==
  /\ c.timed
  /\ c.firstIndex <= c.lastIndex /\ c.lastIndex < file.frames
  /\ c.firstPts <= c.lastPts /\ InRegion(c.firstPts) /\ InRegion(c.lastPts)
ReadCoarse ==
  /\ In("coarse")
  /\ Len(coarse) < file.segments
  /\ pos' = pos + CoarseRead
  /\ LET c == file.coarse[Len(coarse) + 1]
     IN  \/ CoarseIsGood(c) /\ coarse' = Append(coarse, c) /\ UNCHANGED phase
         \/ ~CoarseIsGood(c) /\ Reject /\ UNCHANGED coarse
  /\ UNCHANGED <<file, fine, linked>>

ReadFlag ==
  /\ In("coarse")
  /\ Len(coarse) = file.segments
  /\ pos' = pos + SIG_FLAG_BITS
  /\ \/ ~file.compressed /\ Enter("fine")
     \/ file.compressed /\ Reject
  /\ UNCHANGED <<file, coarse, fine, linked>>

\* A timestamp inside the region, and packed ternary values.
FineIsGood(f) == f.timed /\ InRegion(f.pts) /\ f.packed
ReadFine ==
  /\ In("fine")
  /\ Len(fine) < file.frames
  /\ pos' = pos + FineRead
  /\ LET f == file.fine[Len(fine) + 1]
     IN  \/ FineIsGood(f) /\ fine' = Append(fine, f) /\ UNCHANGED phase
         \/ ~FineIsGood(f) /\ Reject /\ UNCHANGED fine
  /\ UNCHANGED <<file, coarse, linked>>

\* qsort by pts: any order of frames of one time.
Orders == {o \in Permutations(DOMAIN fine) \cap [DOMAIN fine -> DOMAIN fine] :
             \A i, j \in DOMAIN fine : i < j => fine[o[i]].pts <= fine[o[j]].pts}
Sort ==
  /\ In("fine")
  /\ Len(fine) = file.frames
  /\ \E o \in Orders : fine' = [i \in DOMAIN fine |-> fine[o[i]]]
  /\ Enter("linking")
  /\ UNCHANGED <<file, pos, coarse, linked>>

\* Mutated: a frame at the very start of a segment is not of it.
Covers_After(c, f) == c.firstPts < f.pts /\ f.pts <= c.lastPts
Covers(c, f) == c.firstPts <= f.pts /\ f.pts <= c.lastPts

\* The first and the last frame of a segment; every segment must have one.
Link ==
  /\ In("linking")
  /\ Len(linked) < Len(coarse)
  /\ LET covered == {j \in DOMAIN fine : Covers(coarse[Len(linked) + 1], fine[j])}
     IN  \/ /\ \E first, last \in covered :
                 /\ covered \subseteq first..last
                 /\ linked' = Append(linked, [first |-> first, last |-> last])
            /\ UNCHANGED phase
         \/ covered = {} /\ Reject /\ UNCHANGED linked
  /\ UNCHANGED <<file, pos, coarse, fine>>

Loaded ==
  /\ In("linking")
  /\ Len(linked) = Len(coarse)
  /\ Enter("loaded")
  /\ UNCHANGED <<file, pos, coarse, fine, linked>>

\* binary_import is called.
Import(f) ==
  /\ file' = f
  /\ phase' = "opening"
  /\ pos' = 0 /\ coarse' = <<>> /\ fine' = <<>> /\ linked' = <<>>

Load ==
  \/ Measure \/ ReadHeader \/ ReadCoarse \/ ReadFlag \/ ReadFine \/ Sort \/ Link \/ Loaded

-----------------------------------------------------------------------------
(* What the runs check *)

\* "Everything below reads what the counts promise, so the counts have to be
\* backed by bytes before a single one is read": the bit reader, which counts in
\* an int, never leaves the file.
NeverPastTheEnd ==
  /\ pos <= 8 * file.bytes
  /\ phase \in {"header", "coarse", "fine"} => 8 * (file.bytes + PADDING) <= INT_MAX

\* A segment is all frames of its time, one after the other: the search steps
\* from its first frame on, whatever order the file has them in, and the
\* segments overlap.
SegmentsAreSpans ==
  phase = "loaded" =>
    /\ \A i, j \in DOMAIN fine : i < j => fine[i].pts <= fine[j].pts
    /\ \A n \in DOMAIN coarse : \A i \in DOMAIN fine :
         i \in linked[n].first .. linked[n].last <=>
           coarse[n].firstPts <= fine[i].pts /\ fine[i].pts <= coarse[n].lastPts
=============================================================================
