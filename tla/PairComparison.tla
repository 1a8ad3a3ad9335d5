--------------------------- MODULE PairComparison ---------------------------
(***************************************************************************)
(* The comparison of one pair of signatures (main.c: comparePair, and the  *)
(* source that its caller has loaded): the source is loaded, then the      *)
(* candidate, then the two are searched.  A signature that is refused ends *)
(* the process.                                                            *)
(***************************************************************************)
EXTENDS SignatureFile, SignatureLookup

CONSTANT Files  \* the signature files

\* Whatever the bytes are that back the counts, they can be read as signatures.
ASSUME FilesAssumption ==
  /\ Files \subseteq File
  /\ \A f \in Files : Backed(f) => f.segments <= Len(f.coarse) /\ f.frames <= Len(f.fine)

VARIABLE clips  \* what is loaded: the source, then the candidate

vars == <<loader, search, clips>>

\* The source before the loop over the candidates; the candidate in comparePair.
Open ==
  /\ phase = "waiting"
  /\ Len(clips) < 2
  /\ \E f \in Files : Import(f)
  /\ UNCHANGED <<search, clips>>

Hold ==
  /\ phase = "loaded"
  /\ clips' = Append(clips, [coarse |-> coarse, fine |-> fine, linked |-> linked])
  /\ phase' = "waiting"
  /\ UNCHANGED <<file, pos, coarse, fine, linked, search>>

\* processSignaturePair.
Process ==
  /\ Len(clips) = 2
  /\ Begin
  /\ UNCHANGED <<loader, clips>>

Init ==
  /\ file \in Files
  /\ phase = "waiting" /\ pos = 0 /\ coarse = <<>> /\ fine = <<>> /\ linked = <<>>
  /\ clips = <<>>
  /\ InitSearch

Next ==
  \/ Open \/ Hold \/ Process
  \/ Load /\ UNCHANGED <<search, clips>>
  \/ Search(clips[1], clips[2]) /\ UNCHANGED <<loader, clips>>

Spec == Init /\ [][Next]_vars

\* One thread, which is scheduled.
FairSpec == Spec /\ WF_vars(Next)

-----------------------------------------------------------------------------
(* What the runs check *)

\* The search comes to an end, or the first refused signature does.
SearchEnds == <>(stage = "done" \/ phase = "rejected")

\* Three or more frames of two segments are alike, all of them in one alignment: d
\* frames later in the second.
Shifts(alike) == IF Cardinality(alike) < 3 THEN {}
                 ELSE {d \in {p.b_pos - p.pos : p \in alike} :
                         \A p \in alike : p.b_pos - p.pos = d}

\* "The whole accumulator, both signs of offset": what two similar segments share
\* is a candidate, however much later or earlier the one has it, at the ratio
\* and the offset it has there, rounded up or down; and the walk starts from two
\* frames of that alignment, closer than the threshold, as it takes for granted.
SharedIsFound ==
  \A f \in found : LET alike == CloseFrames(clips[1], clips[2], f.at) IN \A d \in Shifts(alike) :
    /\ \E c \in DOMAIN f.walks : c.framerate = 30 /\ c.offset \in {d - 1, d}
    /\ \A c \in DOMAIN f.walks : c.seed \in alike

\* "Every candidate segment pair is looked at, whole match or not": stage 2 is done
\* for every similar pair, nothing is reported that one candidate does not say in
\* all its parts, and no candidate of any pair is longer, or as long and closer.
SimilarPairs ==
  {x \in (DOMAIN clips[1].coarse) \X (DOMAIN clips[2].coarse) : SimilarPair(clips[1], clips[2], x)}
Reported == {w \in UNION {Range(f.walks) : f \in found} : w.reported}
BestOfAll ==
  stage = "done" =>
    /\ {f.at : f \in found} = SimilarPairs
    /\ \/ Reported = {} /\ best = Sentinel
       \/ \E c \in Reported : best = Match(c) /\ \A d \in Reported : ~Better(d, c)
=============================================================================
