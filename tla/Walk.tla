-------------------------------- MODULE Walk --------------------------------
(***************************************************************************)
(* The walk of stage 3 (signature_lookup.c: evaluate_parameters for one    *)
(* candidate, and iterate_frame): from the seed forward, once around, and  *)
(* back, the slower clip frame by frame and the faster one at the ratio.   *)
(*                                                                         *)
(* Abstracted: a frame is its position in its clip; what the comparison of *)
(* two frames says is chosen when the walk gets there, since a walk judges *)
(* no two frames twice; ratios are exact.                                  *)
(***************************************************************************)
EXTENDS Integers

CONSTANTS
  Clips,    \* pairs of lengths, in frames
  Ratios,   \* framerateratio of a candidate, second over first: [num, den]
  thdi,     \* -i: the fewest frames of a match
  thit      \* -b: the least ratio of good frames, [num, den]

ASSUME ClipsAssumption  == Clips \subseteq [a : Nat \ {0}, b : Nat \ {0}]
ASSUME RatiosAssumption == Ratios \subseteq [num : Nat \ {0}, den : Nat \ {0}]
ASSUME FilterAssumption == thdi \in Nat /\ thit \in [num : Nat, den : Nat \ {0}]

VARIABLES
  clips, ratio, seed,   \* the input
  at,         \* the frame of each clip the walk is at: a and b
  dir,        \* "next" or "prev"
  stage,      \* "judging" a pair of frames, "moving" on, or "done"
  fcount,     \* rounds of the loop
  bcount,     \* steps taken, and one for the seed
  good,       \* goodfcount
  weak,       \* good frames of low confidence: gooda and goodb
  tolerance,  \* tolerancecount
  status,     \* the ends reached
  begin, end  \* afirst and bfirst, alast and blast

input == <<clips, ratio, seed>>
found == <<good, weak, begin, end>>
vars  == <<input, at, dir, stage, fcount, bcount, found, tolerance, status>>

Position == [a : Int, b : Int]

-----------------------------------------------------------------------------
(* Judging the two frames at hand *)

Lower(p, q)  == [a |-> IF p.a < q.a THEN p.a ELSE q.a, b |-> IF p.b < q.b THEN p.b ELSE q.b]
Higher(p, q) == [a |-> IF p.a > q.a THEN p.a ELSE q.a, b |-> IF p.b > q.b THEN p.b ELSE q.b]

\* dist <= thl1.  Mutated: the ends are where the walk has been last.
Extend_Last == begin' = at /\ end' = Higher(end, at)
Extend == begin' = Lower(begin, at) /\ end' = Higher(end, at)
GoodFrame ==
  /\ stage = "judging"
  /\ good' = good + 1
  /\ tolerance' = 0
  /\ Extend
  /\ \E low \in [a : {0, 1}, b : {0, 1}] :
       weak' = [a |-> weak.a + low.a, b |-> weak.b + low.b]
  /\ stage' = "moving"
  /\ UNCHANGED <<input, at, dir, fcount, bcount, status>>

\* dist > thl1: of a frame with something in it, or of two that have little
\* (n = 0).  The seed itself is closer than that (get_matching_parameters).
\* The count of bad frames survives the turn.  Mutated: so does the direction.
TurnAround_Onward == at' = seed /\ UNCHANGED dir
TurnAround == at' = seed /\ dir' = "prev"
\* Mutated: a walk that has turned around counts as having reached an end.
FarFrame_AtTheEnd ==
  /\ stage = "judging"
  /\ fcount > 0
  /\ \E n \in {0, 1} : tolerance' = tolerance + n
  /\ \/ tolerance' <= 2 /\ stage' = "moving" /\ UNCHANGED <<at, dir, status>>
     \/ /\ tolerance' > 2 /\ dir = "next" /\ TurnAround /\ stage' = "moving"
        /\ status' = status \cup {"end"}
     \/ tolerance' > 2 /\ dir = "prev" /\ stage' = "done" /\ UNCHANGED <<at, dir, status>>
  /\ UNCHANGED <<input, fcount, bcount, found>>
FarFrame ==
  /\ stage = "judging"
  /\ fcount > 0
  /\ \E n \in {0, 1} : tolerance' = tolerance + n
  /\ \/ tolerance' <= 2 /\ stage' = "moving" /\ UNCHANGED <<at, dir>>
     \/ tolerance' > 2 /\ dir = "next" /\ TurnAround /\ stage' = "moving"
     \/ tolerance' > 2 /\ dir = "prev" /\ stage' = "done" /\ UNCHANGED <<at, dir>>
  /\ UNCHANGED <<input, fcount, bcount, found, status>>

-----------------------------------------------------------------------------
(* Moving on *)

SlowFirst == ratio.num >= ratio.den
Slow(p) == IF SlowFirst THEN p.a ELSE p.b
Fast(p) == IF SlowFirst THEN p.b ELSE p.a
\* Frames of the faster clip to one of the slower: Up by Down.
Up   == IF SlowFirst THEN ratio.num ELSE ratio.den
Down == IF SlowFirst THEN ratio.den ELSE ratio.num

\* (int) (0.5 + n * frr)
Rounded(n) == (2 * n * Up + Down) \div (2 * Down)

\* Frames the faster clip moves in round n.  Mutated: the ratio, cut off.
Steps_Truncated(n) == Up \div Down
Steps(n) == Rounded(n) - Rounded(n - 1)

Moved(p, d, n) ==
  LET by == IF d = "next" THEN 1 ELSE 0 - 1
  IN  IF SlowFirst THEN [a |-> p.a + by, b |-> p.b + by * Steps(n)]
                   ELSE [a |-> p.a + by * Steps(n), b |-> p.b + by]
Inside(p) == p.a \in 1..clips.a /\ p.b \in 1..clips.b

\* One step from p; bcount counts it.
StepTo(p, d) ==
  /\ at' = Moved(p, d, fcount')
  /\ dir' = d
  /\ bcount' = bcount + 1
  /\ stage' = "judging"
Ended == stage' = "done" /\ UNCHANGED <<at, dir, bcount>>

\* iterate_frame; at the end of a clip, once more from the seed and back.
Move ==
  /\ stage = "moving"
  /\ fcount' = fcount + 1
  /\ LET on   == Inside(Moved(at, dir, fcount'))
         back == Inside(Moved(seed, "prev", fcount'))
     IN  \/ on /\ StepTo(at, dir) /\ UNCHANGED status
         \/ /\ ~on /\ dir = "next" /\ back
            /\ status' = status \cup {"end"}
            /\ StepTo(seed, "prev")
         \/ /\ ~on /\ dir = "next" /\ ~back
            /\ status' = status \cup {"end", "begin"}
            /\ Ended
         \/ /\ ~on /\ dir = "prev"
            /\ status' = status \cup {"begin"}
            /\ Ended
  /\ UNCHANGED <<input, found, tolerance>>

-----------------------------------------------------------------------------
(* The finished walk *)

\* The filters of -i, -b, and half of the good frames of low confidence.
Reported ==
  /\ stage = "done"
  /\ bcount >= thdi
  /\ good * thit.den >= thit.num * fcount
  /\ 2 * weak.a <= good /\ 2 * weak.b <= good

\* STATUS_END_REACHED | STATUS_BEGIN_REACHED
Whole == stage = "done" /\ status = {"begin", "end"}

-----------------------------------------------------------------------------

\* The seed is a frame of each clip.
Init ==
  /\ clips \in Clips
  /\ ratio \in Ratios
  /\ seed \in [a : 1..clips.a, b : 1..clips.b]
  /\ at = seed
  /\ dir = "next"
  /\ stage = "judging"
  /\ fcount = 0
  /\ bcount = 1
  /\ good = 0
  /\ weak = [a |-> 0, b |-> 0]
  /\ tolerance = 0
  /\ status = {}
  /\ begin = seed
  /\ end = seed

Next == GoodFrame \/ FarFrame \/ Move

Spec == Init /\ [][Next]_vars

-----------------------------------------------------------------------------
(* What the runs check *)

\* "As many as keep the two in step at the ratio": wherever the walk is, in
\* either direction, the faster clip is less than a frame from where the ratio
\* puts it, although the rounds are counted through the turn.
InStep ==
  LET drift == (Fast(at) - Fast(seed)) * Down - (Slow(at) - Slow(seed)) * Up
  IN  drift \in (1 - Down)..(Down - 1)

\* Nobody can walk for ever: a walk has no more rounds than the slower clip has
\* frames, since it judges none of them twice.
SlowLength == IF SlowFirst THEN clips.a ELSE clips.b
NoFrameTwice == fcount <= SlowLength /\ bcount <= SlowLength

\* matchframes is "the number of frames of the slower stream the walk covered",
\* so it covers the section that is reported: first and last good frame, and
\* the seed between them; and totalframes misses at most the last of them.
SectionIsWalked ==
  stage = "done" =>
    /\ Slow(end) - Slow(begin) < bcount
    /\ Slow(begin) <= Slow(seed) /\ Slow(seed) <= Slow(end)
    /\ good <= Slow(end) - Slow(begin) + 1
    /\ bcount - fcount = IF "begin" \in status THEN 0 ELSE 1

\* A whole match at ratio 1 is every frame the two clips share at that offset.
Before(p) == IF p.a < p.b THEN p.a - 1 ELSE p.b - 1
After(p)  == IF clips.a - p.a < clips.b - p.b THEN clips.a - p.a ELSE clips.b - p.b
WholeIsTheOverlap ==
  Whole /\ ratio.num = ratio.den => bcount = Before(seed) + 1 + After(seed)

\* "A walk stops after three bad frames in a row, so the ratio of a reported
\* candidate never falls below about 0.17" (--help of -b): about one sixth.
RatioKeptUp == Reported => 6 * good >= fcount
=============================================================================
