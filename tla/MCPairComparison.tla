-------------------------- MODULE MCPairComparison --------------------------
(***************************************************************************)
(* Clips of six frames that share some of them earlier, later or in place, *)
(* in one segment or two, and one file for each way to be refused.         *)
(***************************************************************************)
EXTENDS PairComparison

CONSTANTS opening, rest

SmallFrames == {<<v>> : v \in {0, 1, 2, 6, 8, 18, 54, 162, 182}}
SomeWords == {{1, 2, 3}, {4, 5}, {}}

\* A segment of frames m to n.
Segment(m, n, w) == [timed |-> TRUE, firstIndex |-> m - 1, lastIndex |-> n - 1,
                     firstPts |-> m, lastPts |-> n, words |-> <<w, w, w, w, {}>>]
Frame(v, t) == [timed |-> TRUE, pts |-> t, confidence |-> 1, packed |-> TRUE, sig |-> <<v>>]
Bits(s, f) == 274 + s * 1344 + 1 + f * 689
FileOf(segs, frames) ==
  [bytes |-> (Bits(Len(segs), Len(frames)) + 7) \div 8, readable |-> TRUE, region |-> TRUE,
   segments |-> Len(segs), frames |-> Len(frames), den |-> 30, firstPts |-> 1,
   lastPts |-> Len(frames), coarse |-> segs, compressed |-> FALSE, fine |-> frames]
Six(vs) == [i \in 1..6 |-> Frame(vs[i], i)]
Whole == <<Segment(1, 6, {1, 2, 3})>>

Base == FileOf(Whole, Six(<<0, 2, 6, 18, 54, 162>>))
Halves == FileOf(<<Segment(1, 4, {1, 2, 3}), Segment(3, 6, {4, 5})>>, Six(<<0, 2, 6, 18, 54, 162>>))
Later == FileOf(Whole, Six(<<8, 182, 0, 2, 6, 18>>))
Earlier == FileOf(Whole, Six(<<2, 6, 18, 54, 162, 8>>))
Noisy == FileOf(Whole, Six(<<1, 1, 6, 18, 54, 162>>))
Other == FileOf(<<Segment(1, 6, {4, 5})>>, Six(<<8, 8, 54, 54, 162, 162>>))
\* Frames out of order, and two of one time.
Shuffled == FileOf(Whole, [i \in 1..6 |-> Frame(<<2, 0, 6, 54, 18, 162>>[i], <<2, 1, 3, 5, 5, 6>>[i])])

BadFiles ==
  {[Base EXCEPT !.readable = FALSE], [Base EXCEPT !.bytes = 34], [Base EXCEPT !.bytes = 268435392],
   [Base EXCEPT !.region = FALSE], [Base EXCEPT !.segments = 0], [Base EXCEPT !.frames = 5],
   [Base EXCEPT !.bytes = @ - 1], [Base EXCEPT !.frames = 7], [Base EXCEPT !.compressed = TRUE],
   [Base EXCEPT !.lastPts = 5], [Base EXCEPT !.coarse[1].timed = FALSE],
   [Base EXCEPT !.fine[3].packed = FALSE],
   [Halves EXCEPT !.coarse[2].firstPts = 6, !.fine[6].pts = 5]}
GoodFiles == {Base, Halves, Later, Earlier, Noisy, Other, Shuffled}
AllFiles == GoodFiles \cup BadFiles

Cand(n, d, s, r) == [frames |-> n, meandist |-> d, section |-> s,
                     reported |-> r, bothEnds |-> s = opening]
FewWalks == {Cand(1, 1, rest, TRUE), Cand(1, 1, opening, TRUE), Cand(1, 2, opening, TRUE),
             Cand(2, 1, rest, TRUE), Cand(2, 1, rest, FALSE)}
=============================================================================
