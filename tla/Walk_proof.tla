----------------------------- MODULE Walk_proof -----------------------------
(***************************************************************************)
(* Proofs about Walk, for clips of any length: the two clips stay in step  *)
(* at every ratio, no frame of the slower clip is judged twice, the        *)
(* section reported is one the walk has covered, and a whole match at      *)
(* ratio 1 is the overlap of the clips.                                    *)
(***************************************************************************)
EXTENDS Walk, TLAPS

\* The length of the clip that is walked faster.
FastLength == IF SlowFirst THEN clips.b ELSE clips.a

\* Where the walk is, as the steps of rounds m to n from the seed.
Ahead(m, n) ==
  /\ Slow(at) - Slow(seed) = n - m
  /\ Fast(at) - Fast(seed) = Rounded(n) - Rounded(m)

\* The walk goes forward through the rounds from the first, and back through
\* those that follow them; the forward part was inside the slower clip.
OnPath ==
  /\ stage # "done" /\ dir = "next" => Ahead(0, fcount)
  /\ stage # "done" /\ dir = "prev" =>
       \E m \in Nat : Ahead(fcount, m) /\ Slow(seed) + m <= SlowLength
  /\ stage = "done" => \E m, n \in Nat : Ahead(m, n)

Shape ==
  /\ clips \in Clips
  /\ ratio \in Ratios
  /\ seed \in [a : 1..clips.a, b : 1..clips.b]
  /\ at \in Position
  /\ dir \in {"next", "prev"}
  /\ stage \in {"judging", "moving", "done"}
  /\ fcount \in Nat
  /\ bcount \in Nat
  /\ Inside(at)

Rounds ==
  /\ stage # "done" => bcount = fcount + 1
  /\ stage = "done" => bcount \in fcount..(fcount + 1) /\ fcount <= SlowLength
                       /\ bcount <= SlowLength

PathInv == Shape /\ OnPath /\ Rounds

-----------------------------------------------------------------------------
(* Arithmetic *)

\* What the slower and the faster clip are of the input.
LEMMA Sides ==
  ASSUME clips \in Clips, ratio \in Ratios
  PROVE  /\ Up \in Nat \ {0} /\ Down \in Nat \ {0} /\ SlowFirst \in BOOLEAN
         /\ SlowLength \in Nat \ {0} /\ FastLength \in Nat \ {0}
         /\ \A p \in Position : Slow(p) \in Int /\ Fast(p) \in Int
         /\ \A p \in Position :
              Inside(p) <=> Slow(p) \in 1..SlowLength /\ Fast(p) \in 1..FastLength
<1>1. /\ clips.a \in Nat \ {0} /\ clips.b \in Nat \ {0}
      /\ ratio.num \in Nat \ {0} /\ ratio.den \in Nat \ {0}
  BY ClipsAssumption, RatiosAssumption
<1>2. QED
  BY <1>1 DEF Up, Down, SlowFirst, SlowLength, FastLength, Slow, Fast, Position, Inside

\* Quotient and remainder.
LEMMA DivMod ==
  ASSUME NEW x \in Int, NEW n \in Nat \ {0}
  PROVE  /\ x \div n \in Int
         /\ x % n \in 0..(n - 1)
         /\ x = n * (x \div n) + (x % n)
OBVIOUS

\* A rounded position is at most half a frame from the exact one.
LEMMA RoundedIs ==
  ASSUME clips \in Clips, ratio \in Ratios, NEW n \in Nat
  PROVE  /\ Rounded(n) \in Int
         /\ \E rem \in 0..(2 * Down - 1) :
              2 * (Down * Rounded(n)) = 2 * (n * Up) + Down - rem
<1>1. Up \in Nat \ {0} /\ Down \in Nat \ {0}
  BY Sides
<1> DEFINE x == 2 * n * Up + Down
           D == 2 * Down
<1>2. x \in Int /\ D \in Nat \ {0} /\ x = 2 * (n * Up) + Down
  BY <1>1
<1>3. x \div D \in Int /\ x % D \in 0..(D - 1) /\ x = D * (x \div D) + (x % D)
  <2> HIDE DEF x, D
  <2> QED
    BY <1>2, DivMod
<1>4. Rounded(n) = x \div D
  BY DEF Rounded
<1>5. D * (x \div D) = 2 * (Down * (x \div D))
  BY <1>1, <1>3
<1> HIDE DEF x
<1>6. 2 * (Down * (x \div D)) = 2 * (n * Up) + Down - (x % D)
  BY <1>2, <1>3, <1>5, <1>1
<1>7. QED
  BY <1>3, <1>4, <1>6

\* The steps of rounds m to n drift less than a frame.
LEMMA DriftBound ==
  ASSUME clips \in Clips, ratio \in Ratios, NEW m \in Nat, NEW n \in Nat
  PROVE  (Rounded(n) - Rounded(m)) * Down - (n - m) * Up \in (1 - Down)..(Down - 1)
<1>1. Up \in Nat \ {0} /\ Down \in Nat \ {0}
  BY Sides
<1>2. Rounded(m) \in Int /\ Rounded(n) \in Int
  BY RoundedIs
<1>3. PICK r \in 0..(2 * Down - 1) : 2 * (Down * Rounded(n)) = 2 * (n * Up) + Down - r
  BY RoundedIs
<1>4. PICK s \in 0..(2 * Down - 1) : 2 * (Down * Rounded(m)) = 2 * (m * Up) + Down - s
  BY RoundedIs
<1> DEFINE x == Down * Rounded(n)
           y == Down * Rounded(m)
           u == n * Up
           v == m * Up
<1>5. x \in Int /\ y \in Int /\ u \in Int /\ v \in Int
  BY <1>1, <1>2
<1>6. (Rounded(n) - Rounded(m)) * Down - (n - m) * Up = (x - y) - (u - v)
  <2>1. (Rounded(n) - Rounded(m)) * Down = x - y
    BY <1>1, <1>2
  <2>2. (n - m) * Up = u - v
    BY <1>1
  <2>3. QED
    BY <2>1, <2>2
<1>7. 2 * x = 2 * u + Down - r /\ 2 * y = 2 * v + Down - s
  BY <1>3, <1>4
<1>8. r \in 0..(2 * Down - 1) /\ s \in 0..(2 * Down - 1)
  OBVIOUS
<1> HIDE DEF x, y, u, v
<1>9. (x - y) - (u - v) \in (1 - Down)..(Down - 1)
  BY <1>5, <1>7, <1>8, <1>1
<1>10. QED
  BY <1>6, <1>9

\* One step, in either direction.
LEMMA MovedIs ==
  ASSUME clips \in Clips, ratio \in Ratios, NEW p \in Position, NEW n \in Nat \ {0}
  PROVE  /\ Moved(p, "next", n) \in Position /\ Moved(p, "prev", n) \in Position
         /\ Slow(Moved(p, "next", n)) = Slow(p) + 1
         /\ Slow(Moved(p, "prev", n)) = Slow(p) - 1
         /\ Fast(Moved(p, "next", n)) = Fast(p) + (Rounded(n) - Rounded(n - 1))
         /\ Fast(Moved(p, "prev", n)) = Fast(p) - (Rounded(n) - Rounded(n - 1))
<1>1. Rounded(n) \in Int /\ Rounded(n - 1) \in Int
  BY RoundedIs, n - 1 \in Nat
<1>2. Steps(n) \in Int /\ Steps(n) = Rounded(n) - Rounded(n - 1)
  BY <1>1 DEF Steps
<1> HIDE DEF Steps
<1>3. QED
  BY <1>2 DEF Moved, Slow, Fast, Position

-----------------------------------------------------------------------------
(* The walk *)

\* A walk starts on its path.
LEMMA InitPath == Init => PathInv
<1> SUFFICES ASSUME Init PROVE PathInv
  OBVIOUS
<1>1. Shape
  BY ClipsAssumption DEF Init, Shape, Position, Inside
<1>2. Slow(seed) \in Int /\ Fast(seed) \in Int /\ Rounded(0) \in Int
  BY <1>1, Sides, RoundedIs DEF Shape, Init
<1>3. Ahead(0, fcount)
  BY <1>2 DEF Init, Ahead
<1>4. OnPath /\ Rounds
  BY <1>3 DEF Init, OnPath, Rounds
<1>5. QED
  BY <1>1, <1>4 DEF PathInv

\* A walk that is not done has not judged more frames than there are.
LEMMA RoundsLeft ==
  ASSUME PathInv, stage # "done"
  PROVE  fcount + 1 <= SlowLength /\ fcount \in Nat /\ SlowLength \in Nat
<1> USE DEF PathInv
<1>1. /\ Slow(at) \in 1..SlowLength /\ Slow(seed) \in 1..SlowLength
      /\ SlowLength \in Nat \ {0} /\ fcount \in Nat
  <2>1. seed \in Position /\ Inside(seed)
    BY ClipsAssumption DEF Shape, Position, Inside
  <2>2. QED
    BY <2>1, Sides DEF Shape
<1>2. CASE dir = "next"
  BY <1>1, <1>2 DEF OnPath, Ahead
<1>3. CASE dir = "prev"
  <2>1. PICK m \in Nat : Ahead(fcount, m) /\ Slow(seed) + m <= SlowLength
    BY <1>3 DEF OnPath
  <2>2. Slow(at) - Slow(seed) = m - fcount
    BY <2>1 DEF Ahead
  <2>3. QED
    BY <2>1, <2>2, <1>1
<1>4. QED
  BY <1>1, <1>2, <1>3 DEF Shape

\* Judging two frames keeps the walk on its path, or turns it around.
LEMMA JudgingOnPath == PathInv /\ (GoodFrame \/ FarFrame) => PathInv'
<1> SUFFICES ASSUME PathInv, GoodFrame \/ FarFrame PROVE PathInv'
  OBVIOUS
<1>0. /\ clips' = clips /\ ratio' = ratio /\ seed' = seed
      /\ fcount' = fcount /\ bcount' = bcount /\ stage = "judging"
  BY DEF GoodFrame, FarFrame, input
<1>1. /\ SlowLength' = SlowLength
      /\ \A n : Rounded(n)' = Rounded(n)
      /\ \A p : Slow(p)' = Slow(p) /\ Fast(p)' = Fast(p)
  BY <1>0 DEF SlowLength, SlowFirst, Rounded, Up, Down, Slow, Fast
<1>2. /\ Slow(seed) \in 1..SlowLength /\ Fast(seed) \in Int
      /\ SlowLength \in Nat \ {0} /\ fcount \in Nat /\ Rounded(fcount) \in Int
      /\ seed \in Position /\ Inside(seed)
  <2>1. seed \in Position /\ Inside(seed)
    BY ClipsAssumption DEF PathInv, Shape, Position, Inside
  <2>2. QED
    BY <2>1, Sides, RoundedIs DEF PathInv, Shape
<1>3. fcount + 1 <= SlowLength
  BY <1>0, RoundsLeft
<1>4. CASE at' = at /\ dir' = dir /\ stage' = "moving"
  <2>1. Shape' /\ Rounds'
    BY <1>0, <1>4 DEF PathInv, Shape, Rounds, Inside
  <2>2. \A m, n : Ahead(m, n)' = Ahead(m, n)
    BY <1>0, <1>1, <1>4 DEF Ahead
  <2>3. OnPath'
    BY <1>0, <1>1, <1>4, <2>2 DEF PathInv, OnPath
  <2>4. QED
    BY <2>1, <2>3 DEF PathInv
<1>5. CASE at' = seed /\ dir = "next" /\ dir' = "prev" /\ stage' = "moving"
  <2>1. Shape' /\ Rounds'
    BY <1>0, <1>2, <1>5 DEF PathInv, Shape, Rounds, Inside
  <2>2. Ahead(fcount, fcount)'
    BY <1>0, <1>1, <1>2, <1>5 DEF Ahead
  <2>3. Slow(at) \in 1..SlowLength /\ Slow(at) - Slow(seed) = fcount
    BY <1>0, <1>2, <1>5, Sides DEF PathInv, Shape, OnPath, Ahead
  <2>4. Slow(seed) + fcount <= SlowLength
    BY <1>2, <2>3
  <2>5. OnPath'
    BY <1>0, <1>1, <1>2, <1>5, <2>2, <2>4 DEF OnPath
  <2>6. QED
    BY <2>1, <2>5 DEF PathInv
<1>6. CASE at' = at /\ dir' = dir /\ dir = "prev" /\ stage' = "done"
  <2>1. Shape'
    BY <1>0, <1>6 DEF PathInv, Shape, Inside
  <2>2. Rounds'
    BY <1>0, <1>1, <1>2, <1>3, <1>6 DEF PathInv, Rounds
  <2>3. \A m, n : Ahead(m, n)' = Ahead(m, n)
    BY <1>0, <1>1, <1>6 DEF Ahead
  <2>4. OnPath'
    BY <1>0, <1>2, <1>6, <2>3 DEF PathInv, OnPath
  <2>5. QED
    BY <2>1, <2>2, <2>4 DEF PathInv
<1>7. QED
  BY <1>4, <1>5, <1>6 DEF GoodFrame, FarFrame, TurnAround

\* So does moving on, which ends the walk where a clip ends.
LEMMA MoveOnPath == PathInv /\ Move => PathInv'
<1> SUFFICES ASSUME PathInv, Move PROVE PathInv'
  OBVIOUS
<1>n. PICK n \in Nat \ {0} : n = fcount + 1
  BY DEF PathInv, Shape
<1>0. /\ clips' = clips /\ ratio' = ratio /\ seed' = seed
      /\ fcount' = n /\ stage = "moving"
  BY <1>n DEF Move, input
<1>1. /\ SlowLength' = SlowLength
      /\ \A k : Rounded(k)' = Rounded(k)
      /\ \A p : Slow(p)' = Slow(p) /\ Fast(p)' = Fast(p) /\ Inside(p)' = Inside(p)
  BY <1>0 DEF SlowLength, SlowFirst, Rounded, Up, Down, Slow, Fast, Inside
<1>2. /\ clips \in Clips /\ ratio \in Ratios
      /\ Slow(seed) \in 1..SlowLength /\ Fast(seed) \in Int
      /\ Slow(at) \in 1..SlowLength /\ Fast(at) \in Int
      /\ SlowLength \in Nat \ {0} /\ fcount \in Nat /\ n \in Nat \ {0} /\ n - 1 = fcount
      /\ Rounded(fcount) \in Int /\ Rounded(n) \in Int
      /\ seed \in Position /\ Inside(seed) /\ at \in Position /\ bcount = fcount + 1
  <2>1. seed \in Position /\ Inside(seed) /\ at \in Position /\ Inside(at)
    BY ClipsAssumption DEF PathInv, Shape, Position, Inside
  <2>2. fcount \in Nat /\ n \in Nat \ {0} /\ clips \in Clips /\ ratio \in Ratios
    BY DEF PathInv, Shape
  <2>3. n - 1 = fcount /\ bcount = fcount + 1
    BY <1>0, <1>n, <2>2 DEF PathInv, Rounds
  <2>4. QED
    BY <2>1, <2>2, <2>3, Sides, RoundedIs
<1>3. n <= SlowLength
  BY <1>0, <1>n, RoundsLeft
<1>m. Slow(at)' = Slow(at') /\ Fast(at)' = Fast(at') /\ Inside(at)' = Inside(at')
  BY <1>0 DEF Slow, Fast, SlowFirst, Inside
<1>4. CASE dir = "next" /\ StepTo(at, "next") /\ Inside(at')
  <2>1. dir' = "next" /\ bcount' = bcount + 1 /\ stage' = "judging"
    BY <1>4 DEF StepTo
  <2>2. at' = Moved(at, "next", n)
    BY <1>4, <1>0 DEF StepTo
  <2>3. at' \in Position /\ Slow(at') = Slow(at) + 1
        /\ Fast(at') = Fast(at) + (Rounded(n) - Rounded(fcount))
    BY <1>2, <2>2, MovedIs
  <2>4. Ahead(0, fcount)
    BY <1>0, <1>4 DEF PathInv, OnPath
  <2>5. Ahead(0, n)'
    BY <1>0, <1>1, <1>2, <1>m, <1>n, <2>3, <2>4, RoundedIs DEF Ahead
  <2>6. OnPath' /\ Rounds'
    BY <1>0, <1>2, <1>n, <2>1, <2>5 DEF OnPath, Rounds
  <2>7. Shape'
    BY <1>0, <1>1, <1>2, <1>m, <1>4, <2>1, <2>3 DEF PathInv, Shape
  <2>8. QED
    BY <2>6, <2>7 DEF PathInv
<1>5. CASE dir = "next" /\ StepTo(seed, "prev") /\ Inside(at')
  <2>1. dir' = "prev" /\ bcount' = bcount + 1 /\ stage' = "judging"
    BY <1>5 DEF StepTo
  <2>2. at' = Moved(seed, "prev", n)
    BY <1>5, <1>0 DEF StepTo
  <2>3. at' \in Position /\ Slow(at') = Slow(seed) - 1
        /\ Fast(at') = Fast(seed) - (Rounded(n) - Rounded(fcount))
    BY <1>2, <2>2, MovedIs
  <2>4. Slow(at) - Slow(seed) = fcount
    BY <1>0, <1>2, <1>5 DEF PathInv, OnPath, Ahead
  <2>p. PICK f \in Nat : f = fcount
    BY <1>2
  <2>5. Ahead(n, f)' /\ Slow(seed)' + f <= SlowLength'
    BY <1>0, <1>1, <1>2, <1>m, <1>n, <2>3, <2>4, <2>p DEF Ahead
  <2>6. OnPath' /\ Rounds'
    BY <1>0, <1>2, <1>n, <2>1, <2>5 DEF OnPath, Rounds
  <2>7. Shape'
    BY <1>0, <1>1, <1>2, <1>m, <1>5, <2>1, <2>3 DEF PathInv, Shape
  <2>8. QED
    BY <2>6, <2>7 DEF PathInv
<1>6. CASE dir = "prev" /\ StepTo(at, "prev") /\ Inside(at')
  <2>1. dir' = "prev" /\ bcount' = bcount + 1 /\ stage' = "judging"
    BY <1>6 DEF StepTo
  <2>2. at' = Moved(at, "prev", n)
    BY <1>6, <1>0 DEF StepTo
  <2>3. at' \in Position /\ Slow(at') = Slow(at) - 1
        /\ Fast(at') = Fast(at) - (Rounded(n) - Rounded(fcount))
    BY <1>2, <2>2, MovedIs
  <2>4. PICK m \in Nat : Ahead(fcount, m) /\ Slow(seed) + m <= SlowLength
    BY <1>0, <1>6 DEF PathInv, OnPath
  <2>5. Rounded(m) \in Int
    BY <1>2, RoundedIs
  <2>6. Ahead(n, m)' /\ Slow(seed)' + m <= SlowLength'
    BY <1>0, <1>1, <1>2, <1>m, <1>n, <2>3, <2>4, <2>5 DEF Ahead
  <2>7. OnPath' /\ Rounds'
    BY <1>0, <1>2, <1>n, <2>1, <2>6 DEF OnPath, Rounds
  <2>8. Shape'
    BY <1>0, <1>1, <1>2, <1>m, <1>6, <2>1, <2>3 DEF PathInv, Shape
  <2>9. QED
    BY <2>7, <2>8 DEF PathInv
<1>7. CASE Ended
  <2>1. Shape'
    BY <1>0, <1>1, <1>2, <1>7 DEF PathInv, Shape, Ended
  <2>2. Rounds'
    BY <1>0, <1>1, <1>2, <1>3, <1>7, <1>n DEF Rounds, Ended
  <2>3. \A j, k : Ahead(j, k)' = Ahead(j, k)
    BY <1>0, <1>1, <1>7 DEF Ahead, Ended
  <2>4. \E j, k \in Nat : Ahead(j, k)
    BY <1>0, <1>2 DEF PathInv, Shape, OnPath
  <2>5. OnPath'
    BY <1>7, <2>3, <2>4 DEF OnPath, Ended
  <2>6. QED
    BY <2>1, <2>2, <2>5 DEF PathInv
<1>8. dir \in {"next", "prev"}
  BY DEF PathInv, Shape
<1>9. QED
  BY <1>0, <1>4, <1>5, <1>6, <1>7, <1>8 DEF Move, StepTo

\* Every step keeps the walk on its path.
LEMMA NextPath == PathInv /\ [Next]_vars => PathInv'
<1>1. PathInv /\ UNCHANGED vars => PathInv'
  BY DEF PathInv, Shape, OnPath, Rounds, Ahead, Slow, Fast, SlowFirst, SlowLength,
         Rounded, Up, Down, Inside, vars, input, found
<1>2. QED
  BY <1>1, JudgingOnPath, MoveOnPath DEF Next

\* In either direction and at every ratio the faster clip is less than a frame
\* from where the ratio puts it.
THEOREM StaysInStep == Spec => []InStep
<1>1. PathInv => InStep
  <2> SUFFICES ASSUME PathInv PROVE InStep
    OBVIOUS
  <2>1. PICK m \in Nat, n \in Nat : Ahead(m, n)
    BY DEF PathInv, Shape, OnPath
  <2>2. (Rounded(n) - Rounded(m)) * Down - (n - m) * Up \in (1 - Down)..(Down - 1)
    BY DriftBound DEF PathInv, Shape
  <2>3. QED
    BY <2>1, <2>2 DEF Ahead, InStep
<1>2. QED
  BY <1>1, InitPath, NextPath, PTL DEF Spec

\* A walk judges no frame of the slower clip twice, so it ends.
THEOREM NoFrameIsJudgedTwice == Spec => []NoFrameTwice
<1>1. PathInv => NoFrameTwice
  <2> SUFFICES ASSUME PathInv PROVE NoFrameTwice
    OBVIOUS
  <2>1. CASE stage = "done"
    BY <2>1 DEF PathInv, Rounds, NoFrameTwice
  <2>2. CASE stage # "done"
    <3>1. fcount + 1 <= SlowLength /\ fcount \in Nat /\ SlowLength \in Nat
      BY <2>2, RoundsLeft
    <3>2. bcount = fcount + 1
      BY <2>2 DEF PathInv, Rounds
    <3>3. QED
      BY <3>1, <3>2 DEF NoFrameTwice
  <2>3. QED
    BY <2>1, <2>2
<1>2. QED
  BY <1>1, InitPath, NextPath, PTL DEF Spec

-----------------------------------------------------------------------------
(* The section *)

\* The section found so far lies where the walk has been.  A pair of frames
\* about to be judged is beyond it, so that its good frames are all different.
WithinWalk ==
  /\ "begin" \notin status
  /\ Slow(begin) <= Slow(seed) /\ Slow(seed) <= Slow(end)
  /\ good <= Slow(end) - Slow(begin) + 1
  /\ dir = "next" =>
       /\ Slow(begin) = Slow(seed) /\ Slow(end) <= Slow(at)
       /\ stage = "judging" => Slow(end) < Slow(at) \/ good = 0
  /\ dir = "prev" =>
       /\ Slow(at) <= Slow(begin) /\ Slow(end) <= Slow(at) + fcount
       /\ stage = "judging" => Slow(at) < Slow(begin)

SectionInv ==
  /\ begin \in Position /\ end \in Position
  /\ good \in Nat
  /\ stage # "done" => WithinWalk
  /\ SectionIsWalked

\* At ratio 1 the walk has turned after all the frames that follow the seed, if
\* an end has been reached.
AtOne == ratio.num = ratio.den
OverlapInv ==
  AtOne =>
    /\ stage # "done" => "begin" \notin status
    /\ stage # "done" /\ dir = "next" => status = {}
    /\ stage # "done" /\ dir = "prev" /\ "end" \in status =>
         at.a - seed.a = After(seed) - fcount
    /\ WholeIsTheOverlap

LEMMA SectionInit == Init => SectionInv
<1> SUFFICES ASSUME Init PROVE SectionInv
  OBVIOUS
<1>1. seed \in Position
  BY ClipsAssumption DEF Init, Position
<1>2. Slow(seed) \in Int
  BY <1>1, Sides DEF Init
<1>3. QED
  BY <1>1, <1>2 DEF Init, SectionInv, WithinWalk, SectionIsWalked

\* A good frame extends the section by the frame it is, or not at all.
LEMMA SectionGood == PathInv /\ SectionInv /\ GoodFrame => SectionInv'
<1> SUFFICES ASSUME PathInv, SectionInv, GoodFrame PROVE SectionInv'
  OBVIOUS
<1>0. /\ ratio' = ratio /\ seed' = seed /\ at' = at /\ dir' = dir /\ status' = status
      /\ fcount' = fcount /\ stage = "judging" /\ stage' = "moving" /\ good' = good + 1
      /\ begin' = Lower(begin, at) /\ end' = Higher(end, at)
  BY DEF GoodFrame, input, Extend
<1>1. /\ begin \in Position /\ end \in Position /\ at \in Position /\ seed \in Position
      /\ good \in Nat /\ fcount \in Nat /\ dir \in {"next", "prev"}
      /\ clips \in Clips /\ ratio \in Ratios
  BY ClipsAssumption DEF PathInv, Shape, SectionInv, Position
<1>2. /\ Slow(begin) \in Int /\ Slow(end) \in Int /\ Slow(at) \in Int /\ Slow(seed) \in Int
  BY <1>1, Sides
<1>3. /\ Slow(at)' = Slow(at) /\ Slow(seed)' = Slow(seed)
      /\ Slow(begin)' = IF Slow(begin) < Slow(at) THEN Slow(begin) ELSE Slow(at)
      /\ Slow(end)' = IF Slow(end) > Slow(at) THEN Slow(end) ELSE Slow(at)
  BY <1>0 DEF Slow, SlowFirst, Lower, Higher
<1>4. begin' \in Position /\ end' \in Position /\ good' \in Nat
  BY <1>0, <1>1 DEF Lower, Higher, Position
<1>5. CASE dir = "next"
  <2>1. /\ Slow(begin) = Slow(seed) /\ Slow(end) <= Slow(at) /\ Slow(seed) <= Slow(end)
        /\ Slow(end) < Slow(at) \/ good = 0
        /\ good <= Slow(end) - Slow(begin) + 1 /\ "begin" \notin status
    BY <1>0, <1>5 DEF SectionInv, WithinWalk
  <2>2. Slow(begin)' = Slow(seed) /\ Slow(end)' = Slow(at)
    BY <1>2, <1>3, <2>1
  <2>3. WithinWalk'
    BY <1>0, <1>1, <1>2, <1>3, <1>5, <2>1, <2>2 DEF WithinWalk
  <2>4. QED
    BY <1>0, <1>4, <2>3 DEF SectionInv, SectionIsWalked
<1>6. CASE dir = "prev"
  <2>1. /\ Slow(at) < Slow(begin) /\ Slow(end) <= Slow(at) + fcount
        /\ Slow(begin) <= Slow(seed) /\ Slow(seed) <= Slow(end)
        /\ good <= Slow(end) - Slow(begin) + 1 /\ "begin" \notin status
    BY <1>0, <1>6 DEF SectionInv, WithinWalk
  <2>2. Slow(begin)' = Slow(at) /\ Slow(end)' = Slow(end)
    BY <1>2, <1>3, <2>1
  <2>3. WithinWalk'
    BY <1>0, <1>1, <1>2, <1>3, <1>6, <2>1, <2>2 DEF WithinWalk
  <2>4. QED
    BY <1>0, <1>4, <2>3 DEF SectionInv, SectionIsWalked
<1>7. QED
  BY <1>1, <1>5, <1>6

\* The walk has gone at least as far from the seed as the section reaches.
LEMMA SectionSpan ==
  ASSUME PathInv, SectionInv, stage # "done"
  PROVE  /\ Slow(begin) \in Int /\ Slow(end) \in Int /\ Slow(seed) \in Int
         /\ Slow(begin) <= Slow(seed) /\ Slow(seed) <= Slow(end)
         /\ Slow(end) - Slow(begin) <= fcount
         /\ good <= Slow(end) - Slow(begin) + 1
<1>1. /\ begin \in Position /\ end \in Position /\ at \in Position /\ seed \in Position
      /\ fcount \in Nat /\ dir \in {"next", "prev"} /\ clips \in Clips /\ ratio \in Ratios
  BY ClipsAssumption DEF PathInv, Shape, SectionInv, Position
<1>2. /\ Slow(begin) \in Int /\ Slow(end) \in Int /\ Slow(at) \in Int /\ Slow(seed) \in Int
  BY <1>1, Sides
<1>3. WithinWalk
  BY DEF SectionInv
<1>4. CASE dir = "next"
  <2>1. Slow(at) - Slow(seed) = fcount
    BY <1>1, <1>2, <1>4 DEF PathInv, OnPath, Ahead
  <2>2. QED
    BY <1>1, <1>2, <1>3, <1>4, <2>1 DEF WithinWalk
<1>5. CASE dir = "prev"
  BY <1>1, <1>2, <1>3, <1>5 DEF WithinWalk
<1>6. QED
  BY <1>1, <1>4, <1>5

\* A frame that is too far leaves the section as it is.
LEMMA SectionFar == PathInv /\ SectionInv /\ FarFrame => SectionInv'
<1> SUFFICES ASSUME PathInv, SectionInv, FarFrame PROVE SectionInv'
  OBVIOUS
<1>0. /\ ratio' = ratio /\ seed' = seed /\ status' = status /\ good' = good
      /\ begin' = begin /\ end' = end /\ fcount' = fcount /\ bcount' = bcount
      /\ stage = "judging" /\ fcount > 0
  BY DEF FarFrame, input, found
<1>1. /\ begin \in Position /\ end \in Position /\ at \in Position /\ seed \in Position
      /\ good \in Nat /\ fcount \in Nat /\ dir \in {"next", "prev"} /\ bcount = fcount + 1
      /\ clips \in Clips /\ ratio \in Ratios
  BY <1>0, ClipsAssumption DEF PathInv, Shape, Rounds, SectionInv, Position
<1>2. /\ Slow(begin) \in Int /\ Slow(end) \in Int /\ Slow(at) \in Int /\ Slow(seed) \in Int
  BY <1>1, Sides
<1>3. /\ Slow(at)' = Slow(at') /\ Slow(seed)' = Slow(seed)
      /\ Slow(begin)' = Slow(begin) /\ Slow(end)' = Slow(end)
  BY <1>0 DEF Slow, SlowFirst
<1>w. WithinWalk
  BY <1>0 DEF SectionInv
<1>4. CASE stage' = "moving" /\ at' = at /\ dir' = dir
  <2>1. WithinWalk'
    BY <1>0, <1>2, <1>3, <1>4, <1>w DEF WithinWalk
  <2>2. QED
    BY <1>0, <1>1, <1>4, <2>1 DEF SectionInv, SectionIsWalked
<1>5. CASE stage' = "moving" /\ at' = seed /\ dir = "next" /\ dir' = "prev"
  <2>1. Slow(at) - Slow(seed) = fcount
    BY <1>0, <1>1, <1>2, <1>5 DEF PathInv, OnPath, Ahead
  <2>2. Slow(at') = Slow(seed)
    BY <1>5
  <2>3. WithinWalk'
    BY <1>0, <1>1, <1>2, <1>3, <1>5, <1>w, <2>1, <2>2 DEF WithinWalk
  <2>4. QED
    BY <1>0, <1>1, <1>5, <2>3 DEF SectionInv, SectionIsWalked
<1>6. CASE stage' = "done" /\ at' = at /\ dir' = dir
  <2>1. SectionIsWalked'
    BY <1>0, <1>1, <1>2, <1>3, <1>w, SectionSpan DEF SectionIsWalked, WithinWalk
  <2>2. QED
    BY <1>0, <1>1, <1>6, <2>1 DEF SectionInv
<1>7. QED
  BY <1>4, <1>5, <1>6 DEF FarFrame, TurnAround

\* Nor does moving on change it.
LEMMA SectionMove == PathInv /\ SectionInv /\ Move => SectionInv'
<1> SUFFICES ASSUME PathInv, SectionInv, Move PROVE SectionInv'
  OBVIOUS
<1>n. PICK n \in Nat \ {0} : n = fcount + 1
  BY DEF PathInv, Shape
<1>0. /\ ratio' = ratio /\ seed' = seed /\ good' = good
      /\ begin' = begin /\ end' = end /\ fcount' = n /\ stage = "moving"
  BY <1>n DEF Move, input, found
<1>1. /\ begin \in Position /\ end \in Position /\ at \in Position /\ seed \in Position
      /\ good \in Nat /\ fcount \in Nat /\ dir \in {"next", "prev"} /\ bcount = fcount + 1
      /\ clips \in Clips /\ ratio \in Ratios
  BY <1>0, ClipsAssumption DEF PathInv, Shape, Rounds, SectionInv, Position
<1>2. /\ Slow(begin) \in Int /\ Slow(end) \in Int /\ Slow(at) \in Int /\ Slow(seed) \in Int
  BY <1>1, Sides
<1>3. /\ Slow(at)' = Slow(at') /\ Slow(seed)' = Slow(seed)
      /\ Slow(begin)' = Slow(begin) /\ Slow(end)' = Slow(end)
  BY <1>0 DEF Slow, SlowFirst
<1>w. WithinWalk
  BY <1>0 DEF SectionInv
<1>4. CASE dir = "next" /\ StepTo(at, "next") /\ status' = status
  <2>1. at' = Moved(at, "next", n) /\ dir' = "next" /\ stage' = "judging"
    BY <1>0, <1>4 DEF StepTo
  <2>2. Slow(at') = Slow(at) + 1
    BY <1>1, <2>1, MovedIs
  <2>3. WithinWalk'
    BY <1>0, <1>1, <1>2, <1>3, <1>4, <1>w, <2>1, <2>2 DEF WithinWalk
  <2>4. QED
    BY <1>0, <1>1, <2>1, <2>3 DEF SectionInv, SectionIsWalked
<1>5. CASE dir = "next" /\ StepTo(seed, "prev") /\ status' = status \cup {"end"}
  <2>1. at' = Moved(seed, "prev", n) /\ dir' = "prev" /\ stage' = "judging"
    BY <1>0, <1>5 DEF StepTo
  <2>2. Slow(at') = Slow(seed) - 1
    BY <1>1, <2>1, MovedIs
  <2>3. Slow(at) - Slow(seed) = fcount
    BY <1>0, <1>1, <1>2, <1>5 DEF PathInv, OnPath, Ahead
  <2>4. WithinWalk'
    BY <1>0, <1>1, <1>2, <1>3, <1>5, <1>n, <1>w, <2>1, <2>2, <2>3 DEF WithinWalk
  <2>5. QED
    BY <1>0, <1>1, <2>1, <2>4 DEF SectionInv, SectionIsWalked
<1>6. CASE dir = "prev" /\ StepTo(at, "prev") /\ status' = status
  <2>1. at' = Moved(at, "prev", n) /\ dir' = "prev" /\ stage' = "judging"
    BY <1>0, <1>6 DEF StepTo
  <2>2. Slow(at') = Slow(at) - 1
    BY <1>1, <2>1, MovedIs
  <2>3. WithinWalk'
    BY <1>0, <1>1, <1>2, <1>3, <1>6, <1>n, <1>w, <2>1, <2>2 DEF WithinWalk
  <2>4. QED
    BY <1>0, <1>1, <2>1, <2>3 DEF SectionInv, SectionIsWalked
<1>7. CASE Ended /\ "begin" \in status'
  <2>1. stage' = "done" /\ bcount' = bcount
    BY <1>7 DEF Ended
  <2>2. SectionIsWalked'
    BY <1>0, <1>1, <1>2, <1>3, <1>7, <1>n, <2>1, SectionSpan DEF SectionIsWalked
  <2>3. QED
    BY <1>0, <1>1, <2>1, <2>2 DEF SectionInv
<1>8. QED
  BY <1>0, <1>1, <1>4, <1>5, <1>6, <1>7 DEF Move, StepTo

LEMMA SectionNext == PathInv /\ SectionInv /\ [Next]_vars => SectionInv'
<1>1. SectionInv /\ UNCHANGED vars => SectionInv'
  BY DEF SectionInv, WithinWalk, SectionIsWalked, Slow, SlowFirst, vars, input, found
<1>2. QED
  BY <1>1, SectionGood, SectionFar, SectionMove DEF Next

\* The reported section is one the walk has covered, with the seed in it, and
\* has at least as many frames as were good (evaluate_parameters).
THEOREM SectionsAreWalked == Spec => []SectionIsWalked
<1>1. SectionInv => SectionIsWalked
  BY DEF SectionInv
<1>2. QED
  BY <1>1, InitPath, NextPath, SectionInit, SectionNext, PTL DEF Spec

-----------------------------------------------------------------------------
(* Whole matches *)

\* At ratio 1 nothing is rounded: the two clips move frame by frame.
LEMMA RoundedAtOne ==
  ASSUME clips \in Clips, ratio \in Ratios, AtOne, NEW n \in Nat
  PROVE  Rounded(n) = n
<1>1. Up \in Nat \ {0} /\ Down = Up
  BY Sides DEF AtOne, Up, Down
<1>2. PICK rem \in 0..(2 * Down - 1) :
         2 * (Down * Rounded(n)) = 2 * (n * Up) + Down - rem
  BY RoundedIs
<1>3. Rounded(n) \in Int
  BY RoundedIs
<1> DEFINE k == Rounded(n) - n
<1>4. k \in Int /\ 2 * (Up * k) = Up - rem
  <2>1. Up * Rounded(n) - n * Up = Up * k
    BY <1>1, <1>3
  <2>2. Up * Rounded(n) \in Int /\ n * Up \in Int
    BY <1>1, <1>3
  <2>3. QED
    BY <1>1, <1>2, <1>3, <2>1, <2>2
<1> HIDE DEF k
<1>5. ~(k >= 1)
  <2> SUFFICES ASSUME k >= 1 PROVE FALSE
    OBVIOUS
  <2>1. Up * k >= Up
    BY <1>1, <1>4
  <2>2. QED
    BY <1>1, <1>4, <2>1
<1>6. ~(k <= 0 - 1)
  <2> SUFFICES ASSUME k <= 0 - 1 PROVE FALSE
    OBVIOUS
  <2>1. Up * k <= 0 - Up
    BY <1>1, <1>4
  <2>2. QED
    BY <1>1, <1>4, <2>1
<1>7. k = 0
  BY <1>4, <1>5, <1>6
<1>8. QED
  BY <1>3, <1>7 DEF k

\* Where the walk is at ratio 1.
LEMMA OffsetAtOne ==
  ASSUME PathInv, AtOne, stage # "done"
  PROVE  /\ at \in [a : 1..clips.a, b : 1..clips.b]
         /\ seed \in [a : 1..clips.a, b : 1..clips.b]
         /\ clips.a \in Nat /\ clips.b \in Nat /\ fcount \in Nat
         /\ at.b - seed.b = at.a - seed.a
         /\ dir = "next" => at.a - seed.a = fcount
<1>1. /\ clips \in Clips /\ ratio \in Ratios /\ at \in Position /\ Inside(at)
      /\ seed \in [a : 1..clips.a, b : 1..clips.b]
      /\ fcount \in Nat /\ dir \in {"next", "prev"}
      /\ clips.a \in Nat /\ clips.b \in Nat
  BY ClipsAssumption DEF PathInv, Shape
<1>2. \A p : Slow(p) = p.a /\ Fast(p) = p.b
  BY <1>1, RatiosAssumption DEF AtOne, Slow, Fast, SlowFirst
<1>3. CASE dir = "next"
  <2>1. Ahead(0, fcount)
    BY <1>3 DEF PathInv, OnPath
  <2>2. Rounded(0) = 0 /\ Rounded(fcount) = fcount
    BY <1>1, RoundedAtOne
  <2>3. QED
    BY <1>1, <1>2, <2>1, <2>2 DEF Ahead, Position, Inside
<1>4. CASE dir = "prev"
  <2>1. PICK m \in Nat : Ahead(fcount, m)
    BY <1>4 DEF PathInv, OnPath
  <2>2. Rounded(m) = m /\ Rounded(fcount) = fcount
    BY <1>1, RoundedAtOne
  <2>3. QED
    BY <1>1, <1>2, <1>4, <2>1, <2>2 DEF Ahead, Position, Inside
<1>5. QED
  BY <1>1, <1>3, <1>4

\* One step at ratio 1.
LEMMA MovedAtOne ==
  ASSUME clips \in Clips, ratio \in Ratios, AtOne, NEW p, NEW n \in Nat \ {0}
  PROVE  /\ Moved(p, "next", n) = [a |-> p.a + 1, b |-> p.b + 1]
         /\ Moved(p, "prev", n) = [a |-> p.a + (0 - 1), b |-> p.b + (0 - 1)]
<1>1. Rounded(n) = n /\ Rounded(n - 1) = n - 1
  BY RoundedAtOne, n - 1 \in Nat
<1>2. Steps(n) = 1
  BY <1>1 DEF Steps
<1>3. SlowFirst
  BY RatiosAssumption DEF SlowFirst, AtOne
<1>4. QED
  BY <1>2, <1>3 DEF Moved

LEMMA OverlapInit == Init => OverlapInv
BY DEF Init, OverlapInv, WholeIsTheOverlap, Whole

\* Only moving off a clip reaches an end.
LEMMA OverlapJudging ==
  PathInv /\ OverlapInv /\ (GoodFrame \/ FarFrame) => OverlapInv'
<1> SUFFICES ASSUME PathInv, OverlapInv, GoodFrame \/ FarFrame, AtOne PROVE OverlapInv'
  BY DEF GoodFrame, FarFrame, input, OverlapInv, AtOne
<1>1. /\ clips' = clips /\ ratio' = ratio /\ seed' = seed /\ fcount' = fcount
      /\ status' = status /\ stage = "judging"
  BY DEF GoodFrame, FarFrame, input
<1>2. After(seed)' = After(seed)
  BY <1>1 DEF After
<1>3. /\ "begin" \notin status
      /\ dir = "next" => status = {}
      /\ dir = "prev" /\ "end" \in status => at.a - seed.a = After(seed) - fcount
  BY <1>1 DEF OverlapInv
<1>4. \/ at' = at /\ dir' = dir
      \/ dir = "next" /\ dir' = "prev"
  BY DEF GoodFrame, FarFrame, TurnAround
<1>5. QED
  BY <1>1, <1>2, <1>3, <1>4 DEF OverlapInv, WholeIsTheOverlap, Whole

\* Forward it leaves a clip after all the frames that follow the seed, and back
\* after all those before it.
LEMMA OverlapMove == PathInv /\ OverlapInv /\ Move => OverlapInv'
<1> SUFFICES ASSUME PathInv, OverlapInv, Move, AtOne PROVE OverlapInv'
  BY DEF Move, input, OverlapInv, AtOne
<1>n. PICK n \in Nat \ {0} : n = fcount + 1
  BY DEF PathInv, Shape
<1>1. /\ clips' = clips /\ ratio' = ratio /\ seed' = seed /\ fcount' = n
      /\ stage = "moving"
  BY <1>n DEF Move, input
<1>2. /\ clips \in Clips /\ ratio \in Ratios /\ dir \in {"next", "prev"}
      /\ bcount = fcount + 1
  BY <1>1 DEF PathInv, Shape, Rounds
<1>3. After(seed)' = After(seed) /\ Before(seed)' = Before(seed)
  BY <1>1 DEF After, Before
<1>4. /\ "begin" \notin status
      /\ dir = "next" => status = {}
      /\ dir = "prev" /\ "end" \in status => at.a - seed.a = After(seed) - fcount
  BY <1>1 DEF OverlapInv
<1>5. /\ at \in [a : 1..clips.a, b : 1..clips.b]
      /\ seed \in [a : 1..clips.a, b : 1..clips.b]
      /\ clips.a \in Nat /\ clips.b \in Nat /\ fcount \in Nat
      /\ at.b - seed.b = at.a - seed.a
      /\ dir = "next" => at.a - seed.a = fcount
  BY <1>1, OffsetAtOne
<1>6. /\ dir = "next" /\ ~Inside(Moved(at, "next", n)) => fcount = After(seed)
      /\ dir = "prev" /\ ~Inside(Moved(at, "prev", n)) => seed.a - at.a = Before(seed)
      /\ ~Inside(Moved(seed, "prev", n)) => Before(seed) = 0
  BY <1>2, <1>5, MovedAtOne DEF Inside, After, Before
<1>7. CASE Inside(Moved(at, dir, n)) /\ StepTo(at, dir) /\ status' = status
  <2>1. at' = Moved(at, dir, n) /\ dir' = dir /\ stage' = "judging"
    BY <1>1, <1>7 DEF StepTo
  <2>2. dir = "prev" => at'.a = at.a - 1
    BY <1>2, <1>5, <2>1, MovedAtOne
  <2>3. After(seed) \in Int
    BY <1>5 DEF After
  <2>4. QED
    BY <1>1, <1>3, <1>4, <1>5, <1>7, <1>n, <2>1, <2>2, <2>3
    DEF OverlapInv, WholeIsTheOverlap, Whole
<1>8. CASE /\ ~Inside(Moved(at, dir, n)) /\ dir = "next"
           /\ StepTo(seed, "prev") /\ status' = status \cup {"end"}
  <2>1. at' = Moved(seed, "prev", n) /\ dir' = "prev" /\ stage' = "judging"
    BY <1>1, <1>8 DEF StepTo
  <2>2. at'.a = seed.a - 1
    BY <1>2, <1>5, <2>1, MovedAtOne
  <2>3. fcount = After(seed)
    BY <1>6, <1>8
  <2>4. QED
    BY <1>1, <1>3, <1>4, <1>5, <1>8, <1>n, <2>1, <2>2, <2>3
    DEF OverlapInv, WholeIsTheOverlap, Whole
<1>9. CASE /\ ~Inside(Moved(at, dir, n)) /\ dir = "next" /\ ~Inside(Moved(seed, "prev", n))
           /\ Ended
  <2>1. stage' = "done" /\ bcount' = After(seed) + 1 /\ Before(seed) = 0
    BY <1>2, <1>5, <1>6, <1>9 DEF Ended
  <2>2. QED
    BY <1>1, <1>3, <1>5, <1>6, <1>9, <2>1 DEF OverlapInv, WholeIsTheOverlap
<1>10. CASE /\ ~Inside(Moved(at, dir, n)) /\ dir = "prev" /\ Ended
            /\ status' = status \cup {"begin"}
  <2>1. stage' = "done" /\ bcount' = fcount + 1 /\ seed.a - at.a = Before(seed)
    BY <1>2, <1>6, <1>10 DEF Ended
  <2>2. After(seed) \in Int /\ Before(seed) \in Int
    BY <1>5 DEF After, Before
  <2>3. "end" \in status' => bcount' = Before(seed) + 1 + After(seed)
    BY <1>4, <1>5, <1>10, <2>1, <2>2
  <2>4. QED
    BY <1>1, <1>3, <2>1, <2>3 DEF OverlapInv, WholeIsTheOverlap, Whole
<1>11. QED
  BY <1>1, <1>2, <1>7, <1>8, <1>9, <1>10 DEF Move

\* A whole match at ratio 1 is every frame the two clips share at that offset.
THEOREM WholeMatchIsTheOverlap == Spec => []WholeIsTheOverlap
<1>1. OverlapInv => WholeIsTheOverlap
  BY DEF OverlapInv, AtOne, WholeIsTheOverlap
<1>2. OverlapInv /\ UNCHANGED vars => OverlapInv'
  BY DEF OverlapInv, AtOne, WholeIsTheOverlap, Whole, After, Before, vars, input
<1>3. PathInv /\ OverlapInv /\ [Next]_vars => OverlapInv'
  BY <1>2, OverlapJudging, OverlapMove DEF Next
<1>4. QED
  BY <1>1, <1>3, InitPath, NextPath, OverlapInit, PTL DEF Spec
=============================================================================
