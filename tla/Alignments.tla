----------------------------- MODULE Alignments -----------------------------
(***************************************************************************)
(* The first two stages of a search (signature_lookup.c): which segments   *)
(* are similar (get_jaccarddist), and the candidates of two that are       *)
(* (get_matching_parameters, houghTransform): frames that are nearest to   *)
(* each other vote for a frame rate ratio and an offset, and every cell    *)
(* with nearly as many votes as the first is a candidate.                  *)
(*                                                                         *)
(* Abstracted: a word is the set of its bits, a frame's signature the      *)
(* sequence of its packed values.  Arithmetic is exact where the code's is *)
(* in floating point: they agree on segments of up to ten frames and fewer *)
(* than 90 votes for a cell.                                               *)
(***************************************************************************)
EXTENDS Integers, Sequences, SequencesExt

CONSTANTS
  thworddist, thcomposdist, thl1,  \* -w, -c, -d
  COARSE_SIZE                      \* frames of a segment: 90

HOUGH_MAX_OFFSET == 90
MAX_FRAMERATE    == 60
JACCARD_SCALE    == 10000

\* The accumulator has a column for every offset in two segments.
ASSUME SegmentAssumption == COARSE_SIZE \in 1..HOUGH_MAX_OFFSET

-----------------------------------------------------------------------------
(* Stage 1 *)

jaccard_distance(x, y) ==
  IF x \cup y = {} THEN 0
  ELSE (Cardinality((x \cup y) \ (x \cap y)) * JACCARD_SCALE) \div Cardinality(x \cup y)

\* At most two words too far apart, and not too far in total.
Similar(words, others) ==
  LET d == [i \in DOMAIN words |-> jaccard_distance(words[i], others[i])]
  IN  /\ Cardinality({i \in DOMAIN d : d[i] >= thworddist}) <= 2
      /\ FoldFunction(+, 0, d) <= thcomposdist

-----------------------------------------------------------------------------
(* Stage 2: the nearest frames *)

Digit(v, k) == (v \div 3^k) % 3

\* As many as two ternary digits are apart: the levels only one of them reaches.
Apart(x, y) == {l \in 1..2 : (x < l) # (y < l)}

\* The sum over all ternary digits, five to a value.
get_l1dist(sig, other) ==
  Cardinality({s \in (DOMAIN sig) \X (0..4) \X (1..2) :
                 s[3] \in Apart(Digit(sig[s[1]], s[2]), Digit(other[s[1]], s[2]))})

\* A segment is searched from its first frame on, by frames that have a next one.
Window(frames, start) ==
  {i \in 0..(COARSE_SIZE - 1) : start + i < Len(frames)}

\* The pairs of frames closer than the threshold: positions and distance.
Pair(i, j, d) == [pos |-> i, b_pos |-> j, dist |-> d]
Close(frames, start, others, from) ==
  {p \in {Pair(i, j, get_l1dist(frames[start + i].sig, others[from + j].sig)) :
            i \in Window(frames, start), j \in Window(others, from)} : p.dist < thl1}

\* For each frame of the first clip those nearest to it.
Nearest(close) == {p \in close : \A q \in close : q.pos = p.pos => p.dist <= q.dist}

-----------------------------------------------------------------------------
(* Stage 2: the Hough transform *)

\* nearbyint of n / d: to the even one of two that are as near.
Rounded(n, d) ==
  LET f == n \div d
      r == n % d
  IN  IF 2 * r > d \/ (2 * r = d /\ f % 2 = 1) THEN f + 1 ELSE f

\* A vote is of two pairs, the frame of the first clip in v[1] before that in
\* v[2]; Rise by Run is its slope.
Run(v)  == v[2].pos - v[1].pos
Rise(v) == v[2].b_pos - v[1].b_pos
Framerate(v) == Rounded(60 * Rise(v) + Run(v), 2 * Run(v))
Offset(v)    == v[1].b_pos - Rounded(2 * Rise(v) * v[1].pos + Run(v), 2 * Run(v))

Votes(pairs) ==
  {v \in pairs \X pairs :
     /\ Run(v) > 0 /\ Rise(v) # 0
     /\ Framerate(v) \in 1..MAX_FRAMERATE
     /\ Offset(v) \in (1 - HOUGH_MAX_OFFSET)..(HOUGH_MAX_OFFSET - 1)}

\* The order of the four loops.
Before(v, w) ==
  LET p == <<v[1].pos, v[2].pos, v[1].b_pos, v[2].b_pos>>
      q == <<w[1].pos, w[2].pos, w[1].b_pos, w[2].b_pos>>
  IN  \E n \in 1..4 : p[n] < q[n] /\ \A m \in 1..(n - 1) : p[m] = q[m]

\* The closer pair of a vote, and that of the first closest vote for a cell.
Closer(v) == IF v[1].dist < v[2].dist THEN v[1] ELSE v[2]
Seed(cast) ==
  LET first == CHOOSE v \in cast : \A w \in cast \ {v} :
                 \/ Closer(v).dist < Closer(w).dist
                 \/ Closer(v).dist = Closer(w).dist /\ Before(v, w)
  IN  [vote |-> first, pair |-> Closer(first)]

\* The cells of the accumulator that have votes, each with the votes it has.
SameCell(v, w) == Framerate(v) = Framerate(w) /\ Offset(v) = Offset(w)
houghTransform(pairs) ==
  {[framerate |-> Framerate(Seed(cast).vote), offset |-> Offset(Seed(cast).vote),
    score |-> Cardinality(cast), seed |-> Seed(cast).pair] :
      cast \in {{v \in Votes(pairs) : SameCell(v, w)} : w \in Votes(pairs)}}

\* More than seven tenths of the most votes.  Mutated: of the half of the
\* accumulator where the second clip is ahead.
Chosen_Half(hspace) ==
  {c \in hspace : c.offset < 0 /\ \A o \in hspace : c.score > (7 * o.score) \div 10}
Chosen(hspace) == {c \in hspace : \A o \in hspace : c.score > (7 * o.score) \div 10}

\* The order of the accumulator.
Precedes(c, d) == \/ c.framerate < d.framerate
                  \/ c.framerate = d.framerate /\ c.offset < d.offset
=============================================================================
