-------------------------- MODULE SignatureLookup --------------------------
(***************************************************************************)
(* The search of one pair of clips (signature_lookup.c: lookup_signatures, *)
(* find_next_coarsecandidate, and how evaluate_parameters ranks what it    *)
(* walks): every pair of segments in turn, the candidates of each similar  *)
(* pair in the order of the accumulator, and one best match that carries   *)
(* from one to the next.                                                   *)
(*                                                                         *)
(* Abstracted: of the walk of a candidate there is what module Walk leaves *)
(* of it: its length, its mean distance, the section it covers, whether it *)
(* passes the filters and whether it reached both ends.                    *)
(***************************************************************************)
EXTENDS Alignments

CONSTANT Walks  \* what the walk of a candidate may come to

ASSUME WalksAssumption ==
  \A w \in Walks : /\ w.frames \in Nat \ {0} /\ w.meandist \in Nat
                  /\ {w.reported, w.bothEnds} \subseteq BOOLEAN

VARIABLES
  cs, cs2,  \* the pair of segments at hand
  stage,    \* "waiting", "comparing", "pairing", "voting", "choosing", "evaluating", "done"
  pairs,    \* the nearest frames
  hspace,   \* the cells of the accumulator that have votes
  infos,    \* what the walk of each candidate still to be evaluated comes to
  best,     \* bestmatch
  found     \* for the properties: what stage 2 found, and what the walks came to

search == <<cs, cs2, stage, pairs, hspace, infos, best, found>>

\* bestmatch before anything is found.
Sentinel == [frames |-> 0, meandist |-> 99999, section |-> {}, whole |-> FALSE]

-----------------------------------------------------------------------------

\* lookup_signatures is called, with two clips: [coarse, fine, linked].
Begin ==
  /\ stage = "waiting"
  /\ stage' = "comparing"
  /\ UNCHANGED <<cs, cs2, pairs, hspace, infos, best, found>>

\* find_next_coarsecandidate, one pair further.
\* Mutated: it stays with one segment of the first clip.
NextPair_SameSource(clip, other) ==
  \/ cs2 < Len(other.coarse) /\ cs2' = cs2 + 1 /\ cs' = cs /\ stage' = "comparing"
  \/ cs2 = Len(other.coarse) /\ cs < Len(clip.coarse)
     /\ cs2' = 1 /\ cs' = cs /\ stage' = "comparing"
  \/ cs2 = Len(other.coarse) /\ cs = Len(clip.coarse)
     /\ stage' = "done" /\ UNCHANGED <<cs, cs2>>
NextPair(clip, other) ==
  \/ /\ cs2 < Len(other.coarse)
     /\ cs2' = cs2 + 1 /\ cs' = cs /\ stage' = "comparing"
  \/ /\ cs2 = Len(other.coarse) /\ cs < Len(clip.coarse)
     /\ cs' = cs + 1 /\ cs2' = 1 /\ stage' = "comparing"
  \/ /\ cs2 = Len(other.coarse) /\ cs = Len(clip.coarse)
     /\ stage' = "done" /\ UNCHANGED <<cs, cs2>>

\* Stage 1.
SimilarPair(clip, other, x) == Similar(clip.coarse[x[1]].words, other.coarse[x[2]].words)
Compare(clip, other) ==
  /\ stage = "comparing"
  /\ \/ SimilarPair(clip, other, <<cs, cs2>>) /\ stage' = "pairing" /\ UNCHANGED <<cs, cs2>>
     \/ ~SimilarPair(clip, other, <<cs, cs2>>) /\ NextPair(clip, other)
  /\ UNCHANGED <<pairs, hspace, infos, best, found>>

\* Stage 2: the nearest frames, their votes, and the candidates.
CloseFrames(clip, other, x) ==
  Close(clip.fine, clip.linked[x[1]].first, other.fine, other.linked[x[2]].first)
FindPairs(clip, other) ==
  /\ stage = "pairing"
  /\ pairs' = Nearest(CloseFrames(clip, other, <<cs, cs2>>))
  /\ stage' = "voting"
  /\ UNCHANGED <<cs, cs2, hspace, infos, best, found>>

Vote ==
  /\ stage = "voting"
  /\ hspace' = houghTransform(pairs)
  /\ stage' = "choosing"
  /\ UNCHANGED <<cs, cs2, pairs, infos, best, found>>

Choose ==
  /\ stage = "choosing"
  /\ \E w \in [Chosen(hspace) -> Walks] :
       /\ infos' = w
       /\ found' = found \cup {[at |-> <<cs, cs2>>, walks |-> w]}
  /\ pairs' = {} /\ hspace' = {}
  /\ stage' = "evaluating"
  /\ UNCHANGED <<cs, cs2, best>>

Better(c, m) == c.frames > m.frames \/ (c.frames = m.frames /\ c.meandist < m.meandist)
Match(c) == [frames |-> c.frames, meandist |-> c.meandist,
             section |-> c.section, whole |-> c.bothEnds]

\* Stage 3: the filters, then longer, then closer; whole is the winner's.
\* Mutated: any candidate that reached both ends makes the best match whole.
Ranked_AnyWhole(c, m) ==
  IF ~c.reported THEN m
  ELSE IF Better(c, m) THEN Match(c)
  ELSE [m EXCEPT !.whole = m.whole \/ c.bothEnds]
Ranked(c, m) == IF c.reported /\ Better(c, m) THEN Match(c) ELSE m

Evaluate ==
  /\ stage = "evaluating"
  /\ \E c \in DOMAIN infos :
       /\ \A d \in DOMAIN infos \ {c} : Precedes(c, d)
       /\ best' = Ranked(infos[c], best)
       /\ infos' = Restrict(infos, DOMAIN infos \ {c})
  /\ UNCHANGED <<cs, cs2, stage, pairs, hspace, found>>

Evaluated(clip, other) ==
  /\ stage = "evaluating"
  /\ DOMAIN infos = {}
  /\ NextPair(clip, other)
  /\ UNCHANGED <<pairs, hspace, infos, best, found>>

-----------------------------------------------------------------------------

InitSearch ==
  /\ cs = 1 /\ cs2 = 1
  /\ stage = "waiting"
  /\ pairs = {} /\ hspace = {} /\ infos = <<>>
  /\ best = Sentinel
  /\ found = {}

Search(clip, other) ==
  \/ Compare(clip, other) \/ FindPairs(clip, other) \/ Vote \/ Choose
  \/ Evaluate \/ Evaluated(clip, other)
=============================================================================
