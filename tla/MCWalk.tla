------------------------------- MODULE MCWalk -------------------------------
(***************************************************************************)
(* Short clips at ratios below, at and above one, some with a fraction.    *)
(***************************************************************************)
EXTENDS Walk

Ratio(n, d) == [num |-> n, den |-> d]
ManyRatios == {Ratio(30, 30), Ratio(45, 30), Ratio(20, 30), Ratio(60, 30), Ratio(36, 30)}
ShortClips == {[a |-> 5, b |-> 6], [a |-> 6, b |-> 4]}
Any        == [num |-> 0, den |-> 1]
OneRatio   == {Ratio(30, 30)}
EightFrames == {[a |-> 8, b |-> 8]}
=============================================================================
