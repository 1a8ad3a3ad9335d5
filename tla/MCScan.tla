------------------------------- MODULE MCScan -------------------------------
(***************************************************************************)
(* Small inventories: two sources and a candidate, one source and two      *)
(* candidates, copies of one video, and a candidate that is the source.    *)
(***************************************************************************)
EXTENDS Scan

CONSTANTS p, q, r, f, g, h

Ask(from, in, at, holds) == [sources |-> from, candidates |-> in, file |-> at, content |-> holds]
Apart == [x \in Path |-> CASE x = p -> f [] x = q -> g [] x = r -> h]
Link  == [Apart EXCEPT ![r] = f]
Holds(a, b, c) == [x \in File |-> CASE x = f -> a [] x = g -> b [] x = h -> c]

FewRequests ==
  {Ask({p, q}, {r}, Apart, Holds(1, 2, 1)), Ask({p, q}, {r}, Apart, Holds(1, 1, 2)),
   Ask({p}, {q, r}, Apart, Holds(1, 1, 2)), Ask({p}, {q, r}, Apart, Holds(1, 2, 2)),
   Ask({p}, {q, r}, Link, Holds(1, 2, 2)),  Ask({}, {q}, Apart, Holds(1, 2, 2))}
=============================================================================
