--------------------------- MODULE ResumableBatch ---------------------------
(***************************************************************************)
(* What the ledger of a long comparison promises, with no mention of how:  *)
(* a batch of pairs is worked through by any number of invocations, each   *)
(* of which may stop anywhere.  A pair may be marked done, so that no      *)
(* later invocation compares it, only after its row has reached the        *)
(* output; every such row was made by one and the same kind of run (build, *)
(* binary, settings); what was done is forgotten only together with the    *)
(* output it vouches for.                                                  *)
(*                                                                         *)
(* The promise has one hole.  Two failed or interrupted marks may run into *)
(* each other and look like the mark of a third pair, if its name can be   *)
(* put together from theirs; that pair is then skipped without a row.      *)
(***************************************************************************)

EXTENDS TLAPS

CONSTANTS Pair,       \* unordered pairs of signatures
          Misnamable, \* pairs whose name can be put together from others
          Run,        \* run records: version, binary digest, parameters
          NoRun       \* the ledger of build 4 or earlier, or a fresh one

VARIABLES run,       \* the run record every row is made under, or NoRun
          done,      \* pairs marked done
          misnamed,  \* pairs that only look so: no invocation compares them, either
          delivered  \* [pair, run] of the rows that reached the output

vars == <<run, done, misnamed, delivered>>

Delivery(S, r) == [pair : S, run : {r}]

\* A batch starts empty, or continues pairs some unrecorded build finished.
Init == /\ run = NoRun
        /\ done \in SUBSET Pair
        /\ misnamed = {}
        /\ delivered = Delivery(done, NoRun)

\* The first accepted invocation gives the batch its run record.
Claim == /\ run = NoRun
         /\ run' \in Run
         /\ UNCHANGED <<done, misnamed, delivered>>

\* Some rows reach the output; a row may be delivered more than once.
Deliver == /\ run # NoRun
           /\ \E S \in SUBSET Pair : delivered' = delivered \cup Delivery(S, run)
           /\ UNCHANGED <<run, done, misnamed>>

\* A pair whose row is in the output is marked done.
Complete == /\ \E x \in Pair : /\ [pair |-> x, run |-> run] \in delivered
                               /\ done' = done \cup {x}
            /\ UNCHANGED <<run, misnamed, delivered>>

\* Two marks that have run into each other look like a third one.
Misname == /\ \E x \in Misnamable : misnamed' = misnamed \cup {x}
           /\ UNCHANGED <<run, done, delivered>>

\* The user moves the ledger and its output away, together.
StartOver == /\ run' = NoRun
             /\ done' = {}
             /\ misnamed' = {}
             /\ delivered' = {}

Next == Claim \/ Deliver \/ Complete \/ Misname \/ StartOver

Spec == Init /\ [][Next]_vars

-----------------------------------------------------------------------------

TypeOK == /\ run \in Run \cup {NoRun}
          /\ done \subseteq Pair
          /\ misnamed \subseteq Misnamable
          /\ delivered \subseteq [pair : Pair, run : Run \cup {NoRun}]

\* Nothing is marked done that is not in the output.
DoneIsDelivered == \A x \in done : \E d \in delivered : d.pair = x

\* Nothing is skipped that is not in the output, but for the hole.
SkippedIsDelivered ==
  \A x \in (done \cup misnamed) \ Misnamable : \E d \in delivered : d.pair = x

\* Every row with a known origin was made under the batch's run record, so
\* that the rows of all invocations can be compared with each other.
OneOrigin == \A d \in delivered : d.run \in {NoRun, run}

-----------------------------------------------------------------------------
(* Why the batch keeps its promises *)

\* Together the promises are inductive: a done pair has a row, a row has no
\* origin but the batch's run or an unrecorded build, and the hole is no wider.
Promise == DoneIsDelivered /\ OneOrigin /\ misnamed \subseteq Misnamable

LEMMA PromiseInductive ==
  Promise /\ [Next]_vars => Promise'
<1> SUFFICES ASSUME Promise, [Next]_vars
             PROVE  Promise'
  OBVIOUS
<1> USE DEF Promise
<1>1. CASE Claim
  BY <1>1 DEF Claim, DoneIsDelivered, OneOrigin
<1>2. CASE Deliver
  <2>1. PICK S \in SUBSET Pair : delivered' = delivered \cup Delivery(S, run)
    BY <1>2 DEF Deliver
  <2>2. \A d \in Delivery(S, run) : d.run = run
    BY DEF Delivery
  <2>3. run' = run /\ done' = done /\ misnamed' = misnamed
    BY <1>2 DEF Deliver
  <2>4. QED
    BY <2>1, <2>2, <2>3 DEF DoneIsDelivered, OneOrigin
<1>3. CASE Complete
  <2>1. PICK x \in Pair : [pair |-> x, run |-> run] \in delivered /\ done' = done \cup {x}
    BY <1>3 DEF Complete
  <2>2. [pair |-> x, run |-> run].pair = x
    OBVIOUS
  <2>3. run' = run /\ misnamed' = misnamed /\ delivered' = delivered
    BY <1>3 DEF Complete
  <2>4. DoneIsDelivered'
    BY <2>1, <2>2, <2>3 DEF DoneIsDelivered
  <2>5. QED
    BY <2>3, <2>4 DEF OneOrigin
<1>4. CASE StartOver
  BY <1>4 DEF StartOver, DoneIsDelivered, OneOrigin
<1>5. CASE Misname
  BY <1>5 DEF Misname, DoneIsDelivered, OneOrigin
<1>6. CASE UNCHANGED vars
  BY <1>6 DEF vars, DoneIsDelivered, OneOrigin
<1>7. QED
  BY <1>1, <1>2, <1>3, <1>4, <1>5, <1>6 DEF Next

\* However often a batch is stopped and resumed: no pair is skipped without its
\* row, unless its name can be put together from others, and all rows of a known
\* origin share it.
THEOREM BatchPromise == Spec => [](DoneIsDelivered /\ SkippedIsDelivered /\ OneOrigin)
<1>1. Init => Promise
  <2> SUFFICES ASSUME Init
               PROVE  Promise
    OBVIOUS
  <2>1. \A x \in done : [pair |-> x, run |-> NoRun] \in delivered
    BY DEF Init, Delivery
  <2>2. \A x \in done : [pair |-> x, run |-> NoRun].pair = x
    OBVIOUS
  <2>3. DoneIsDelivered
    BY <2>1, <2>2 DEF DoneIsDelivered
  <2>4. \A d \in delivered : d.run = NoRun
    BY DEF Init, Delivery
  <2>5. misnamed \subseteq Misnamable
    BY DEF Init
  <2>6. QED
    BY <2>3, <2>4, <2>5 DEF OneOrigin, Promise
<1>2. Promise /\ [Next]_vars => Promise'
  BY PromiseInductive
<1>3. Promise => DoneIsDelivered /\ SkippedIsDelivered /\ OneOrigin
  BY DEF Promise, DoneIsDelivered, SkippedIsDelivered
<1>4. QED
  BY <1>1, <1>2, <1>3, PTL DEF Spec
=============================================================================
