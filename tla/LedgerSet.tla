----------------------------- MODULE LedgerSet -----------------------------
(***************************************************************************)
(* What ComparisonRun takes the ledger's memory for: a set of pairs, that  *)
(* answers one question at a time and forgets nothing.                     *)
(***************************************************************************)

CONSTANTS Hash,     \* what stands for a pair
          Nothing   \* no question is being asked

VARIABLES members,  \* the pairs in the set
          asked,    \* [call, hash] while a call is under way, or Nothing
          answer    \* what the last ledgerHas said

vars == <<members, asked, answer>>

Init == members = {} /\ asked = Nothing /\ answer = 0

\* A call of ledgerInsert or ledgerContains.
Call == /\ asked = Nothing
        /\ asked' \in [call : {"insert", "contains"}, hash : Hash]
        /\ UNCHANGED <<members, answer>>

Inserted == /\ asked # Nothing
            /\ asked.call = "insert"
            /\ members' = members \cup {asked.hash}
            /\ asked' = Nothing
            /\ UNCHANGED answer

Answered == /\ asked # Nothing
            /\ asked.call = "contains"
            /\ answer' = IF asked.hash \in members THEN 1 ELSE 0
            /\ asked' = Nothing
            /\ UNCHANGED members

Next == Call \/ Inserted \/ Answered

Spec == Init /\ [][Next]_vars
=============================================================================
