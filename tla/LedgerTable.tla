---------------------------- MODULE LedgerTable ----------------------------
(***************************************************************************)
(* The hash table of a ledger in memory (src/ledger.c): sized from the     *)
(* pairs of this run, grown while the lines of the file are counted, never *)
(* grown again, filled from the file and then asked and filled by the      *)
(* workers, one call at a time (omp critical (ledger)).  A probe ends only *)
(* at the hash it looks for or at an empty slot.                           *)
(*                                                                         *)
(* Abstracted: a line is the hash it stands for, or Other (a comment, a    *)
(* record, an empty line).  The capacity is a power of two, so that the    *)
(* masks of the code are remainders here.                                  *)
(***************************************************************************)
EXTENDS Integers, Sequences, FiniteSets

CONSTANTS
  Hash,         \* hashes of pairs: 64-bit and never 0, which marks an empty slot
  Other,        \* a line that names no pair
  Nothing,      \* no call is under way
  Files,        \* what the ledger may hold when it is opened: sequences of lines
  Extras,       \* how many pairs the run may have (totalPairs)
  MinCapacity   \* 1024

Empty == 0

ASSUME HashAssumption     == Hash \subseteq Nat \ {Empty} /\ Other \notin Hash
ASSUME FilesAssumption    == Files \subseteq Seq(Hash \cup {Other})
ASSUME ExtrasAssumption   == Extras \subseteq Nat
ASSUME CapacityAssumption == MinCapacity \in Nat \ {0}
ASSUME NothingAssumption  ==
  /\ Nothing \notin [call : {"insert", "contains"}, hash : Hash, slot : Nat]
  /\ Nothing \notin [call : {"insert", "contains"}, hash : Hash]

VARIABLES
  lines,     \* the lines of the file
  extra,     \* the pairs this run may add
  stage,     \* sizing, counting, loading, comparing
  capacity,
  existing,  \* lines counted so far
  loaded,    \* lines loaded so far
  recorded,  \* pairs this run has recorded
  slots,     \* the table: [0..capacity-1 -> hash or Empty]
  count,     \* filled slots, as the code counts them
  probe,     \* the call under way and the slot it looks at
  answer     \* what the last ledgerContains returned

file  == <<lines, extra>>
size  == <<capacity, existing>>
table == <<slots, count, answer>>
vars  == <<lines, extra, stage, capacity, existing, loaded, recorded, slots,
           count, probe, answer>>

\* hash & (capacity - 1).
Home(h) == h % capacity

Begin(call, h) == probe' = [call |-> call, hash |-> h, slot |-> Home(h)]

-----------------------------------------------------------------------------

\* while (capacity < 2 * (extra + 1)) capacity *= 2.
\* Mutated: room for the pairs of the run and no more.
Size_Exact ==
  /\ stage = "sizing"
  /\ IF capacity < extra
       THEN capacity' = 2 * capacity /\ UNCHANGED stage
       ELSE stage' = "counting" /\ UNCHANGED capacity
  /\ UNCHANGED <<file, existing, loaded, recorded, table, probe>>
Size ==
  /\ stage = "sizing"
  /\ IF capacity < 2 * (extra + 1)
       THEN capacity' = 2 * capacity /\ UNCHANGED stage
       ELSE stage' = "counting" /\ UNCHANGED capacity
  /\ UNCHANGED <<file, existing, loaded, recorded, table, probe>>

\* One complete line of the first pass: at most one doubling.
\* Mutated: the pairs of this run are forgotten.
Grown_NoExtra == IF 2 * (existing + 1) > capacity THEN 2 * capacity ELSE capacity
Grown == IF 2 * (existing + 1 + extra) > capacity THEN 2 * capacity ELSE capacity
CountLine ==
  /\ stage = "counting"
  /\ existing < Len(lines)
  /\ existing' = existing + 1
  /\ capacity' = Grown
  /\ UNCHANGED <<file, stage, loaded, recorded, table, probe>>

\* calloc.
Allocate ==
  /\ stage = "counting"
  /\ existing = Len(lines)
  /\ slots' = [i \in 0..(capacity - 1) |-> Empty]
  /\ stage' = "loading"
  /\ UNCHANGED <<file, size, loaded, recorded, count, answer, probe>>

\* One line of the second pass.
LoadLine ==
  /\ stage = "loading" /\ probe = Nothing
  /\ loaded < Len(lines)
  /\ loaded' = loaded + 1
  /\ \/ lines[loaded + 1] = Other /\ UNCHANGED probe
     \/ lines[loaded + 1] # Other /\ Begin("insert", lines[loaded + 1])
  /\ UNCHANGED <<file, stage, size, recorded, table>>

Opened ==
  /\ stage = "loading" /\ probe = Nothing
  /\ loaded = Len(lines)
  /\ stage' = "comparing"
  /\ UNCHANGED <<file, size, loaded, recorded, table, probe>>

\* ledgerHas: the caller has the critical section until the probe ends.
Has(h) ==
  /\ stage = "comparing" /\ probe = Nothing
  /\ Begin("contains", h)
  /\ UNCHANGED <<file, stage, size, loaded, recorded, table>>

\* ledgerRecord: every iteration of the run records one pair at most.
Record(h) ==
  /\ stage = "comparing" /\ probe = Nothing
  /\ recorded < extra
  /\ recorded' = recorded + 1
  /\ Begin("insert", h)
  /\ UNCHANGED <<file, stage, size, loaded, table>>

-----------------------------------------------------------------------------
(* A probe *)

\* The slot holds another hash: on to the next.
Step ==
  /\ probe # Nothing
  /\ slots[probe.slot] \notin {Empty, probe.hash}
  /\ probe' = [probe EXCEPT !.slot = (@ + 1) % capacity]
  /\ UNCHANGED <<file, stage, size, loaded, recorded, table>>

\* The slot holds this hash.
Found ==
  /\ probe # Nothing
  /\ slots[probe.slot] = probe.hash
  /\ probe' = Nothing
  /\ answer' = IF probe.call = "contains" THEN 1 ELSE answer
  /\ UNCHANGED <<file, stage, size, loaded, recorded, slots, count>>

\* The probe ends at an empty slot: an insertion fills it.
\* Mutated: the hash goes to its home slot, whatever is there.
FillSlot_Home == slots' = [slots EXCEPT ![Home(probe.hash)] = probe.hash]
FillSlot == slots' = [slots EXCEPT ![probe.slot] = probe.hash]
AtEmpty ==
  /\ probe # Nothing
  /\ slots[probe.slot] = Empty
  /\ probe' = Nothing
  /\ \/ probe.call = "insert" /\ FillSlot /\ count' = count + 1 /\ UNCHANGED answer
     \/ probe.call = "contains" /\ answer' = 0 /\ UNCHANGED <<slots, count>>
  /\ UNCHANGED <<file, stage, size, loaded, recorded>>

-----------------------------------------------------------------------------

Init ==
  /\ lines \in Files
  /\ extra \in Extras
  /\ stage = "sizing"
  /\ capacity = MinCapacity
  /\ existing = 0
  /\ loaded = 0
  /\ recorded = 0
  /\ slots = <<>>
  /\ count = 0
  /\ probe = Nothing
  /\ answer = 0

Next ==
  \/ Size \/ CountLine \/ Allocate \/ LoadLine \/ Opened
  \/ \E h \in Hash : Has(h) \/ Record(h)
  \/ Step \/ Found \/ AtEmpty

Spec == Init /\ [][Next]_vars

\* A thread inside the critical section goes on.
Going    == WF_vars(Step \/ Found \/ AtEmpty)
FairSpec == Spec /\ Going

-----------------------------------------------------------------------------
(* What the runs check *)

Filled == {i \in DOMAIN slots : slots[i] # Empty}

\* "Half full at worst, so linear probing stays short": whatever the file holds
\* and the run adds, and with no growth while threads are running.
HalfFull == /\ count = Cardinality(Filled)
            /\ stage \in {"loading", "comparing"} => 2 * count <= capacity

\* The table is the set of pairs the rest of the program takes it for: what was
\* inserted is found again, whatever it had to be moved past, and nothing else.
Set == INSTANCE LedgerSet
         WITH members <- {slots[i] : i \in Filled},
              asked <- IF probe = Nothing THEN Nothing
                       ELSE [call |-> probe.call, hash |-> probe.hash]
IsASet == Set!Spec

\* "A table that ever became full would spin forever": no probe does.
ProbesEnd == probe # Nothing ~> probe = Nothing
=============================================================================
