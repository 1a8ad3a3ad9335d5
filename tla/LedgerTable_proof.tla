------------------------- MODULE LedgerTable_proof -------------------------
(***************************************************************************)
(* Theorems about LedgerTable for every file, every number of pairs and    *)
(* every capacity it starts from, with their proofs.                       *)
(***************************************************************************)
EXTENDS LedgerTable, FiniteSetTheorems, TLAPS

-----------------------------------------------------------------------------
(* Remainders *)

\* Quotient and remainder.
LEMMA DivMod ==
  ASSUME NEW a \in Int, NEW n \in Nat \ {0}
  PROVE  /\ a % n \in 0..(n - 1)
         /\ a \div n \in Int
         /\ a = n * (a \div n) + (a % n)
OBVIOUS

\* A number has one remainder, whatever its quotients.
LEMMA RemainderUnique ==
  ASSUME NEW n \in Nat \ {0}, NEW q \in Int, NEW p \in Int,
         NEW r \in 0..(n - 1), NEW s \in 0..(n - 1), n * q + r = n * p + s
  PROVE  r = s
<1>1. n * (q - p) = s - r
  OBVIOUS
<1>2. CASE q > p
  <2>1. n * (q - p) >= n
    BY <1>2
  <2>2. QED
    BY <2>1, <1>1
<1>3. CASE q < p
  <2>1. n * (q - p) <= 0 - n
    BY <1>3
  <2>2. QED
    BY <2>1, <1>1
<1>4. QED
  BY <1>2, <1>3

\* The slot after the d-th slot of a probe is its d+1-st.
LEMMA NextSlot ==
  ASSUME NEW a \in Int, NEW n \in Nat \ {0}
  PROVE  ((a % n) + 1) % n = (a + 1) % n
<1> DEFINE q == a \div n
           r == a % n
<1>1. a = n * q + r /\ q \in Int /\ r \in 0..(n - 1)
  BY DivMod
<1>2. PICK p \in Int, s \in 0..(n - 1) : a + 1 = n * p + s /\ s = (a + 1) % n
  <2>1. /\ (a + 1) % n \in 0..(n - 1)
        /\ (a + 1) \div n \in Int
        /\ a + 1 = n * ((a + 1) \div n) + ((a + 1) % n)
    BY DivMod
  <2>2. QED
    BY <2>1
<1>3. CASE r + 1 < n
  <2>1. (r + 1) % n = r + 1
    BY <1>1, <1>3
  <2>2. n * q + (r + 1) = n * p + s
    BY <1>1, <1>2
  <2>3. r + 1 \in 0..(n - 1)
    BY <1>1, <1>3
  <2>4. s = r + 1
    BY <2>2, <2>3, <1>1, <1>2, RemainderUnique
  <2>5. QED
    BY <2>1, <2>4, <1>2
<1>4. CASE r + 1 = n
  <2>0. 0 \in 0..(n - 1) /\ n \in Int
    OBVIOUS
  <2>1. n % n = 0
    <3>1. n % n \in 0..(n - 1) /\ n \div n \in Int /\ n = n * (n \div n) + (n % n)
      BY DivMod
    <3>2. n * 1 + 0 = n * (n \div n) + (n % n)
      BY <3>1
    <3>3. QED
      BY <3>1, <3>2, <2>0, RemainderUnique
  <2>2. n * (q + 1) = n * q + n
    BY <1>1
  <2>3. n * (q + 1) + 0 = n * p + s
    BY <2>2, <1>1, <1>2, <1>4
  <2>4. s = 0
    BY <2>0, <2>3, <1>1, <1>2, RemainderUnique
  <2>5. QED
    BY <2>1, <2>4, <1>2, <1>4
<1>5. QED
  BY <1>1, <1>3, <1>4

-----------------------------------------------------------------------------
(* Half full at worst *)

Working == stage \in {"loading", "comparing"}
Calls   == [call : {"insert", "contains"}, hash : Hash, slot : Nat]

\* A pair on its way into the table.
Inserting == IF probe # Nothing /\ probe.call = "insert" THEN 1 ELSE 0

\* The shape of the state, stage by stage.
Shape ==
  /\ lines \in Seq(Hash \cup {Other}) /\ extra \in Nat
  /\ stage \in {"sizing", "counting", "loading", "comparing"}
  /\ capacity \in Nat \ {0} /\ existing \in Nat /\ loaded \in Nat
  /\ recorded \in Nat /\ count \in Nat
  /\ probe \in Calls \cup {Nothing}
  /\ existing <= Len(lines) /\ loaded <= Len(lines) /\ recorded <= extra
  /\ stage = "sizing" => existing = 0
  /\ ~Working => slots = <<>> /\ loaded = 0 /\ probe = Nothing /\ count = 0
  /\ stage # "comparing" => recorded = 0
  /\ Working => /\ existing = Len(lines)
                /\ slots \in [0..(capacity - 1) -> Hash \cup {Empty}]
  /\ probe # Nothing => probe.slot < capacity

\* Room for twice what the file holds and the run adds, and never more pairs in
\* the table than lines loaded and pairs recorded.
Room ==
  /\ stage # "sizing" => capacity >= 2 /\ capacity >= 2 * (existing + extra)
  /\ count + Inserting <= loaded + recorded

\* The code's count is the number of filled slots.
Counted == IsFiniteSet(Filled) /\ count = Cardinality(Filled)

\* A call under way is a record of its hash and a slot of the table.
LEMMA ProbeType ==
  ASSUME Shape, probe # Nothing
  PROVE  /\ probe \in Calls /\ Working
         /\ probe.hash \in Hash /\ probe.hash # Empty
         /\ probe.slot \in 0..(capacity - 1)
         /\ probe.slot \in DOMAIN slots
         /\ slots \in [0..(capacity - 1) -> Hash \cup {Empty}]
         /\ probe.call \in {"insert", "contains"}
BY HashAssumption DEF Shape, Calls

\* A call begins at a slot of the table.
LEMMA BeginType ==
  ASSUME Shape, NEW call \in {"insert", "contains"}, NEW h \in Hash, Begin(call, h)
  PROVE  /\ probe' \in Calls /\ probe' # Nothing
         /\ probe'.slot < capacity /\ probe'.call = call
<1>0. h \in Int /\ capacity \in Nat \ {0}
  BY HashAssumption DEF Shape
<1>1. Home(h) \in Nat /\ Home(h) < capacity
  <2>1. h % capacity \in 0..(capacity - 1)
    BY <1>0, DivMod
  <2>2. QED
    BY <1>0, <2>1 DEF Home
<1>2. probe' \in Calls
  BY <1>1 DEF Begin, Calls
<1>3. QED
  BY <1>1, <1>2, NothingAssumption DEF Begin, Calls

\* The initial states have the shape.
LEMMA InitShape == Init => Shape /\ Room /\ Counted
<1> SUFFICES ASSUME Init
             PROVE  Shape /\ Room /\ Counted
  OBVIOUS
<1>1. Shape
  BY FilesAssumption, ExtrasAssumption, CapacityAssumption DEF Init, Shape, Working
<1>2. Room
  BY DEF Init, Room, Inserting
<1>3. Counted
  <2>1. Filled = {}
    BY DEF Init, Filled
  <2>2. QED
    BY <2>1, FS_EmptySet DEF Init, Counted
<1>4. QED
  BY <1>1, <1>2, <1>3

\* A step that is not a probe's and does not allocate leaves the slots alone.
LEMMA SlotsKept ==
  ASSUME Counted, UNCHANGED <<slots, count>>
  PROVE  Counted'
BY DEF Counted, Filled

\* Every step keeps the shape, the room and the count.
LEMMA NextRoom == Shape /\ Room /\ Counted /\ [Next]_vars => Shape' /\ Room' /\ Counted'
<1> SUFFICES ASSUME Shape, Room, Counted, [Next]_vars
             PROVE  Shape' /\ Room' /\ Counted'
  OBVIOUS
<1> USE DEF file, size, table
<1>l. Len(lines) \in Nat
  BY DEF Shape
<1>1. CASE Size
  <2>1. Shape'
    BY <1>1 DEF Size, Shape, Working
  <2>2. Room'
    BY <1>1 DEF Size, Shape, Room, Inserting
  <2>3. QED
    BY <1>1, <2>1, <2>2, SlotsKept DEF Size
<1>2. CASE CountLine
  <2>1. capacity' \in Nat \ {0} /\ existing' = existing + 1
    BY <1>2 DEF CountLine, Grown, Shape
  <2>2. Shape'
    BY <1>2, <2>1, <1>l DEF CountLine, Shape, Working
  <2>3. capacity' >= 2 /\ capacity' >= 2 * (existing' + extra')
    BY <1>2, <2>1 DEF CountLine, Grown, Shape, Room
  <2>4. Room'
    BY <1>2, <2>3 DEF CountLine, Room, Inserting
  <2>5. QED
    BY <1>2, <2>2, <2>4, SlotsKept DEF CountLine
<1>3. CASE Allocate
  <2>1. Shape'
    BY <1>3 DEF Allocate, Shape, Working
  <2>2. Room'
    BY <1>3 DEF Allocate, Room, Inserting
  <2>3. Filled' = {} /\ count' = 0
    BY <1>3 DEF Allocate, Filled, Shape, Working
  <2>4. Counted'
    BY <2>3, FS_EmptySet DEF Counted
  <2>5. QED
    BY <2>1, <2>2, <2>4
<1>4. CASE LoadLine
  <2>1. CASE UNCHANGED probe
    <3>1. Shape'
      BY <1>4, <1>l, <2>1 DEF LoadLine, Shape, Working
    <3>2. Room'
      BY <1>4, <2>1 DEF LoadLine, Shape, Room, Inserting
    <3>3. QED
      BY <1>4, <3>1, <3>2, SlotsKept DEF LoadLine
  <2>2. CASE lines[loaded + 1] # Other /\ Begin("insert", lines[loaded + 1])
    <3>1. lines[loaded + 1] \in Hash
      BY <1>4, <2>2 DEF LoadLine, Shape
    <3>2. probe' \in Calls /\ probe' # Nothing /\ probe'.slot < capacity /\ probe'.call = "insert"
      BY <2>2, <3>1, BeginType
    <3>3. Shape'
      BY <1>4, <1>l, <3>2 DEF LoadLine, Shape, Working
    <3>4. Room'
      BY <1>4, <3>2 DEF LoadLine, Shape, Room, Inserting
    <3>5. QED
      BY <1>4, <3>3, <3>4, SlotsKept DEF LoadLine
  <2>3. QED
    BY <1>4, <2>1, <2>2 DEF LoadLine
<1>5. CASE Opened
  <2>1. Shape' /\ Room'
    BY <1>5 DEF Opened, Shape, Working, Room, Inserting
  <2>2. QED
    BY <1>5, <2>1, SlotsKept DEF Opened
<1>6. ASSUME NEW h \in Hash, Has(h)
      PROVE  Shape' /\ Room' /\ Counted'
  <2>1. probe' \in Calls /\ probe' # Nothing /\ probe'.slot < capacity /\ probe'.call = "contains"
    BY <1>6, BeginType DEF Has
  <2>2. Shape'
    BY <1>6, <2>1 DEF Has, Shape, Working
  <2>3. Room'
    BY <1>6, <2>1 DEF Has, Room, Inserting
  <2>4. QED
    BY <1>6, <2>2, <2>3, SlotsKept DEF Has
<1>7. ASSUME NEW h \in Hash, Record(h)
      PROVE  Shape' /\ Room' /\ Counted'
  <2>1. probe' \in Calls /\ probe' # Nothing /\ probe'.slot < capacity /\ probe'.call = "insert"
    BY <1>7, BeginType DEF Record
  <2>2. Shape'
    BY <1>7, <2>1 DEF Record, Shape, Working
  <2>3. Room'
    BY <1>7, <2>1 DEF Record, Shape, Room, Inserting
  <2>4. QED
    BY <1>7, <2>2, <2>3, SlotsKept DEF Record
<1>8. CASE Step
  <2>1. /\ probe \in Calls /\ probe.slot \in 0..(capacity - 1) /\ capacity \in Nat \ {0}
        /\ probe # Nothing
    BY <1>8, ProbeType DEF Step, Shape
  <2>2. (probe.slot + 1) % capacity \in 0..(capacity - 1)
    <3>1. probe.slot + 1 \in Int
      BY <2>1
    <3>2. QED
      BY <2>1, <3>1, DivMod
  <2>3. /\ probe' \in Calls /\ probe'.slot < capacity
        /\ probe'.call = probe.call
    BY <1>8, <2>1, <2>2 DEF Step, Calls
  <2>4. probe' # Nothing
    BY <2>3, NothingAssumption DEF Calls
  <2>5. Shape'
    BY <1>8, <2>1, <2>3, <2>4 DEF Step, Shape, Working
  <2>6. Room'
    BY <1>8, <2>1, <2>3, <2>4 DEF Step, Room, Inserting
  <2>7. QED
    BY <1>8, <2>5, <2>6, SlotsKept DEF Step
<1>9. CASE Found
  <2>1. Shape' /\ Room'
    BY <1>9 DEF Found, Shape, Working, Room, Inserting
  <2>2. QED
    BY <1>9, <2>1, SlotsKept DEF Found
<1>10. CASE AtEmpty
  <2>1. CASE probe.call = "insert" /\ FillSlot /\ count' = count + 1
    <3>1. /\ probe.hash \in Hash /\ probe.hash # Empty
          /\ probe.slot \in DOMAIN slots
          /\ slots \in [0..(capacity - 1) -> Hash \cup {Empty}]
      BY <1>10, ProbeType DEF AtEmpty
    <3>2. slots' \in [0..(capacity - 1) -> Hash \cup {Empty}]
      BY <2>1, <3>1 DEF FillSlot
    <3>3. Shape'
      BY <1>10, <2>1, <3>2 DEF AtEmpty, Shape, Working
    <3>4. Room'
      BY <1>10, <2>1 DEF AtEmpty, Shape, Room, Inserting
    <3>5. Filled' = Filled \cup {probe.slot} /\ probe.slot \notin Filled
      BY <1>10, <2>1, <3>1 DEF AtEmpty, FillSlot, Filled
    <3>6. Counted'
      BY <2>1, <3>5, FS_AddElement DEF Counted
    <3>7. QED
      BY <3>3, <3>4, <3>6
  <2>2. CASE probe.call = "contains" /\ UNCHANGED <<slots, count>>
    <3>1. Shape' /\ Room'
      BY <1>10, <2>2 DEF AtEmpty, Shape, Working, Room, Inserting
    <3>2. QED
      BY <2>2, <3>1, SlotsKept
  <2>3. QED
    BY <1>10, <2>1, <2>2 DEF AtEmpty
<1>11. CASE UNCHANGED vars
  BY <1>11 DEF vars, Shape, Working, Room, Inserting, Counted, Filled
<1>12. QED
  BY <1>1, <1>2, <1>3, <1>4, <1>5, <1>6, <1>7, <1>8, <1>9, <1>10, <1>11 DEF Next

\* Whatever the file holds and the run adds, the table is never more than half
\* full: one doubling for each line of the first pass is enough.
THEOREM HalfFullAlways == Spec => []HalfFull
<1>1. Shape /\ Room /\ Counted => HalfFull
  <2> SUFFICES ASSUME Shape, Room, Counted
               PROVE  HalfFull
    OBVIOUS
  <2>1. ASSUME Working
        PROVE  2 * count <= capacity
    <3>1. count <= loaded + recorded /\ Len(lines) \in Nat
      BY DEF Shape, Room, Inserting
    <3>2. capacity >= 2 * (existing + extra) /\ existing = Len(lines)
      BY <2>1 DEF Shape, Room, Working
    <3>3. QED
      BY <3>1, <3>2 DEF Shape
  <2>2. QED
    BY <2>1 DEF HalfFull, Counted, Working
<1>2. QED
  BY <1>1, InitShape, NextRoom, PTL DEF Spec

\* A slot that ends any probe is always left.
THEOREM EmptySlotLeft == Spec => [](Working => \E i \in DOMAIN slots : slots[i] = Empty)
<1>1. Shape /\ Room /\ Counted /\ HalfFull => (Working => \E i \in DOMAIN slots : slots[i] = Empty)
  <2> SUFFICES ASSUME Shape, Room, Counted, HalfFull, Working,
                      \A i \in DOMAIN slots : slots[i] # Empty
               PROVE  FALSE
    OBVIOUS
  <2>1. Filled = 0..(capacity - 1) /\ capacity \in Nat \ {0}
    BY DEF Filled, Shape
  <2>2. Cardinality(Filled) = capacity
    <3>1. 0 \in Int /\ capacity - 1 \in Int /\ 0 <= capacity - 1
      BY <2>1
    <3>2. Cardinality(0..(capacity - 1)) = (capacity - 1) - 0 + 1
      BY <3>1, FS_Interval
    <3>3. QED
      BY <2>1, <3>2
  <2>3. 2 * count <= capacity /\ count = capacity
    BY <2>2 DEF HalfFull, Working, Counted
  <2>4. QED
    BY <2>1, <2>3
<1>2. Spec => [](Shape /\ Room /\ Counted)
  BY InitShape, NextRoom, PTL DEF Spec
<1>3. QED
  BY <1>1, <1>2, HalfFullAlways, PTL

-----------------------------------------------------------------------------
(* The table is a set *)

\* The d-th slot a probe for h looks at.
Slot(h, d) == (h + d) % capacity

\* A probe for h gets as far as slot i: no earlier slot ends it.
Reaches(h, i) ==
  \E n \in Nat : /\ i = Slot(h, n)
                 /\ \A d \in 0..(n - 1) : slots[Slot(h, d)] \notin {Empty, h}

\* Every hash in the table can be reached, and so can the slot a probe is at.
Chains ==
  Working =>
    /\ \A i \in DOMAIN slots : slots[i] # Empty => Reaches(slots[i], i)
    /\ probe # Nothing => Reaches(probe.hash, probe.slot)

\* A slot holds a hash or is empty.
LEMMA SlotType ==
  ASSUME Shape, NEW h \in Hash, NEW d \in Nat
  PROVE  Slot(h, d) \in 0..(capacity - 1)
<1>1. h + d \in Int /\ capacity \in Nat \ {0}
  BY HashAssumption DEF Shape
<1>2. QED
  BY <1>1, DivMod DEF Slot

\* A probe starts at a slot it reaches.
LEMMA BeginReaches ==
  ASSUME NEW h \in Hash, NEW call, Begin(call, h)
  PROVE  Reaches(h, probe'.slot)
<1>1. h + 0 = h
  BY HashAssumption
<1>2. probe'.slot = Slot(h, 0)
  BY <1>1 DEF Begin, Home, Slot
<1>3. QED
  BY <1>2 DEF Reaches

\* A step of a probe over a slot with another hash reaches the next one.
LEMMA StepReaches ==
  ASSUME Shape, NEW h \in Hash, NEW i, Reaches(h, i), slots[i] \notin {Empty, h}
  PROVE  Reaches(h, (i + 1) % capacity)
<1>1. PICK n \in Nat : /\ i = Slot(h, n)
                       /\ \A d \in 0..(n - 1) : slots[Slot(h, d)] \notin {Empty, h}
  BY DEF Reaches
<1>2. (i + 1) % capacity = Slot(h, n + 1)
  <2>1. h \in Int /\ h + n \in Int /\ capacity \in Nat \ {0} /\ (h + n) + 1 = h + (n + 1)
    BY HashAssumption DEF Shape
  <2>2. QED
    BY <1>1, <2>1, NextSlot DEF Slot
<1>3. \A d \in 0..((n + 1) - 1) : slots[Slot(h, d)] \notin {Empty, h}
  <2>1. \A d \in 0..((n + 1) - 1) : d \in 0..(n - 1) \/ d = n
    OBVIOUS
  <2>2. QED
    BY <1>1, <2>1
<1>4. QED
  BY <1>2, <1>3 DEF Reaches

\* Filling an empty slot breaks no chain: none passes through it.
LEMMA FillKeeps ==
  ASSUME Shape, NEW h \in Hash, NEW i, Reaches(h, i), UNCHANGED capacity,
         NEW e \in DOMAIN slots, slots[e] = Empty, NEW g, slots' = [slots EXCEPT ![e] = g]
  PROVE  Reaches(h, i)'
<1>1. PICK n \in Nat : /\ i = Slot(h, n)
                       /\ \A d \in 0..(n - 1) : slots[Slot(h, d)] \notin {Empty, h}
  BY DEF Reaches
<1>2. \A d \in Nat : Slot(h, d)' = Slot(h, d)
  BY DEF Slot
<1>3. \A d \in 0..(n - 1) : slots'[Slot(h, d)] \notin {Empty, h}
  <2> SUFFICES ASSUME NEW d \in 0..(n - 1)
               PROVE  slots'[Slot(h, d)] = slots[Slot(h, d)]
    BY <1>1
  <2>1. Slot(h, d) # e
    BY <1>1
  <2>2. QED
    BY <2>1
<1>4. QED
  BY <1>1, <1>2, <1>3 DEF Reaches

\* An empty slot proves that the hash a probe looks for is nowhere.
LEMMA EmptyMeansAbsent ==
  ASSUME Shape, Chains, probe # Nothing, slots[probe.slot] = Empty,
         NEW i \in DOMAIN slots
  PROVE  slots[i] # probe.hash
<1> SUFFICES ASSUME slots[i] = probe.hash
             PROVE  FALSE
  OBVIOUS
<1> DEFINE h == probe.hash
<1>0. h \in Hash /\ h # Empty /\ Working
  BY ProbeType
<1>1. Reaches(h, i) /\ Reaches(h, probe.slot)
  BY <1>0 DEF Chains
<1>2. PICK n \in Nat : /\ i = Slot(h, n)
                       /\ \A d \in 0..(n - 1) : slots[Slot(h, d)] \notin {Empty, h}
  BY <1>1 DEF Reaches
<1>3. PICK m \in Nat : /\ probe.slot = Slot(h, m)
                       /\ \A d \in 0..(m - 1) : slots[Slot(h, d)] \notin {Empty, h}
  BY <1>1 DEF Reaches
<1>4. CASE n < m
  BY <1>2, <1>3, <1>4
<1>5. CASE m < n
  BY <1>2, <1>3, <1>5
<1>6. CASE n = m
  BY <1>0, <1>2, <1>3, <1>6
<1>7. QED
  BY <1>4, <1>5, <1>6

\* Chains depend on the slots, the capacity and the probe alone.
LEMMA ChainsKept ==
  ASSUME Chains, UNCHANGED <<slots, capacity>>, Working' => Working,
         \/ probe' = Nothing
         \/ probe' = probe
         \/ Reaches(probe'.hash, probe'.slot)
  PROVE  Chains'
<1>1. \A h, i : Reaches(h, i)' <=> Reaches(h, i)
  BY DEF Reaches, Slot
<1>2. QED
  BY <1>1 DEF Chains

\* Every step keeps every hash reachable from its home slot.
LEMMA NextChains == Shape /\ Chains /\ [Next]_vars => Chains'
<1> SUFFICES ASSUME Shape, Chains, [Next]_vars
             PROVE  Chains'
  OBVIOUS
<1> USE DEF file, size, table
<1>1. CASE Size \/ CountLine
  <2>1. ~Working'
    BY <1>1 DEF Size, CountLine, Working
  <2>2. QED
    BY <2>1 DEF Chains
<1>2. CASE Allocate
  <2>1. slots' = [i \in 0..(capacity - 1) |-> Empty] /\ probe' = Nothing
    BY <1>2 DEF Allocate, Shape, Working
  <2>2. QED
    BY <2>1 DEF Chains
<1>3. CASE LoadLine
  <2>1. CASE UNCHANGED probe
    BY <1>3, <2>1, ChainsKept DEF LoadLine, Working
  <2>2. CASE lines[loaded + 1] # Other /\ Begin("insert", lines[loaded + 1])
    <3>1. lines[loaded + 1] \in Hash
      BY <1>3, <2>2 DEF LoadLine, Shape
    <3>2. Reaches(lines[loaded + 1], probe'.slot) /\ probe'.hash = lines[loaded + 1]
      BY <2>2, <3>1, BeginReaches DEF Begin
    <3>3. QED
      BY <1>3, <3>2, ChainsKept DEF LoadLine, Working
  <2>3. QED
    BY <1>3, <2>1, <2>2 DEF LoadLine
<1>4. CASE Opened
  BY <1>4, ChainsKept DEF Opened, Working
<1>5. ASSUME NEW h \in Hash, Has(h) \/ Record(h)
      PROVE  Chains'
  <2>1. Reaches(h, probe'.slot) /\ probe'.hash = h
    BY <1>5, BeginReaches DEF Has, Record, Begin
  <2>2. QED
    BY <1>5, <2>1, ChainsKept DEF Has, Record, Working
<1>6. CASE Step
  <2>1. probe.hash \in Hash /\ Working /\ probe \in Calls
    BY <1>6, ProbeType DEF Step
  <2>2. Reaches(probe.hash, (probe.slot + 1) % capacity)
    BY <1>6, <2>1, StepReaches DEF Step, Chains
  <2>3. probe'.hash = probe.hash /\ probe'.slot = (probe.slot + 1) % capacity
    BY <1>6, <2>1 DEF Step, Calls
  <2>4. QED
    BY <1>6, <2>2, <2>3, ChainsKept DEF Step, Working
<1>7. CASE Found
  BY <1>7, ChainsKept DEF Found, Working
<1>8. CASE AtEmpty
  <2>1. CASE probe.call = "insert" /\ FillSlot
    <3>1. /\ probe.hash \in Hash /\ Working /\ probe.slot \in DOMAIN slots
          /\ slots \in [0..(capacity - 1) -> Hash \cup {Empty}]
      BY <1>8, ProbeType DEF AtEmpty
    <3>2. /\ slots' = [slots EXCEPT ![probe.slot] = probe.hash]
          /\ slots[probe.slot] = Empty /\ probe' = Nothing /\ UNCHANGED capacity
      BY <1>8, <2>1 DEF AtEmpty, FillSlot
    <3>3. ASSUME NEW h \in Hash, NEW i, Reaches(h, i)
          PROVE  Reaches(h, i)'
      BY <3>1, <3>2, <3>3, FillKeeps
    <3>4. Reaches(probe.hash, probe.slot)
      BY <1>8, <3>1 DEF Chains, AtEmpty
    <3>5. \A i \in DOMAIN slots' : slots'[i] # Empty =>
            slots'[i] \in Hash /\ Reaches(slots'[i], i)
      <4> SUFFICES ASSUME NEW i \in DOMAIN slots', slots'[i] # Empty
                   PROVE  slots'[i] \in Hash /\ Reaches(slots'[i], i)
        OBVIOUS
      <4>1. CASE i = probe.slot
        BY <3>1, <3>2, <3>4, <4>1
      <4>2. CASE i # probe.slot
        <5>1. i \in DOMAIN slots /\ slots'[i] = slots[i] /\ slots[i] \in Hash
          BY <3>1, <3>2, <4>2
        <5>2. QED
          BY <3>1, <5>1 DEF Chains
      <4>3. QED
        BY <4>1, <4>2
    <3>6. \A i \in DOMAIN slots' : slots'[i] # Empty => \E h \in Hash : h = slots'[i] /\ Reaches(h, i)'
      BY <3>3, <3>5
    <3>7. QED
      BY <3>2, <3>6 DEF Chains, Reaches, Slot
  <2>2. CASE UNCHANGED slots
    BY <1>8, <2>2, ChainsKept DEF AtEmpty, Working
  <2>3. QED
    BY <1>8, <2>1, <2>2 DEF AtEmpty
<1>9. CASE UNCHANGED vars
  BY <1>9, ChainsKept DEF vars, Working
<1>10. QED
  BY <1>1, <1>2, <1>3, <1>4, <1>5, <1>6, <1>7, <1>8, <1>9 DEF Next

\* The pairs in the table, and the question a probe stands for.
Members == {slots[i] : i \in Filled}
Asked   == IF probe = Nothing THEN Nothing ELSE [call |-> probe.call, hash |-> probe.hash]

\* A call begins.
LEMMA BeginMaps ==
  ASSUME Shape, NEW call \in {"insert", "contains"}, NEW h \in Hash,
         probe = Nothing, Begin(call, h), UNCHANGED <<slots, answer>>
  PROVE  Set!Next
<1>1. probe' # Nothing
  BY BeginType
<1>2. probe'.call = call /\ probe'.hash = h
  BY DEF Begin
<1>3. Members' = Members
  BY DEF Members, Filled
<1>4. Asked = Nothing /\ Asked' \in [call : {"insert", "contains"}, hash : Hash]
  BY <1>1, <1>2 DEF Asked
<1>5. QED
  BY <1>3, <1>4 DEF Set!Next, Set!Call, Members, Asked

\* What a probe that is about to end stands for.
LEMMA EndAsks ==
  ASSUME Shape, probe # Nothing, probe' = Nothing
  PROVE  /\ Asked # Nothing /\ Asked.call = probe.call /\ Asked.hash = probe.hash
         /\ Asked' = Nothing
         /\ probe.call \in {"insert", "contains"}
<1>1. probe.call \in {"insert", "contains"} /\ probe.hash \in Hash
  BY ProbeType
<1>2. [call |-> probe.call, hash |-> probe.hash] \in [call : {"insert", "contains"}, hash : Hash]
  BY <1>1
<1>3. Asked # Nothing
  BY <1>2, NothingAssumption DEF Asked
<1>4. QED
  BY <1>1, <1>3 DEF Asked

\* Every step of the table is a step of the set, or a stutter.
LEMMA NextIsASet == Shape /\ Chains /\ [Next]_vars => [Set!Next]_(Set!vars)
<1> SUFFICES ASSUME Shape, Chains, [Next]_vars
             PROVE  Set!Next \/ UNCHANGED Set!vars
  OBVIOUS
<1> USE DEF file, size, table
<1>s. ASSUME Members' = Members, Asked' = Asked, UNCHANGED answer
      PROVE  UNCHANGED Set!vars
  BY <1>s DEF Set!vars, Members, Asked
<1>k. ASSUME UNCHANGED <<slots, probe, answer>>
      PROVE  UNCHANGED Set!vars
  BY <1>k, <1>s DEF Members, Filled, Asked
<1>1. CASE Size \/ CountLine \/ Opened \/ UNCHANGED vars
  BY <1>1, <1>k DEF Size, CountLine, Opened, vars
<1>2. CASE Allocate
  <2>1. Members = {} /\ Members' = {}
    BY <1>2 DEF Allocate, Shape, Working, Members, Filled
  <2>2. QED
    BY <1>2, <2>1, <1>s DEF Allocate, Asked
<1>3. CASE LoadLine
  <2>1. CASE UNCHANGED probe
    BY <1>3, <2>1, <1>k DEF LoadLine
  <2>2. CASE lines[loaded + 1] # Other /\ Begin("insert", lines[loaded + 1])
    BY <1>3, <2>2, BeginMaps DEF LoadLine, Shape
  <2>3. QED
    BY <1>3, <2>1, <2>2 DEF LoadLine
<1>4. ASSUME NEW h \in Hash, Has(h) \/ Record(h)
      PROVE  Set!Next
  BY <1>4, BeginMaps DEF Has, Record
<1>5. CASE Step
  <2>1. probe \in Calls /\ probe # Nothing
    BY <1>5, ProbeType DEF Step
  <2>2. probe' \in Calls /\ probe'.call = probe.call /\ probe'.hash = probe.hash
    <3>1. probe.slot + 1 \in Int /\ capacity \in Nat \ {0}
      BY <2>1 DEF Calls, Shape
    <3>2. (probe.slot + 1) % capacity \in Nat
      BY <3>1, DivMod
    <3>3. QED
      BY <1>5, <2>1, <3>2 DEF Step, Calls
  <2>3. Asked' = Asked
    BY <2>1, <2>2, NothingAssumption DEF Asked, Calls
  <2>4. QED
    BY <1>5, <2>3, <1>s DEF Step, Members, Filled
<1>6. CASE Found
  <2>1. probe.hash \in Members /\ Members' = Members
    BY <1>6, ProbeType DEF Found, Members, Filled
  <2>2. probe # Nothing /\ probe' = Nothing
    BY <1>6 DEF Found
  <2>3. CASE probe.call = "insert"
    BY <1>6, <2>1, <2>2, <2>3, EndAsks DEF Found, Set!Next, Set!Inserted, Members, Asked
  <2>4. CASE probe.call = "contains"
    BY <1>6, <2>1, <2>2, <2>4, EndAsks DEF Found, Set!Next, Set!Answered, Members, Asked
  <2>5. QED
    BY <2>2, <2>3, <2>4, EndAsks
<1>7. CASE AtEmpty
  <2>1. probe # Nothing /\ probe' = Nothing /\ slots[probe.slot] = Empty
    BY <1>7 DEF AtEmpty
  <2>2. CASE probe.call = "insert" /\ FillSlot /\ UNCHANGED answer
    <3>1. /\ probe.hash # Empty /\ probe.slot \in DOMAIN slots
          /\ slots \in [0..(capacity - 1) -> Hash \cup {Empty}]
      BY <2>1, ProbeType
    <3>2. /\ Filled' = Filled \cup {probe.slot} /\ probe.slot \notin Filled
          /\ slots'[probe.slot] = probe.hash
          /\ \A i \in Filled : slots'[i] = slots[i]
      BY <2>1, <2>2, <3>1 DEF FillSlot, Filled
    <3>3. Members' = Members \cup {probe.hash}
      BY <3>2 DEF Members
    <3>4. /\ Asked # Nothing /\ Asked.call = "insert" /\ Asked.hash = probe.hash
          /\ Asked' = Nothing
      BY <2>1, <2>2, EndAsks
    <3>5. /\ Asked # Nothing /\ Asked.call = "insert"
          /\ Members' = Members \cup {Asked.hash} /\ Asked' = Nothing /\ UNCHANGED answer
      BY <2>2, <3>3, <3>4
    <3>6. Set!Inserted
      BY ONLY <3>5 DEF Set!Inserted, Members, Asked
    <3>7. QED
      BY <3>6 DEF Set!Next
  <2>3. CASE probe.call = "contains" /\ answer' = 0 /\ UNCHANGED slots
    <3>1. probe.hash \notin Members
      BY <2>1, EmptyMeansAbsent DEF Members, Filled
    <3>2. Members' = Members
      BY <2>3 DEF Members, Filled
    <3>3. /\ Asked # Nothing /\ Asked.call = "contains" /\ Asked.hash = probe.hash
          /\ Asked' = Nothing
      BY <2>1, <2>3, EndAsks
    <3>4. /\ Asked # Nothing /\ Asked.call = "contains"
          /\ answer' = (IF Asked.hash \in Members THEN 1 ELSE 0) /\ Asked' = Nothing /\ Members' = Members
      BY <2>3, <3>1, <3>2, <3>3
    <3>5. Set!Answered
      BY ONLY <3>4 DEF Set!Answered, Members, Asked
    <3>6. QED
      BY ONLY <3>5 DEF Set!Next
  <2>4. QED
    BY <1>7, <2>2, <2>3 DEF AtEmpty
<1>8. QED
  BY <1>1, <1>2, <1>3, <1>4, <1>5, <1>6, <1>7 DEF Next

\* The table is the set of pairs the program takes it for, through every
\* collision and wrap-around.
THEOREM TableIsASet == Spec => IsASet
<1>1. Init => Chains /\ Set!Init
  <2> SUFFICES ASSUME Init
               PROVE  Chains /\ Set!Init
    OBVIOUS
  <2>1. Chains
    BY DEF Init, Chains, Working
  <2>2. Filled = {}
    BY DEF Init, Filled
  <2>3. QED
    BY <2>1, <2>2 DEF Init, Set!Init
<1>2. Shape /\ Room /\ Counted /\ [Next]_vars => Shape' /\ Room' /\ Counted'
  BY NextRoom
<1>3. Shape /\ Chains /\ [Next]_vars => Chains'
  BY NextChains
<1>4. Shape /\ Chains /\ [Next]_vars => [Set!Next]_(Set!vars)
  BY NextIsASet
<1>5. Spec => Set!Spec
  BY <1>1, <1>2, <1>3, <1>4, InitShape, PTL DEF Spec, Set!Spec
<1>6. QED
  BY <1>5 DEF IsASet

-----------------------------------------------------------------------------
(* Probes are short *)

\* The slots a probe has passed.
Distance == (probe.slot - Home(probe.hash)) % capacity

\* From the home of a hash to the d-th slot of its probe it is d, around the table.
LEMMA AroundTheTable ==
  ASSUME NEW h \in Nat, NEW c \in Nat \ {0}, NEW d \in Nat
  PROVE  (((h + d) % c) - (h % c)) % c = d % c
<1> DEFINE r1 == (h + d) % c
           q1 == (h + d) \div c
           r2 == h % c
           q2 == h \div c
           x == r1 - r2
           p == x \div c
           s == d \div c
<1>1. h + d = c * q1 + r1 /\ q1 \in Int /\ r1 \in 0..(c - 1)
  <2>1. h + d \in Int
    OBVIOUS
  <2>2. QED
    BY <2>1, DivMod
<1>2. h = c * q2 + r2 /\ q2 \in Int /\ r2 \in 0..(c - 1)
  BY DivMod
<1>3. x \in Int
  BY <1>1, <1>2
<1> HIDE DEF r1, q1, r2, q2
<1>4. x = c * p + (x % c) /\ p \in Int /\ x % c \in 0..(c - 1)
  BY <1>3, DivMod
<1>5. d = c * s + (d % c) /\ s \in Int /\ d % c \in 0..(c - 1)
  BY DivMod
<1>6. d = c * (q1 - q2) + x
  <2>1. c * q1 \in Int /\ c * q2 \in Int /\ c * (q1 - q2) = c * q1 - c * q2
    BY <1>1, <1>2
  <2>2. QED
    BY <1>1, <1>2, <2>1
<1>7. d = c * ((q1 - q2) + p) + (x % c)
  <2> HIDE DEF x, p
  <2>1. c * ((q1 - q2) + p) = c * (q1 - q2) + c * p
    BY <1>1, <1>2, <1>4
  <2>2. c * (q1 - q2) \in Int /\ c * p \in Int
    BY <1>1, <1>2, <1>4
  <2>3. QED
    BY <1>3, <1>4, <1>6, <2>1, <2>2
<1>8. (q1 - q2) + p \in Int
  BY <1>1, <1>2, <1>4
<1> HIDE DEF x, p, s
<1>9. x % c = d % c
  BY <1>4, <1>5, <1>7, <1>8, RemainderUnique
<1>10. QED
  BY <1>9 DEF x, r1, r2

\* A run of filled slots has no more of them than the table has hashes.
LEMMA FilledRun ==
  ASSUME Shape, Working, Counted, NEW h \in Hash, NEW k \in Nat, k <= capacity,
         \A d \in 0..(k - 1) : slots[Slot(h, d)] # Empty
  PROVE  k <= count
<1>1. h \in Nat /\ capacity \in Nat \ {0}
  BY HashAssumption DEF Shape
<1> DEFINE S == 0..(k - 1)
           f == [d \in S |-> Slot(h, d)]
<1>2. IsFiniteSet(S) /\ Cardinality(S) = k
  <2>1. 0 \in Int /\ k - 1 \in Int
    OBVIOUS
  <2>2. IsFiniteSet(0..(k - 1)) /\ Cardinality(0..(k - 1)) = IF 0 > k - 1 THEN 0 ELSE (k - 1) - 0 + 1
    BY <2>1, FS_Interval
  <2>3. QED
    BY <2>2
<1>3. \A d \in S : Slot(h, d) \in Filled
  <2> SUFFICES ASSUME NEW d \in S PROVE Slot(h, d) \in Filled
    OBVIOUS
  <2>1. d \in Nat
    OBVIOUS
  <2>2. Slot(h, d) \in 0..(capacity - 1)
    BY <2>1, SlotType
  <2>3. slots \in [0..(capacity - 1) -> Hash \cup {Empty}]
    BY DEF Shape
  <2>4. QED
    BY <2>2, <2>3 DEF Filled
<1>4. ASSUME NEW d \in S, NEW e \in S, Slot(h, d) = Slot(h, e) PROVE d = e
  <2>1. d \in Nat /\ e \in Nat /\ d < capacity /\ e < capacity
    BY <1>1
  <2>2. (((h + d) % capacity) - (h % capacity)) % capacity = d % capacity
    BY <1>1, <2>1, AroundTheTable
  <2>3. (((h + e) % capacity) - (h % capacity)) % capacity = e % capacity
    BY <1>1, <2>1, AroundTheTable
  <2>4. d % capacity = d /\ e % capacity = e
    BY <1>1, <2>1
  <2>5. QED
    BY <1>4, <2>2, <2>3, <2>4 DEF Slot
<1> HIDE DEF S
<1>5. f \in Injection(S, Filled)
  BY <1>3, <1>4 DEF Injection, IsInjective
<1> HIDE DEF f
<1>6. Cardinality(S) <= Cardinality(Filled)
  BY <1>5, FS_Injection DEF Counted
<1>7. QED
  BY <1>2, <1>6 DEF Counted

\* A probe has come once around at most as far as the table is filled, and is not
\* to go all the way around.
LEMMA ProbeDistance ==
  ASSUME Shape, Counted, HalfFull, Chains, probe # Nothing
  PROVE  /\ \E n \in Nat : n < capacity /\ probe.slot = Slot(probe.hash, n) /\ Distance = n
         /\ Distance <= count
         /\ slots[probe.slot] # Empty => Distance + 1 <= count /\ Distance + 1 < capacity
<1> DEFINE h == probe.hash
<1>1. h \in Hash /\ h \in Nat /\ Working /\ capacity \in Nat \ {0} /\ count \in Nat
  BY ProbeType, HashAssumption DEF Shape
<1>2. 2 * count <= capacity
  BY <1>1 DEF HalfFull, Working
<1>3. PICK n \in Nat : /\ probe.slot = Slot(h, n)
                       /\ \A d \in 0..(n - 1) : slots[Slot(h, d)] \notin {Empty, h}
  BY <1>1 DEF Chains, Reaches
<1> HIDE DEF h
<1>4. n < capacity
  <2> SUFFICES ASSUME ~(n < capacity) PROVE FALSE
    OBVIOUS
  <2>1. capacity \in Nat /\ capacity <= capacity
    BY <1>1
  <2>2. \A d \in 0..(capacity - 1) : slots[Slot(h, d)] # Empty
    BY <1>1, <1>3
  <2>3. capacity <= count
    BY <1>1, <2>1, <2>2, FilledRun
  <2>4. QED
    BY <1>1, <1>2, <2>3
<1>5. Distance = n
  <2>1. (((h + n) % capacity) - (h % capacity)) % capacity = n % capacity
    BY <1>1, AroundTheTable
  <2>2. n % capacity = n
    BY <1>1, <1>4
  <2>3. QED
    BY <1>3, <2>1, <2>2 DEF Distance, Home, Slot, h
<1>6. n <= count
  BY <1>1, <1>3, <1>4, FilledRun
<1>7. ASSUME slots[probe.slot] # Empty PROVE n + 1 <= count /\ n + 1 < capacity
  <2>1. \A d \in 0..((n + 1) - 1) : d \in 0..(n - 1) \/ d = n
    OBVIOUS
  <2>2. \A d \in 0..((n + 1) - 1) : slots[Slot(h, d)] # Empty
    BY <1>3, <1>7, <2>1
  <2>3. n + 1 \in Nat /\ n + 1 <= capacity
    BY <1>1, <1>4
  <2>4. n + 1 <= count
    BY <1>1, <2>2, <2>3, FilledRun
  <2>5. QED
    BY <1>1, <1>2, <2>4
<1>8. QED
  BY <1>3, <1>4, <1>5, <1>6, <1>7 DEF h

LEMMA InitChains == Init => Chains
BY DEF Init, Chains, Working

TableInv == Shape /\ Room /\ Counted /\ HalfFull /\ Chains
LEMMA TableInvariant == Spec => []TableInv
<1>1. Spec => [](Shape /\ Room /\ Counted /\ Chains)
  BY InitShape, InitChains, NextRoom, NextChains, PTL DEF Spec
<1>2. Shape /\ Room /\ Counted /\ Chains /\ HalfFull => TableInv
  BY DEF TableInv
<1>3. QED
  BY <1>1, <1>2, HalfFullAlways, PTL

\* "Linear probing stays short": no probe passes more slots than hold a hash, which is
\* half of them at worst (ledgerInsert, ledgerContains).
ShortProbes == probe # Nothing => Distance <= count /\ 2 * Distance <= capacity
THEOREM ProbesAreShort == Spec => []ShortProbes
<1>1. TableInv => ShortProbes
  <2> SUFFICES ASSUME TableInv, probe # Nothing PROVE Distance <= count /\ 2 * Distance <= capacity
    BY DEF ShortProbes
  <2>1. /\ \E n \in Nat : Distance = n
        /\ Distance <= count
    BY ProbeDistance DEF TableInv
  <2>2. 2 * count <= capacity /\ count \in Nat /\ capacity \in Nat
    BY ProbeType DEF TableInv, Shape, HalfFull, Working
  <2>3. QED
    BY <2>1, <2>2
<1>2. QED
  BY <1>1, TableInvariant, PTL

\* Every step of a probe takes it one slot further from the home of its hash, so
\* that it ends: the table never makes it turn around twice.
FurtherAway == Step => probe' # Nothing /\ Distance' = Distance + 1
THEOREM ProbesGoOn == Spec => [][FurtherAway]_vars
<1>1. TableInv /\ [Next]_vars => [FurtherAway]_vars
  <2> SUFFICES ASSUME TableInv, Step PROVE probe' # Nothing /\ Distance' = Distance + 1
    BY DEF FurtherAway
  <2> DEFINE h == probe.hash
  <2>1. PICK n \in Nat : n < capacity /\ probe.slot = Slot(h, n) /\ Distance = n
    BY ProbeDistance DEF TableInv, Step
  <2>2. n + 1 < capacity
    BY <2>1, ProbeDistance DEF TableInv, Step
  <2>3. h \in Nat /\ h \in Hash /\ capacity \in Nat \ {0} /\ probe \in Calls
    BY ProbeType, HashAssumption DEF TableInv, Step, Shape
  <2>4. /\ probe' = [probe EXCEPT !.slot = (probe.slot + 1) % capacity]
        /\ capacity' = capacity
    BY DEF Step, size
  <2>5. /\ probe'.hash = h /\ probe'.slot = (probe.slot + 1) % capacity
        /\ probe' \in Calls
    <3>1. (probe.slot + 1) % capacity \in Nat
      <4>1. probe.slot + 1 \in Int
        BY <2>3 DEF Calls
      <4>2. QED
        BY <2>3, <4>1, DivMod
    <3>2. QED
      BY <2>3, <2>4, <3>1 DEF Calls
  <2>6. probe' # Nothing
    BY <2>5, NothingAssumption DEF Calls
  <2> HIDE DEF h
  <2>7. probe'.slot = (h + (n + 1)) % capacity
    <3>1. h + n \in Int /\ (h + n) + 1 = h + (n + 1)
      BY <2>3
    <3>2. QED
      BY <2>1, <2>3, <2>5, <3>1, NextSlot DEF Slot
  <2>8. Distance' = (((h + (n + 1)) % capacity) - (h % capacity)) % capacity
    BY <2>4, <2>5, <2>7 DEF Distance, Home
  <2>9. Distance' = (n + 1) % capacity
    <3>1. n + 1 \in Nat
      OBVIOUS
    <3>2. QED
      BY <2>3, <2>8, <3>1, AroundTheTable
  <2>10. (n + 1) % capacity = n + 1
    BY <2>2, <2>3
  <2>11. QED
    BY <2>1, <2>6, <2>9, <2>10
<1>2. QED
  BY <1>1, TableInvariant, PTL DEF Spec
=============================================================================
