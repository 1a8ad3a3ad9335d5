------------------------ MODULE ComparisonRun_proof ------------------------
(***************************************************************************)
(* Theorems about ComparisonRun for any processes, workers, paths,         *)
(* contents, run records and command lines, with their proofs.             *)
(***************************************************************************)
EXTENDS ComparisonRun, TLAPS

\* The members of a command line (CommandAssumption).
LEMMA CommandType ==
  ASSUME NEW c \in Commands
  PROVE  /\ c.run \in Run
         /\ c.files \in Seq(Path)
         /\ c.sources \in Nat
         /\ c.incremental \in BOOLEAN
         /\ c.sources <= Len(c.files)
         /\ Len(c.files) \in Nat
BY CommandAssumption DEF Command

\* The command line of a process not yet started is one of the command lines.
LEMMA SomeCommandType == SomeCommand \in Commands
BY CommandAssumption DEF SomeCommand

\* An iteration of the loops names two entries of the list.
LEMMA IterationType ==
  ASSUME NEW c \in Commands, NEW i, NEW j, <<i, j>> \in Iterations(c)
  PROVE  /\ i \in 1..c.sources /\ j \in 1..Len(c.files) /\ i < j
         /\ i \in 1..Len(c.files)
         /\ c.files[i] \in Path /\ c.files[j] \in Path
         /\ PairOf(c.files[i], c.files[j]) \in Pair
<1>1. i \in 1..c.sources /\ j \in 1..Len(c.files) /\ i < j
  BY DEF Iterations
<1>2. i \in 1..Len(c.files)
  BY <1>1, CommandType
<1>3. c.files[i] \in Path /\ c.files[j] \in Path
  BY <1>1, <1>2, CommandType
<1>4. QED
  BY <1>1, <1>2, <1>3 DEF PairOf, Pair

\* What a worker that has an iteration works on.
LEMMA JobType ==
  ASSUME TypeOK, NEW p \in Proc, NEW w \in Worker, at[p][w] # "idle"
  PROVE  /\ job[p][w].i \in 1..args[p].sources
         /\ job[p][w].j \in 1..Len(args[p].files)
         /\ job[p][w].i < job[p][w].j
         /\ Source(p, w) \in Path /\ Candidate(p, w) \in Path
         /\ PairIn(p, w) \in Pair
<1>1. args[p] \in Commands /\ <<job[p][w].i, job[p][w].j>> \in Iterations(args[p])
  BY DEF TypeOK
<1>2. QED
  BY <1>1, IterationType DEF Source, Candidate, PairIn

\* The row a worker prints is a row of the output.
LEMMA RowType ==
  ASSUME TypeOK, NEW p \in Proc, NEW w \in Worker, at[p][w] # "idle"
  PROVE  /\ RowOf(p, w) \in Row
         /\ RowOf(p, w).pair = PairIn(p, w)
         /\ RowOf(p, w).run = args[p].run
<1>1. PairIn(p, w) \in Pair
  BY JobType
<1>2. args[p].run \in Run
  BY CommandType DEF TypeOK
<1>3. \A f \in Path : /\ held[p][w] \in Content \cup {NoContent}
                      /\ content[f] \in Content
  BY DEF TypeOK
<1>4. QED
  BY <1>1, <1>2, <1>3 DEF RowOf, Row

-----------------------------------------------------------------------------
(* The shape of the state *)

\* The initial states have the shape, and no process has a team.
LEMMA InitTypeOK == Init => TypeOK /\ TeamInv
<1> SUFFICES ASSUME Init
             PROVE  TypeOK /\ TeamInv
  OBVIOUS
<1>1. ledger \in [run : Run \cup {NoRun}, inputs : [Path -> Content \cup {NoContent}],
                  pairs : SUBSET Pair, misnamed : SUBSET Pair,
                  tail : {"whole", "torn"}, body : {"sound", "malformed"}]
  BY LegacyAssumption DEF Init, EmptyLedger, NoInputs
<1>2. output \in SUBSET Row
  BY LegacyAssumption DEF Init, LegacyRow, Row, NoInputs
<1>3. /\ content \in [Path -> Content]
      /\ lock \in Proc \cup {NoProc}
      /\ args \in [Proc -> Commands]
      /\ phase \in [Proc -> Phase]
      /\ table \in [Proc -> SUBSET Pair]
      /\ known \in [Proc -> [Path -> Content \cup {NoContent}]]
  BY SomeCommandType DEF Init, Phase, Holding, NoInputs
<1>4. /\ noted \in [Proc -> Nat]
      /\ next \in [Proc -> Nat \ {0}]
      /\ at \in [Proc -> [Worker -> Place]]
      /\ held \in [Proc -> [Worker -> Content \cup {NoContent}]]
      /\ buf \in [Proc -> SUBSET Row]
      /\ stream \in [Proc -> {"good", "failed"}]
  BY DEF Init, Place
<1>5. job \in [Proc -> [Worker -> [i : Nat, j : Nat]]]
  BY DEF Init, NoJob
<1>6. \A p \in Proc, w \in Worker : at[p][w] = "idle"
  BY DEF Init
<1>7. \A p \in Proc : phase[p] # "comparing"
  BY DEF Init
<1>8. QED
  BY <1>1, <1>2, <1>3, <1>4, <1>5, <1>6, <1>7 DEF TypeOK, TeamInv

\* The parts of TypeOK that different actions disturb.
FilesOK ==
  /\ content \in [Path -> Content]
  /\ ledger \in [run : Run \cup {NoRun}, inputs : [Path -> Content \cup {NoContent}],
                 pairs : SUBSET Pair, misnamed : SUBSET Pair,
                 tail : {"whole", "torn"}, body : {"sound", "malformed"}]
  /\ output \in SUBSET Row
MainOK ==
  /\ lock \in Proc \cup {NoProc}
  /\ args \in [Proc -> Commands]
  /\ phase \in [Proc -> Phase]
  /\ table \in [Proc -> SUBSET Pair]
  /\ known \in [Proc -> [Path -> Content \cup {NoContent}]]
  /\ noted \in [Proc -> Nat]
TeamOK ==
  /\ next \in [Proc -> Nat \ {0}]
  /\ at \in [Proc -> [Worker -> Place]]
  /\ job \in [Proc -> [Worker -> [i : Nat, j : Nat]]]
  /\ held \in [Proc -> [Worker -> Content \cup {NoContent}]]
  /\ buf \in [Proc -> SUBSET Row]
  /\ stream \in [Proc -> {"good", "failed"}]
JobOK ==
  \A p \in Proc, w \in Worker :
    at[p][w] # "idle" => <<job[p][w].i, job[p][w].j>> \in Iterations(args[p])

\* The type invariant in four parts, which different steps disturb.
LEMMA TypeParts == TypeOK <=> FilesOK /\ MainOK /\ TeamOK /\ JobOK
BY DEF TypeOK, FilesOK, MainOK, TeamOK, JobOK

\* The same of the next state.
LEMMA TypePartsNext == TypeOK' <=> FilesOK' /\ MainOK' /\ TeamOK' /\ JobOK'
BY DEF TypeOK, FilesOK, MainOK, TeamOK, JobOK

\* What a process leaves behind when it ends.
LEMMA GoneType ==
  ASSUME TypeOK, TeamInv, NEW p \in Proc, Gone(p)
  PROVE  MainOK' /\ TeamOK' /\ JobOK' /\ TeamInv'
<1> USE DEF Gone
<1>1. MainOK'
  BY SomeCommandType DEF TypeOK, MainOK, ReleasedLock, Phase, NoInputs
<1>2. TeamOK'
  <2>1. job' \in [Proc -> [Worker -> [i : Nat, j : Nat]]]
    BY DEF TypeOK, NoJob
  <2>2. buf' \in [Proc -> SUBSET Row]
    BY DEF TypeOK
  <2>3. QED
    BY <2>1, <2>2 DEF TypeOK, TeamOK, Place
<1>3. \A q \in Proc, w \in Worker :
        IF q = p THEN at'[q][w] = "idle"
        ELSE at'[q][w] = at[q][w] /\ job'[q][w] = job[q][w] /\ args'[q] = args[q]
  BY DEF TypeOK
<1>4. JobOK'
  BY <1>3 DEF TypeOK, JobOK
<1>5. TeamInv'
  BY <1>3 DEF TypeOK, TeamInv
<1>6. QED
  BY <1>1, <1>2, <1>4, <1>5

\* A failed append changes at most the state of the last line.
LEMMA FailedAppendType ==
  ASSUME FilesOK, FailedAppend
  PROVE  /\ ledger' \in [run : Run \cup {NoRun}, inputs : [Path -> Content \cup {NoContent}],
                         pairs : SUBSET Pair, misnamed : SUBSET Pair,
                         tail : {"whole", "torn"}, body : {"sound", "malformed"}]
         /\ ledger'.run = ledger.run /\ ledger'.pairs = ledger.pairs
         /\ ledger'.misnamed = ledger.misnamed
BY DEF FilesOK, FailedAppend, Torn

\* Moving a worker keeps the team's shape.
LEMMA GoType ==
  ASSUME TypeOK, NEW p \in Proc, NEW w \in Worker, NEW there \in Place, Go(p, w, there)
  PROVE  /\ at' \in [Proc -> [Worker -> Place]]
         /\ at'[p][w] = there
         /\ \A q \in Proc, v \in Worker : <<q, v>> # <<p, w>> => at'[q][v] = at[q][v]
BY DEF Go, TypeOK

\* An iteration of a command's loops, from its bounds.
LEMMA IterationMade ==
  ASSUME NEW c \in Commands, NEW i \in Nat \ {0}, NEW j \in Nat \ {0},
         i <= c.sources, j <= Len(c.files), i < j
  PROVE  <<i, j>> \in Iterations(c)
BY CommandType DEF Iterations

\* Every step of a main thread keeps the shape and the team's rules.
LEMMA MainTypeOK ==
  ASSUME TypeOK, TeamInv, NEW p \in Proc, MainStep(p)
  PROVE  TypeOK' /\ TeamInv'
<1> USE TypeParts, TypePartsNext
<1> DEFINE Result == TypeOK' /\ TeamInv'
<1>0. ASSUME Gone(p), FilesOK'
      PROVE  Result
  BY <1>0, GoneType
<1>r. ASSUME Refuse(p)
      PROVE  Result
  BY <1>r, <1>0 DEF Refuse, env, FilesOK
<1>f. ASSUME FailedAppend, Gone(p), UNCHANGED env
      PROVE  Result
  BY <1>f, <1>0, FailedAppendType DEF env, FilesOK
<1>e. ASSUME NEW ph \in Phase \ {"comparing"}, Enter(p, ph), phase[p] # "comparing",
             UNCHANGED <<team, out>>,
             FilesOK', args' = args, lock' \in Proc \cup {NoProc},
             table' \in [Proc -> SUBSET Pair],
             known' \in [Proc -> [Path -> Content \cup {NoContent}]],
             noted' \in [Proc -> Nat]
      PROVE  Result
  <2>1. MainOK'
    BY <1>e DEF Enter, MainOK
  <2>2. TeamOK' /\ JobOK'
    BY <1>e DEF team, out, TeamOK, JobOK
  <2>3. TeamInv'
    BY <1>e DEF Enter, TeamInv, TypeOK, team
  <2>4. QED
    BY <1>e, <2>1, <2>2, <2>3
<1>1. CASE Open(p)
  <2>1. CASE Lock(p)
    BY <2>1, <1>1, <1>e DEF Open, Lock, TypeOK, FilesOK, env, setup, Phase, Holding
  <2>2. QED
    BY <2>1, <1>1, <1>r DEF Open
<1>2. CASE DiscardTail(p)
  <2>1. CASE /\ ledger' = [ledger EXCEPT !.tail = "whole"]
             /\ UNCHANGED <<env, lock, phase, setup, team, out>>
    BY <2>1 DEF FilesOK, MainOK, TeamOK, JobOK, TeamInv, env, setup, team, out
  <2>2. QED
    BY <2>1, <1>2, <1>r DEF DiscardTail
<1>3. CASE Load(p)
  <2>1. CASE ~Refuse(p)
    <3>1. /\ table' = [table EXCEPT ![p] = ledger.pairs \cup ledger.misnamed]
          /\ known' = [known EXCEPT ![p] = ledger.inputs]
          /\ Enter(p, IF ledger.run = NoRun THEN "claiming" ELSE "noting")
          /\ UNCHANGED <<env, ledger, lock, args, noted, team, out>>
      BY <1>3, <2>1 DEF Load
    <3>2. table' \in [Proc -> SUBSET Pair]
      BY <3>1 DEF TypeOK
    <3>3. known' \in [Proc -> [Path -> Content \cup {NoContent}]]
      BY <3>1 DEF TypeOK
    <3>4. FilesOK' /\ lock' \in Proc \cup {NoProc} /\ noted' \in [Proc -> Nat]
      BY <3>1 DEF TypeOK, FilesOK, env
    <3>5. phase[p] # "comparing"
      BY <1>3 DEF Load
    <3>6. QED
      BY <3>1, <3>2, <3>3, <3>4, <3>5, <1>e DEF Phase, Holding
  <2>2. QED
    BY <2>1, <1>r
<1>4. CASE ClaimLedger(p)
  <2>1. CASE /\ ledger' = [ledger EXCEPT !.run = args[p].run]
             /\ Enter(p, "noting")
             /\ UNCHANGED <<env, lock, setup, team, out>>
    <3>1. args[p].run \in Run
      BY CommandType DEF TypeOK
    <3>2. FilesOK'
      BY <2>1, <3>1 DEF FilesOK, env
    <3>3. QED
      BY <2>1, <3>2, <1>4, <1>e DEF ClaimLedger, TypeOK, setup, Phase, Holding
  <2>2. QED
    BY <2>1, <1>4, <1>f DEF ClaimLedger
<1>5. CASE NoteInput(p)
  <2> DEFINE f == args[p].files[noted[p] + 1]
  <2>1. CASE /\ noted' = [noted EXCEPT ![p] = @ + 1]
             /\ UNCHANGED <<env, ledger, lock, phase, args, table, known, team, out>>
    BY <2>1 DEF FilesOK, MainOK, TeamOK, JobOK, TeamInv, env, team, out
  <2>2. CASE /\ ledger' = [ledger EXCEPT !.inputs[f] = content[f]]
             /\ known' = [known EXCEPT ![p][f] = content[f]]
             /\ noted' = [noted EXCEPT ![p] = @ + 1]
             /\ UNCHANGED <<env, lock, phase, args, table, team, out>>
    <3>1. f \in Path
      <4>1. noted[p] + 1 \in 1..Len(args[p].files)
        BY <1>5, CommandType DEF NoteInput, TypeOK
      <4>2. QED
        BY <4>1, CommandType DEF TypeOK
    <3>2. content[f] \in Content
      BY <3>1 DEF TypeOK
    <3>3. FilesOK'
      BY <2>2, <3>1, <3>2 DEF FilesOK, env
    <3>4. MainOK'
      BY <2>2, <3>1, <3>2 DEF MainOK
    <3>5. QED
      BY <2>2, <3>3, <3>4 DEF TeamOK, JobOK, TeamInv, team, out
  <2>3. QED
    BY <2>1, <2>2, <1>5, <1>r, <1>f DEF NoteInput
<1>6. CASE BeginTeam(p)
  <2>1. CASE Enter(p, "closing") /\ UNCHANGED <<env, ledger, lock, setup, team, out>>
    BY <2>1, <1>6, <1>e DEF BeginTeam, TypeOK, FilesOK, env, setup, Phase, Holding
  <2>2. CASE /\ Enter(p, "comparing")
             /\ IF SingleSource(args[p])
                  THEN /\ next' = [next EXCEPT ![p] = 2]
                       /\ held' = [held EXCEPT ![p] =
                                     [w \in Worker |-> content[args[p].files[1]]]]
                  ELSE UNCHANGED <<next, held>>
             /\ UNCHANGED <<env, ledger, lock, setup, at, job, out>>
    <3>1. SingleSource(args[p]) => content[args[p].files[1]] \in Content
      BY CommandType DEF TypeOK, SingleSource
    <3>2. /\ next' \in [Proc -> Nat \ {0}]
          /\ held' \in [Proc -> [Worker -> Content \cup {NoContent}]]
      <4>1. CASE SingleSource(args[p])
        <5> DEFINE loaded == [w \in Worker |-> content[args[p].files[1]]]
        <5>1. loaded \in [Worker -> Content \cup {NoContent}]
          BY <4>1, <3>1
        <5>2. next' = [next EXCEPT ![p] = 2] /\ held' = [held EXCEPT ![p] = loaded]
          BY <2>2, <4>1
        <5> HIDE DEF loaded
        <5>3. QED
          BY <5>1, <5>2 DEF TypeOK
      <4>2. CASE ~SingleSource(args[p])
        BY <2>2, <4>2 DEF TypeOK
      <4>3. QED
        BY <4>1, <4>2
    <3>3. FilesOK'
      BY <2>2 DEF FilesOK, env
    <3>4. MainOK'
      BY <2>2 DEF MainOK, Enter, setup, Phase, Holding
    <3>5. TeamOK' /\ JobOK'
      BY <2>2, <3>2 DEF TeamOK, JobOK, setup, out
    <3>6. TeamInv'
      BY <2>2 DEF TeamInv, Enter, setup, TypeOK
    <3>7. QED
      BY <3>3, <3>4, <3>5, <3>6
  <2>3. QED
    BY <2>1, <2>2, <1>6 DEF BeginTeam
<1>7. CASE Halt(p)
  <2>1. output' \in SUBSET Row
    BY <1>7 DEF Halt, TypeOK
  <2>2. QED
    BY <2>1, <1>7, <1>0 DEF Halt, FilesOK
<1>8. CASE Join(p)
  <2>1. /\ MainOK' /\ FilesOK'
    BY <1>8 DEF Join, Enter, FilesOK, MainOK, env, setup, Phase, Holding
  <2>2. TeamOK' /\ JobOK'
    BY <1>8 DEF Join, TeamOK, JobOK, setup, team, out
  <2>3. TeamInv'
    BY <1>8 DEF Join, Enter, TeamInv, TypeOK, setup, team
  <2>4. QED
    BY <2>1, <2>2, <2>3
<1>9. CASE Close(p)
  <2>1. CASE /\ lock' = ReleasedLock(p)
             /\ Enter(p, "ending")
             /\ UNCHANGED <<env, ledger, setup, team, out>>
    BY <2>1, <1>9, <1>e
       DEF Close, ReleasedLock, TypeOK, FilesOK, env, setup, Phase, Holding
  <2>2. QED
    BY <2>1, <1>9, <1>r DEF Close
<1>10. CASE Finish(p)
  <2>1. output' \in SUBSET Row
    BY <1>10 DEF Finish, TypeOK
  <2>2. QED
    BY <2>1, <1>10, <1>0 DEF Finish, FilesOK
<1>11. QED
  BY <1>1, <1>2, <1>3, <1>4, <1>5, <1>6, <1>7, <1>8, <1>9, <1>10 DEF MainStep

\* Only worker w of process p has got another iteration.
LEMMA OthersJobs ==
  ASSUME TypeOK, NEW p \in Proc, NEW w \in Worker, UNCHANGED args,
         \A q \in Proc, v \in Worker : <<q, v>> # <<p, w>> =>
           at'[q][v] = at[q][v] /\ job'[q][v] = job[q][v],
         at'[p][w] # "idle" => <<job'[p][w].i, job'[p][w].j>> \in Iterations(args[p])
  PROVE  JobOK'
<1> SUFFICES ASSUME NEW q \in Proc, NEW v \in Worker, at'[q][v] # "idle"
             PROVE  <<job'[q][v].i, job'[q][v].j>> \in Iterations(args[q])
  BY DEF JobOK
<1>1. CASE q = p /\ v = w
  BY <1>1
<1>2. CASE ~(q = p /\ v = w)
  BY <1>2 DEF TypeOK
<1>3. QED
  BY <1>1, <1>2

\* The end of one comparison: the next iteration, or none.
LEMMA AdvanceType ==
  ASSUME TypeOK, NEW p \in Proc, NEW w \in Worker, at[p][w] # "idle", Advance(p, w),
         UNCHANGED args
  PROVE  /\ at' \in [Proc -> [Worker -> Place]]
         /\ job' \in [Proc -> [Worker -> [i : Nat, j : Nat]]]
         /\ held' \in [Proc -> [Worker -> Content \cup {NoContent}]]
         /\ at'[p][w] \in {"looking", "idle"}
         /\ \A q \in Proc, v \in Worker : <<q, v>> # <<p, w>> =>
              at'[q][v] = at[q][v] /\ job'[q][v] = job[q][v]
         /\ JobOK'
<1>0. args[p] \in Commands /\ job[p][w] \in [i : Nat, j : Nat]
  BY DEF TypeOK
<1>1. CASE More(p, w)
  <2>1. /\ Go(p, w, "looking")
        /\ job' = [job EXCEPT ![p][w].j = @ + 1]
        /\ UNCHANGED held
    BY <1>1 DEF Advance
  <2>2. job' \in [Proc -> [Worker -> [i : Nat, j : Nat]]]
    <3> DEFINE further == [job[p][w] EXCEPT !.j = @ + 1]
    <3>1. further \in [i : Nat, j : Nat]
      BY <1>0
    <3>2. job' = [job EXCEPT ![p][w] = further]
      BY <2>1
    <3> HIDE DEF further
    <3>3. QED
      BY <3>1, <3>2 DEF TypeOK
  <2>3. job'[p][w].i = job[p][w].i /\ job'[p][w].j = job[p][w].j + 1
    BY <2>1, <1>0 DEF TypeOK
  <2>4. <<job'[p][w].i, job'[p][w].j>> \in Iterations(args'[p])
    <3>1. job[p][w].j + 1 <= Len(args[p].files)
      BY <1>1, <1>0, JobType, CommandType DEF More
    <3>2. QED
      BY <2>3, <3>1, <1>0, JobType, CommandType, IterationMade
  <2>5. \A q \in Proc, v \in Worker : <<q, v>> # <<p, w>> =>
          at'[q][v] = at[q][v] /\ job'[q][v] = job[q][v]
    BY <2>1 DEF Go, TypeOK
  <2>6. JobOK'
    BY <2>4, <2>5, OthersJobs
  <2>7. QED
    BY <2>1, <2>2, <2>5, <2>6, GoType DEF TypeOK, Place
<1>2. CASE ~More(p, w)
  <2>1. /\ Go(p, w, "idle")
        /\ job' = [job EXCEPT ![p][w] = NoJob]
        /\ held' = IF SingleSource(args[p]) THEN held
                   ELSE [held EXCEPT ![p][w] = NoContent]
    BY <1>2 DEF Advance
  <2>2. job' \in [Proc -> [Worker -> [i : Nat, j : Nat]]]
    BY <2>1 DEF TypeOK, NoJob
  <2>3. held' \in [Proc -> [Worker -> Content \cup {NoContent}]]
    BY <2>1 DEF TypeOK
  <2>4. \A q \in Proc, v \in Worker : <<q, v>> # <<p, w>> =>
          at'[q][v] = at[q][v] /\ job'[q][v] = job[q][v]
    BY <2>1 DEF Go, TypeOK
  <2>5. at'[p][w] = "idle"
    BY <2>1 DEF Go, TypeOK
  <2>6. JobOK'
    BY <2>4, <2>5, OthersJobs
  <2>7. QED
    BY <2>1, <2>2, <2>3, <2>4, <2>5, <2>6, GoType DEF Place
<1>3. QED
  BY <1>1, <1>2

\* What a push moves from the buffer to the output are rows.
LEMMA PushType ==
  ASSUME TypeOK, NEW p \in Proc, NEW pending \in SUBSET Row, Push(p, pending)
  PROVE  /\ output' \in SUBSET Row
         /\ buf' \in [Proc -> SUBSET Row]
         /\ stream' \in [Proc -> {"good", "failed"}]
BY DEF Push, TypeOK

\* Every step of a worker keeps the shape and the team's rules.
LEMMA WorkerTypeOK ==
  ASSUME TypeOK, TeamInv, NEW p \in Proc, NEW w \in Worker, WorkerStep(p, w)
  PROVE  TypeOK' /\ TeamInv'
<1> USE TypeParts, TypePartsNext
<1> DEFINE Same == UNCHANGED <<content, lock, phase, args, known, noted>>
<1>c. phase[p] = "comparing"
  BY DEF WorkerStep, TakeSource, TakeCandidate, Look, PrintRow, Flush, Record, Comparing
<1>q. ASSUME Same, \A q \in Proc, v \in Worker :
                     <<q, v>> # <<p, w>> => at'[q][v] = at[q][v],
             \A q \in Proc : next'[q] >= next[q], TeamOK'
      PROVE  TeamInv'
  <2> SUFFICES ASSUME NEW q \in Proc
               PROVE  /\ phase'[q] # "comparing" => \A v \in Worker : at'[q][v] = "idle"
                      /\ phase'[q] = "comparing" /\ SingleSource(args'[q]) => next'[q] > 1
    BY DEF TeamInv
  <2>1. phase'[q] # "comparing" => \A v \in Worker : at'[q][v] = "idle"
    BY <1>q, <1>c DEF TeamInv
  <2>2. phase'[q] = "comparing" /\ SingleSource(args'[q]) => next'[q] > 1
    <3>1. phase' = phase /\ args' = args /\ next'[q] >= next[q]
      BY <1>q
    <3>2. next[q] \in Nat /\ next'[q] \in Nat
      BY <1>q DEF TypeOK, TeamOK
    <3>3. phase[q] = "comparing" /\ SingleSource(args[q]) => next[q] > 1
      BY DEF TeamInv
    <3>4. QED
      BY <3>1, <3>2, <3>3
  <2>3. QED
    BY <2>1, <2>2
<1>g. ASSUME NEW there \in Place, Go(p, w, there), at[p][w] # "idle", UNCHANGED <<args, job>>
      PROVE  JobOK'
  BY <1>g, GoType DEF JobOK
<1>1. CASE TakeSource(p, w)
  <2>1. CASE /\ next[p] < Len(args[p].files)
             /\ Go(p, w, "looking")
             /\ job' = [job EXCEPT ![p][w] = [i |-> next[p], j |-> next[p] + 1]]
             /\ held' = [held EXCEPT ![p][w] = content[args[p].files[next[p]]]]
    <3>1. next[p] \in 1..Len(args[p].files) /\ next[p] <= args[p].sources
      BY <2>1, <1>1, CommandType DEF TakeSource, TypeOK
    <3>2. content[args[p].files[next[p]]] \in Content
      BY <3>1, CommandType DEF TypeOK
    <3>3. next' = [next EXCEPT ![p] = @ + 1] /\ UNCHANGED <<env, ledger, lock, phase, setup, out>>
      BY <1>1 DEF TakeSource
    <3>4. TeamOK'
      BY <2>1, <3>1, <3>2, <3>3, GoType DEF TeamOK, out, Place
    <3>5. job'[p][w] = [i |-> next[p], j |-> next[p] + 1]
      BY <2>1 DEF TypeOK
    <3>6. <<next[p], next[p] + 1>> \in Iterations(args[p])
      BY <2>1, <3>1, CommandType, IterationMade DEF TypeOK
    <3>7. \A q \in Proc, v \in Worker : <<q, v>> # <<p, w>> =>
            at'[q][v] = at[q][v] /\ job'[q][v] = job[q][v]
      <4>1. \A q \in Proc, v \in Worker : <<q, v>> # <<p, w>> => at'[q][v] = at[q][v]
        BY <2>1, GoType DEF Place
      <4>2. \A q \in Proc, v \in Worker : <<q, v>> # <<p, w>> => job'[q][v] = job[q][v]
        BY <2>1 DEF TypeOK
      <4>3. QED
        BY <4>1, <4>2
    <3>8. JobOK'
      BY <3>3, <3>5, <3>6, <3>7, OthersJobs DEF setup
    <3>9. FilesOK' /\ MainOK'
      BY <3>3 DEF FilesOK, MainOK, env, setup
    <3>10. TeamInv'
      BY <3>3, <3>4, <3>7, <1>q DEF env, setup, TypeOK
    <3>11. QED
      BY <3>4, <3>8, <3>9, <3>10
  <2>2. CASE UNCHANGED <<at, job, held>>
    <3>1. next' = [next EXCEPT ![p] = @ + 1] /\ UNCHANGED <<env, ledger, lock, phase, setup, out>>
      BY <1>1 DEF TakeSource
    <3>2. TeamOK' /\ JobOK' /\ FilesOK' /\ MainOK'
      BY <3>1, <2>2 DEF TeamOK, JobOK, FilesOK, MainOK, env, setup, out
    <3>3. QED
      BY <3>1, <3>2, <2>2, <1>q DEF env, setup, TypeOK
  <2>3. QED
    BY <2>1, <2>2, <1>1 DEF TakeSource
<1>2. CASE TakeCandidate(p, w)
  <2>1. /\ next[p] > 1 /\ next[p] \in Nat /\ next[p] <= Len(args[p].files)
        /\ args[p].sources = 1
    BY <1>2, <1>c DEF TakeCandidate, TeamInv, TypeOK, SingleSource
  <2>2. /\ next' = [next EXCEPT ![p] = @ + 1]
        /\ Go(p, w, "looking")
        /\ job' = [job EXCEPT ![p][w] = [i |-> 1, j |-> next[p]]]
        /\ UNCHANGED <<env, ledger, lock, phase, setup, held, out>>
    BY <1>2 DEF TakeCandidate
  <2>3. TeamOK'
    BY <2>1, <2>2, GoType DEF TeamOK, out, Place
  <2>4. <<1, next[p]>> \in Iterations(args[p])
    BY <2>1, IterationMade DEF TypeOK
  <2>5. job'[p][w] = [i |-> 1, j |-> next[p]]
    BY <2>2 DEF TypeOK
  <2>6. \A q \in Proc, v \in Worker : <<q, v>> # <<p, w>> =>
          at'[q][v] = at[q][v] /\ job'[q][v] = job[q][v]
    BY <2>2 DEF Go, TypeOK
  <2>7. JobOK'
    BY <2>2, <2>4, <2>5, <2>6, OthersJobs DEF setup
  <2>8. FilesOK' /\ MainOK'
    BY <2>2 DEF FilesOK, MainOK, env, setup
  <2>9. TeamInv'
    BY <2>2, <2>3, <2>6, <1>q DEF env, setup, TypeOK
  <2>10. QED
    BY <2>3, <2>7, <2>8, <2>9
<1>3. CASE Look(p, w)
  <2>1. at[p][w] # "idle" /\ UNCHANGED <<env, ledger, lock, phase, setup, next, out>>
    BY <1>3 DEF Look, Comparing
  <2>2. FilesOK' /\ MainOK'
    BY <2>1 DEF FilesOK, MainOK, env, setup
  <2>3. CASE Advance(p, w)
    <3>1. TeamOK' /\ JobOK'
      BY <2>1, <2>3, AdvanceType DEF TeamOK, out, setup
    <3>2. QED
      BY <2>1, <2>2, <2>3, <3>1, <1>q, AdvanceType DEF env, setup, TypeOK
  <2>4. CASE Go(p, w, "printing") /\ UNCHANGED <<job, held>>
    <3>1. TeamOK' /\ JobOK'
      BY <2>1, <2>4, <1>g, GoType DEF TeamOK, out, setup, Place
    <3>2. QED
      BY <2>1, <2>2, <2>4, <3>1, <1>q, GoType DEF env, setup, TypeOK, Place
  <2>5. QED
    BY <2>3, <2>4, <1>3 DEF Look
<1>4. ASSUME NEW there \in Place, Go(p, w, there), at[p][w] # "idle",
             UNCHANGED <<content, ledger, lock, phase, setup, next, job, held>>,
             output' \in SUBSET Row, buf' \in [Proc -> SUBSET Row],
             stream' \in [Proc -> {"good", "failed"}]
      PROVE  TypeOK' /\ TeamInv'
  <2>1. FilesOK' /\ MainOK'
    BY <1>4 DEF FilesOK, MainOK, setup
  <2>2. TeamOK' /\ JobOK'
    BY <1>4, <1>g, GoType DEF TeamOK, setup
  <2>3. QED
    BY <2>1, <2>2, <1>4, <1>q, GoType DEF setup, TypeOK
<1>5. CASE PrintRow(p, w)
  <2>1. at[p][w] # "idle"
    BY <1>5 DEF PrintRow, Comparing
  <2>2. buf[p] \cup {RowOf(p, w)} \in SUBSET Row
    BY <2>1, RowType DEF TypeOK
  <2>3. /\ output' \in SUBSET Row
        /\ buf' \in [Proc -> SUBSET Row]
        /\ stream' \in [Proc -> {"good", "failed"}]
    <3>1. CASE Push(p, buf[p] \cup {RowOf(p, w)})
      BY <3>1, <2>2, PushType
    <3>2. CASE buf' = [buf EXCEPT ![p] = @ \cup {RowOf(p, w)}] /\ UNCHANGED <<output, stream>>
      BY <3>2, <2>2 DEF TypeOK
    <3>3. QED
      BY <3>1, <3>2, <1>5 DEF PrintRow
  <2>4. QED
    BY <2>1, <2>3, <1>4, <1>5 DEF PrintRow, Place
<1>6. CASE Flush(p, w)
  <2>1. /\ output' \in SUBSET Row
        /\ buf' \in [Proc -> SUBSET Row]
        /\ stream' \in [Proc -> {"good", "failed"}]
    BY <1>6, PushType DEF Flush, TypeOK
  <2>2. at[p][w] # "idle"
    BY <1>6 DEF Flush, Comparing
  <2>3. CASE stream'[p] = "failed"
    BY <2>1, <2>2, <2>3, <1>4, <1>6 DEF Flush, Place
  <2>4. CASE stream'[p] # "failed"
    BY <2>1, <2>2, <2>4, <1>4, <1>6 DEF Flush, Place
  <2>5. QED
    BY <2>3, <2>4
<1>7. CASE Record(p, w)
  <2>1. at[p][w] # "idle" /\ UNCHANGED <<env, lock, phase, args, known, noted, next, out>>
    BY <1>7 DEF Record, Comparing
  <2>2. PairIn(p, w) \in Pair
    BY <2>1, JobType
  <2>3. CASE /\ Recorded(PairIn(p, w))
             /\ table' = [table EXCEPT ![p] = @ \cup {PairIn(p, w)}]
             /\ Advance(p, w)
    <3>1. FilesOK'
      <4>1. CASE ledger' = [ledger EXCEPT !.pairs = @ \cup {PairIn(p, w)}]
        BY <2>1, <2>2, <4>1 DEF FilesOK, env
      <4>2. CASE ledger' = [Whole(ledger) EXCEPT !.body = "malformed"]
        BY <2>1, <4>2 DEF FilesOK, Whole, env
      <4>3. CASE ledger' = Whole(ledger)
        BY <2>1, <4>3 DEF FilesOK, Whole, env
      <4>4. ASSUME NEW y \in FusedWith(PairIn(p, w)),
                   ledger' = [Whole(ledger) EXCEPT !.misnamed = @ \cup {y}]
            PROVE  FilesOK'
        <5>1. y \in Pair
          BY DEF FusedWith
        <5>2. QED
          BY <2>1, <4>4, <5>1 DEF FilesOK, Whole, env
      <4>5. QED
        BY <4>1, <4>2, <4>3, <4>4, <2>3 DEF Recorded
    <3>2. MainOK'
      BY <2>1, <2>2, <2>3 DEF MainOK
    <3>3. TeamOK' /\ JobOK'
      BY <2>1, <2>3, AdvanceType DEF TeamOK, out
    <3>4. TeamInv'
      <4>1. \A q \in Proc : next'[q] >= next[q]
        BY <2>1 DEF TypeOK
      <4>2. \A q \in Proc, v \in Worker : <<q, v>> # <<p, w>> => at'[q][v] = at[q][v]
        BY <2>1, <2>3, AdvanceType
      <4>3. QED
        BY <2>1, <3>3, <4>1, <4>2, <1>q DEF env
    <3>5. QED
      BY <3>1, <3>2, <3>3, <3>4
  <2>4. CASE FailedAppend /\ Go(p, w, "halting") /\ UNCHANGED <<table, job, held>>
    <3>1. FilesOK' /\ MainOK'
      BY <2>1, <2>4, FailedAppendType DEF FilesOK, MainOK, env
    <3>2. TeamOK' /\ JobOK'
      BY <2>1, <2>4, <1>g, GoType DEF TeamOK, out, Place
    <3>3. QED
      BY <2>1, <2>4, <3>1, <3>2, <1>q, GoType DEF env, TypeOK, Place
  <2>5. QED
    BY <2>3, <2>4, <1>7 DEF Record
<1>8. QED
  BY <1>1, <1>2, <1>3, <1>5, <1>6, <1>7 DEF WorkerStep

\* Every step keeps the shape of the state and the team's rules.
LEMMA NextTypeOK == TypeOK /\ TeamInv /\ [Next]_vars => TypeOK' /\ TeamInv'
<1> SUFFICES ASSUME TypeOK, TeamInv, [Next]_vars
             PROVE  TypeOK' /\ TeamInv'
  OBVIOUS
<1> USE TypeParts, TypePartsNext
<1>1. ASSUME NEW p \in Proc, Start(p)
      PROVE  TypeOK' /\ TeamInv'
  <2>1. FilesOK' /\ MainOK'
    BY <1>1 DEF Start, FilesOK, MainOK, env, Phase, Holding
  <2>2. TeamOK'
    BY <1>1 DEF Start, TeamOK, team, out
  <2>3. \A q \in Proc, w \in Worker : q = p => at'[q][w] = "idle"
    BY <1>1 DEF Start, TeamInv, team
  <2>4. \A q \in Proc : q # p => args'[q] = args[q] /\ phase'[q] = phase[q]
    BY <1>1 DEF Start, TypeOK
  <2>5. at' = at /\ job' = job /\ next' = next /\ phase'[p] = "opening"
    BY <1>1 DEF Start, TypeOK, team
  <2>6. JobOK'
    BY <2>3, <2>4, <2>5 DEF JobOK
  <2>7. TeamInv'
    BY <2>3, <2>4, <2>5 DEF TeamInv
  <2>8. QED
    BY <2>1, <2>2, <2>6, <2>7
<1>2. ASSUME NEW p \in Proc, MainStep(p)
      PROVE  TypeOK' /\ TeamInv'
  BY <1>2, MainTypeOK
<1>3. ASSUME NEW p \in Proc, NEW w \in Worker, WorkerStep(p, w)
      PROVE  TypeOK' /\ TeamInv'
  BY <1>3, WorkerTypeOK
<1>4. ASSUME NEW p \in Proc, Kill(p)
      PROVE  TypeOK' /\ TeamInv'
  <2>1. FilesOK'
    BY <1>4 DEF Kill, Torn, FilesOK, env
  <2>2. QED
    BY <2>1, <1>4, GoneType DEF Kill
<1>5. CASE ReplaceInput
  BY <1>5 DEF ReplaceInput, FilesOK, MainOK, TeamOK, JobOK, TeamInv, setup, team, out
<1>6. CASE StartOver
  <2>1. FilesOK'
    BY <1>6 DEF StartOver, EmptyLedger, NoInputs, FilesOK
  <2>2. QED
    BY <1>6, <2>1 DEF StartOver, MainOK, TeamOK, JobOK, TeamInv, setup, team, out
<1>7. CASE UNCHANGED vars
  BY <1>7 DEF vars, FilesOK, MainOK, TeamOK, JobOK, TeamInv
<1>8. QED
  BY <1>1, <1>2, <1>3, <1>4, <1>5, <1>6, <1>7 DEF Next

\* The state keeps its shape, and no worker leaves the path matrix.
THEOREM TypeCorrect == Spec => [](TypeOK /\ TeamInv)
<1>1. Init => TypeOK /\ TeamInv
  BY InitTypeOK
<1>2. (TypeOK /\ TeamInv) /\ [Next]_vars => (TypeOK /\ TeamInv)'
  BY NextTypeOK
<1>3. QED
  BY <1>1, <1>2, PTL DEF Spec

-----------------------------------------------------------------------------
(* One process at a time *)

\* Every step keeps the lock with the process that has the ledger open.
LEMMA NextOneHolder == TypeOK /\ OneHolder /\ [Next]_vars => OneHolder'
<1> SUFFICES ASSUME TypeOK, OneHolder, [Next]_vars, NEW q \in Proc, phase'[q] \in Holding
             PROVE  lock' = q
  BY DEF OneHolder
<1>0. q # NoProc
  BY ProcAssumption
<1>1. phase[q] \in Holding => lock = q
  BY DEF OneHolder
<1>g. ASSUME NEW p \in Proc, Gone(p)
      PROVE  lock' = q
  <2>1. q # p /\ phase'[q] = phase[q]
    BY <1>g DEF Gone, TypeOK, Holding
  <2>2. QED
    BY <2>1, <1>1, <1>g DEF Gone, ReleasedLock
<1>s. ASSUME UNCHANGED lock, phase'[q] \in Holding => phase[q] \in Holding
      PROVE  lock' = q
  BY <1>s, <1>1
<1>2. ASSUME NEW p \in Proc, Start(p)
      PROVE  lock' = q
  BY <1>2, <1>s DEF Start, TypeOK, Holding
<1>3. ASSUME NEW p \in Proc, MainStep(p)
      PROVE  lock' = q
  <2>1. CASE Open(p)
    <3>1. CASE Lock(p)
      BY <3>1, <1>0, <1>1 DEF Lock, Enter, TypeOK
    <3>2. QED
      BY <3>1, <2>1, <1>g DEF Open, Refuse
  <2>2. CASE DiscardTail(p)
    BY <2>2, <1>g, <1>s DEF DiscardTail, Refuse
  <2>3. CASE Load(p)
    BY <2>3, <1>g, <1>s DEF Load, Refuse, Enter, TypeOK, Holding
  <2>4. CASE ClaimLedger(p)
    BY <2>4, <1>g, <1>s DEF ClaimLedger, Enter, TypeOK, Holding
  <2>5. CASE NoteInput(p)
    BY <2>5, <1>g, <1>s DEF NoteInput, Refuse
  <2>6. CASE BeginTeam(p)
    BY <2>6, <1>s DEF BeginTeam, Enter, TypeOK, Holding
  <2>7. CASE Halt(p)
    BY <2>7, <1>g DEF Halt
  <2>8. CASE Join(p)
    BY <2>8, <1>s DEF Join, Enter, TypeOK, Holding
  <2>9. CASE Close(p)
    <3>1. CASE lock' = ReleasedLock(p) /\ Enter(p, "ending")
      BY <3>1, <2>9, <1>1 DEF Enter, ReleasedLock, TypeOK, Holding
    <3>2. QED
      BY <3>1, <2>9, <1>g DEF Close, Refuse
  <2>10. CASE Finish(p)
    BY <2>10, <1>g DEF Finish
  <2>11. QED
    BY <1>3, <2>1, <2>2, <2>3, <2>4, <2>5, <2>6, <2>7, <2>8, <2>9, <2>10 DEF MainStep
<1>4. ASSUME NEW p \in Proc, NEW w \in Worker, WorkerStep(p, w)
      PROVE  lock' = q
  BY <1>4, <1>s DEF WorkerStep, TakeSource, TakeCandidate, Look, PrintRow, Flush, Record
<1>5. ASSUME NEW p \in Proc, Kill(p)
      PROVE  lock' = q
  BY <1>5, <1>g DEF Kill
<1>6. CASE ReplaceInput
  BY <1>6, <1>s DEF ReplaceInput
<1>7. CASE StartOver
  BY <1>7, <1>s DEF StartOver
<1>8. CASE UNCHANGED vars
  BY <1>8, <1>s DEF vars
<1>9. QED
  BY <1>2, <1>3, <1>4, <1>5, <1>6, <1>7, <1>8 DEF Next

\* The flock excludes: a process that has the ledger open is its only holder.
THEOREM LockExcludes == Spec => []OneHolder
<1>1. Init => OneHolder
  BY DEF Init, OneHolder, Holding
<1>2. TypeOK /\ OneHolder /\ [Next]_vars => OneHolder'
  BY NextOneHolder
<1>3. QED
  BY <1>1, <1>2, TypeCorrect, PTL DEF Spec

-----------------------------------------------------------------------------
(***************************************************************************)
(* The main result about ComparisonRun: it implements ResumableBatch, and  *)
(* so a recorded pair is in the output whatever was interrupted.           *)
(***************************************************************************)

\* ClaimInv, PrintedInv and BufferInv for one process.
ClaimOf(p) ==
  /\ phase[p] = "claiming" => ledger.run = NoRun
  /\ phase[p] \in {"noting", "comparing", "closing"} => ledger.run = args[p].run
PrintedOf(p) ==
  \A w \in Worker :
    /\ at[p][w] = "recording" => Among(PairIn(p, w), args[p].run, output)
    /\ at[p][w] = "flushing" /\ stream[p] = "good" =>
         Among(PairIn(p, w), args[p].run, output \cup buf[p])
BufferOf(p) ==
  /\ buf[p] # {} => \E w \in Worker : at[p][w] = "flushing"
  /\ \A row \in buf[p] : row.run = args[p].run

\* The invariant the refinement needs.
DeliveryInv == /\ TypeOK /\ TeamInv /\ OneHolder
               /\ ClaimInv /\ PrintedInv /\ BufferInv

\* The steps of one process.
ProcessStep(p) ==
  Start(p) \/ MainStep(p) \/ (\E w \in Worker : WorkerStep(p, w)) \/ Kill(p)

\* The two invariants of the delivery, one process at a time.
LEMMA ByProcess ==
  /\ ClaimInv <=> \A p \in Proc : ClaimOf(p)
  /\ PrintedInv <=> \A p \in Proc : PrintedOf(p)
  /\ BufferInv <=> \A p \in Proc : BufferOf(p)
  /\ ClaimInv' <=> \A p \in Proc : ClaimOf(p)'
  /\ PrintedInv' <=> \A p \in Proc : PrintedOf(p)'
  /\ BufferInv' <=> \A p \in Proc : BufferOf(p)'
BY DEF ClaimInv, ClaimOf, PrintedInv, PrintedOf, BufferInv, BufferOf

\* An outcome stays among more rows.
LEMMA AmongGrows ==
  ASSUME NEW x, NEW r, NEW rows, NEW more, rows \subseteq more, Among(x, r, rows)
  PROVE  Among(x, r, more)
BY DEF Among

-----------------------------------------------------------------------------
(* What a step of one process leaves alone *)

\* Process q is as it was.
Kept(q) == /\ args'[q] = args[q] /\ phase'[q] = phase[q] /\ at'[q] = at[q]
           /\ job'[q] = job[q] /\ buf'[q] = buf[q] /\ stream'[q] = stream[q]

\* A process that ends leaves the memory of the others alone.
LEMMA GoneKeeps ==
  ASSUME TypeOK, NEW p \in Proc, Gone(p), NEW q \in Proc, q # p
  PROVE  Kept(q)
BY DEF Gone, Kept, TypeOK

\* A process changes no other process and takes no row out of the output.
LEMMA OthersKept ==
  ASSUME TypeOK, NEW p \in Proc, ProcessStep(p)
  PROVE  /\ output \subseteq output'
         /\ \A q \in Proc : q # p => Kept(q)
<1> SUFFICES ASSUME NEW q \in Proc, q # p
             PROVE  Kept(q)
  <2>1. output \subseteq output'
    <3>1. CASE Start(p)
      BY <3>1 DEF Start, env
    <3>2. CASE MainStep(p)
      BY <3>2 DEF MainStep, Open, Lock, Refuse, DiscardTail, Load, ClaimLedger,
                  NoteInput, BeginTeam, Halt, Join, Close, Finish, env
    <3>3. ASSUME NEW w \in Worker, WorkerStep(p, w)
          PROVE  output \subseteq output'
      BY <3>3 DEF WorkerStep, TakeSource, TakeCandidate, Look, PrintRow, Flush,
                  Record, Push, env, out
    <3>4. CASE Kill(p)
      BY <3>4 DEF Kill, env
    <3>5. QED
      BY <3>1, <3>2, <3>3, <3>4 DEF ProcessStep
  <2>2. QED
    BY <2>1
<1>g. Gone(p) => Kept(q)
  BY GoneKeeps
<1>1. CASE Start(p)
  BY <1>1 DEF Start, Kept, TypeOK, team, out
<1>2. CASE MainStep(p)
  <2>1. CASE ~Gone(p)
    <3>1. /\ UNCHANGED <<args, at, job, out>>
          /\ \/ UNCHANGED phase
             \/ \E ph : Enter(p, ph)
      BY <1>2, <2>1 DEF MainStep, Open, Lock, Refuse, DiscardTail, Load, ClaimLedger,
                        NoteInput, BeginTeam, Halt, Join, Close, Finish, setup, team
    <3>2. QED
      BY <3>1 DEF Enter, Kept, TypeOK, out
  <2>2. QED
    BY <2>1, <1>g
<1>3. ASSUME NEW w \in Worker, WorkerStep(p, w)
      PROVE  Kept(q)
  <2>1. args' = args /\ phase' = phase
    BY <1>3 DEF WorkerStep, TakeSource, TakeCandidate, Look, PrintRow, Flush, Record, setup
  <2>2. at'[q] = at[q]
    BY <1>3 DEF WorkerStep, TakeSource, TakeCandidate, Look, PrintRow, Flush, Record,
                Advance, Go, TypeOK
  <2>3. job'[q] = job[q]
    BY <1>3 DEF WorkerStep, TakeSource, TakeCandidate, Look, PrintRow, Flush, Record,
                Advance, TypeOK
  <2>4. buf'[q] = buf[q] /\ stream'[q] = stream[q]
    BY <1>3 DEF WorkerStep, TakeSource, TakeCandidate, Look, PrintRow, Flush, Record,
                Push, out, TypeOK
  <2>5. QED
    BY <2>1, <2>2, <2>3, <2>4 DEF Kept
<1>4. CASE Kill(p)
  BY <1>4, <1>g DEF Kill
<1>5. QED
  BY <1>1, <1>2, <1>3, <1>4 DEF ProcessStep

\* What is printed or buffered for a process that is as it was stays so.
LEMMA KeptKeeps ==
  ASSUME output \subseteq output', NEW q \in Proc, Kept(q), PrintedOf(q), BufferOf(q)
  PROVE  PrintedOf(q)' /\ BufferOf(q)'
<1>1. \A w \in Worker : PairIn(q, w)' = PairIn(q, w)
  BY DEF Kept, PairIn, Source, Candidate
<1>2. PrintedOf(q)'
  <2> SUFFICES ASSUME NEW w \in Worker
               PROVE  /\ at'[q][w] = "recording" => Among(PairIn(q, w), args'[q].run, output')
                      /\ at'[q][w] = "flushing" /\ stream'[q] = "good" =>
                           Among(PairIn(q, w), args'[q].run, output' \cup buf'[q])
    BY <1>1 DEF PrintedOf
  <2>1. output \cup buf[q] \subseteq output' \cup buf[q]
    OBVIOUS
  <2>2. QED
    BY <2>1, AmongGrows DEF Kept, PrintedOf
<1>3. BufferOf(q)'
  BY DEF Kept, BufferOf
<1>4. QED
  BY <1>2, <1>3

\* A process that ends has nothing left to print.
LEMMA GoneDelivers ==
  ASSUME TypeOK, NEW p \in Proc, Gone(p)
  PROVE  ClaimOf(p)' /\ PrintedOf(p)' /\ BufferOf(p)'
BY DEF Gone, TypeOK, ClaimOf, PrintedOf, BufferOf

\* The line of a pair names that pair, or, fused with a torn one, none or one that
\* can be misnamed; the rest of what the ledger has stays.
LEMMA RecordedKeeps ==
  ASSUME TypeOK, NEW x \in Pair, Recorded(x)
  PROVE  /\ ledger'.run = ledger.run /\ ledger'.inputs = ledger.inputs
         /\ \/ /\ ledger'.pairs = ledger.pairs \cup {x}
               /\ ledger'.misnamed = ledger.misnamed
            \/ /\ ledger'.pairs = ledger.pairs
               /\ \/ ledger'.misnamed = ledger.misnamed
                  \/ \E y \in Misnamable : ledger'.misnamed = ledger.misnamed \cup {y}
<1>1. CASE ledger' = [ledger EXCEPT !.pairs = @ \cup {x}]
  BY <1>1 DEF TypeOK
<1>2. CASE ledger' \in {Whole(ledger), [Whole(ledger) EXCEPT !.body = "malformed"]}
  BY <1>2 DEF Whole, TypeOK
<1>3. ASSUME NEW y \in FusedWith(x), ledger' = [Whole(ledger) EXCEPT !.misnamed = @ \cup {y}]
      PROVE  /\ y \in Misnamable
             /\ ledger'.run = ledger.run /\ ledger'.inputs = ledger.inputs
             /\ ledger'.pairs = ledger.pairs
             /\ ledger'.misnamed = ledger.misnamed \cup {y}
  <2>1. y \in Misnamable
    BY DEF FusedWith, Misnamable
  <2>2. QED
    BY <2>1, <1>3 DEF Whole, TypeOK
<1>4. QED
  BY <1>1, <1>2, <1>3 DEF Recorded

\* Only the process that claims the ledger changes the run it names.
LEMMA RunKept ==
  ASSUME TypeOK, NEW p \in Proc, ProcessStep(p)
  PROVE  \/ ledger'.run = ledger.run
         \/ /\ phase[p] = "claiming"
            /\ ledger' = [ledger EXCEPT !.run = args[p].run]
            /\ phase' = [phase EXCEPT ![p] = "noting"]
            /\ UNCHANGED <<env, setup, team, out>>
<1> DEFINE Same == ledger'.run = ledger.run
<1>f. FailedAppend => Same
  BY FailedAppendType, TypeParts
<1>1. CASE Start(p)
  BY <1>1 DEF Start
<1>2. CASE ClaimLedger(p)
  BY <1>2, <1>f DEF ClaimLedger, Enter
<1>3. CASE DiscardTail(p)
  BY <1>3 DEF DiscardTail, Refuse, TypeOK
<1>4. CASE NoteInput(p)
  BY <1>4, <1>f DEF NoteInput, Refuse, TypeOK
<1>5. CASE Open(p) \/ Load(p) \/ BeginTeam(p) \/ Halt(p) \/ Join(p) \/ Close(p) \/ Finish(p)
  BY <1>5 DEF Open, Lock, Load, BeginTeam, Halt, Join, Close, Finish, Refuse
<1>6. ASSUME NEW w \in Worker, WorkerStep(p, w)
      PROVE  Same
  <2>1. CASE Record(p, w)
    <3>1. PairIn(p, w) \in Pair
      BY <2>1, JobType DEF Record, Comparing
    <3>2. QED
      BY <2>1, <3>1, <1>f, RecordedKeeps DEF Record
  <2>2. QED
    BY <2>1, <1>6 DEF WorkerStep, TakeSource, TakeCandidate, Look, PrintRow, Flush
<1>7. CASE Kill(p)
  BY <1>7 DEF Kill, Torn, TypeOK
<1>8. QED
  BY <1>1, <1>2, <1>3, <1>4, <1>5, <1>6, <1>7 DEF ProcessStep, MainStep

-----------------------------------------------------------------------------
(* A step of a process keeps ClaimInv, PrintedInv and BufferInv *)

\* The run the ledger names is that of its holder, past ledgerOpen.
LEMMA StepClaim ==
  ASSUME DeliveryInv, NEW p \in Proc, ProcessStep(p)
  PROVE  ClaimInv'
<1> USE DEF DeliveryInv
<1> SUFFICES ASSUME NEW q \in Proc
             PROVE  ClaimOf(q)'
  BY ByProcess
<1>0. ClaimOf(q) /\ ClaimOf(p)
  BY ByProcess
<1>1. CASE q # p
  <2>1. Kept(q)
    BY <1>1, OthersKept
  <2>2. CASE ledger'.run = ledger.run
    BY <1>0, <2>1, <2>2 DEF Kept, ClaimOf
  <2>3. CASE phase[p] = "claiming"
    <3>1. lock = p
      BY <2>3 DEF OneHolder, Holding
    <3>2. phase[q] \notin Holding
      BY <3>1, <1>1 DEF OneHolder
    <3>3. QED
      BY <2>1, <3>2 DEF Kept, ClaimOf, Holding
  <2>4. QED
    BY <2>2, <2>3, RunKept
<1>2. CASE q = p
  <2> SUFFICES ClaimOf(p)'
    BY <1>2
  <2>g. Gone(p) => ClaimOf(p)'
    BY GoneDelivers
  <2>1. CASE Start(p)
    BY <2>1 DEF Start, TypeOK, ClaimOf
  <2>2. CASE Open(p)
    BY <2>2, <2>g DEF Open, Lock, Refuse, Enter, TypeOK, ClaimOf
  <2>3. CASE DiscardTail(p)
    BY <2>3, <2>g, <1>0 DEF DiscardTail, Refuse, TypeOK, ClaimOf, setup
  <2>4. CASE Load(p)
    <3>1. CASE ~Refuse(p)
      BY <2>4, <3>1 DEF Load, Accepts, Enter, TypeOK, ClaimOf
    <3>2. QED
      BY <3>1, <2>g DEF Refuse
  <2>5. CASE ClaimLedger(p)
    BY <2>5, <2>g DEF ClaimLedger, Enter, TypeOK, ClaimOf, setup
  <2>6. CASE NoteInput(p)
    <3>1. CASE ~Gone(p)
      <4>1. phase' = phase /\ args' = args /\ phase[p] = "noting"
        BY <2>6, <3>1 DEF NoteInput, Refuse
      <4>2. ledger'.run = ledger.run
        BY <4>1, RunKept DEF TypeOK
      <4>3. QED
        BY <4>1, <4>2, <1>0 DEF ClaimOf
    <3>2. QED
      BY <3>1, <2>g
  <2>7. CASE BeginTeam(p)
    BY <2>7, <1>0 DEF BeginTeam, Enter, TypeOK, ClaimOf, setup
  <2>8. CASE Join(p)
    BY <2>8, <1>0 DEF Join, Enter, TypeOK, ClaimOf, setup
  <2>9. CASE Close(p)
    BY <2>9, <2>g DEF Close, Refuse, Enter, TypeOK, ClaimOf
  <2>10. CASE Halt(p) \/ Finish(p) \/ Kill(p)
    BY <2>10, <2>g DEF Halt, Finish, Kill
  <2>11. ASSUME NEW w \in Worker, WorkerStep(p, w)
         PROVE  ClaimOf(p)'
    <3>1. args' = args /\ phase' = phase /\ phase[p] = "comparing"
      BY <2>11 DEF WorkerStep, TakeSource, TakeCandidate, Look, PrintRow, Flush,
                   Record, Comparing, setup
    <3>2. ledger'.run = ledger.run
      BY <3>1, RunKept
    <3>3. QED
      BY <3>1, <3>2, <1>0 DEF ClaimOf
  <2>12. QED
    BY <1>2, <2>1, <2>2, <2>3, <2>4, <2>5, <2>6, <2>7, <2>8, <2>9, <2>10, <2>11
       DEF ProcessStep, MainStep
<1>3. QED
  BY <1>1, <1>2

\* Where worker w goes, the others of its team stay.
LEMMA TeamMates ==
  ASSUME TypeOK, NEW p \in Proc, NEW w \in Worker, WorkerStep(p, w),
         NEW v \in Worker, v # w
  PROVE  at'[p][v] = at[p][v] /\ PairIn(p, v)' = PairIn(p, v)
<1>1. args' = args
  BY DEF WorkerStep, TakeSource, TakeCandidate, Look, PrintRow, Flush, Record, setup
<1>2. at'[p][v] = at[p][v]
  BY DEF WorkerStep, TakeSource, TakeCandidate, Look, PrintRow, Flush, Record,
         Advance, Go, TypeOK
<1>3. job'[p][v] = job[p][v]
  BY DEF WorkerStep, TakeSource, TakeCandidate, Look, PrintRow, Flush, Record,
         Advance, TypeOK
<1>4. QED
  BY <1>1, <1>2, <1>3 DEF PairIn, Source, Candidate

\* What Push does to the rows that wait, if the stream is still good after it.
LEMMA PushDelivers ==
  ASSUME TypeOK, NEW p \in Proc, NEW rows, Push(p, rows)
  PROVE  /\ buf'[p] = {}
         /\ stream'[p] = "good" => stream[p] = "good" /\ output' = output \cup rows
BY DEF Push, TypeOK

\* A step of a worker: it flushes what it printed before it goes on to record.
LEMMA WorkerPrinted ==
  ASSUME TypeOK, NEW p \in Proc, NEW w \in Worker, WorkerStep(p, w),
         PrintedOf(p), BufferOf(p), output \subseteq output'
  PROVE  PrintedOf(p)' /\ BufferOf(p)'
<1>a. args' = args
  BY DEF WorkerStep, TakeSource, TakeCandidate, Look, PrintRow, Flush, Record, setup
<1>v. \A v \in Worker : v # w => at'[p][v] = at[p][v] /\ PairIn(p, v)' = PairIn(p, v)
  BY TeamMates
<1>q. ASSUME at[p][w] # "flushing", at'[p][w] \notin {"flushing", "recording"},
             UNCHANGED <<output, buf, stream>>
      PROVE  PrintedOf(p)' /\ BufferOf(p)'
  <2>1. PrintedOf(p)'
    BY <1>q, <1>a, <1>v DEF PrintedOf
  <2>2. BufferOf(p)'
    BY <1>q, <1>a, <1>v DEF BufferOf
  <2>3. QED
    BY <2>1, <2>2
<1>1. CASE TakeSource(p, w) \/ TakeCandidate(p, w) \/ Look(p, w)
  <2>1. UNCHANGED <<output, buf, stream>> /\ at[p][w] # "flushing"
    BY <1>1 DEF TakeSource, TakeCandidate, Look, Comparing, env, out
  <2>2. at'[p][w] \in {"idle", "looking", "printing"}
    BY <1>1 DEF TakeSource, TakeCandidate, Look, Advance, Comparing, Go, TypeOK
  <2>3. QED
    BY <2>1, <2>2, <1>q
<1>2. CASE Record(p, w)
  <2>1. UNCHANGED <<output, buf, stream>> /\ at[p][w] # "flushing"
    BY <1>2 DEF Record, Comparing, env, out
  <2>2. at'[p][w] \in {"idle", "looking", "halting"}
    BY <1>2 DEF Record, Advance, Go, TypeOK
  <2>3. QED
    BY <2>1, <2>2, <1>q
<1>3. CASE PrintRow(p, w)
  <2> DEFINE row == RowOf(p, w)
  <2>1. at[p][w] = "printing" /\ at'[p][w] = "flushing" /\ job' = job
    BY <1>3 DEF PrintRow, Comparing, Go, TypeOK
  <2>2. row.pair = PairIn(p, w) /\ row.run = args[p].run
    BY <2>1, RowType
  <2>3. PairIn(p, w)' = PairIn(p, w)
    BY <2>1, <1>a DEF PairIn, Source, Candidate
  <2>4. Among(PairIn(p, w), args[p].run, {row})
    BY <2>2 DEF Among
  <2>5. CASE Push(p, buf[p] \cup {row})
    <3>1. stream'[p] = "good" => stream[p] = "good" /\ output' = output \cup buf[p] \cup {row}
      BY <2>5, PushDelivers
    <3>2. buf'[p] = {}
      BY <2>5, PushDelivers
    <3>3. \A v \in Worker : at[p][v] = "recording" => Among(PairIn(p, v), args[p].run, output')
      BY AmongGrows DEF PrintedOf
    <3>4. \A v \in Worker : at[p][v] = "flushing" /\ stream'[p] = "good" =>
            Among(PairIn(p, v), args[p].run, output')
      BY <3>1, AmongGrows DEF PrintedOf
    <3>5. stream'[p] = "good" => Among(PairIn(p, w), args[p].run, output')
      BY <3>1, <2>4, AmongGrows
    <3>6. PrintedOf(p)'
      BY <3>2, <3>3, <3>4, <3>5, <2>1, <2>3, <1>a, <1>v DEF PrintedOf
    <3>7. QED
      BY <3>2, <3>6 DEF BufferOf
  <2>6. CASE buf' = [buf EXCEPT ![p] = @ \cup {row}] /\ UNCHANGED <<output, stream>>
    <3>1. buf'[p] = buf[p] \cup {row}
      BY <2>6 DEF TypeOK
    <3>2. \A v \in Worker : at[p][v] = "flushing" /\ stream[p] = "good" =>
            Among(PairIn(p, v), args[p].run, output \cup buf'[p])
      BY <3>1, AmongGrows DEF PrintedOf
    <3>3. Among(PairIn(p, w), args[p].run, output \cup buf'[p])
      BY <3>1, <2>4, AmongGrows
    <3>4. PrintedOf(p)'
      BY <3>2, <3>3, <2>1, <2>3, <2>6, <1>a, <1>v DEF PrintedOf
    <3>5. BufferOf(p)'
      BY <3>1, <2>1, <2>2, <1>a DEF BufferOf
    <3>6. QED
      BY <3>4, <3>5
  <2>7. QED
    BY <1>3, <2>5, <2>6 DEF PrintRow
<1>4. CASE Flush(p, w)
  <2>1. at[p][w] = "flushing" /\ job' = job /\ Push(p, buf[p])
    BY <1>4 DEF Flush, Comparing
  <2>2. at'[p][w] = IF stream'[p] = "failed" THEN "halting" ELSE "recording"
    BY <1>4 DEF Flush, Go, TypeOK
  <2>3. PairIn(p, w)' = PairIn(p, w)
    BY <2>1, <1>a DEF PairIn, Source, Candidate
  <2>4. /\ buf'[p] = {}
        /\ stream'[p] = "good" => stream[p] = "good" /\ output' = output \cup buf[p]
    BY <2>1, PushDelivers
  <2>5. stream'[p] \in {"good", "failed"}
    BY <2>1 DEF Push, TypeOK
  <2>6. \A v \in Worker : at[p][v] = "flushing" /\ stream'[p] = "good" =>
          Among(PairIn(p, v), args[p].run, output')
    BY <2>4 DEF PrintedOf
  <2>7. \A v \in Worker : at[p][v] = "recording" => Among(PairIn(p, v), args[p].run, output')
    BY AmongGrows DEF PrintedOf
  <2>8. output' \cup buf'[p] = output'
    BY <2>4
  <2>9. PrintedOf(p)'
    BY <2>1, <2>2, <2>3, <2>5, <2>6, <2>7, <2>8, <1>a, <1>v DEF PrintedOf
  <2>10. QED
    BY <2>4, <2>9 DEF BufferOf
<1>5. QED
  BY <1>1, <1>2, <1>3, <1>4 DEF WorkerStep

\* What has been printed is in the output before the pair is recorded, and the
\* buffer holds no row that no worker will flush.
LEMMA StepPrinted ==
  ASSUME DeliveryInv, NEW p \in Proc, ProcessStep(p)
  PROVE  PrintedInv' /\ BufferInv'
<1> USE DEF DeliveryInv
<1>o. output \subseteq output'
  BY OthersKept
<1> SUFFICES PrintedOf(p)' /\ BufferOf(p)'
  <2>1. \A q \in Proc : q # p => PrintedOf(q)' /\ BufferOf(q)'
    BY OthersKept, KeptKeeps, ByProcess
  <2>2. QED
    BY <2>1, ByProcess
<1>0. PrintedOf(p) /\ BufferOf(p)
  BY ByProcess
<1>g. Gone(p) => PrintedOf(p)' /\ BufferOf(p)'
  BY GoneDelivers
<1>1. CASE Start(p)
  <2>1. \A w \in Worker : at[p][w] = "idle"
    BY <1>1 DEF Start, TeamInv
  <2>2. buf[p] = {}
    BY <1>0, <2>1 DEF BufferOf
  <2>3. at'[p] = at[p] /\ buf'[p] = buf[p]
    BY <1>1 DEF Start, team
  <2>4. QED
    BY <2>1, <2>2, <2>3 DEF PrintedOf, BufferOf
<1>2. CASE MainStep(p)
  <2>1. CASE ~Gone(p)
    <3>1. UNCHANGED <<args, at, job, out>>
      BY <1>2, <2>1 DEF MainStep, Open, Lock, Refuse, DiscardTail, Load, ClaimLedger,
                        NoteInput, BeginTeam, Halt, Join, Close, Finish, setup, team
    <3>2. \A w \in Worker : PairIn(p, w)' = PairIn(p, w)
      BY <3>1 DEF PairIn, Source, Candidate
    <3>3. PrintedOf(p)'
      <4>1. output \cup buf[p] \subseteq output' \cup buf[p]
        BY <1>o
      <4>2. \A w \in Worker :
              /\ at[p][w] = "recording" => Among(PairIn(p, w), args[p].run, output')
              /\ at[p][w] = "flushing" /\ stream[p] = "good" =>
                   Among(PairIn(p, w), args[p].run, output' \cup buf[p])
        BY <4>1, <1>o, <1>0, AmongGrows DEF PrintedOf
      <4>3. QED
        BY <4>2, <3>1, <3>2 DEF PrintedOf, out
    <3>4. BufferOf(p)'
      BY <3>1, <1>0 DEF BufferOf, out
    <3>5. QED
      BY <3>3, <3>4
  <2>2. QED
    BY <2>1, <1>g
<1>3. ASSUME NEW w \in Worker, WorkerStep(p, w)
      PROVE  PrintedOf(p)' /\ BufferOf(p)'
  BY <1>3, <1>0, <1>o, WorkerPrinted
<1>4. CASE Kill(p)
  BY <1>4, <1>g DEF Kill
<1>5. QED
  BY <1>1, <1>2, <1>3, <1>4 DEF ProcessStep

\* Every step keeps the invariant of the delivery.
LEMMA NextDelivery == DeliveryInv /\ [Next]_vars => DeliveryInv'
<1> SUFFICES ASSUME DeliveryInv, [Next]_vars
             PROVE  ClaimInv' /\ PrintedInv' /\ BufferInv'
  BY NextTypeOK, NextOneHolder DEF DeliveryInv
<1>0. TypeOK /\ TeamInv /\ ClaimInv /\ PrintedInv /\ BufferInv
  BY DEF DeliveryInv
<1>1. ASSUME NEW p \in Proc, ProcessStep(p)
      PROVE  ClaimInv' /\ PrintedInv' /\ BufferInv'
  BY <1>1, StepClaim, StepPrinted
<1>2. ASSUME output' = output, ledger' = ledger, UNCHANGED <<phase, setup, team, out>>
      PROVE  ClaimInv' /\ PrintedInv' /\ BufferInv'
  <2>1. \A p \in Proc, w \in Worker : PairIn(p, w)' = PairIn(p, w)
    BY <1>2 DEF PairIn, Source, Candidate, setup, team
  <2>2. QED
    BY <2>1, <1>0, <1>2 DEF ClaimInv, PrintedInv, BufferInv, setup, team, out
<1>3. CASE ReplaceInput
  BY <1>3, <1>2 DEF ReplaceInput
<1>4. CASE UNCHANGED vars
  BY <1>4, <1>2 DEF vars, setup, team, out
<1>5. CASE StartOver
  <2>1. \A p \in Proc : phase'[p] = "idle"
    BY <1>5 DEF StartOver, AllIdle
  <2>2. \A p \in Proc, w \in Worker : at'[p][w] = "idle"
    BY <1>5, <1>0 DEF StartOver, AllIdle, TeamInv, team
  <2>3. UNCHANGED <<buf, at, args>>
    BY <1>5 DEF StartOver, out, team, setup
  <2>4. QED
    BY <2>1, <2>2, <2>3, <1>0 DEF ClaimInv, PrintedInv, BufferInv
<1>6. QED
  BY <1>1, <1>3, <1>4, <1>5 DEF Next, ProcessStep

\* The initial states satisfy the invariant of the delivery.
LEMMA InitDelivery == Init => DeliveryInv
<1> SUFFICES ASSUME Init
             PROVE  ClaimInv /\ PrintedInv /\ BufferInv /\ OneHolder
  BY InitTypeOK DEF DeliveryInv
<1>1. ClaimInv /\ OneHolder
  BY DEF Init, ClaimInv, OneHolder, Holding
<1>2. PrintedInv /\ BufferInv
  BY DEF Init, PrintedInv, BufferInv
<1>3. QED
  BY <1>1, <1>2

-----------------------------------------------------------------------------
(* The refinement *)

\* The rows of the output as the batch sees them.
Rows(o) == {[pair |-> row.pair, run |-> row.run] : row \in o}

\* Rows add up, and a set of deliveries is one record for each pair.
LEMMA RowsUnion == ASSUME NEW o, NEW more PROVE Rows(o \cup more) = Rows(o) \cup Rows(more)
BY DEF Rows

\* The rows the batch calls a delivery.
LEMMA DeliveryIs ==
  ASSUME NEW S, NEW r
  PROVE  Batch!Delivery(S, r) = {[pair |-> x, run |-> r] : x \in S}
<1>1. ASSUME NEW d \in Batch!Delivery(S, r)
      PROVE  \E x \in S : d = [pair |-> x, run |-> r]
  BY <1>1 DEF Batch!Delivery
<1>2. ASSUME NEW x \in S
      PROVE  [pair |-> x, run |-> r] \in Batch!Delivery(S, r)
  BY <1>2 DEF Batch!Delivery
<1>3. QED
  BY <1>1, <1>2

\* Rows of one run that share out a set of pairs are a delivery of that set.
LEMMA RowsOfRun ==
  ASSUME NEW o, NEW r, \A row \in o : row.run = r
  PROVE  Rows(o) = Batch!Delivery({row.pair : row \in o}, r)
<1>1. Rows(o) = {[pair |-> row.pair, run |-> r] : row \in o}
  BY DEF Rows
<1>2. QED
  BY <1>1, DeliveryIs

\* Initially the batch has what an unrecorded build has finished.
LEMMA InitMaps == Init => Batch!Init
<1> SUFFICES ASSUME Init
             PROVE  Batch!Init
  OBVIOUS
<1>1. PICK old \in SUBSET Legacy :
        /\ ledger = [EmptyLedger EXCEPT !.pairs = old]
        /\ output = {LegacyRow(x) : x \in old}
  BY DEF Init
<1>2. ledger.run = NoRun /\ ledger.pairs = old /\ ledger.misnamed = {}
  BY <1>1 DEF EmptyLedger
<1>3. old \in SUBSET Pair
  BY LegacyAssumption
<1>4. Rows(output) = Batch!Delivery(old, NoRun)
  <2>1. \A x \in old : LegacyRow(x).pair = x /\ LegacyRow(x).run = NoRun
    BY DEF LegacyRow
  <2>2. {row.pair : row \in output} = old
    BY <1>1, <2>1
  <2>3. \A row \in output : row.run = NoRun
    BY <1>1, <2>1
  <2>4. QED
    BY <2>2, <2>3, RowsOfRun
<1>5. QED
  BY <1>2, <1>3, <1>4 DEF Batch!Init, Rows

\* Rows of this run that reach the output are a delivery of the batch.
LEMMA SendingDelivers ==
  ASSUME DeliveryInv, NEW p \in Proc, phase[p] = "comparing", NEW sent \in SUBSET Row,
         \A row \in sent : row.run = args[p].run,
         output' = output \cup sent, ledger'.run = ledger.run,
         ledger'.pairs = ledger.pairs, ledger'.misnamed = ledger.misnamed
  PROVE  Batch!Next
<1>1. ledger.run = args[p].run
  BY DEF DeliveryInv, ClaimInv
<1>2. ledger.run # NoRun
  BY <1>1, CommandType, RunAssumption DEF DeliveryInv, TypeOK
<1>3. Rows(output') = Rows(output) \cup Batch!Delivery({row.pair : row \in sent}, ledger.run)
  <2>1. Rows(sent) = Batch!Delivery({row.pair : row \in sent}, args[p].run)
    BY RowsOfRun
  <2>2. Rows(output \cup sent) = Rows(output) \cup Rows(sent)
    BY RowsUnion
  <2>3. QED
    BY <2>1, <2>2, <1>1
<1>4. {row.pair : row \in sent} \in SUBSET Pair
  <2>1. \A row \in sent : row.pair \in Pair
    BY DEF Row
  <2>2. QED
    BY <2>1
<1>5. QED
  BY <1>2, <1>3, <1>4 DEF Batch!Next, Batch!Deliver, Rows

\* A push of the buffer and of a worker's new row is one, too.
LEMMA PushDeliversRows ==
  ASSUME DeliveryInv, NEW p \in Proc, phase[p] = "comparing", NEW rows \in SUBSET Row,
         \A row \in rows : row.run = args[p].run,
         Push(p, rows), ledger' = ledger
  PROVE  Batch!Next
<1>1. PICK sent \in SUBSET rows : output' = output \cup sent
  BY DEF Push
<1>2. QED
  BY <1>1, SendingDelivers

\* A step that leaves the run, the pairs and the output alone stutters.
LEMMA NothingHappens ==
  ASSUME ledger'.run = ledger.run, ledger'.pairs = ledger.pairs,
         ledger'.misnamed = ledger.misnamed, output' = output
  PROVE  UNCHANGED Batch!vars
BY DEF Batch!vars

\* A step of a main thread is a step of the batch, or a stutter.
LEMMA MainMaps ==
  ASSUME DeliveryInv, NEW p \in Proc, MainStep(p)
  PROVE  Batch!Next \/ UNCHANGED Batch!vars
<1>0. /\ TypeOK /\ TeamInv /\ ClaimInv /\ BufferInv
      /\ buf[p] \in SUBSET Row /\ \A row \in buf[p] : row.run = args[p].run
  BY DEF DeliveryInv, TypeOK, BufferInv
<1>f. FailedAppend => /\ ledger'.run = ledger.run /\ ledger'.pairs = ledger.pairs
                      /\ ledger'.misnamed = ledger.misnamed
  BY <1>0, FailedAppendType, TypeParts
<1>1. CASE Open(p) \/ Load(p) \/ BeginTeam(p) \/ Join(p) \/ Close(p)
  BY <1>1, NothingHappens DEF Open, Lock, Load, BeginTeam, Join, Close, Refuse, env
<1>2. CASE DiscardTail(p)
  BY <1>2, <1>0, NothingHappens DEF DiscardTail, Refuse, env, TypeOK
<1>3. CASE ClaimLedger(p)
  <2>1. CASE ledger' = [ledger EXCEPT !.run = args[p].run] /\ UNCHANGED env
    <3>1. ledger.run = NoRun
      BY <1>3, <1>0 DEF ClaimLedger, ClaimInv
    <3>2. /\ ledger'.run \in Run /\ ledger'.pairs = ledger.pairs
          /\ ledger'.misnamed = ledger.misnamed /\ output' = output
      BY <2>1, <1>0, CommandType DEF TypeOK, env
    <3>3. QED
      BY <3>1, <3>2 DEF Batch!Next, Batch!Claim
  <2>2. QED
    BY <2>1, <1>3, <1>f, NothingHappens DEF ClaimLedger, env
<1>4. CASE NoteInput(p)
  <2>1. /\ ledger'.run = ledger.run /\ ledger'.pairs = ledger.pairs
        /\ ledger'.misnamed = ledger.misnamed /\ output' = output
    BY <1>4, <1>0, <1>f DEF NoteInput, Refuse, env, TypeOK
  <2>2. QED
    BY <2>1, NothingHappens
<1>5. CASE Halt(p)
  <2>1. PICK sent \in SUBSET buf[p] : output' = output \cup sent
    BY <1>5 DEF Halt
  <2>2. phase[p] = "comparing" /\ ledger' = ledger
    BY <1>5 DEF Halt, Comparing
  <2>3. QED
    BY <2>1, <2>2, <1>0, SendingDelivers
<1>6. CASE Finish(p)
  <2>1. buf[p] = {}
    BY <1>6, <1>0 DEF Finish, TeamInv, BufferInv
  <2>2. output' = output /\ ledger' = ledger
    BY <1>6, <2>1 DEF Finish
  <2>3. QED
    BY <2>2, NothingHappens
<1>7. QED
  BY <1>1, <1>2, <1>3, <1>4, <1>5, <1>6 DEF MainStep

\* So is a step of a worker.
LEMMA WorkerMaps ==
  ASSUME DeliveryInv, NEW p \in Proc, NEW w \in Worker, WorkerStep(p, w)
  PROVE  Batch!Next \/ UNCHANGED Batch!vars
<1>0. /\ TypeOK /\ ClaimInv /\ PrintedInv /\ phase[p] = "comparing"
      /\ buf[p] \in SUBSET Row /\ \A row \in buf[p] : row.run = args[p].run
  BY DEF DeliveryInv, TypeOK, BufferInv, WorkerStep, TakeSource, TakeCandidate, Look,
         PrintRow, Flush, Record, Comparing
<1>1. CASE TakeSource(p, w) \/ TakeCandidate(p, w) \/ Look(p, w)
  BY <1>1, NothingHappens DEF TakeSource, TakeCandidate, Look, env
<1>2. CASE PrintRow(p, w)
  <2>1. at[p][w] # "idle"
    BY <1>2 DEF PrintRow, Comparing
  <2>2. /\ buf[p] \cup {RowOf(p, w)} \in SUBSET Row
        /\ \A row \in buf[p] \cup {RowOf(p, w)} : row.run = args[p].run
    BY <2>1, <1>0, RowType
  <2>3. CASE Push(p, buf[p] \cup {RowOf(p, w)})
    BY <2>2, <2>3, <1>0, <1>2, PushDeliversRows DEF PrintRow
  <2>4. QED
    BY <2>3, <1>2, NothingHappens DEF PrintRow
<1>3. CASE Flush(p, w)
  BY <1>3, <1>0, PushDeliversRows DEF Flush
<1>4. CASE Record(p, w)
  <2>0. output' = output
    BY <1>4 DEF Record, env
  <2>1. CASE FailedAppend
    BY <2>0, <2>1, <1>0, FailedAppendType, TypeParts, NothingHappens
  <2>2. CASE Recorded(PairIn(p, w))
    <3>1. at[p][w] = "recording" /\ ledger.run = args[p].run
      BY <1>4, <1>0 DEF Record, Comparing, ClaimInv
    <3>2. PICK row \in output : row.pair = PairIn(p, w) /\ row.run = ledger.run
      BY <3>1, <1>0 DEF PrintedInv, Among
    <3>3. [pair |-> PairIn(p, w), run |-> ledger.run] \in Rows(output)
      BY <3>2 DEF Rows
    <3>4. PairIn(p, w) \in Pair
      BY <3>1, <1>0, JobType
    <3>5. ledger'.run = ledger.run
      BY <2>2, <3>4, <1>0, RecordedKeeps
    <3>6. CASE /\ ledger'.pairs = ledger.pairs \cup {PairIn(p, w)}
               /\ ledger'.misnamed = ledger.misnamed
      BY <2>0, <3>3, <3>4, <3>5, <3>6 DEF Batch!Next, Batch!Complete, Rows
    <3>7. CASE ledger'.pairs = ledger.pairs /\ ledger'.misnamed = ledger.misnamed
      BY <2>0, <3>5, <3>7, NothingHappens
    <3>8. CASE /\ ledger'.pairs = ledger.pairs
               /\ \E y \in Misnamable : ledger'.misnamed = ledger.misnamed \cup {y}
      BY <2>0, <3>5, <3>8 DEF Batch!Next, Batch!Misname
    <3>9. QED
      BY <2>2, <3>4, <1>0, <3>6, <3>7, <3>8, RecordedKeeps
  <2>3. QED
    BY <2>1, <2>2, <1>4 DEF Record
<1>5. QED
  BY <1>1, <1>2, <1>3, <1>4 DEF WorkerStep

\* Every step of the program is a step of the batch, or a stutter.
LEMMA NextMaps == DeliveryInv /\ [Next]_vars => [Batch!Next]_(Batch!vars)
<1> SUFFICES ASSUME DeliveryInv, [Next]_vars
             PROVE  Batch!Next \/ UNCHANGED Batch!vars
  OBVIOUS
<1>1. ASSUME NEW p \in Proc, Start(p)
      PROVE  UNCHANGED Batch!vars
  BY <1>1, NothingHappens DEF Start, env
<1>2. ASSUME NEW p \in Proc, Kill(p)
      PROVE  UNCHANGED Batch!vars
  BY <1>2, NothingHappens DEF Kill, Torn, env, DeliveryInv, TypeOK
<1>3. CASE ReplaceInput
  BY <1>3, NothingHappens DEF ReplaceInput
<1>4. CASE StartOver
  <2>1. ledger'.run = NoRun /\ ledger'.pairs = {} /\ ledger'.misnamed = {} /\ output' = {}
    BY <1>4 DEF StartOver, EmptyLedger
  <2>2. QED
    BY <2>1 DEF Batch!Next, Batch!StartOver
<1>5. CASE UNCHANGED vars
  BY <1>5, NothingHappens DEF vars
<1>6. QED
  BY <1>1, <1>2, <1>3, <1>4, <1>5, MainMaps, WorkerMaps DEF Next

\* The program implements the batch: whatever was killed, torn, refused or
\* failed, every step of it is one the batch allows.
THEOREM Refines == Spec => ImplementsBatch
<1>1. Init => DeliveryInv /\ Batch!Init
  BY InitDelivery, InitMaps
<1>2. DeliveryInv /\ [Next]_vars => DeliveryInv'
  BY NextDelivery
<1>3. DeliveryInv /\ [Next]_vars => [Batch!Next]_(Batch!vars)
  BY NextMaps
<1>4. Spec => Batch!Spec
  BY <1>1, <1>2, <1>3, PTL DEF Spec, Batch!Spec
<1>5. QED
  BY <1>4 DEF ImplementsBatch

\* A pair that a worker has recorded is in the output, by the run the ledger names.
THEOREM Delivered == Spec => []RecordedIsDelivered
<1>1. Batch!DoneIsDelivered /\ Batch!OneOrigin => RecordedIsDelivered
  <2> SUFFICES ASSUME Batch!DoneIsDelivered, Batch!OneOrigin, NEW x \in ledger.pairs
               PROVE  \E row \in output : row.pair = x /\ row.run \in {NoRun, ledger.run}
    BY DEF RecordedIsDelivered
  <2>1. PICK d \in Rows(output) : d.pair = x
    BY DEF Batch!DoneIsDelivered, Rows
  <2>2. d.run \in {NoRun, ledger.run}
    BY <2>1 DEF Batch!OneOrigin, Rows
  <2>3. PICK row \in output : d = [pair |-> row.pair, run |-> row.run]
    BY <2>1 DEF Rows
  <2>4. QED
    BY <2>1, <2>2, <2>3
<1>2. ImplementsBatch =>
        [](Batch!DoneIsDelivered /\ Batch!SkippedIsDelivered /\ Batch!OneOrigin)
  BY Batch!BatchPromise DEF ImplementsBatch
<1>3. QED
  BY <1>1, <1>2, Refines, PTL

\* Where no line can read as another one when it fuses with the torn beginning of
\* a third, a listed pair that ledgerOpen takes for done is in the output: the
\* names of the files are the only way a pair is lost.
THEOREM OnlyNamesMislead ==
  ASSUME Fuses = {}
  PROVE  Spec => []MarkedIsPrinted
<1>1. Batch!SkippedIsDelivered => MarkedIsPrinted
  <2> SUFFICES ASSUME Batch!SkippedIsDelivered, NEW x \in ledger.pairs \cup ledger.misnamed
               PROVE  \E row \in output : row.pair = x
    BY DEF MarkedIsPrinted
  <2>1. Misnamable = {}
    BY DEF Misnamable
  <2>2. PICK d \in Rows(output) : d.pair = x
    BY <2>1 DEF Batch!SkippedIsDelivered, Rows
  <2>3. PICK row \in output : d = [pair |-> row.pair, run |-> row.run]
    BY <2>2 DEF Rows
  <2>4. QED
    BY <2>2, <2>3
<1>2. ImplementsBatch =>
        [](Batch!DoneIsDelivered /\ Batch!SkippedIsDelivered /\ Batch!OneOrigin)
  BY Batch!BatchPromise DEF ImplementsBatch
<1>3. QED
  BY <1>1, <1>2, Refines, PTL

\* The inductive invariant holds of every reachable state.
THEOREM InvariantHolds == Spec => []IInv
<1>1. Init => DeliveryInv
  BY InitDelivery
<1>2. DeliveryInv /\ [Next]_vars => DeliveryInv'
  BY NextDelivery
<1>3. DeliveryInv /\ RecordedIsDelivered => IInv
  BY DEF DeliveryInv, IInv
<1>4. QED
  BY <1>1, <1>2, <1>3, Delivered, PTL DEF Spec

-----------------------------------------------------------------------------
(* No pair is compared twice *)

\* What worker w has was handed out, and is not what v has.
HandedOut(p, w) ==
  IF SingleSource(args[p]) THEN job[p][w].i = 1 /\ job[p][w].j < next[p]
                           ELSE job[p][w].i < next[p]
Apart(p, v, w) ==
  IF SingleSource(args[p]) THEN job[p][v].j # job[p][w].j ELSE job[p][v].i # job[p][w].i

\* The table has what the ledger has, the team shares out the iterations, and
\* no busy worker has a pair of the table.
Loaded == {"claiming", "noting", "comparing", "closing"}
ShareOf(p) ==
  /\ phase[p] \in Loaded => ledger.pairs \subseteq table[p]
  /\ \A w \in Worker : at[p][w] # "idle" => HandedOut(p, w)
  /\ \A v, w \in Worker : v # w /\ at[p][v] # "idle" /\ at[p][w] # "idle" => Apart(p, v, w)
  /\ NamesOnce(args[p]) => \A w \in Worker : Busy(p, w) => PairIn(p, w) \notin table[p]
ShareInv == \A p \in Proc : ShareOf(p)

\* In a list that names no file twice two iterations are two pairs.
LEMMA PairsDiffer ==
  ASSUME TypeOK, NEW p \in Proc, NEW v \in Worker, NEW w \in Worker, NamesOnce(args[p]),
         at[p][v] # "idle", at[p][w] # "idle", HandedOut(p, v), HandedOut(p, w), Apart(p, v, w)
  PROVE  PairIn(p, v) # PairIn(p, w)
<1> DEFINE files == args[p].files
           i == job[p][v].i
           j == job[p][v].j
           k == job[p][w].i
           l == job[p][w].j
<1>1. <<i, j>> \in Iterations(args[p]) /\ <<k, l>> \in Iterations(args[p]) /\ args[p] \in Commands
  BY DEF TypeOK
<1>2. /\ i \in 1..Len(files) /\ j \in 1..Len(files) /\ i < j
      /\ k \in 1..Len(files) /\ l \in 1..Len(files) /\ k < l
  BY <1>1, IterationType
<1>3. i # k \/ j # l
  BY DEF Apart
<1>4. PairIn(p, v) = {files[i], files[j]} /\ PairIn(p, w) = {files[k], files[l]}
  BY DEF PairIn, PairOf, Source, Candidate
<1>5. \A a, b \in 1..Len(files) : files[a] = files[b] => a = b
  BY DEF NamesOnce
<1> HIDE DEF files, i, j, k, l
<1>6. ASSUME {files[i], files[j]} = {files[k], files[l]} PROVE FALSE
  <2>1. (files[i] = files[k] /\ files[j] = files[l]) \/ (files[i] = files[l] /\ files[j] = files[k])
    BY <1>6
  <2>2. (i = k /\ j = l) \/ (i = l /\ j = k)
    BY <1>2, <1>5, <2>1
  <2>3. i \in Nat /\ j \in Nat /\ k \in Nat /\ l \in Nat
    BY <1>2
  <2> QED BY <1>2, <1>3, <2>2, <2>3
<1> QED BY <1>4, <1>6

\* A process without a team shares out nothing.
LEMMA NobodyShares ==
  ASSUME NEW p \in Proc, \A w \in Worker : at'[p][w] = "idle",
         phase'[p] \in Loaded => ledger'.pairs \subseteq table'[p]
  PROVE  ShareOf(p)'
BY DEF ShareOf, Busy

LEMMA GoneShares ==
  ASSUME TypeOK, NEW p \in Proc, Gone(p)
  PROVE  ShareOf(p)'
<1>1. \A w \in Worker : at'[p][w] = "idle"
  BY DEF Gone, TypeOK
<1>2. phase'[p] = "idle"
  BY DEF Gone, TypeOK
<1> QED BY <1>1, <1>2, NobodyShares DEF Loaded

\* Only a worker that records gives the ledger a pair.
LEMMA PairsKept ==
  ASSUME TypeOK, NEW p \in Proc, ProcessStep(p)
  PROVE  ledger'.pairs = ledger.pairs \/ phase[p] = "comparing"
<1> DEFINE Same == ledger'.pairs = ledger.pairs
<1>f. FailedAppend => Same
  BY FailedAppendType, TypeParts DEF FailedAppend, Torn, TypeOK
<1>1. CASE Start(p)
  BY <1>1 DEF Start
<1>2. CASE ClaimLedger(p)
  BY <1>2, <1>f DEF ClaimLedger, TypeOK
<1>3. CASE DiscardTail(p)
  BY <1>3 DEF DiscardTail, Refuse, TypeOK
<1>4. CASE NoteInput(p)
  BY <1>4, <1>f DEF NoteInput, Refuse, TypeOK
<1>5. CASE Open(p) \/ Load(p) \/ BeginTeam(p) \/ Halt(p) \/ Join(p) \/ Close(p) \/ Finish(p)
  BY <1>5 DEF Open, Lock, Load, BeginTeam, Halt, Join, Close, Finish, Refuse
<1>6. ASSUME NEW w \in Worker, WorkerStep(p, w)
      PROVE  phase[p] = "comparing"
  BY <1>6 DEF WorkerStep, TakeSource, TakeCandidate, Look, PrintRow, Flush, Record, Comparing
<1>7. CASE Kill(p)
  BY <1>7 DEF Kill, Torn, TypeOK
<1>8. QED
  BY <1>1, <1>2, <1>3, <1>4, <1>5, <1>6, <1>7 DEF ProcessStep, MainStep

\* A process leaves the tables and the iterations of the others alone.
LEMMA OthersShare ==
  ASSUME TypeOK, NEW p \in Proc, ProcessStep(p), NEW q \in Proc, q # p
  PROVE  table'[q] = table[q] /\ next'[q] = next[q]
<1>g. Gone(p) => table'[q] = table[q] /\ next'[q] = next[q]
  BY DEF Gone, TypeOK
<1>1. CASE Start(p)
  BY <1>1 DEF Start, team
<1>2. CASE MainStep(p)
  <2>1. CASE ~Gone(p)
    <3>1. /\ table' = table \/ table' = [table EXCEPT ![p] = ledger.pairs \cup ledger.misnamed]
          /\ next' = next \/ next' = [next EXCEPT ![p] = 2]
      BY <1>2, <2>1 DEF MainStep, Open, Lock, Refuse, DiscardTail, Load, ClaimLedger,
                        NoteInput, BeginTeam, Halt, Join, Close, Finish, setup, team
    <3> QED BY <3>1 DEF TypeOK
  <2> QED BY <2>1, <1>g
<1>3. ASSUME NEW w \in Worker, WorkerStep(p, w)
      PROVE  table'[q] = table[q] /\ next'[q] = next[q]
  BY <1>3 DEF WorkerStep, TakeSource, TakeCandidate, Look, PrintRow, Flush, Record, setup, TypeOK
<1>4. CASE Kill(p)
  BY <1>4, <1>g DEF Kill
<1> QED BY <1>1, <1>2, <1>3, <1>4 DEF ProcessStep

\* A step of a main thread: there is no team, or there is one and it is idle.
LEMMA MainShares ==
  ASSUME TypeOK, TeamInv, NEW p \in Proc, ShareOf(p), Start(p) \/ MainStep(p) \/ Kill(p)
  PROVE  ShareOf(p)'
<1>1. CASE Gone(p)
  BY <1>1, GoneShares
<1>2. CASE ~Gone(p)
  <2>1. /\ at' = at
        /\ phase[p] = "comparing" => \A w \in Worker : at[p][w] = "idle"
    BY <1>2 DEF Start, MainStep, Kill, Open, Lock, Refuse, DiscardTail, Load, ClaimLedger,
                NoteInput, BeginTeam, Halt, Join, Close, Finish, team
  <2>2. \A w \in Worker : at'[p][w] = "idle"
    BY <2>1 DEF TeamInv
  <2>3. phase'[p] \in Loaded => ledger'.pairs \subseteq table'[p]
    <3>1. CASE Start(p) \/ Open(p) \/ DiscardTail(p)
      BY <1>2, <3>1 DEF Start, Open, Lock, DiscardTail, Refuse, Enter, Loaded, TypeOK
    <3>2. CASE Load(p)
      BY <1>2, <3>2 DEF Load, Refuse, TypeOK
    <3>3. CASE ClaimLedger(p)
      BY <1>2, <3>3 DEF ClaimLedger, ShareOf, Loaded, TypeOK, setup
    <3>4. CASE NoteInput(p)
      BY <1>2, <3>4 DEF NoteInput, Refuse, ShareOf, Loaded, TypeOK
    <3>5. CASE BeginTeam(p) \/ Join(p)
      BY <1>2, <3>5 DEF BeginTeam, Join, ShareOf, Loaded, TypeOK, setup
    <3>6. CASE Close(p)
      BY <1>2, <3>6 DEF Close, Refuse, Enter, Loaded, TypeOK
    <3>7. ~Halt(p) /\ ~Finish(p) /\ ~Kill(p)
      BY <1>2 DEF Halt, Finish, Kill
    <3> QED BY <3>1, <3>2, <3>3, <3>4, <3>5, <3>6, <3>7 DEF MainStep
  <2> QED BY <2>2, <2>3, NobodyShares
<1> QED BY <1>1, <1>2

\* A step of worker w that hands out nothing and after which it is looked after.
LEMMA WorkerShares ==
  ASSUME TypeOK, NEW p \in Proc, NEW w \in Worker, ShareOf(p),
         args' = args, phase' = phase,
         next'[p] \in Nat, next[p] \in Nat, next[p] <= next'[p],
         \A v \in Worker \ {w} : at'[p][v] = at[p][v] /\ job'[p][v] = job[p][v],
         phase[p] \in Loaded => ledger'.pairs \subseteq table'[p],
         at'[p][w] # "idle" =>
           /\ HandedOut(p, w)'
           /\ \A v \in Worker \ {w} : at[p][v] # "idle" => Apart(p, v, w)' /\ Apart(p, w, v)',
         NamesOnce(args[p]) =>
           /\ Busy(p, w)' => PairIn(p, w)' \notin table'[p]
           /\ \A v \in Worker \ {w} : Busy(p, v) => PairIn(p, v) \notin table'[p]
  PROVE  ShareOf(p)'
<1>1. \A v \in Worker \ {w} : at'[p][v] # "idle" => HandedOut(p, v)'
  <2> SUFFICES ASSUME NEW v \in Worker \ {w}, at[p][v] # "idle" PROVE HandedOut(p, v)'
    OBVIOUS
  <2>1. HandedOut(p, v)
    BY DEF ShareOf
  <2>2. job[p][v].i \in Nat /\ job[p][v].j \in Nat
    BY DEF TypeOK
  <2> QED BY <2>1, <2>2 DEF HandedOut
<1>2. \A u, v \in Worker : u # v /\ at'[p][u] # "idle" /\ at'[p][v] # "idle" => Apart(p, u, v)'
  <2> SUFFICES ASSUME NEW u \in Worker, NEW v \in Worker, u # v,
                      at'[p][u] # "idle", at'[p][v] # "idle"
               PROVE  Apart(p, u, v)'
    OBVIOUS
  <2>1. CASE u # w /\ v # w
    BY <2>1 DEF ShareOf, Apart
  <2>2. CASE u = w
    BY <2>2
  <2>3. CASE v = w
    BY <2>3
  <2> QED BY <2>1, <2>2, <2>3
<1>3. ASSUME NamesOnce(args[p]), NEW v \in Worker, Busy(p, v)'
      PROVE  PairIn(p, v)' \notin table'[p]
  <2>1. CASE v = w
    BY <1>3, <2>1
  <2>2. CASE v # w
    <3>1. Busy(p, v) /\ PairIn(p, v)' = PairIn(p, v)
      BY <1>3, <2>2 DEF Busy, PairIn, Source, Candidate
    <3> QED BY <1>3, <2>2, <3>1
  <2> QED BY <2>1, <2>2
<1>4. \A v \in Worker : at'[p][v] # "idle" => HandedOut(p, v)'
  BY <1>1
<1> QED BY <1>2, <1>3, <1>4 DEF ShareOf

\* Return from comparePair: idle, or on to the next candidate of the same source.
LEMMA AdvanceShares ==
  ASSUME TypeOK, NEW p \in Proc, NEW w \in Worker, Advance(p, w)
  PROVE  /\ at'[p][w] \in {"idle", "looking"}
         /\ at'[p][w] # "idle" => ~SingleSource(args[p]) /\ job'[p][w].i = job[p][w].i
<1>1. CASE More(p, w)
  <2> DEFINE further == [job[p][w] EXCEPT !.j = @ + 1]
  <2>1. Go(p, w, "looking") /\ job' = [job EXCEPT ![p][w] = further] /\ ~SingleSource(args[p])
    BY <1>1 DEF Advance, More
  <2>2. job[p][w] \in [i : Nat, j : Nat]
    BY DEF TypeOK
  <2>3. further.i = job[p][w].i
    BY <2>2
  <2> HIDE DEF further
  <2>4. at'[p][w] = "looking" /\ job'[p][w] = further
    BY <2>1 DEF Go, TypeOK
  <2> QED BY <2>1, <2>3, <2>4
<1>2. CASE ~More(p, w)
  <2>1. at'[p][w] = "idle"
    BY <1>2 DEF Advance, Go, TypeOK
  <2> QED BY <2>1
<1> QED BY <1>1, <1>2

\* What a worker leaves alone.
LEMMA WorkerKeeps ==
  ASSUME TypeOK, NEW p \in Proc, NEW w \in Worker, WorkerStep(p, w)
  PROVE  /\ args' = args /\ phase' = phase /\ phase[p] = "comparing"
         /\ next'[p] \in Nat /\ next[p] \in Nat /\ next[p] <= next'[p]
         /\ \A v \in Worker \ {w} : at'[p][v] = at[p][v] /\ job'[p][v] = job[p][v]
<1>1. args' = args /\ phase' = phase /\ phase[p] = "comparing"
  BY DEF WorkerStep, TakeSource, TakeCandidate, Look, PrintRow, Flush, Record, setup, Comparing
<1>2. next'[p] = next[p] \/ next'[p] = next[p] + 1
  BY DEF WorkerStep, TakeSource, TakeCandidate, Look, PrintRow, Flush, Record, TypeOK
<1>3. next[p] \in Nat
  BY DEF TypeOK
<1>4. \A v \in Worker \ {w} : at'[p][v] = at[p][v] /\ job'[p][v] = job[p][v]
  BY DEF WorkerStep, TakeSource, TakeCandidate, Look, PrintRow, Flush, Record,
         Advance, Go, TypeOK
<1> QED BY <1>1, <1>2, <1>3, <1>4

\* A step of a worker: what it is handed nobody has, what it looks up it does
\* not compare if it is in the table, and what it records nobody else compares.
LEMMA WorkerStepShares ==
  ASSUME TypeOK, NEW p \in Proc, NEW w \in Worker, WorkerStep(p, w), ShareOf(p)
  PROVE  ShareOf(p)'
<1> DEFINE Mates == Worker \ {w}
<1>k. /\ args' = args /\ phase' = phase /\ phase[p] = "comparing"
      /\ next'[p] \in Nat /\ next[p] \in Nat /\ next[p] <= next'[p]
      /\ \A v \in Mates : at'[p][v] = at[p][v] /\ job'[p][v] = job[p][v]
  BY WorkerKeeps
<1>l. ledger.pairs \subseteq table[p]
  BY <1>k DEF ShareOf, Loaded
<1>h. \A v \in Worker : at[p][v] # "idle" =>
        HandedOut(p, v) /\ job[p][v].i \in Nat /\ job[p][v].j \in Nat
  BY DEF ShareOf, TypeOK
\* A step after which w, if it has a pair, is at the same source and iteration.
<1>s. ASSUME at[p][w] # "idle",
             at'[p][w] # "idle" =>
               \/ job'[p][w] = job[p][w]
               \/ ~SingleSource(args[p]) /\ job'[p][w].i = job[p][w].i
      PROVE  at'[p][w] # "idle" =>
               /\ HandedOut(p, w)'
               /\ \A v \in Mates : at[p][v] # "idle" => Apart(p, v, w)' /\ Apart(p, w, v)'
  <2> SUFFICES ASSUME at'[p][w] # "idle"
               PROVE  /\ HandedOut(p, w)'
                      /\ \A v \in Mates : at[p][v] # "idle" => Apart(p, v, w)' /\ Apart(p, w, v)'
    OBVIOUS
  <2>1. HandedOut(p, w)'
    BY <1>s, <1>k, <1>h DEF HandedOut
  <2>2. ASSUME NEW v \in Mates, at[p][v] # "idle"
        PROVE  Apart(p, v, w)' /\ Apart(p, w, v)'
    <3>1. Apart(p, v, w) /\ Apart(p, w, v)
      BY <1>s, <2>2 DEF ShareOf
    <3> QED BY <3>1, <1>s, <1>k DEF Apart
  <2> QED BY <2>1, <2>2
\* A step after which w is busy only if it was, with the same pair.
<1>q. ASSUME table' = table, job'[p][w] = job[p][w], ledger'.pairs = ledger.pairs,
             at[p][w] # "idle", at'[p][w] # "idle",
             Busy(p, w)' => Busy(p, w) \/ PairIn(p, w) \notin table[p]
      PROVE  ShareOf(p)'
  <2>1. PairIn(p, w)' = PairIn(p, w)
    BY <1>q, <1>k DEF PairIn, Source, Candidate
  <2>2. NamesOnce(args[p]) =>
          /\ Busy(p, w)' => PairIn(p, w)' \notin table'[p]
          /\ \A v \in Mates : Busy(p, v) => PairIn(p, v) \notin table'[p]
    BY <1>q, <2>1 DEF ShareOf
  <2> QED BY <1>q, <1>s, <1>k, <1>l, <2>2, WorkerShares
\* Return from comparePair.
<1>a. ASSUME Advance(p, w), at[p][w] # "idle", ledger'.pairs \subseteq table'[p],
             NamesOnce(args[p]) => \A v \in Mates : Busy(p, v) => PairIn(p, v) \notin table'[p]
      PROVE  ShareOf(p)'
  <2>1. ~Busy(p, w)'
    BY <1>a, AdvanceShares DEF Busy
  <2>2. at'[p][w] # "idle" => ~SingleSource(args[p]) /\ job'[p][w].i = job[p][w].i
    BY <1>a, AdvanceShares
  <2> QED BY <1>a, <1>s, <1>k, <2>1, <2>2, WorkerShares
\* An idle worker takes a new iteration.
<1>t. ASSUME table' = table, ledger' = ledger, at'[p][w] = "looking",
             HandedOut(p, w)',
             \A v \in Mates : at[p][v] # "idle" => Apart(p, v, w)' /\ Apart(p, w, v)'
      PROVE  ShareOf(p)'
  <2>1. ~Busy(p, w)'
    BY <1>t DEF Busy
  <2>2. NamesOnce(args[p]) => \A v \in Mates : Busy(p, v) => PairIn(p, v) \notin table'[p]
    BY <1>t DEF ShareOf
  <2> QED BY <1>t, <1>k, <1>l, <2>1, <2>2, WorkerShares
<1>1. CASE TakeSource(p, w)
  <2>1. /\ at[p][w] = "idle" /\ ~SingleSource(args[p]) /\ table' = table /\ ledger' = ledger
        /\ next'[p] = next[p] + 1
    BY <1>1 DEF TakeSource, Comparing, setup, TypeOK
  <2>2. CASE /\ Go(p, w, "looking")
             /\ job' = [job EXCEPT ![p][w] = [i |-> next[p], j |-> next[p] + 1]]
    <3>1. at'[p][w] = "looking" /\ job'[p][w].i = next[p]
      BY <2>2 DEF Go, TypeOK
    <3>2. HandedOut(p, w)'
      BY <2>1, <3>1, <1>k DEF HandedOut
    <3>3. ASSUME NEW v \in Mates, at[p][v] # "idle"
          PROVE  Apart(p, v, w)' /\ Apart(p, w, v)'
      <4>1. job[p][v].i < next[p] /\ job[p][v].i \in Nat
        BY <1>h, <2>1, <3>3 DEF HandedOut
      <4> QED BY <4>1, <2>1, <3>1, <3>3, <1>k DEF Apart
    <3> QED BY <2>1, <3>1, <3>2, <3>3, <1>t
  <2>3. CASE UNCHANGED <<at, job>>
    <3>1. at'[p][w] = "idle"
      BY <2>1, <2>3
    <3>2. NamesOnce(args[p]) => \A v \in Mates : Busy(p, v) => PairIn(p, v) \notin table'[p]
      BY <2>1 DEF ShareOf
    <3> QED BY <2>1, <3>1, <3>2, <1>k, <1>l, WorkerShares DEF Busy
  <2> QED BY <1>1, <2>2, <2>3 DEF TakeSource
<1>2. CASE TakeCandidate(p, w)
  <2>1. /\ SingleSource(args[p]) /\ table' = table /\ ledger' = ledger
        /\ next'[p] = next[p] + 1
        /\ Go(p, w, "looking")
        /\ job' = [job EXCEPT ![p][w] = [i |-> 1, j |-> next[p]]]
    BY <1>2 DEF TakeCandidate, setup, TypeOK
  <2>2. at'[p][w] = "looking" /\ job'[p][w].i = 1 /\ job'[p][w].j = next[p]
    BY <2>1 DEF Go, TypeOK
  <2>3. HandedOut(p, w)'
    BY <2>1, <2>2, <1>k DEF HandedOut
  <2>4. ASSUME NEW v \in Mates, at[p][v] # "idle"
        PROVE  Apart(p, v, w)' /\ Apart(p, w, v)'
    <3>1. job[p][v].j < next[p] /\ job[p][v].j \in Nat
      BY <1>h, <2>1, <2>4 DEF HandedOut
    <3> QED BY <3>1, <2>1, <2>2, <2>4, <1>k DEF Apart
  <2> QED BY <2>1, <2>2, <2>3, <2>4, <1>t
<1>3. CASE Look(p, w)
  <2>1. table' = table /\ ledger' = ledger /\ at[p][w] # "idle"
    BY <1>3 DEF Look, Comparing, setup
  <2>2. CASE Advance(p, w)
    <3>1. NamesOnce(args[p]) => \A v \in Mates : Busy(p, v) => PairIn(p, v) \notin table'[p]
      BY <2>1 DEF ShareOf
    <3> QED BY <2>1, <2>2, <3>1, <1>l, <1>a
  <2>3. CASE PairIn(p, w) \notin table[p] /\ Go(p, w, "printing") /\ UNCHANGED job
    <3>1. at'[p][w] = "printing"
      BY <2>3 DEF Go, TypeOK
    <3> QED BY <2>1, <2>3, <3>1, <1>q
  <2> QED BY <1>3, <2>2, <2>3 DEF Look
<1>4. CASE PrintRow(p, w) \/ Flush(p, w)
  <2>1. table' = table /\ ledger' = ledger /\ job' = job /\ Busy(p, w)
    BY <1>4 DEF PrintRow, Flush, Comparing, setup, Busy
  <2>2. at'[p][w] \in {"flushing", "halting", "recording"}
    BY <1>4 DEF PrintRow, Flush, Go, TypeOK
  <2> QED BY <2>1, <2>2, <1>q DEF Busy
<1>5. CASE Record(p, w)
  <2>1. at[p][w] = "recording"
    BY <1>5 DEF Record, Comparing
  <2>2. CASE /\ Recorded(PairIn(p, w)) /\ Advance(p, w)
             /\ table' = [table EXCEPT ![p] = @ \cup {PairIn(p, w)}]
    <3>1. table'[p] = table[p] \cup {PairIn(p, w)}
      BY <2>2 DEF TypeOK
    <3>2. ledger'.pairs \subseteq table'[p]
      <4>1. PairIn(p, w) \in Pair
        BY <2>1, <1>h, JobType
      <4> QED BY <4>1, <2>2, <3>1, <1>h, <1>l, RecordedKeeps
    <3>3. ASSUME NamesOnce(args[p]), NEW v \in Mates, Busy(p, v)
          PROVE  PairIn(p, v) \notin table'[p]
      <4>1. PairIn(p, v) \notin table[p]
        BY <3>3 DEF ShareOf
      <4>2. PairIn(p, v) # PairIn(p, w)
        <5>1. at[p][v] # "idle" /\ at[p][w] # "idle" /\ v # w
          BY <2>1, <3>3 DEF Busy
        <5>2. Apart(p, v, w)
          BY <5>1, <3>3 DEF ShareOf
        <5> QED BY <5>1, <5>2, <3>3, <1>h, PairsDiffer
      <4> QED BY <3>1, <4>1, <4>2
    <3> QED BY <2>1, <2>2, <3>2, <3>3, <1>a
  <2>3. CASE FailedAppend /\ Go(p, w, "halting") /\ UNCHANGED <<table, job>>
    <3>1. at'[p][w] = "halting"
      BY <2>3 DEF Go, TypeOK
    <3>2. ledger'.pairs = ledger.pairs
      BY <2>3, FailedAppendType, TypeParts DEF FailedAppend, Torn, TypeOK
    <3> QED BY <2>1, <2>3, <3>1, <3>2, <1>q DEF Busy
  <2> QED BY <1>5, <2>2, <2>3 DEF Record
<1> QED BY <1>1, <1>2, <1>3, <1>4, <1>5 DEF WorkerStep

\* The ledger of a process that has it loaded gets no pair from another: only
\* who holds the lock compares.
LEMMA OthersShareStays ==
  ASSUME TypeOK, OneHolder, NEW p \in Proc, ProcessStep(p), NEW q \in Proc, q # p, ShareOf(q)
  PROVE  ShareOf(q)'
<1>1. Kept(q)
  BY OthersKept
<1>2. table'[q] = table[q] /\ next'[q] = next[q]
  BY OthersShare
<1>3. \A w \in Worker : PairIn(q, w)' = PairIn(q, w) /\ Busy(q, w)' = Busy(q, w)
  BY <1>1 DEF Kept, PairIn, Source, Candidate, Busy
<1>4. phase'[q] \in Loaded => ledger'.pairs \subseteq table'[q]
  <2>1. phase[q] \in Loaded => phase[p] # "comparing"
    BY DEF OneHolder, Holding, Loaded
  <2> QED BY <1>1, <1>2, <2>1, PairsKept DEF Kept, ShareOf
<1>5. \A w \in Worker : at'[q][w] # "idle" => HandedOut(q, w)'
  BY <1>1, <1>2 DEF Kept, ShareOf, HandedOut
<1>6. \A v, w \in Worker : v # w /\ at'[q][v] # "idle" /\ at'[q][w] # "idle" => Apart(q, v, w)'
  BY <1>1 DEF Kept, ShareOf, Apart
<1>7. NamesOnce(args'[q]) => \A w \in Worker : Busy(q, w)' => PairIn(q, w)' \notin table'[q]
  BY <1>1, <1>2, <1>3 DEF Kept, ShareOf
<1> QED BY <1>4, <1>5, <1>6, <1>7 DEF ShareOf

\* Every step shares the pairs out as before.
LEMMA NextShares == TypeOK /\ TeamInv /\ OneHolder /\ ShareInv /\ [Next]_vars => ShareInv'
<1> SUFFICES ASSUME TypeOK, TeamInv, OneHolder, ShareInv, [Next]_vars, NEW q \in Proc
             PROVE  ShareOf(q)'
  BY DEF ShareInv
<1>0. ShareOf(q)
  BY DEF ShareInv
<1>1. ASSUME NEW p \in Proc, ProcessStep(p)
      PROVE  ShareOf(q)'
  <2>1. CASE q # p
    BY <1>0, <1>1, <2>1, OthersShareStays
  <2>2. CASE q = p
    BY <1>0, <1>1, <2>2, MainShares, WorkerStepShares DEF ProcessStep
  <2> QED BY <2>1, <2>2
<1>2. ASSUME ledger' = ledger, UNCHANGED <<phase, setup, team>>
      PROVE  ShareOf(q)'
  BY <1>0, <1>2 DEF ShareOf, HandedOut, Apart, Busy, PairIn, Source, Candidate, setup, team
<1>3. CASE ReplaceInput
  BY <1>3, <1>2 DEF ReplaceInput
<1>4. CASE UNCHANGED vars
  BY <1>4, <1>2 DEF vars, setup, team
<1>5. CASE StartOver
  <2>1. \A w \in Worker : at'[q][w] = "idle"
    BY <1>5 DEF StartOver, AllIdle, TeamInv, team
  <2>2. phase'[q] = "idle"
    BY <1>5 DEF StartOver, AllIdle
  <2> QED BY <2>1, <2>2, NobodyShares DEF Loaded
<1> QED BY <1>1, <1>3, <1>4, <1>5 DEF Next, ProcessStep

\* In a list without repetitions no pair the ledger has is compared again, and
\* no two workers compare one pair, though the look-up and the record of a pair
\* are two critical sections of comparePair.
THEOREM NoPairTwice == Spec => []ComparedOnce
<1>1. Init => ShareInv
  BY DEF Init, ShareInv, ShareOf, Busy, Loaded
<1>2. TypeOK /\ TeamInv /\ OneHolder /\ ShareInv /\ [Next]_vars => ShareInv'
  BY NextShares
<1>3. TypeOK /\ ShareInv => ComparedOnce
  <2> SUFFICES ASSUME TypeOK, ShareInv, NEW p \in Proc,
                      phase[p] = "comparing", NamesOnce(args[p]),
                      NEW v \in Worker, NEW w \in Worker, Busy(p, w)
               PROVE  /\ PairIn(p, w) \notin ledger.pairs
                      /\ Busy(p, v) /\ PairIn(p, v) = PairIn(p, w) => v = w
    BY DEF ComparedOnce
  <2>1. PairIn(p, w) \notin ledger.pairs
    BY DEF ShareInv, ShareOf, Loaded
  <2>2. ASSUME Busy(p, v), v # w
        PROVE  PairIn(p, v) # PairIn(p, w)
    <3>1. at[p][v] # "idle" /\ at[p][w] # "idle"
      BY <2>2 DEF Busy
    <3>2. HandedOut(p, v) /\ HandedOut(p, w) /\ Apart(p, v, w)
      BY <2>2, <3>1 DEF ShareInv, ShareOf
    <3> QED BY <3>1, <3>2, PairsDiffer
  <2> QED BY <2>1, <2>2
<1> QED BY <1>1, <1>2, <1>3, TypeCorrect, LockExcludes, PTL DEF Spec

-----------------------------------------------------------------------------
(***************************************************************************)
(* What is recorded, what is skipped and what is complete, if no input is  *)
(* rewritten under a running process.                                      *)
(***************************************************************************)

\* The output has the pair as the ledger describes it.
Vouched(x) ==
  \/ LegacyRow(x) \in output
  \/ /\ ledger.run # NoRun
     /\ \A f \in x : ledger.inputs[f] # NoContent
     /\ \E row \in output : Made(row, x, ledger.run, ledger.inputs)
VouchedInv == \A x \in ledger.pairs : Vouched(x)

\* The process knows what the ledger says of the inputs, and what it has noted
\* is the content of the files.
FreshOf(p) ==
  /\ phase[p] \in {"idle", "opening", "reading", "claiming"} => noted[p] = 0
  /\ phase[p] \in {"comparing", "closing"} => noted[p] = Len(args[p].files)
  /\ phase[p] \in Loaded =>
       /\ known[p] = ledger.inputs
       /\ \A k \in 1..Len(args[p].files) :
            k <= noted[p] => known[p][args[p].files[k]] = content[args[p].files[k]]

\* A worker holds the content its source has.
HeldOf(p) ==
  \A w \in Worker :
    IF SingleSource(args[p])
      THEN phase[p] = "comparing" => held[p][w] = content[args[p].files[1]]
      ELSE at[p][w] # "idle" => held[p][w] = content[Source(p, w)]

\* What a worker has printed is of the contents its files have.
AmongMade(x, r, rows) == \E row \in rows : Made(row, x, r, content)
MadeOf(p) ==
  \A w \in Worker :
    /\ at[p][w] = "recording" => AmongMade(PairIn(p, w), args[p].run, output)
    /\ at[p][w] = "flushing" /\ stream[p] = "good" =>
         AmongMade(PairIn(p, w), args[p].run, output \cup buf[p])

\* What is in the table is what the lines of the ledger name, and, unless a fused
\* one does, in the output as this process would print it.
SkipOf(p) ==
  /\ phase[p] \in {"claiming", "noting"} => table[p] \subseteq ledger.pairs \cup ledger.misnamed
  /\ phase[p] \in {"comparing", "closing"} =>
       \A x \in (table[p] \cap PairsOf(args[p])) \ ledger.misnamed :
         InOutput(x, args[p].run, content)

\* An iteration that was handed out is done, or some worker has still to do it.
Given(p, ij) == IF SingleSource(args[p]) THEN ij[2] < next[p] ELSE ij[1] < next[p]
Pending(p, w, ij) ==
  /\ at[p][w] # "idle"
  /\ job[p][w].i = ij[1]
  /\ IF SingleSource(args[p]) THEN job[p][w].j = ij[2] ELSE job[p][w].j <= ij[2]
DoneOf(p) ==
  /\ phase[p] \in {"idle", "opening", "reading", "claiming", "noting"} => next[p] = 1
  /\ phase[p] = "comparing" =>
       \A ij \in Iterations(args[p]) :
         Given(p, ij) => PairAt(args[p], ij) \in table[p] \/ \E w \in Worker : Pending(p, w, ij)
  /\ phase[p] \in {"closing", "ending"} =>
       \A x \in PairsOf(args[p]) \ ledger.misnamed : InOutput(x, args[p].run, content)

CurrentOf(p) == FreshOf(p) /\ HeldOf(p) /\ MadeOf(p) /\ SkipOf(p) /\ DoneOf(p)
CurrentInv == DeliveryInv /\ ShareInv /\ VouchedInv /\ \A p \in Proc : CurrentOf(p)

\* A process that ends leaves nothing to be current.
LEMMA GoneCurrent ==
  ASSUME TypeOK, NEW p \in Proc, Gone(p), content' = content
  PROVE  CurrentOf(p)'
<1>1. /\ phase'[p] = "idle" /\ noted'[p] = 0 /\ next'[p] = 1
      /\ \A w \in Worker : at'[p][w] = "idle"
  BY DEF Gone, TypeOK
<1> QED BY <1>1 DEF CurrentOf, FreshOf, HeldOf, MadeOf, SkipOf, DoneOf, Loaded

\* No process rewrites an input.
LEMMA ContentKept ==
  ASSUME NEW p \in Proc, ProcessStep(p)
  PROVE  content' = content
<1>1. CASE Start(p) \/ Kill(p)
  BY <1>1 DEF Start, Kill, env
<1>2. CASE MainStep(p)
  BY <1>2 DEF MainStep, Open, Lock, Refuse, DiscardTail, Load, ClaimLedger,
              NoteInput, BeginTeam, Halt, Join, Close, Finish, env
<1>3. ASSUME NEW w \in Worker, WorkerStep(p, w)
      PROVE  content' = content
  BY <1>3 DEF WorkerStep, TakeSource, TakeCandidate, Look, PrintRow, Flush, Record, env
<1> QED BY <1>1, <1>2, <1>3 DEF ProcessStep

-----------------------------------------------------------------------------
(* What happens to the ledger *)

\* What a step leaves as it was, but for the state of the lines.
SameLedger == /\ ledger'.run = ledger.run /\ ledger'.inputs = ledger.inputs
              /\ ledger'.pairs = ledger.pairs

LEMMA AppendKeeps ==
  ASSUME TypeOK
  PROVE  /\ FailedAppend => SameLedger
         /\ ledger' = Torn => SameLedger
BY DEF FailedAppend, Torn, SameLedger, TypeOK

\* What a fused line has misnamed stays so.
LEMMA MisnamedGrows ==
  ASSUME TypeOK, NEW p \in Proc, ProcessStep(p)
  PROVE  ledger.misnamed \subseteq ledger'.misnamed
<1> DEFINE Grows == ledger.misnamed \subseteq ledger'.misnamed
<1>f. FailedAppend \/ ledger' = Torn => Grows
  BY DEF FailedAppend, Torn, TypeOK
<1>1. CASE Start(p) \/ Kill(p)
  BY <1>1, <1>f DEF Start, Kill
<1>2. CASE ClaimLedger(p)
  BY <1>2, <1>f DEF ClaimLedger, TypeOK
<1>3. CASE DiscardTail(p)
  BY <1>3 DEF DiscardTail, Refuse, TypeOK
<1>4. CASE NoteInput(p)
  BY <1>4, <1>f DEF NoteInput, Refuse, TypeOK
<1>5. CASE Open(p) \/ Load(p) \/ BeginTeam(p) \/ Halt(p) \/ Join(p) \/ Close(p) \/ Finish(p)
  BY <1>5 DEF Open, Lock, Load, BeginTeam, Halt, Join, Close, Finish, Refuse
<1>6. ASSUME NEW w \in Worker, WorkerStep(p, w)
      PROVE  Grows
  <2>1. CASE Record(p, w)
    <3>1. PairIn(p, w) \in Pair
      BY <2>1, JobType DEF Record, Comparing
    <3>2. Recorded(PairIn(p, w)) => Grows
      BY <3>1, RecordedKeeps
    <3> QED BY <2>1, <3>2, <1>f DEF Record
  <2> QED BY <2>1, <1>6 DEF WorkerStep, TakeSource, TakeCandidate, Look, PrintRow, Flush
<1> QED BY <1>1, <1>2, <1>3, <1>4, <1>5, <1>6 DEF ProcessStep, MainStep

\* The three lines a process adds, unless they fuse: its run, an input, a pair.
AddsRun(p) == /\ phase[p] = "claiming" /\ ledger'.run = args[p].run
              /\ ledger'.inputs = ledger.inputs /\ ledger'.pairs = ledger.pairs
AddsInput(p) == /\ phase[p] = "noting"
                /\ ledger'.run = ledger.run /\ ledger'.pairs = ledger.pairs
                /\ \E f : /\ known[p][f] = NoContent
                          /\ \A g \in Path : g # f => ledger'.inputs[g] = ledger.inputs[g]
AddsPair(p) == /\ phase[p] = "comparing"
               /\ ledger'.run = ledger.run /\ ledger'.inputs = ledger.inputs
               /\ \E w \in Worker : /\ at[p][w] = "recording"
                                    /\ ledger'.pairs = ledger.pairs \cup {PairIn(p, w)}
LEMMA LedgerStep ==
  ASSUME TypeOK, NEW p \in Proc, ProcessStep(p)
  PROVE  SameLedger \/ AddsRun(p) \/ AddsInput(p) \/ AddsPair(p)
<1>1. CASE Start(p)
  BY <1>1 DEF Start, SameLedger
<1>2. CASE ClaimLedger(p)
  <2>1. CASE ledger' = [ledger EXCEPT !.run = args[p].run]
    BY <1>2, <2>1 DEF ClaimLedger, AddsRun, TypeOK
  <2> QED BY <1>2, <2>1, AppendKeeps DEF ClaimLedger
<1>3. CASE DiscardTail(p)
  BY <1>3 DEF DiscardTail, Refuse, TypeOK, SameLedger
<1>4. CASE NoteInput(p)
  <2> DEFINE f == args[p].files[noted[p] + 1]
  <2>1. CASE NewInput(p, f) /\ ledger' = [ledger EXCEPT !.inputs[f] = content[f]]
    <3>1. \A g \in Path : g # f => ledger'.inputs[g] = ledger.inputs[g]
      <4> DEFINE more == [ledger.inputs EXCEPT ![f] = content[f]]
      <4>1. \A g \in Path : g # f => more[g] = ledger.inputs[g]
        BY DEF TypeOK
      <4>2. ledger' = [ledger EXCEPT !.inputs = more]
        BY <2>1
      <4> HIDE DEF more
      <4>3. ledger'.inputs = more
        BY <4>2 DEF TypeOK
      <4> QED BY <4>1, <4>3
    <3>2. ledger'.run = ledger.run /\ ledger'.pairs = ledger.pairs
      BY <2>1 DEF TypeOK
    <3> QED BY <1>4, <2>1, <3>1, <3>2 DEF AddsInput, NewInput, NoteInput
  <2>2. CASE UNCHANGED ledger
    BY <2>2 DEF SameLedger
  <2> QED BY <1>4, <2>1, <2>2, AppendKeeps DEF NoteInput, Refuse
<1>5. CASE Open(p) \/ Load(p) \/ BeginTeam(p) \/ Halt(p) \/ Join(p) \/ Close(p) \/ Finish(p)
  BY <1>5 DEF Open, Lock, Load, BeginTeam, Halt, Join, Close, Finish, Refuse, SameLedger
<1>6. ASSUME NEW w \in Worker, WorkerStep(p, w)
      PROVE  SameLedger \/ AddsPair(p)
  <2>1. CASE Record(p, w)
    <3>1. PairIn(p, w) \in Pair
      BY <2>1, JobType DEF Record, Comparing
    <3>2. Recorded(PairIn(p, w)) => SameLedger \/ AddsPair(p)
      BY <2>1, <3>1, RecordedKeeps DEF SameLedger, AddsPair, Record, Comparing
    <3> QED BY <2>1, <3>2, AppendKeeps DEF Record
  <2> QED BY <2>1, <1>6 DEF WorkerStep, TakeSource, TakeCandidate, Look, PrintRow, Flush, SameLedger
<1>7. CASE Kill(p)
  BY <1>7, AppendKeeps DEF Kill, SameLedger
<1>8. QED
  BY <1>1, <1>2, <1>3, <1>4, <1>5, <1>6, <1>7 DEF ProcessStep, MainStep

-----------------------------------------------------------------------------
(* What the inputs of a pair are *)

LEMMA MadeGrows ==
  ASSUME NEW x, NEW r, NEW rows, NEW more, rows \subseteq more, AmongMade(x, r, rows)
  PROVE  AmongMade(x, r, more)
BY DEF AmongMade

\* The files of a pair of the list, in the terms of the list.
LEMMA PairsFiles ==
  ASSUME NEW c \in Commands, NEW x \in PairsOf(c)
  PROVE  \E i, j \in 1..Len(c.files) : x = {c.files[i], c.files[j]}
<1>1. PICK ij \in Iterations(c) : x = PairAt(c, ij)
  BY DEF PairsOf
<1>2. PICK i \in 1..c.sources, j \in 1..Len(c.files) : ij = <<i, j>>
  BY <1>1 DEF Iterations
<1>3. i \in 1..Len(c.files)
  BY <1>2, CommandType
<1> QED BY <1>1, <1>2, <1>3 DEF PairAt, PairOf

\* Once all is noted, the ledger has the content of both files of a pair.
LEMMA InputsOfPair ==
  ASSUME TypeOK, NEW p \in Proc, FreshOf(p),
         \/ phase[p] \in {"comparing", "closing"}
         \/ phase[p] = "noting" /\ noted[p] = Len(args[p].files),
         NEW x \in PairsOf(args[p]), NEW f \in x
  PROVE  /\ ledger.inputs[f] = content[f]
         /\ ledger.inputs[f] # NoContent
<1>1. args[p] \in Commands
  BY DEF TypeOK
<1>2. PICK k \in 1..Len(args[p].files) : f = args[p].files[k]
  <2>1. PICK i, j \in 1..Len(args[p].files) : x = {args[p].files[i], args[p].files[j]}
    BY <1>1, PairsFiles, Zenon
  <2> QED BY <2>1
<1>3. f \in Path /\ k \in Nat /\ Len(args[p].files) \in Nat
  BY <1>1, <1>2, CommandType
<1>4. k <= noted[p]
  BY <1>2, <1>3 DEF FreshOf
<1>5. known[p][f] = content[f] /\ known[p] = ledger.inputs
  BY <1>2, <1>4 DEF FreshOf, Loaded
<1>6. content[f] \in Content
  BY <1>3 DEF TypeOK
<1> QED BY <1>5, <1>6, ContentAssumption

\* So a pair the ledger vouches for is in the output as it would be printed now.
LEMMA VouchedIsCurrent ==
  ASSUME TypeOK, VouchedInv, NEW p \in Proc, FreshOf(p), ClaimOf(p),
         \/ phase[p] \in {"comparing", "closing"}
         \/ phase[p] = "noting" /\ noted[p] = Len(args[p].files),
         NEW x \in PairsOf(args[p]), x \in ledger.pairs
  PROVE  InOutput(x, args[p].run, content)
<1>1. ledger.run = args[p].run
  BY DEF ClaimOf
<1>2. \A f \in x : ledger.inputs[f] = content[f]
  BY InputsOfPair
<1>3. Vouched(x)
  BY DEF VouchedInv
<1> QED BY <1>1, <1>2, <1>3 DEF Vouched, InOutput, Made

\* The pair a worker has in hand is one of the list.
LEMMA PairInList ==
  ASSUME TypeOK, NEW p \in Proc, NEW w \in Worker, at[p][w] # "idle"
  PROVE  /\ PairIn(p, w) \in PairsOf(args[p])
         /\ <<job[p][w].i, job[p][w].j>> \in Iterations(args[p])
         /\ PairIn(p, w) = PairAt(args[p], <<job[p][w].i, job[p][w].j>>)
<1> DEFINE ij == <<job[p][w].i, job[p][w].j>>
<1>1. ij \in Iterations(args[p])
  BY DEF TypeOK
<1>2. ij[1] = job[p][w].i /\ ij[2] = job[p][w].j
  OBVIOUS
<1>3. PairIn(p, w) = PairAt(args[p], ij)
  BY <1>2 DEF PairAt, PairIn, Source, Candidate
<1> HIDE DEF ij
<1>4. PairAt(args[p], ij) \in PairsOf(args[p])
  BY <1>1 DEF PairsOf
<1> QED BY <1>1, <1>3, <1>4 DEF ij

\* Among these rows the pair is, as it was or as r makes it from these inputs.
Has(x, r, inputs, rows) ==
  LegacyRow(x) \in rows \/ \E row \in rows : Made(row, x, r, inputs)
LEMMA HasGrows ==
  ASSUME NEW x, NEW r, NEW inputs, NEW rows, NEW more, rows \subseteq more,
         Has(x, r, inputs, rows)
  PROVE  Has(x, r, inputs, more)
BY DEF Has

-----------------------------------------------------------------------------
(* A step keeps what the ledger vouches for *)

LEMMA StepVouched ==
  ASSUME DeliveryInv, VouchedInv, NEW p \in Proc, FreshOf(p), MadeOf(p), ProcessStep(p)
  PROVE  VouchedInv'
<1> USE DEF DeliveryInv
<1>o. output \subseteq output'
  BY OthersKept
<1>c. ClaimOf(p)
  BY ByProcess
<1> SUFFICES ASSUME NEW x \in ledger'.pairs
             PROVE  Vouched(x)'
  BY DEF VouchedInv
<1>x. ASSUME x \in ledger.pairs, LegacyRow(x) \in output
      PROVE  Vouched(x)'
  BY <1>o, <1>x DEF Vouched, LegacyRow
<1>1. CASE x \in ledger.pairs /\ ledger'.run = ledger.run /\ ledger'.inputs = ledger.inputs
  <2>1. Vouched(x)
    BY <1>1 DEF VouchedInv
  <2> QED BY <1>1, <1>x, <1>o, <2>1 DEF Vouched
<1>2. CASE AddsRun(p)
  <2>1. ledger.run = NoRun /\ x \in ledger.pairs
    BY <1>2, <1>c DEF AddsRun, ClaimOf
  <2> QED BY <1>x, <2>1 DEF VouchedInv, Vouched
<1>3. CASE AddsInput(p)
  <2>1. x \in ledger.pairs
    BY <1>3 DEF AddsInput
  <2>2. CASE LegacyRow(x) \in output
    BY <2>1, <2>2, <1>x
  <2>3. CASE LegacyRow(x) \notin output
    <3>1. /\ ledger.run # NoRun
          /\ \A f \in x : ledger.inputs[f] # NoContent
      BY <2>1, <2>3 DEF VouchedInv, Vouched
    <3>2. PICK row \in output : Made(row, x, ledger.run, ledger.inputs)
      BY <2>1, <2>3 DEF VouchedInv, Vouched
    <3>3. x \subseteq Path
      <4>1. x \in Pair
        BY <2>1 DEF TypeOK
      <4> QED BY <4>1 DEF Pair
    <3>4. known[p] = ledger.inputs
      BY <1>3 DEF AddsInput, FreshOf, Loaded
    <3>5. \A f \in x : ledger'.inputs[f] = ledger.inputs[f]
      BY <1>3, <3>1, <3>3, <3>4 DEF AddsInput
    <3>6. Made(row, x, ledger'.run, ledger'.inputs)
      BY <1>3, <3>2, <3>5 DEF Made, AddsInput
    <3> QED BY <1>3, <1>o, <3>1, <3>5, <3>6 DEF Vouched, AddsInput
  <2> QED BY <2>2, <2>3
<1>4. CASE AddsPair(p)
  <2>1. PICK w \in Worker : at[p][w] = "recording" /\ ledger'.pairs = ledger.pairs \cup {PairIn(p, w)}
    BY <1>4 DEF AddsPair
  <2>2. CASE x = PairIn(p, w)
    <3>1. PICK row \in output : Made(row, x, args[p].run, content)
      BY <2>1, <2>2 DEF MadeOf, AmongMade
    <3>2. ledger.run = args[p].run /\ args[p].run # NoRun
      BY <1>4, <1>c, CommandType, RunAssumption DEF AddsPair, ClaimOf, TypeOK
    <3>3. x \in PairsOf(args[p])
      BY <2>1, <2>2, PairInList
    <3>4. \A f \in x : ledger.inputs[f] = content[f] /\ ledger.inputs[f] # NoContent
      BY <1>4, <3>3, InputsOfPair DEF AddsPair
    <3>5. Made(row, x, ledger'.run, ledger'.inputs)
      BY <1>4, <3>1, <3>2, <3>4 DEF Made, AddsPair
    <3> QED BY <1>4, <1>o, <3>2, <3>4, <3>5 DEF Vouched, AddsPair
  <2> QED BY <1>1, <1>4, <2>1, <2>2 DEF AddsPair
<1> QED BY <1>1, <1>2, <1>3, <1>4, LedgerStep DEF SameLedger

-----------------------------------------------------------------------------
(* A step of another process *)

\* What a process leaves alone of another, besides what Kept names.
LEMMA OthersMemory ==
  ASSUME TypeOK, NEW p \in Proc, ProcessStep(p), NEW q \in Proc, q # p
  PROVE  known'[q] = known[q] /\ noted'[q] = noted[q] /\ held'[q] = held[q]
<1>g. Gone(p) => known'[q] = known[q] /\ noted'[q] = noted[q] /\ held'[q] = held[q]
  BY DEF Gone, TypeOK
<1>1. CASE Start(p)
  BY <1>1 DEF Start, team
<1>2. CASE MainStep(p)
  <2>1. CASE ~Gone(p)
    <3>1. known'[q] = known[q]
      BY <1>2, <2>1 DEF MainStep, Open, Lock, Refuse, DiscardTail, Load, ClaimLedger,
                        NoteInput, BeginTeam, Halt, Join, Close, Finish, setup, TypeOK
    <3>2. noted'[q] = noted[q]
      BY <1>2, <2>1 DEF MainStep, Open, Lock, Refuse, DiscardTail, Load, ClaimLedger,
                        NoteInput, BeginTeam, Halt, Join, Close, Finish, setup, TypeOK
    <3>3. held'[q] = held[q]
      BY <1>2, <2>1 DEF MainStep, Open, Lock, Refuse, DiscardTail, Load, ClaimLedger,
                        NoteInput, BeginTeam, Halt, Join, Close, Finish, team, TypeOK
    <3> QED BY <3>1, <3>2, <3>3
  <2> QED BY <2>1, <1>g
<1>3. ASSUME NEW w \in Worker, WorkerStep(p, w)
      PROVE  known'[q] = known[q] /\ noted'[q] = noted[q] /\ held'[q] = held[q]
  <2>1. known' = known /\ noted' = noted
    BY <1>3 DEF WorkerStep, TakeSource, TakeCandidate, Look, PrintRow, Flush, Record, setup
  <2>2. held' = held \/ \E h : held' = [held EXCEPT ![p][w] = h]
    BY <1>3 DEF WorkerStep, TakeSource, TakeCandidate, Look, PrintRow, Flush, Record, Advance
  <2> QED BY <2>1, <2>2 DEF TypeOK
<1>4. CASE Kill(p)
  BY <1>4, <1>g DEF Kill
<1> QED BY <1>1, <1>2, <1>3, <1>4 DEF ProcessStep

LEMMA OthersCurrent ==
  ASSUME DeliveryInv, NEW p \in Proc, ProcessStep(p), NEW q \in Proc, q # p, CurrentOf(q)
  PROVE  CurrentOf(q)'
<1> USE DEF DeliveryInv, CurrentOf
<1>k. /\ Kept(q) /\ table'[q] = table[q] /\ next'[q] = next[q]
      /\ known'[q] = known[q] /\ noted'[q] = noted[q] /\ held'[q] = held[q]
      /\ content' = content /\ output \subseteq output'
      /\ ledger.misnamed \subseteq ledger'.misnamed
  BY OthersKept, OthersShare, OthersMemory, ContentKept, MisnamedGrows
<1>p. \A w \in Worker : PairIn(q, w)' = PairIn(q, w) /\ Source(q, w)' = Source(q, w)
  BY <1>k DEF Kept, PairIn, Source, Candidate
<1>l. phase[q] \in Loaded => SameLedger
  <2>1. phase[q] \in Loaded => phase[p] \notin {"claiming", "noting", "comparing"}
    BY DEF OneHolder, Holding, Loaded
  <2> QED BY <2>1, LedgerStep DEF AddsRun, AddsInput, AddsPair
<1>o. \A x : InOutput(x, args[q].run, content) => Has(x, args[q].run, content, output')
  BY <1>k, HasGrows DEF InOutput, Has
<1>1. FreshOf(q)'
  BY <1>k, <1>l DEF FreshOf, Kept, SameLedger, Loaded
<1>2. HeldOf(q)'
  BY <1>k, <1>p DEF HeldOf, Kept
<1>3. MadeOf(q)'
  <2>1. output \cup buf[q] \subseteq output' \cup buf[q]
    BY <1>k
  <2>2. \A w \in Worker :
          /\ at[q][w] = "recording" => AmongMade(PairIn(q, w), args[q].run, output')
          /\ at[q][w] = "flushing" /\ stream[q] = "good" =>
               AmongMade(PairIn(q, w), args[q].run, output' \cup buf[q])
    BY <1>k, <2>1, MadeGrows DEF MadeOf
  <2> QED BY <1>k, <1>p, <2>2 DEF MadeOf, AmongMade, Kept
<1>4. SkipOf(q)'
  <2>1. phase'[q] \in {"claiming", "noting"} =>
          table'[q] \subseteq ledger'.pairs \cup ledger'.misnamed
    BY <1>k, <1>l DEF SkipOf, Kept, SameLedger, Loaded
  <2>2. phase[q] \in {"comparing", "closing"} =>
          \A x \in (table[q] \cap PairsOf(args[q])) \ ledger'.misnamed :
            Has(x, args[q].run, content, output')
    BY <1>k, <1>o DEF SkipOf
  <2> QED BY <1>k, <2>1, <2>2 DEF SkipOf, Kept, Has, InOutput
<1>5. DoneOf(q)'
  <2>1. \A ij : /\ Given(q, ij)' <=> Given(q, ij)
                /\ \A w \in Worker : Pending(q, w, ij)' <=> Pending(q, w, ij)
    BY <1>k DEF Given, Pending, Kept
  <2>2. phase[q] \in {"closing", "ending"} =>
          \A x \in PairsOf(args[q]) \ ledger'.misnamed : Has(x, args[q].run, content, output')
    BY <1>k, <1>o DEF DoneOf
  <2>3. phase'[q] = "comparing" =>
          \A ij \in Iterations(args'[q]) :
            Given(q, ij)' => PairAt(args'[q], ij) \in table'[q] \/ \E w \in Worker : Pending(q, w, ij)'
    BY <1>k, <2>1 DEF DoneOf, Kept
  <2>4. phase'[q] \in {"closing", "ending"} =>
          \A x \in PairsOf(args'[q]) \ ledger'.misnamed : InOutput(x, args[q].run, content)'
    BY <1>k, <2>2 DEF Kept, Has, InOutput
  <2> QED BY <1>k, <2>3, <2>4 DEF DoneOf, Kept
<1> QED BY <1>1, <1>2, <1>3, <1>4, <1>5

-----------------------------------------------------------------------------
(* A step of the process itself: its main thread *)

LEMMA MainCurrent ==
  ASSUME DeliveryInv, VouchedInv, NEW p \in Proc, CurrentOf(p), ProcessStep(p),
         Start(p) \/ MainStep(p) \/ Kill(p)
  PROVE  CurrentOf(p)'
<1> USE DEF DeliveryInv, CurrentOf
<1>c. content' = content
  BY ContentKept
<1>g. Gone(p) => CurrentOf(p)'
  BY <1>c, GoneCurrent
<1>t. args[p] \in Commands /\ Len(args[p].files) \in Nat /\ noted[p] \in Nat /\ next[p] \in Nat
  BY CommandType DEF TypeOK
<1>cl. ClaimOf(p)
  BY ByProcess
<1>z. ledger.misnamed \subseteq ledger'.misnamed
  BY MisnamedGrows
<1> SUFFICES ASSUME ~Gone(p)
             PROVE  CurrentOf(p)'
  BY <1>g
<1>i. /\ at' = at /\ output' = output
      /\ \A w \in Worker : at'[p][w] = "idle"
  <2>1. /\ at' = at /\ output' = output
        /\ phase[p] = "comparing" => \A w \in Worker : at[p][w] = "idle"
    BY DEF Start, MainStep, Kill, Open, Lock, Refuse, DiscardTail, Load, ClaimLedger,
           NoteInput, BeginTeam, Halt, Join, Close, Finish, team, env
  <2> QED BY <2>1 DEF TeamInv
<1>m. MadeOf(p)'
  BY <1>i DEF MadeOf
\* Steps after which the process does not compare.
<1>q. ASSUME phase'[p] # "comparing", FreshOf(p)', SkipOf(p)', DoneOf(p)'
      PROVE  CurrentOf(p)'
  <2>1. HeldOf(p)'
    BY <1>q, <1>i DEF HeldOf
  <2> QED BY <1>q, <1>m, <2>1
<1>1. CASE Start(p) \/ Open(p) \/ DiscardTail(p)
  <2>1. /\ noted' = noted /\ next' = next
        /\ phase[p] \in {"idle", "opening", "reading"}
        /\ phase'[p] \in {"opening", "reading"}
    BY <1>1 DEF Start, Open, Lock, DiscardTail, Refuse, Enter, setup, team, TypeOK
  <2> QED BY <2>1, <1>q DEF FreshOf, SkipOf, DoneOf, Loaded
<1>2. CASE Load(p)
  <2>1. /\ ledger' = ledger /\ noted' = noted /\ next' = next
        /\ phase[p] = "reading" /\ phase'[p] \in {"claiming", "noting"}
        /\ table'[p] = ledger.pairs \cup ledger.misnamed /\ known'[p] = ledger.inputs
        /\ args' = args
    BY <1>2 DEF Load, Refuse, Enter, setup, team, TypeOK
  <2>2. noted[p] = 0 /\ next[p] = 1
    BY <2>1 DEF FreshOf, DoneOf
  <2>3. FreshOf(p)'
    BY <2>1, <2>2 DEF FreshOf
  <2> QED BY <2>1, <2>2, <2>3, <1>q DEF SkipOf, DoneOf
<1>3. CASE ClaimLedger(p)
  <2>1. /\ noted' = noted /\ next' = next /\ table' = table /\ known' = known /\ args' = args
        /\ phase[p] = "claiming" /\ phase'[p] = "noting"
        /\ ledger'.inputs = ledger.inputs /\ ledger'.pairs = ledger.pairs
        /\ ledger'.misnamed = ledger.misnamed
    BY <1>3 DEF ClaimLedger, Enter, setup, team, TypeOK
  <2> QED BY <2>1, <1>c, <1>q DEF FreshOf, SkipOf, DoneOf, Loaded
<1>4. CASE NoteInput(p)
  <2> DEFINE f == args[p].files[noted[p] + 1]
  <2>1. /\ phase' = phase /\ phase[p] = "noting" /\ next' = next /\ args' = args /\ table' = table
        /\ noted'[p] = noted[p] + 1 /\ noted[p] < Len(args[p].files)
    BY <1>4 DEF NoteInput, Refuse, team, TypeOK
  <2>2. known[p] = ledger.inputs
    BY <2>1 DEF FreshOf, Loaded
  <2>3. f \in Path
    <3>1. noted[p] + 1 \in 1..Len(args[p].files)
      BY <2>1, <1>t
    <3> QED BY <3>1, <1>t, CommandType
  <2>4. /\ known'[p] = ledger'.inputs /\ known'[p][f] = content[f]
        /\ ledger'.pairs = ledger.pairs
        /\ \A g \in Path : known[p][g] = content[g] => known'[p][g] = content[g]
    <3>1. CASE SameInput(p, f) /\ ledger' = ledger /\ known' = known
      BY <3>1, <2>2 DEF SameInput
    <3>2. CASE /\ ledger' = [ledger EXCEPT !.inputs[f] = content[f]]
               /\ known' = [known EXCEPT ![p][f] = content[f]]
      <4> DEFINE more == [ledger.inputs EXCEPT ![f] = content[f]]
      <4>1. more[f] = content[f] /\ \A g \in Path : g # f => more[g] = ledger.inputs[g]
        BY <2>3 DEF TypeOK
      <4>2. ledger' = [ledger EXCEPT !.inputs = more] /\ known' = [known EXCEPT ![p] = more]
        BY <3>2, <2>2
      <4> HIDE DEF more
      <4>3. ledger'.inputs = more /\ ledger'.pairs = ledger.pairs /\ known'[p] = more
        BY <4>2 DEF TypeOK
      <4> HIDE DEF f
      <4> QED BY <4>1, <4>3, <2>2
    <3> QED BY <1>4, <2>1, <3>1, <3>2 DEF NoteInput, Refuse
  <2>5. FreshOf(p)'
    <3>1. ASSUME NEW k \in 1..Len(args[p].files), k <= noted[p] + 1
          PROVE  known'[p][args[p].files[k]] = content[args[p].files[k]]
      <4>1. CASE k = noted[p] + 1
        BY <4>1, <2>4
      <4>2. CASE k <= noted[p]
        <5>1. known[p][args[p].files[k]] = content[args[p].files[k]]
          BY <4>2, <2>1 DEF FreshOf, Loaded
        <5>2. args[p].files[k] \in Path
          BY <1>t, CommandType
        <5> QED BY <5>1, <5>2, <2>4
      <4> QED BY <3>1, <4>1, <4>2, <1>t
    <3> QED BY <3>1, <2>1, <2>4, <1>c DEF FreshOf
  <2>6. SkipOf(p)' /\ DoneOf(p)'
    BY <2>1, <2>4, <1>z DEF SkipOf, DoneOf
  <2> QED BY <2>1, <2>5, <2>6, <1>q
<1>5. CASE BeginTeam(p)
  <2>1. /\ ledger' = ledger /\ noted' = noted /\ table' = table /\ known' = known /\ args' = args
        /\ phase[p] = "noting" /\ phase'[p] \in {"comparing", "closing"}
        /\ noted[p] = Len(args[p].files)
    BY <1>5 DEF BeginTeam, Enter, setup, team, TypeOK
  <2>2. FreshOf(p)'
    BY <2>1, <1>c DEF FreshOf, Loaded
  <2>3. \A x \in (table[p] \cap PairsOf(args[p])) \ ledger.misnamed :
          InOutput(x, args[p].run, content)
    BY <2>1, <1>cl, VouchedIsCurrent DEF SkipOf
  <2>4. SkipOf(p)'
    BY <2>1, <2>3, <1>i, <1>c DEF SkipOf, InOutput
  <2>5. CASE Remaining(p) = {} /\ phase'[p] = "closing"
    <3>1. PairsOf(args[p]) \subseteq table[p]
      BY <2>5 DEF Remaining, PairsOf
    <3>2. DoneOf(p)'
      BY <3>1, <2>1, <2>3, <2>5, <1>i, <1>c DEF DoneOf, InOutput
    <3> QED BY <3>2, <2>2, <2>4, <2>5, <1>q
  <2>6. CASE /\ phase'[p] = "comparing"
             /\ IF SingleSource(args[p])
                  THEN /\ next' = [next EXCEPT ![p] = 2]
                       /\ held' = [held EXCEPT ![p] =
                                     [w \in Worker |-> content[args[p].files[1]]]]
                  ELSE UNCHANGED <<next, held>>
    <3>1. HeldOf(p)'
      BY <2>1, <2>6, <1>i, <1>c DEF HeldOf, TypeOK
    <3>2. ASSUME NEW ij \in Iterations(args[p])
          PROVE  ~Given(p, ij)'
      <4>1. ij[1] \in Nat \ {0} /\ ij[2] \in Nat /\ ij[1] < ij[2]
        BY <1>t, CommandType DEF Iterations
      <4>2. next'[p] = IF SingleSource(args[p]) THEN 2 ELSE 1
        BY <2>1, <2>6 DEF DoneOf, TypeOK
      <4> QED BY <4>1, <4>2, <2>1 DEF Given
    <3>3. DoneOf(p)'
      BY <3>2, <2>1, <2>6 DEF DoneOf
    <3> QED BY <3>1, <3>3, <2>2, <2>4, <1>m
  <2> QED BY <1>5, <2>5, <2>6 DEF BeginTeam, Enter, TypeOK
<1>6. CASE Join(p)
  <2>1. /\ ledger' = ledger /\ noted' = noted /\ table' = table /\ known' = known /\ args' = args
        /\ phase[p] = "comparing" /\ phase'[p] = "closing" /\ Exhausted(p)
    BY <1>6 DEF Join, Enter, setup, TypeOK
  <2>2. FreshOf(p)'
    BY <2>1, <1>c DEF FreshOf, Loaded
  <2>3. SkipOf(p)'
    BY <2>1, <1>i, <1>c DEF SkipOf, InOutput
  <2>4. ASSUME NEW ij \in Iterations(args[p])
        PROVE  PairAt(args[p], ij) \in table[p]
    <3>1. /\ ij[1] \in Nat /\ ij[2] \in Nat
          /\ ij[1] <= args[p].sources /\ ij[2] <= Len(args[p].files) /\ args[p].sources \in Nat
      BY <1>t, CommandType DEF Iterations
    <3>2. Given(p, ij)
      BY <2>1, <3>1, <1>t DEF Given, Exhausted
    <3> QED BY <2>1, <3>2, <1>i DEF DoneOf, Pending
  <2>5. PairsOf(args[p]) \subseteq table[p]
    BY <2>4 DEF PairsOf
  <2>6. DoneOf(p)'
    BY <2>1, <2>5, <1>i, <1>c DEF DoneOf, SkipOf, InOutput
  <2> QED BY <2>1, <2>2, <2>3, <2>6, <1>q
<1>7. CASE Close(p)
  <2>1. args' = args /\ phase[p] = "closing" /\ phase'[p] = "ending" /\ ledger' = ledger
    BY <1>7 DEF Close, Refuse, Enter, setup, TypeOK
  <2>2. DoneOf(p)'
    BY <2>1, <1>i, <1>c DEF DoneOf, InOutput
  <2>3. FreshOf(p)' /\ SkipOf(p)'
    BY <2>1 DEF FreshOf, SkipOf, Loaded
  <2> QED BY <2>1, <2>2, <2>3, <1>q
<1>8. ~Halt(p) /\ ~Finish(p) /\ ~Kill(p)
  BY DEF Halt, Finish, Kill
<1> QED BY <1>1, <1>2, <1>3, <1>4, <1>5, <1>6, <1>7, <1>8 DEF MainStep

-----------------------------------------------------------------------------
(* A step of a worker *)

\* A row is of the contents the two files have, if the source held is current.
LEMMA RowIsMade ==
  ASSUME TypeOK, NEW p \in Proc, NEW w \in Worker, at[p][w] # "idle",
         held[p][w] = content[Source(p, w)]
  PROVE  Made(RowOf(p, w), PairIn(p, w), args[p].run, content)
<1>1. RowOf(p, w).pair = PairIn(p, w) /\ RowOf(p, w).run = args[p].run
  BY RowType
<1>2. Source(p, w) \in Path /\ Candidate(p, w) \in Path
  BY JobType
<1>3. \A f \in Path : RowOf(p, w).of[f] = IF f = Source(p, w) THEN held[p][w]
                                          ELSE IF f = Candidate(p, w) THEN content[f]
                                          ELSE NoContent
  BY DEF RowOf
<1>4. \A f \in PairIn(p, w) : RowOf(p, w).of[f] = content[f]
  BY <1>2, <1>3 DEF PairIn, PairOf
<1> QED BY <1>1, <1>4 DEF Made

\* A busy worker holds the content of its source.
LEMMA HeldIsCurrent ==
  ASSUME TypeOK, NEW p \in Proc, NEW w \in Worker, HeldOf(p), ShareOf(p),
         phase[p] = "comparing", at[p][w] # "idle"
  PROVE  held[p][w] = content[Source(p, w)]
<1>1. CASE SingleSource(args[p])
  BY <1>1 DEF HeldOf, ShareOf, HandedOut, Source
<1>2. CASE ~SingleSource(args[p])
  BY <1>2 DEF HeldOf
<1> QED BY <1>1, <1>2

\* What a worker changes in the memory of its process.
LEMMA WorkerMemory ==
  ASSUME TypeOK, NEW p \in Proc, NEW w \in Worker, WorkerStep(p, w)
  PROVE  /\ UNCHANGED <<args, phase, known, noted>>
         /\ \A v \in Worker \ {w} : held'[p][v] = held[p][v]
         /\ SingleSource(args[p]) => held'[p][w] = held[p][w]
         /\ \/ table' = table
            \/ /\ at[p][w] = "recording"
               /\ table'[p] = table[p] \cup {PairIn(p, w)}
<1>1. UNCHANGED <<args, phase, known, noted>>
  BY DEF WorkerStep, TakeSource, TakeCandidate, Look, PrintRow, Flush, Record, setup
<1>2. held' = held \/ (~SingleSource(args[p]) /\ \E h : held' = [held EXCEPT ![p][w] = h])
  BY DEF WorkerStep, TakeSource, TakeCandidate, Look, PrintRow, Flush, Record, Advance
<1>3. \/ table' = table
      \/ at[p][w] = "recording" /\ table' = [table EXCEPT ![p] = @ \cup {PairIn(p, w)}]
  BY DEF WorkerStep, TakeSource, TakeCandidate, Look, PrintRow, Flush, Record, setup, Comparing
<1>4. /\ \A v \in Worker \ {w} : held'[p][v] = held[p][v]
      /\ SingleSource(args[p]) => held'[p][w] = held[p][w]
  BY <1>2 DEF TypeOK
<1>5. \/ table' = table
      \/ at[p][w] = "recording" /\ table'[p] = table[p] \cup {PairIn(p, w)}
  BY <1>3 DEF TypeOK
<1> QED BY <1>1, <1>4, <1>5

\* Return from comparePair with the pair in the table: nothing is left out.
LEMMA AdvanceDone ==
  ASSUME TypeOK, NEW p \in Proc, NEW w \in Worker, at[p][w] # "idle", Advance(p, w),
         args' = args, PairIn(p, w) \in table'[p],
         NEW ij \in Iterations(args[p]), Pending(p, w, ij)
  PROVE  PairAt(args[p], ij) \in table'[p] \/ Pending(p, w, ij)'
<1>1. /\ ij = <<ij[1], ij[2]>> /\ ij[1] \in Nat /\ ij[2] \in Nat
      /\ ij[2] <= Len(args[p].files) /\ Len(args[p].files) \in Nat
  BY CommandType DEF Iterations, TypeOK
<1>2. job[p][w] \in [i : Nat, j : Nat]
  BY DEF TypeOK
<1>3. CASE ij[2] = job[p][w].j
  <2>1. PairAt(args[p], ij) = PairIn(p, w)
    BY <1>3 DEF PairAt, PairIn, Source, Candidate, Pending
  <2> QED BY <2>1
<1>4. CASE ij[2] # job[p][w].j
  <2>1. ~SingleSource(args[p]) /\ job[p][w].j < ij[2]
    BY <1>1, <1>2, <1>4 DEF Pending
  <2>2. More(p, w)
    BY <1>1, <1>2, <2>1 DEF More
  <2> DEFINE further == [job[p][w] EXCEPT !.j = @ + 1]
  <2>3. Go(p, w, "looking") /\ job' = [job EXCEPT ![p][w] = further]
    BY <2>2 DEF Advance
  <2>4. further.i = job[p][w].i /\ further.j = job[p][w].j + 1
    BY <1>2
  <2> HIDE DEF further
  <2>5. at'[p][w] = "looking" /\ job'[p][w] = further
    BY <2>3 DEF Go, TypeOK
  <2>6. further.j <= ij[2]
    BY <1>1, <1>2, <2>1, <2>4
  <2> QED BY <2>1, <2>4, <2>5, <2>6 DEF Pending
<1> QED BY <1>3, <1>4

\* What has been printed is of the contents the files have.
LEMMA WorkerMade ==
  ASSUME DeliveryInv, NEW p \in Proc, NEW w \in Worker, WorkerStep(p, w),
         ShareOf(p), HeldOf(p), MadeOf(p), output \subseteq output', content' = content
  PROVE  MadeOf(p)'
<1> USE DEF DeliveryInv
<1>a. args' = args /\ phase[p] = "comparing"
  BY WorkerKeeps
<1>v. \A v \in Worker : v # w => at'[p][v] = at[p][v] /\ PairIn(p, v)' = PairIn(p, v)
  BY TeamMates
<1>r. \A v \in Worker : at[p][v] = "recording" => AmongMade(PairIn(p, v), args[p].run, output')
  BY MadeGrows DEF MadeOf
\* Steps by which w neither prints nor flushes.
<1>q. ASSUME at'[p][w] \notin {"flushing", "recording"}, UNCHANGED <<output, buf, stream>>
      PROVE  MadeOf(p)'
  BY <1>q, <1>a, <1>v DEF MadeOf, AmongMade
<1>1. CASE TakeSource(p, w) \/ TakeCandidate(p, w) \/ Look(p, w) \/ Record(p, w)
  <2>1. UNCHANGED <<output, buf, stream>>
    BY <1>1 DEF TakeSource, TakeCandidate, Look, Record, env, out
  <2>2. at'[p][w] \in {"idle", "looking", "printing", "halting"}
    BY <1>1 DEF TakeSource, TakeCandidate, Look, Record, Advance, Comparing, Go, TypeOK
  <2> QED BY <2>1, <2>2, <1>q
<1>2. CASE PrintRow(p, w)
  <2> DEFINE row == RowOf(p, w)
  <2>1. at[p][w] = "printing" /\ at'[p][w] = "flushing" /\ job' = job
    BY <1>2 DEF PrintRow, Comparing, Go, TypeOK
  <2>2. AmongMade(PairIn(p, w), args[p].run, {row})
    <3>1. held[p][w] = content[Source(p, w)]
      BY <1>a, <2>1, HeldIsCurrent
    <3>2. Made(row, PairIn(p, w), args[p].run, content)
      BY <2>1, <3>1, RowIsMade
    <3> QED BY <3>2 DEF AmongMade
  <2>3. PairIn(p, w)' = PairIn(p, w)
    BY <2>1, <1>a DEF PairIn, Source, Candidate
  <2> HIDE DEF row
  <2>4. CASE Push(p, buf[p] \cup {row})
    <3>1. stream'[p] = "good" => stream[p] = "good" /\ output' = output \cup (buf[p] \cup {row})
      BY <2>4, PushDelivers
    <3>2. buf'[p] = {}
      BY <2>4, PushDelivers
    <3>3. \A v \in Worker : at[p][v] = "flushing" /\ stream'[p] = "good" =>
            AmongMade(PairIn(p, v), args[p].run, output')
      BY <3>1, MadeGrows DEF MadeOf
    <3>4. stream'[p] = "good" => AmongMade(PairIn(p, w), args[p].run, output')
      BY <3>1, <2>2, MadeGrows
    <3>5. output' \cup buf'[p] = output'
      BY <3>2
    <3> QED BY <3>3, <3>4, <3>5, <2>1, <2>3, <1>a, <1>v, <1>r DEF MadeOf, AmongMade
  <2>5. CASE buf' = [buf EXCEPT ![p] = @ \cup {row}] /\ UNCHANGED <<output, stream>>
    <3>1. buf'[p] = buf[p] \cup {row}
      BY <2>5 DEF TypeOK
    <3>2. \A v \in Worker : at[p][v] = "flushing" /\ stream[p] = "good" =>
            AmongMade(PairIn(p, v), args[p].run, output \cup buf'[p])
      BY <3>1, MadeGrows DEF MadeOf
    <3>3. AmongMade(PairIn(p, w), args[p].run, output \cup buf'[p])
      BY <3>1, <2>2, MadeGrows
    <3> QED BY <3>2, <3>3, <2>1, <2>3, <2>5, <1>a, <1>v, <1>r DEF MadeOf, AmongMade
  <2> QED BY <1>2, <2>4, <2>5 DEF PrintRow, row
<1>3. CASE Flush(p, w)
  <2>1. at[p][w] = "flushing" /\ job' = job /\ Push(p, buf[p])
    BY <1>3 DEF Flush, Comparing
  <2>2. at'[p][w] = IF stream'[p] = "failed" THEN "halting" ELSE "recording"
    BY <1>3 DEF Flush, Go, TypeOK
  <2>3. PairIn(p, w)' = PairIn(p, w)
    BY <2>1, <1>a DEF PairIn, Source, Candidate
  <2>4. /\ buf'[p] = {}
        /\ stream'[p] = "good" => stream[p] = "good" /\ output' = output \cup buf[p]
    BY <2>1, PushDelivers
  <2>5. stream'[p] \in {"good", "failed"}
    BY <2>1 DEF Push, TypeOK
  <2>6. \A v \in Worker : at[p][v] = "flushing" /\ stream'[p] = "good" =>
          AmongMade(PairIn(p, v), args[p].run, output')
    BY <2>4 DEF MadeOf
  <2>7. output' \cup buf'[p] = output'
    BY <2>4
  <2> QED BY <2>1, <2>2, <2>3, <2>5, <2>6, <2>7, <1>a, <1>v, <1>r DEF MadeOf, AmongMade
<1> QED BY <1>1, <1>2, <1>3 DEF WorkerStep

LEMMA WorkerHeld ==
  ASSUME TypeOK, NEW p \in Proc, NEW w \in Worker, WorkerStep(p, w), HeldOf(p),
         content' = content
  PROVE  HeldOf(p)'
<1>1. /\ UNCHANGED <<args, phase>> /\ phase[p] = "comparing"
      /\ \A v \in Worker \ {w} : /\ held'[p][v] = held[p][v]
                                 /\ at'[p][v] = at[p][v] /\ job'[p][v] = job[p][v]
      /\ SingleSource(args[p]) => held'[p][w] = held[p][w]
  BY WorkerMemory, WorkerKeeps
<1>2. CASE SingleSource(args[p])
  BY <1>1, <1>2 DEF HeldOf
<1>3. CASE ~SingleSource(args[p])
  <2>1. \A v \in Worker \ {w} : at'[p][v] # "idle" => held'[p][v] = content'[Source(p, v)']
    BY <1>1, <1>3 DEF HeldOf, Source
  <2>2. CASE held'[p][w] = held[p][w] /\ job'[p][w].i = job[p][w].i /\ at[p][w] # "idle"
    <3>1. at'[p][w] # "idle" => held'[p][w] = content'[Source(p, w)']
      BY <2>2, <1>1, <1>3 DEF HeldOf, Source
    <3> QED BY <1>1, <1>3, <2>1, <3>1 DEF HeldOf
  <2>3. CASE at'[p][w] = "idle"
    BY <1>1, <1>3, <2>1, <2>3 DEF HeldOf
  <2>4. CASE TakeSource(p, w)
    <3>1. CASE /\ job' = [job EXCEPT ![p][w] = [i |-> next[p], j |-> next[p] + 1]]
               /\ held' = [held EXCEPT ![p][w] = content[args[p].files[next[p]]]]
      <4>1. held'[p][w] = content'[Source(p, w)']
        BY <3>1, <1>1 DEF Source, TypeOK
      <4> QED BY <4>1, <1>1, <1>3, <2>1 DEF HeldOf
    <3>2. CASE UNCHANGED at
      BY <2>3, <2>4, <3>2 DEF TakeSource, Comparing
    <3> QED BY <2>4, <3>1, <3>2 DEF TakeSource
  <2>5. CASE Advance(p, w) /\ at[p][w] # "idle"
    <3>1. CASE More(p, w)
      <4>1. held' = held
        BY <2>5, <3>1 DEF Advance
      <4>2. at'[p][w] # "idle" => job'[p][w].i = job[p][w].i
        BY <2>5, AdvanceShares
      <4> QED BY <2>2, <2>3, <2>5, <4>1, <4>2
    <3>2. CASE ~More(p, w)
      <4>1. at'[p][w] = "idle"
        BY <2>5, <3>2 DEF Advance, Go, TypeOK
      <4> QED BY <4>1, <2>3
    <3> QED BY <3>1, <3>2
  <2>6. CASE UNCHANGED <<job, held>> /\ at[p][w] # "idle"
    BY <2>2, <2>6
  <2> QED BY <1>3, <2>4, <2>5, <2>6
          DEF WorkerStep, TakeCandidate, Look, PrintRow, Flush, Record, Comparing
<1> QED BY <1>2, <1>3

\* An iteration that is handed out is pending, and stays so until it is done.
LEMMA WorkerDone ==
  ASSUME TypeOK, NEW p \in Proc, NEW w \in Worker, WorkerStep(p, w), DoneOf(p)
  PROVE  DoneOf(p)'
<1>k. /\ args' = args /\ phase' = phase /\ phase[p] = "comparing"
      /\ \A v \in Worker \ {w} : at'[p][v] = at[p][v] /\ job'[p][v] = job[p][v]
      /\ table[p] \subseteq table'[p]
  BY WorkerKeeps, WorkerMemory
<1>t. args[p] \in Commands /\ Len(args[p].files) \in Nat /\ next[p] \in Nat
  BY CommandType DEF TypeOK
<1> SUFFICES ASSUME NEW ij \in Iterations(args[p]), Given(p, ij)'
             PROVE  PairAt(args[p], ij) \in table'[p] \/ \E v \in Worker : Pending(p, v, ij)'
  BY <1>k DEF DoneOf
<1>j. /\ ij[1] \in Nat \ {0} /\ ij[2] \in Nat /\ ij[1] < ij[2]
      /\ ij[1] <= args[p].sources /\ ij[2] <= Len(args[p].files)
  BY <1>t, CommandType DEF Iterations
\* What the others have to do stays so.
<1>o. ASSUME NEW v \in Worker \ {w}, Pending(p, v, ij)
      PROVE  Pending(p, v, ij)'
  BY <1>o, <1>k DEF Pending
\* Nothing is handed out, and w goes on with what it has.
<1>g. ASSUME next' = next, Pending(p, w, ij) => PairAt(args[p], ij) \in table'[p] \/ Pending(p, w, ij)'
      PROVE  PairAt(args[p], ij) \in table'[p] \/ \E v \in Worker : Pending(p, v, ij)'
  <2>1. Given(p, ij)
    BY <1>g, <1>k DEF Given
  <2>2. PairAt(args[p], ij) \in table[p] \/ \E v \in Worker : Pending(p, v, ij)
    BY <2>1, <1>k DEF DoneOf
  <2> QED BY <2>2, <1>g, <1>o, <1>k
\* Something is handed out to w, which was idle.
<1>n. ASSUME at[p][w] = "idle", ~Given(p, ij) => Pending(p, w, ij)'
      PROVE  PairAt(args[p], ij) \in table'[p] \/ \E v \in Worker : Pending(p, v, ij)'
  <2>1. CASE Given(p, ij)
    <3>1. PairAt(args[p], ij) \in table[p] \/ \E v \in Worker : Pending(p, v, ij)
      BY <2>1, <1>k DEF DoneOf
    <3>2. ~Pending(p, w, ij)
      BY <1>n DEF Pending
    <3> QED BY <3>1, <3>2, <1>o, <1>k
  <2> QED BY <2>1, <1>n
<1>1. CASE TakeSource(p, w)
  <2>1. /\ at[p][w] = "idle" /\ ~SingleSource(args[p]) /\ next'[p] = next[p] + 1
    BY <1>1 DEF TakeSource, Comparing, TypeOK
  <2>2. ASSUME ~Given(p, ij)
        PROVE  ij[1] = next[p]
    BY <2>1, <2>2, <1>k, <1>t, <1>j DEF Given
  <2>3. CASE next[p] = Len(args[p].files)
    BY <2>1, <2>2, <2>3, <1>j, <1>n
  <2>4. CASE /\ Go(p, w, "looking")
             /\ job' = [job EXCEPT ![p][w] = [i |-> next[p], j |-> next[p] + 1]]
    <3>1. at'[p][w] = "looking" /\ job'[p][w].i = next[p] /\ job'[p][w].j = next[p] + 1
      BY <2>4 DEF Go, TypeOK
    <3>2. ~Given(p, ij) => Pending(p, w, ij)'
      BY <2>1, <2>2, <3>1, <1>j, <1>k, <1>t DEF Pending
    <3> QED BY <2>1, <3>2, <1>n
  <2> QED BY <1>1, <2>3, <2>4 DEF TakeSource
<1>2. CASE TakeCandidate(p, w)
  <2>1. /\ at[p][w] = "idle" /\ SingleSource(args[p]) /\ next'[p] = next[p] + 1
        /\ Go(p, w, "looking")
        /\ job' = [job EXCEPT ![p][w] = [i |-> 1, j |-> next[p]]]
    BY <1>2 DEF TakeCandidate, Comparing, TypeOK
  <2>2. at'[p][w] = "looking" /\ job'[p][w].i = 1 /\ job'[p][w].j = next[p]
    BY <2>1 DEF Go, TypeOK
  <2>3. ij[1] = 1
    BY <2>1, <1>j DEF SingleSource
  <2>4. ASSUME ~Given(p, ij)
        PROVE  ij[2] = next[p]
    BY <2>1, <2>4, <1>k, <1>t, <1>j DEF Given
  <2>5. ~Given(p, ij) => Pending(p, w, ij)'
    BY <2>1, <2>2, <2>3, <2>4, <1>k DEF Pending
  <2> QED BY <2>1, <2>5, <1>n
<1>3. CASE Advance(p, w) /\ next' = next /\ at[p][w] # "idle" /\ PairIn(p, w) \in table'[p]
  BY <1>3, <1>g, <1>k, AdvanceDone
<1>4. CASE next' = next /\ job' = job /\ at'[p][w] # "idle"
  <2>1. Pending(p, w, ij) => Pending(p, w, ij)'
    BY <1>4, <1>k DEF Pending
  <2> QED BY <1>4, <2>1, <1>g
<1>5. CASE Look(p, w)
  <2>1. next' = next /\ at[p][w] # "idle"
    BY <1>5 DEF Look, Comparing
  <2>2. CASE PairIn(p, w) \in table[p] /\ Advance(p, w)
    BY <2>1, <2>2, <1>3, <1>k
  <2>3. CASE Go(p, w, "printing") /\ UNCHANGED job
    <3>1. at'[p][w] # "idle"
      BY <2>3 DEF Go, TypeOK
    <3> QED BY <2>1, <2>3, <3>1, <1>4
  <2> QED BY <1>5, <2>2, <2>3 DEF Look
<1>6. CASE PrintRow(p, w) \/ Flush(p, w)
  <2>1. next' = next /\ job' = job
    BY <1>6 DEF PrintRow, Flush
  <2>2. at'[p][w] # "idle"
    BY <1>6 DEF PrintRow, Flush, Go, TypeOK
  <2> QED BY <2>1, <2>2, <1>4
<1>7. CASE Record(p, w)
  <2>1. next' = next /\ at[p][w] # "idle"
    BY <1>7 DEF Record, Comparing
  <2>2. CASE Advance(p, w) /\ table' = [table EXCEPT ![p] = @ \cup {PairIn(p, w)}]
    <3>1. PairIn(p, w) \in table'[p]
      BY <2>2 DEF TypeOK
    <3> QED BY <2>1, <2>2, <3>1, <1>3
  <2>3. CASE Go(p, w, "halting") /\ UNCHANGED job
    <3>1. at'[p][w] # "idle"
      BY <2>3 DEF Go, TypeOK
    <3> QED BY <2>1, <2>3, <3>1, <1>4
  <2> QED BY <1>7, <2>2, <2>3 DEF Record
<1> QED BY <1>1, <1>2, <1>5, <1>6, <1>7 DEF WorkerStep

LEMMA WorkerCurrent ==
  ASSUME DeliveryInv, NEW p \in Proc, NEW w \in Worker, WorkerStep(p, w), ProcessStep(p),
         ShareOf(p), CurrentOf(p)
  PROVE  CurrentOf(p)'
<1> USE DEF DeliveryInv, CurrentOf
<1>1. /\ UNCHANGED <<args, phase, known, noted>> /\ phase[p] = "comparing"
      /\ content' = content /\ output \subseteq output'
      /\ ledger.misnamed \subseteq ledger'.misnamed
  BY WorkerMemory, WorkerKeeps, ContentKept, OthersKept, MisnamedGrows
<1>2. ledger'.inputs = ledger.inputs
  BY <1>1, LedgerStep DEF SameLedger, AddsRun, AddsInput, AddsPair
<1>3. FreshOf(p)'
  BY <1>1, <1>2 DEF FreshOf
<1>4. HeldOf(p)' /\ MadeOf(p)' /\ DoneOf(p)'
  BY <1>1, WorkerHeld, WorkerMade, WorkerDone
<1>5. ASSUME NEW x \in (table'[p] \cap PairsOf(args[p])) \ ledger'.misnamed
      PROVE  Has(x, args[p].run, content, output')
  <2>1. CASE x \in table[p]
    BY <2>1, <1>1, HasGrows DEF SkipOf, InOutput, Has
  <2>2. CASE x = PairIn(p, w) /\ at[p][w] = "recording"
    <3>1. AmongMade(x, args[p].run, output)
      BY <2>2 DEF MadeOf
    <3> QED BY <3>1, <1>1 DEF AmongMade, Has
  <2> QED BY <1>5, <2>1, <2>2, WorkerMemory
<1>6. SkipOf(p)'
  BY <1>1, <1>5 DEF SkipOf, InOutput, Has
<1> QED BY <1>3, <1>4, <1>6

-----------------------------------------------------------------------------
(* All steps *)

LEMMA InitCurrent == Init => CurrentInv
<1> SUFFICES ASSUME Init
             PROVE  CurrentInv
  OBVIOUS
<1>1. DeliveryInv
  BY InitDelivery
<1>2. ShareInv
  BY DEF Init, ShareInv, ShareOf, Busy, Loaded
<1>3. VouchedInv
  BY DEF Init, VouchedInv, Vouched, EmptyLedger
<1>4. \A p \in Proc : CurrentOf(p)
  BY DEF Init, CurrentOf, FreshOf, HeldOf, MadeOf, SkipOf, DoneOf, Loaded
<1> QED BY <1>1, <1>2, <1>3, <1>4 DEF CurrentInv

LEMMA NextCurrent ==
  ASSUME ~ReplaceDuringRun, CurrentInv, [Next]_vars
  PROVE  CurrentInv'
<1>0. DeliveryInv /\ ShareInv /\ VouchedInv /\ TypeOK /\ TeamInv /\ OneHolder
  BY DEF CurrentInv, DeliveryInv
<1>1. DeliveryInv' /\ ShareInv'
  BY <1>0, NextDelivery, NextShares
<1> SUFFICES VouchedInv' /\ \A q \in Proc : CurrentOf(q)'
  BY <1>1 DEF CurrentInv
<1>2. ASSUME NEW p \in Proc, ProcessStep(p)
      PROVE  VouchedInv' /\ \A q \in Proc : CurrentOf(q)'
  <2>1. CurrentOf(p) /\ ShareOf(p)
    BY <1>0 DEF CurrentInv, ShareInv
  <2>2. VouchedInv'
    BY <1>0, <1>2, <2>1, StepVouched DEF CurrentOf
  <2>3. CurrentOf(p)'
    BY <1>0, <1>2, <2>1, MainCurrent, WorkerCurrent DEF ProcessStep
  <2>4. \A q \in Proc : q # p => CurrentOf(q)'
    BY <1>0, <1>2, OthersCurrent DEF CurrentInv
  <2> QED BY <2>2, <2>3, <2>4
<1>3. CASE UNCHANGED vars
  <2>1. VouchedInv'
    BY <1>0, <1>3 DEF VouchedInv, Vouched, Made, LegacyRow, vars
  <2>2. ASSUME NEW q \in Proc
        PROVE  CurrentOf(q)'
    <3>1. CurrentOf(q)
      BY DEF CurrentInv
    <3>2. FreshOf(q)' /\ HeldOf(q)' /\ MadeOf(q)'
      BY <1>3, <3>1 DEF vars, CurrentOf, FreshOf, HeldOf, Source, MadeOf, AmongMade, PairIn, Candidate
    <3>3. SkipOf(q)' /\ DoneOf(q)'
      BY <1>3, <3>1 DEF vars, CurrentOf, SkipOf, InOutput, DoneOf, Given, Pending
    <3> QED BY <3>2, <3>3 DEF CurrentOf
  <2> QED BY <2>1, <2>2
<1>4. CASE ReplaceInput \/ StartOver
  <2>1. /\ \A q \in Proc : phase'[q] = "idle" /\ \A w \in Worker : at'[q][w] = "idle"
        /\ UNCHANGED <<noted, next>>
        /\ \A q \in Proc : phase[q] = "idle"
    BY <1>0, <1>4 DEF ReplaceInput, StartOver, AllIdle, TeamInv, setup, team
  <2>2. \A q \in Proc : CurrentOf(q)'
    BY <2>1 DEF CurrentInv, CurrentOf, FreshOf, HeldOf, MadeOf, SkipOf, DoneOf, Loaded
  <2>3. VouchedInv'
    BY <1>0, <1>4 DEF ReplaceInput, StartOver, EmptyLedger, VouchedInv, Vouched, Made, LegacyRow
  <2> QED BY <2>2, <2>3
<1> QED BY <1>2, <1>3, <1>4 DEF Next, ProcessStep

LEMMA AlwaysCurrent ==
  ASSUME ~ReplaceDuringRun
  PROVE  Spec => []CurrentInv
<1>1. Init => CurrentInv
  BY InitCurrent
<1>2. CurrentInv /\ [Next]_vars => CurrentInv'
  BY NextCurrent
<1> QED BY <1>1, <1>2, PTL DEF Spec

\* Whatever was killed, torn, refused or has failed before: for a pair a worker has
\* recorded, the output has a row made by the run and from the contents the ledger
\* names.
THEOREM RecordsAreTrue ==
  ASSUME ~ReplaceDuringRun
  PROVE  Spec => []RecordedIsAsNoted
<1>1. CurrentInv => RecordedIsAsNoted
  BY DEF CurrentInv, VouchedInv, Vouched, RecordedIsAsNoted, InOutput
<1> QED BY <1>1, AlwaysCurrent, PTL

\* A pair a worker may skip is in the output as this very command would print it
\* now, through any number of runs, builds and changes of the inputs before it,
\* unless a fused line names it.
THEOREM SkipsStayCurrent ==
  ASSUME ~ReplaceDuringRun
  PROVE  Spec => []SkipsAreCurrent
<1>1. CurrentInv => SkipsAreCurrent
  BY DEF CurrentInv, CurrentOf, SkipOf, SkipsAreCurrent
<1> QED BY <1>1, AlwaysCurrent, PTL

\* A process that gets past the comparison leaves no pair of its list out of the
\* output, whether it compared the pair or skipped it, but those a fused line names.
THEOREM NothingIsLeftOut ==
  ASSUME ~ReplaceDuringRun
  PROVE  Spec => []FinishedIsComplete
<1>1. CurrentInv => FinishedIsComplete
  BY DEF CurrentInv, CurrentOf, DoneOf, FinishedIsComplete
<1> QED BY <1>1, AlwaysCurrent, PTL
=============================================================================
