--------------------------- MODULE ComparisonRun ---------------------------
(***************************************************************************)
(* The resumable all-pairs comparison: src/main.c with src/ledger.c.       *)
(*                                                                         *)
(* Any number of mpeg7dupes processes are started on one ledger (-s), by   *)
(* command lines that may differ in build, settings and list.  A process   *)
(* locks the ledger, repairs and validates it, notes every input, and lets *)
(* a team of OpenMP workers compare the pairs.  A worker skips a pair the  *)
(* ledger has; otherwise it compares, prints, flushes, checks the stream,  *)
(* and only then records the pair.  Any write may fail, which ends the     *)
(* process by exit(1) while the other workers are still between two steps, *)
(* and a process may be killed at any step.  The output of all processes   *)
(* is one file: the user appends to it, as the README says.                *)
(*                                                                         *)
(* Abstracted: paths, contents, run records and rows are values; a pair    *)
(* whose score is below the threshold prints nothing, and a row stands for *)
(* that outcome too; progress and log lines are left out.  The machine     *)
(* does not crash: what write(2) took stays (README, Long runs).           *)
(***************************************************************************)
EXTENDS Naturals, Sequences, FiniteSets

CONSTANTS
  Proc,             \* processes started on this ledger
  NoProc,           \* nobody holds the flock
  Worker,           \* the OpenMP threads of one process
  Path,             \* signature paths
  Content,          \* what a signature file may hold
  NoContent,        \* no digest known
  Run,              \* run records: version, binary digest, parameters
  NoRun,            \* a ledger without a #run line
  Commands,         \* command lines a process may be started with
  Legacy,           \* pairs a ledger of build 4 or earlier may hold
  Fuses,            \* <<x, y>>: after the beginning of another line, the line of
                    \* x reads as that of y ("b", "b.sig<Tab>z.sig", "bb.sig<Tab>z.sig")
  LineBuffered,     \* resultStream is line buffered (false: dup or fdopen failed)
  ReplaceDuringRun  \* inputs may be rewritten while a process runs

\* A command line: its run record, the merged list of paths, how many of its
\* entries are sources (maxIndexA), and whether -n was given.
Command == [run : Run, files : Seq(Path), sources : Nat, incremental : BOOLEAN]

ASSUME ProcAssumption    == NoProc \notin Proc
ASSUME ContentAssumption == NoContent \notin Content
ASSUME RunAssumption     == NoRun \notin Run
ASSUME CommandAssumption ==
  /\ Commands \subseteq Command
  /\ Commands # {}
  /\ \A c \in Commands : c.sources <= Len(c.files)
ASSUME SwitchAssumption  == LineBuffered \in BOOLEAN /\ ReplaceDuringRun \in BOOLEAN

Pair == {{f, g} : f, g \in Path}
Row  == [pair : Pair, run : Run \cup {NoRun}, of : [Path -> Content \cup {NoContent}]]

ASSUME LegacyAssumption == Legacy \subseteq Pair
ASSUME FusesAssumption  == Fuses \subseteq Pair \X Pair

VARIABLES
  content,  \* the signature files: [Path -> Content]
  ledger,   \* the ledger file: run, inputs, the pairs its lines name, recorded
            \* or misnamed by a fused line, and the state of its lines
  output,   \* the rows in the output file
  lock,     \* the process that holds the flock, or NoProc
  args,     \* each process's command line
  phase,    \* where each process's main thread is
  table,    \* the hash table of recorded pairs, in memory
  known,    \* the digests of the inputs the ledger names, in memory
  noted,    \* how many list entries have been noted
  next,     \* the next iteration the team's schedule(dynamic) hands out
  at,       \* where each worker is
  job,      \* the (i, j) iteration each worker is in
  held,     \* the content of the source each worker compares with
  buf,      \* rows in the stdio buffer of resultStream
  stream    \* the sticky error indicator of resultStream

env   == <<content, output>>
setup == <<args, table, known, noted>>
team  == <<next, at, job, held>>
out   == <<buf, stream>>
vars  == <<content, ledger, output, lock, args, phase, table, known, noted,
           next, at, job, held, buf, stream>>

NoInputs    == [f \in Path |-> NoContent]
EmptyLedger == [run |-> NoRun, inputs |-> NoInputs, pairs |-> {}, misnamed |-> {},
                tail |-> "whole", body |-> "sound"]
NoJob       == [i |-> 0, j |-> 0]
LegacyRow(x) == [pair |-> x, run |-> NoRun, of |-> NoInputs]

\* The phases in which a process holds the ledger open, lock included.
Holding == {"reading", "claiming", "noting", "comparing", "closing"}

-----------------------------------------------------------------------------
(* The pairs of a command line *)

\* ledgerOrder: a pair is unordered, whichever file the loop reached first.
PairOf(f, g) == {f, g}

\* The iterations of the nested loops: every source with every later entry.
Iterations(c) == {ij \in (1..c.sources) \X (1..Len(c.files)) : ij[1] < ij[2]}
PairAt(c, ij) == PairOf(c.files[ij[1]], c.files[ij[2]])
PairsOf(c)    == {PairAt(c, ij) : ij \in Iterations(c)}

\* One incremental source: its pairs, not the sources, are shared out.
SingleSource(c) == c.incremental /\ c.sources = 1

Source(p, w)    == args[p].files[job[p][w].i]
Candidate(p, w) == args[p].files[job[p][w].j]
PairIn(p, w)    == PairOf(Source(p, w), Candidate(p, w))

-----------------------------------------------------------------------------
(* Starting, and opening the ledger *)

\* main up to processFiles.  Nobody looks yet whether the header was printed.
Start(p) ==
  /\ phase[p] = "idle"
  /\ \E c \in Commands : args' = [args EXCEPT ![p] = c]
  /\ \E s \in {"good", "failed"} : stream' = [stream EXCEPT ![p] = s]
  /\ phase' = [phase EXCEPT ![p] = "opening"]
  /\ UNCHANGED <<env, ledger, lock, table, known, noted, team, buf>>

\* What the memory of a process holds before it has been started again.
SomeCommand == CHOOSE c \in Commands : TRUE

\* Mutated: a lock that outlives its process, as a lock file would.
ReleasedLock_Never(p) == lock
ReleasedLock(p) == IF lock = p THEN NoProc ELSE lock

\* The end of a process, whatever the reason: its memory, its descriptors and
\* with them its flock are gone.
Gone(p) ==
  /\ phase' = [phase EXCEPT ![p] = "idle"]
  /\ lock' = ReleasedLock(p)
  /\ table' = [table EXCEPT ![p] = {}]
  /\ known' = [known EXCEPT ![p] = NoInputs]
  /\ noted' = [noted EXCEPT ![p] = 0]
  /\ next' = [next EXCEPT ![p] = 1]
  /\ at' = [at EXCEPT ![p] = [w \in Worker |-> "idle"]]
  /\ job' = [job EXCEPT ![p] = [w \in Worker |-> NoJob]]
  /\ held' = [held EXCEPT ![p] = [w \in Worker |-> NoContent]]
  /\ buf' = [buf EXCEPT ![p] = {}]
  /\ stream' = [stream EXCEPT ![p] = "good"]
  /\ args' = [args EXCEPT ![p] = SomeCommand]

\* slog_fatal and exit(1) before any pair is compared.
Refuse(p) == Gone(p) /\ UNCHANGED <<env, ledger>>

Enter(p, ph) == phase' = [phase EXCEPT ![p] = ph]

\* fopen "a+" and flock(LOCK_EX | LOCK_NB).  Mutated: the flock is missing.
Lock_Unchecked(p) ==
  /\ lock' = p
  /\ Enter(p, "reading")
  /\ UNCHANGED <<env, ledger, setup, team, out>>
Lock(p) ==
  /\ lock = NoProc
  /\ lock' = p
  /\ Enter(p, "reading")
  /\ UNCHANGED <<env, ledger, setup, team, out>>
Open(p) ==
  /\ phase[p] = "opening"
  /\ \/ Lock(p)
     \/ lock # NoProc /\ Refuse(p)

\* The first pass drops an unterminated last line; if ftruncate fails, refuse.
DiscardTail(p) ==
  /\ phase[p] = "reading"
  /\ ledger.tail = "torn"
  /\ \/ /\ ledger' = [ledger EXCEPT !.tail = "whole"]
        /\ UNCHANGED <<env, lock, phase, setup, team, out>>
     \/ Refuse(p)

\* The second pass: every line must parse, and a #run line must be this run's.
\* A line that fused with another one is read as any line is.
\* Mutated: the #run line is not compared.
Accepts_AnyRun(p) == ledger.body = "sound"
Accepts(p) == ledger.body = "sound" /\ ledger.run \in {NoRun, args[p].run}

Load(p) ==
  /\ phase[p] = "reading"
  /\ ledger.tail = "whole"
  /\ \/ /\ Accepts(p)
        /\ table' = [table EXCEPT ![p] = ledger.pairs \cup ledger.misnamed]
        /\ known' = [known EXCEPT ![p] = ledger.inputs]
        /\ Enter(p, IF ledger.run = NoRun THEN "claiming" ELSE "noting")
        /\ UNCHANGED <<env, ledger, lock, args, noted, team, out>>
     \/ ~Accepts(p) /\ Refuse(p)

\* A failed append leaves nothing, or the beginning of a line.
Torn == [ledger EXCEPT !.tail = "torn"]
FailedAppend == ledger' \in {ledger, Torn}

\* ledgerWriteRun: the ledger is given its #run line.
ClaimLedger(p) ==
  /\ phase[p] = "claiming"
  /\ \/ /\ ledger' = [ledger EXCEPT !.run = args[p].run]
        /\ Enter(p, "noting")
        /\ UNCHANGED <<env, lock, setup, team, out>>
     \/ FailedAppend /\ Gone(p) /\ UNCHANGED env

-----------------------------------------------------------------------------
(* Noting the inputs, before a single pair is skipped *)

\* ledgerNoteInput on entry f: known and unchanged.  An input that cannot be
\* read ends the process as a failed append or a refusal does.
\* Mutated: a known input is not compared with its digest.
SameInput_Unchecked(p, f) == known[p][f] # NoContent
SameInput(p, f) == known[p][f] = content[f]
NewInput(p, f)  == known[p][f] = NoContent

NoteInput(p) ==
  /\ phase[p] = "noting"
  /\ noted[p] < Len(args[p].files)
  /\ LET f == args[p].files[noted[p] + 1]
     IN  \/ /\ SameInput(p, f)
            /\ noted' = [noted EXCEPT ![p] = @ + 1]
            /\ UNCHANGED <<env, ledger, lock, phase, args, table, known, team, out>>
         \/ /\ NewInput(p, f)
            /\ ledger' = [ledger EXCEPT !.inputs[f] = content[f]]
            /\ known' = [known EXCEPT ![p][f] = content[f]]
            /\ noted' = [noted EXCEPT ![p] = @ + 1]
            /\ UNCHANGED <<env, lock, phase, args, table, team, out>>
         \/ NewInput(p, f) /\ FailedAppend /\ Gone(p) /\ UNCHANGED env
         \/ ~SameInput(p, f) /\ ~NewInput(p, f) /\ Refuse(p)

\* The pairs this run will compare: totalPairs after the skipped ones.
Remaining(p) == {ij \in Iterations(args[p]) : PairAt(args[p], ij) \notin table[p]}

\* Nothing to compare: no team is made.  A single source is loaded before its
\* team exists, and the team shares out the entries after it.
BeginTeam(p) ==
  /\ phase[p] = "noting"
  /\ noted[p] = Len(args[p].files)
  /\ \/ /\ Remaining(p) = {}
        /\ Enter(p, "closing")
        /\ UNCHANGED <<env, ledger, lock, setup, team, out>>
     \/ /\ Remaining(p) # {}
        /\ Enter(p, "comparing")
        /\ IF SingleSource(args[p])
             THEN /\ next' = [next EXCEPT ![p] = 2]
                  /\ held' = [held EXCEPT ![p] =
                                [w \in Worker |-> content[args[p].files[1]]]]
             ELSE UNCHANGED <<next, held>>
        /\ UNCHANGED <<env, ledger, lock, setup, at, job, out>>

-----------------------------------------------------------------------------
(* The workers of the team *)

Comparing(p, w, here) == phase[p] = "comparing" /\ at[p][w] = here

Go(p, w, there) == at' = [at EXCEPT ![p][w] = there]

\* Mutated: two workers may be handed the same iteration.
TakeSource_Repeats(p, w) ==
  /\ Comparing(p, w, "idle")
  /\ ~SingleSource(args[p])
  /\ next[p] < Len(args[p].files)
  /\ next[p] <= args[p].sources
  /\ Go(p, w, "looking")
  /\ job' = [job EXCEPT ![p][w] = [i |-> next[p], j |-> next[p] + 1]]
  /\ held' = [held EXCEPT ![p][w] = content[args[p].files[next[p]]]]
  /\ next' \in {next, [next EXCEPT ![p] = @ + 1]}
  /\ UNCHANGED <<env, ledger, lock, phase, setup, out>>

\* One iteration of the outer loop: load source i, then compare it with every
\* later entry.  The last entry has no later one.
TakeSource(p, w) ==
  /\ Comparing(p, w, "idle")
  /\ ~SingleSource(args[p])
  /\ next[p] <= args[p].sources
  /\ next' = [next EXCEPT ![p] = @ + 1]
  /\ \/ /\ next[p] < Len(args[p].files)
        /\ Go(p, w, "looking")
        /\ job' = [job EXCEPT ![p][w] = [i |-> next[p], j |-> next[p] + 1]]
        /\ held' = [held EXCEPT ![p][w] = content[args[p].files[next[p]]]]
     \/ next[p] = Len(args[p].files) /\ UNCHANGED <<at, job, held>>
  /\ UNCHANGED <<env, ledger, lock, phase, setup, out>>

TakeCandidate(p, w) ==
  /\ Comparing(p, w, "idle")
  /\ SingleSource(args[p])
  /\ next[p] <= Len(args[p].files)
  /\ next' = [next EXCEPT ![p] = @ + 1]
  /\ Go(p, w, "looking")
  /\ job' = [job EXCEPT ![p][w] = [i |-> 1, j |-> next[p]]]
  /\ UNCHANGED <<env, ledger, lock, phase, setup, held, out>>

\* Return from comparePair: the next j of this source, or the loop is done.
\* Mutated: one entry too far, and one too few.
More_PastEnd(p, w) == ~SingleSource(args[p]) /\ job[p][w].j <= Len(args[p].files)
More_Short(p, w) == ~SingleSource(args[p]) /\ job[p][w].j < Len(args[p].files) - 1
More(p, w) == ~SingleSource(args[p]) /\ job[p][w].j < Len(args[p].files)
Advance(p, w) ==
  IF More(p, w)
    THEN /\ Go(p, w, "looking")
         /\ job' = [job EXCEPT ![p][w].j = @ + 1]
         /\ UNCHANGED held
    ELSE /\ Go(p, w, "idle")
         /\ job' = [job EXCEPT ![p][w] = NoJob]
         /\ held' = IF SingleSource(args[p]) THEN held
                    ELSE [held EXCEPT ![p][w] = NoContent]

\* ledgerHas.
Look(p, w) ==
  /\ Comparing(p, w, "looking")
  /\ \/ PairIn(p, w) \in table[p] /\ Advance(p, w)
     \/ PairIn(p, w) \notin table[p] /\ Go(p, w, "printing") /\ UNCHANGED <<job, held>>
  /\ UNCHANGED <<env, ledger, lock, phase, setup, next, out>>

\* The row of the pair in hand: the source as it was loaded, the candidate as
\* it is read now.
RowOf(p, w) ==
  [pair |-> PairIn(p, w),
   run  |-> args[p].run,
   of   |-> [f \in Path |-> IF f = Source(p, w) THEN held[p][w]
                            ELSE IF f = Candidate(p, w) THEN content[f]
                            ELSE NoContent]]

\* write(2) of what resultStream holds: some of it may get out before a write
\* fails.  What a failed write leaves is dropped, and the error indicator stays
\* set while later calls succeed.
Push(p, pending) ==
  \E sent \in SUBSET pending :
    /\ output' = output \cup sent
    /\ buf' = [buf EXCEPT ![p] = {}]
    /\ stream' = [stream EXCEPT ![p] = IF sent = pending THEN @ ELSE "failed"]

\* binary_import of the second file, the comparison, and printResult.
\* Mutated: the pair is recorded before the stream is flushed and checked.
PrintRow_Unflushed(p, w) ==
  /\ Comparing(p, w, "printing")
  /\ \/ LineBuffered /\ Push(p, buf[p] \cup {RowOf(p, w)})
     \/ /\ ~LineBuffered
        /\ buf' = [buf EXCEPT ![p] = @ \cup {RowOf(p, w)}]
        /\ UNCHANGED <<output, stream>>
  /\ Go(p, w, "recording")
  /\ UNCHANGED <<content, ledger, lock, phase, setup, next, job, held>>
PrintRow(p, w) ==
  /\ Comparing(p, w, "printing")
  /\ \/ LineBuffered /\ Push(p, buf[p] \cup {RowOf(p, w)})
     \/ /\ ~LineBuffered
        /\ buf' = [buf EXCEPT ![p] = @ \cup {RowOf(p, w)}]
        /\ UNCHANGED <<output, stream>>
  /\ Go(p, w, "flushing")
  /\ UNCHANGED <<content, ledger, lock, phase, setup, next, job, held>>

\* fflush(resultStream), then ferror; a failure goes to stopOnWriteError.
\* Mutated: only what fflush returns is looked at.
Flush_NoFerror(p, w) ==
  /\ Comparing(p, w, "flushing")
  /\ \E sent \in SUBSET buf[p] :
       /\ output' = output \cup sent
       /\ buf' = [buf EXCEPT ![p] = {}]
       /\ Go(p, w, IF sent = buf[p] THEN "recording" ELSE "halting")
  /\ UNCHANGED <<content, stream, ledger, lock, phase, setup, next, job, held>>
Flush(p, w) ==
  /\ Comparing(p, w, "flushing")
  /\ Push(p, buf[p])
  /\ Go(p, w, IF stream'[p] = "failed" THEN "halting" ELSE "recording")
  /\ UNCHANGED <<content, ledger, lock, phase, setup, next, job, held>>

\* The line of pair x reaches the file.  After the torn append of another
\* worker the two fuse: torn behind its tab, into a line of two tabs, which is
\* malformed; torn before it, into a line of one tab, which is as good as any
\* other, but names a pair of no list, or another pair than x.
FusedWith(x) == {y \in Pair : <<x, y>> \in Fuses}
Whole(l)     == [l EXCEPT !.tail = "whole"]
Recorded(x) ==
  \/ ledger.tail = "whole" /\ ledger' = [ledger EXCEPT !.pairs = @ \cup {x}]
  \/ /\ ledger.tail = "torn"
     /\ \/ ledger' = [Whole(ledger) EXCEPT !.body = "malformed"]
        \/ ledger' = Whole(ledger)
        \/ \E y \in FusedWith(x) : ledger' = [Whole(ledger) EXCEPT !.misnamed = @ \cup {y}]

\* ledgerRecord, under omp critical: the file first, the table second.
Record(p, w) ==
  /\ Comparing(p, w, "recording")
  /\ \/ /\ Recorded(PairIn(p, w))
        /\ table' = [table EXCEPT ![p] = @ \cup {PairIn(p, w)}]
        /\ Advance(p, w)
     \/ FailedAppend /\ Go(p, w, "halting") /\ UNCHANGED <<table, job, held>>
  /\ UNCHANGED <<env, lock, phase, args, known, noted, next, out>>

\* exit(1) by a worker: stdio pushes what it still holds, then all is gone.
Halt(p) ==
  /\ \E w \in Worker : Comparing(p, w, "halting")
  /\ \E sent \in SUBSET buf[p] : output' = output \cup sent
  /\ Gone(p)
  /\ UNCHANGED <<content, ledger>>

\* The barrier at the end of the parallel loop.
\* Mutated: the last candidate is not handed out; no barrier (nowait).
Exhausted_Early(p) == next[p] >= IF SingleSource(args[p]) THEN Len(args[p].files)
                                                         ELSE args[p].sources
Exhausted(p) == next[p] > IF SingleSource(args[p]) THEN Len(args[p].files)
                                                   ELSE args[p].sources
Join_NoBarrier(p) ==
  /\ phase[p] = "comparing"
  /\ Exhausted(p)
  /\ \E w \in Worker : at[p][w] = "idle"
  /\ Enter(p, "closing")
  /\ UNCHANGED <<env, ledger, lock, setup, team, out>>
Join(p) ==
  /\ phase[p] = "comparing"
  /\ Exhausted(p)
  /\ \A w \in Worker : at[p][w] = "idle"
  /\ Enter(p, "closing")
  /\ UNCHANGED <<env, ledger, lock, setup, team, out>>

-----------------------------------------------------------------------------
(* The end of a run *)

\* ledgerClose, which gives the lock up; its failure ends the process.
Close(p) ==
  /\ phase[p] = "closing"
  /\ \/ /\ lock' = ReleasedLock(p)
        /\ Enter(p, "ending")
        /\ UNCHANGED <<env, ledger, setup, team, out>>
     \/ Refuse(p)

\* main's last fflush and ferror, and the exit, clean or not.
Finish(p) ==
  /\ phase[p] = "ending"
  /\ \E sent \in SUBSET buf[p] : output' = output \cup sent
  /\ Gone(p)
  /\ UNCHANGED <<content, ledger>>

\* A kill at any step.  What stdio held is lost; a line being appended may be
\* torn.
Appending(p) ==
  \/ phase[p] = "claiming"
  \/ /\ phase[p] = "noting"
     /\ noted[p] < Len(args[p].files)
     /\ NewInput(p, args[p].files[noted[p] + 1])
  \/ \E w \in Worker : Comparing(p, w, "recording")
Kill(p) ==
  /\ phase[p] # "idle"
  /\ Gone(p)
  /\ \/ UNCHANGED ledger
     \/ Appending(p) /\ ledger' = Torn
  /\ UNCHANGED env

-----------------------------------------------------------------------------
(* The user *)

AllIdle == \A p \in Proc : phase[p] = "idle"

ReplaceInput ==
  /\ ReplaceDuringRun \/ AllIdle
  /\ \E f \in Path, c \in Content : content' = [content EXCEPT ![f] = c]
  /\ UNCHANGED <<ledger, output, lock, phase, setup, team, out>>

\* "Start over: move the ledger and its output away."
StartOver ==
  /\ AllIdle
  /\ ledger' = EmptyLedger
  /\ output' = {}
  /\ UNCHANGED <<content, lock, phase, setup, team, out>>

-----------------------------------------------------------------------------

Init ==
  /\ content \in [Path -> Content]
  /\ \E old \in SUBSET Legacy :
       /\ ledger = [EmptyLedger EXCEPT !.pairs = old]
       /\ output = {LegacyRow(x) : x \in old}
  /\ lock = NoProc
  /\ args = [p \in Proc |-> SomeCommand]
  /\ phase = [p \in Proc |-> "idle"]
  /\ table = [p \in Proc |-> {}]
  /\ known = [p \in Proc |-> NoInputs]
  /\ noted = [p \in Proc |-> 0]
  /\ next = [p \in Proc |-> 1]
  /\ at = [p \in Proc |-> [w \in Worker |-> "idle"]]
  /\ job = [p \in Proc |-> [w \in Worker |-> NoJob]]
  /\ held = [p \in Proc |-> [w \in Worker |-> NoContent]]
  /\ buf = [p \in Proc |-> {}]
  /\ stream = [p \in Proc |-> "good"]

\* The main thread and, for exit(1), the thread that calls it.
MainStep(p) ==
  \/ Open(p) \/ DiscardTail(p) \/ Load(p) \/ ClaimLedger(p)
  \/ NoteInput(p) \/ BeginTeam(p) \/ Halt(p) \/ Join(p)
  \/ Close(p) \/ Finish(p)

WorkerStep(p, w) ==
  \/ TakeSource(p, w) \/ TakeCandidate(p, w) \/ Look(p, w)
  \/ PrintRow(p, w) \/ Flush(p, w) \/ Record(p, w)

Next ==
  \/ \E p \in Proc : \/ Start(p)
                     \/ MainStep(p)
                     \/ \E w \in Worker : WorkerStep(p, w)
                     \/ Kill(p)
  \/ ReplaceInput
  \/ StartOver

Spec == Init /\ [][Next]_vars

\* The scheduler runs every thread of a live process that can go on.
Running == \A p \in Proc : /\ WF_vars(MainStep(p))
                           /\ \A w \in Worker : WF_vars(WorkerStep(p, w))
FairSpec == Spec /\ Running

\* The user runs the command again whenever it is not running.
Persistent == \A p \in Proc : WF_vars(Start(p))
PersistentSpec == FairSpec /\ Persistent

-----------------------------------------------------------------------------
(* What the runs check *)

Phase == {"idle", "opening", "ending"} \cup Holding
Place == {"idle", "looking", "printing", "flushing", "recording", "halting"}

\* The type invariant: every variable keeps its shape, and a worker that has
\* an iteration stays inside the path matrix.
TypeOK ==
  /\ content \in [Path -> Content]
  /\ ledger \in [run : Run \cup {NoRun}, inputs : [Path -> Content \cup {NoContent}],
                 pairs : SUBSET Pair, misnamed : SUBSET Pair, tail : {"whole", "torn"},
                 body : {"sound", "malformed"}]
  /\ output \in SUBSET Row
  /\ lock \in Proc \cup {NoProc}
  /\ args \in [Proc -> Commands]
  /\ phase \in [Proc -> Phase]
  /\ table \in [Proc -> SUBSET Pair]
  /\ known \in [Proc -> [Path -> Content \cup {NoContent}]]
  /\ noted \in [Proc -> Nat]
  /\ next \in [Proc -> Nat \ {0}]
  /\ at \in [Proc -> [Worker -> Place]]
  /\ job \in [Proc -> [Worker -> [i : Nat, j : Nat]]]
  /\ held \in [Proc -> [Worker -> Content \cup {NoContent}]]
  /\ buf \in [Proc -> SUBSET Row]
  /\ stream \in [Proc -> {"good", "failed"}]
  /\ \A p \in Proc, w \in Worker :
       at[p][w] # "idle" => <<job[p][w].i, job[p][w].j>> \in Iterations(args[p])

\* "One process at a time may use a ledger": whoever has it open holds the lock.
OneHolder == \A p \in Proc : phase[p] \in Holding => lock = p

\* A row for pair x, made by run r from the given inputs.
Made(row, x, r, inputs) ==
  row.pair = x /\ row.run = r /\ \A f \in x : row.of[f] = inputs[f]

\* The output has x: from a build that recorded nothing, or made by r from inputs.
InOutput(x, r, inputs) ==
  \/ LegacyRow(x) \in output
  \/ \E row \in output : Made(row, x, r, inputs)

\* Whatever a crash, a kill or a full disk interrupted: a pair that a worker has
\* recorded is in the output, by the run the ledger names (ledgerRecord after
\* fflush/ferror).
RecordedIsDelivered ==
  \A x \in ledger.pairs : \E row \in output : row.pair = x /\ row.run \in {NoRun, ledger.run}

\* What the program says of it, "a pair is only ever marked done once its output
\* is on its way out" (comparePair), "so lines cannot fuse" (ledgerOpen), is more:
\* a listed pair that ledgerOpen would take for done is in the output.  It fails
\* where the names of files allow two halves of lines to spell a third one.
MarkedIsPrinted ==
  \A c \in Commands : \A x \in PairsOf(c) \cap (ledger.pairs \cup ledger.misnamed) :
    \E row \in output : row.pair = x

\* RecordedIsDelivered is stronger when no input is rewritten under a running
\* process: that row was made from the inputs whose digests the ledger has.
RecordedIsAsNoted == \A x \in ledger.pairs : InOutput(x, ledger.run, ledger.inputs)

\* A pair a worker may skip, and no fused line misnamed, is in the output as this
\* very command would print it now: same build and settings, same content of both
\* files (ledgerOpen and ledgerNoteInput come "before a single pair is reused").
SkipsAreCurrent ==
  \A p \in Proc : phase[p] = "comparing" =>
    \A x \in (table[p] \cap PairsOf(args[p])) \ ledger.misnamed :
      InOutput(x, args[p].run, content)

\* A resume is accepted only if every pair it will skip is in the output as made
\* from the very contents it has just verified: "The pairs it took part in are
\* stale. Restore the file" (ledgerNoteInput) presumes it.
AcceptedSkipsAreOfTheInputs ==
  [][\A p \in Proc : phase[p] = "noting" /\ phase'[p] \in {"comparing", "closing"} =>
       \A x \in table[p] \cap PairsOf(args[p]) : InOutput(x, args[p].run, known[p])]_vars

\* A process that gets past the comparison leaves no pair of its list out of
\* the output, over all the processes before it, but those a fused line misnamed.
FinishedIsComplete ==
  \A p \in Proc : phase[p] \in {"closing", "ending"} =>
    \A x \in PairsOf(args[p]) \ ledger.misnamed : InOutput(x, args[p].run, content)

\* In a list that names no file twice, no pair that is recorded is compared
\* again, and no two workers compare one pair.
NamesOnce(c) == \A i, j \in 1..Len(c.files) : c.files[i] = c.files[j] => i = j
Busy(p, w)   == at[p][w] \in {"printing", "flushing", "recording"}
ComparedOnce ==
  \A p \in Proc : phase[p] = "comparing" /\ NamesOnce(args[p]) =>
    \A v, w \in Worker : Busy(p, w) =>
      /\ PairIn(p, w) \notin ledger.pairs
      /\ Busy(p, v) /\ PairIn(p, v) = PairIn(p, w) => v = w

\* The ledger with its processes implements the batch it promises, whose hole
\* is as wide as the names of files make it.
Misnamable == {y \in Pair : \E x \in Pair : <<x, y>> \in Fuses}
Batch == INSTANCE ResumableBatch
           WITH run <- ledger.run, done <- ledger.pairs, misnamed <- ledger.misnamed,
                delivered <- {[pair |-> row.pair, run |-> row.run] : row \in output}
ImplementsBatch == Batch!Spec

\* A process that is not killed comes to an end: nobody waits for a lock, a
\* worker or a pair for ever.
EveryRunEnds == \A p \in Proc : phase[p] # "idle" ~> phase[p] = "idle"

\* A step in which nothing goes wrong: no process ends before its comparison
\* does, unless another has the lock; no worker halts, no file is replaced and
\* nothing is moved away.
Calm == /\ \A p \in Proc : phase'[p] = "idle" =>
             \/ phase[p] \in {"idle", "ending"}
             \/ phase[p] = "opening" /\ lock # NoProc
        /\ \A p \in Proc, w \in Worker : at'[p][w] # "halting"
        /\ UNCHANGED content
        /\ ledger.pairs \subseteq ledger'.pairs

\* After any history of kills, torn lines, failed writes and changed inputs:
\* once calm, running the command again and again records every pair that no
\* fused line has misnamed.
ResumingCompletes ==
  <>[][Calm]_vars =>
    <>(\A c \in Commands : PairsOf(c) \ ledger.misnamed \subseteq ledger.pairs)

-----------------------------------------------------------------------------
(* The inductive invariant of the proofs *)

\* A worker has an iteration only while its team exists, and a team that shares
\* out the pairs of one source starts after the source.
TeamInv ==
  \A p \in Proc :
    /\ phase[p] # "comparing" => \A w \in Worker : at[p][w] = "idle"
    /\ phase[p] = "comparing" /\ SingleSource(args[p]) => next[p] > 1

\* Past ledgerOpen the ledger names the run of the process that holds it.
ClaimInv ==
  \A p \in Proc :
    /\ phase[p] = "claiming" => ledger.run = NoRun
    /\ phase[p] \in {"noting", "comparing", "closing"} => ledger.run = args[p].run

\* The outcome of pair x, by run r, is among these rows.
Among(x, r, rows) == \E row \in rows : row.pair = x /\ row.run = r

\* What a worker has printed is in the output before it records the pair; until
\* then it is there or in the buffer, unless the stream has failed.
PrintedInv ==
  \A p \in Proc, w \in Worker :
    /\ at[p][w] = "recording" => Among(PairIn(p, w), args[p].run, output)
    /\ at[p][w] = "flushing" /\ stream[p] = "good" =>
         Among(PairIn(p, w), args[p].run, output \cup buf[p])

\* Rows wait in the buffer only while some worker has still to flush them, and
\* all of them are rows of this run.
BufferInv ==
  \A p \in Proc :
    /\ buf[p] # {} => \E w \in Worker : at[p][w] = "flushing"
    /\ \A row \in buf[p] : row.run = args[p].run

IInv == /\ TypeOK /\ TeamInv /\ OneHolder /\ ClaimInv /\ PrintedInv /\ BufferInv
        /\ RecordedIsDelivered
=============================================================================
