---------------------------- MODULE AnalysisPass ----------------------------
(***************************************************************************)
(* The analysis of one entry of a scan (find_reuse.py: the loop of pass 1) *)
(* by several scans at once: one with its progress lines, the others with  *)
(* --quiet.  ProfileCache is what a scan does, ScanProgress what it says   *)
(* of it; the scan does nothing while it is speaking, and has the lock of  *)
(* the cache in the meantime.                                              *)
(***************************************************************************)
EXTENDS ProfileCache, ScanProgress

CONSTANT Loud  \* the scan that is not quiet

ASSUME LoudAssumption == Loud \in Scan

vars == <<cache, progress>>

\* What make has announced when it gets to a stage.
Told(here) ==
  CASE here \in {"called", "knowing"}   -> Starting
    [] here \in {"locking", "looking"}  -> "locking"
    [] here \in {"saving"} \cup OnDisk -> "saving"
    [] OTHER                            -> here

\* progress(...) on the way to the stage a step leads to.
Announced ==
  IF at[Loud] = "looking" /\ at'[Loud] = "probing" THEN <<"missed", "probing">>
                                                   ELSE <<Told(at'[Loud])>>

LoudWork ==
  /\ AtWork
  /\ Work(Loud)
  /\ IF at'[Loud] \in {"done", "failed"} \/ Told(at'[Loud]) = Told(at[Loud])
       THEN UNCHANGED progress
       ELSE Say(Announced)

\* An error is caught inside the block; an interrupt is not.
LoudError == AtWork /\ Fail(Loud) /\ UNCHANGED progress

LoudInterrupt ==
  /\ Interrupted
  /\ Fail(Loud) \/ (at[Loud] \in {"called", "done", "failed"} /\ UNCHANGED cache)

LoudKill ==
  /\ main \notin {"left", "killed"}
  /\ Killed
  /\ Kill(Loud) \/ (at[Loud] \in {"done", "failed"} /\ UNCHANGED cache)

\* finish, whatever has come of it, and the end of the block.
Finished ==
  /\ AtWork
  /\ at[Loud] \in {"done", "failed"}
  /\ Finish("finished")
  /\ UNCHANGED cache

Speak == MainProgress /\ UNCHANGED cache
Beat  == Heartbeat /\ UNCHANGED cache

QuietStep(s) == (Work(s) \/ Fail(s) \/ Kill(s)) /\ UNCHANGED progress
World == (Replace /\ UNCHANGED progress) \/ (ClosePipe /\ UNCHANGED cache)

Init == InitCache /\ InitProgress

Next ==
  \/ LoudWork \/ LoudError \/ LoudInterrupt \/ LoudKill \/ Finished
  \/ Speak \/ Beat
  \/ \E s \in Scan \ {Loud} : QuietStep(s)
  \/ World

Spec == Init /\ [][Next]_vars

\* Every thread goes on unless it waits; programs end, with or without a
\* result.  A lock of a thread is free for the interval between two heartbeats,
\* so who wants it gets it.
FairSpec ==
  /\ Spec
  /\ \A s \in Scan \ {Loud} : WF_vars(Work(s) /\ UNCHANGED progress)
  /\ WF_vars(LoudWork) /\ WF_vars(Finished)
  /\ WF_vars(Speak) /\ SF_vars(Call /\ UNCHANGED cache)
  /\ WF_vars((Stopped \/ BeatAcquire \/ BeatWrite) /\ UNCHANGED cache)

-----------------------------------------------------------------------------
(* What the runs check *)

\* The last line on the terminal, announced or a heartbeat, names what the
\* scan is doing: nobody reads that a lock is waited for when ffmpeg runs.
TellsTheStage ==
  AtWork /\ enabled /\ pipe = "open" /\ at[Loud] \notin {"done", "failed"} =>
    shown = Told(at[Loud])

\* Nothing is said after the last word of a block.
LastWordIsLast ==
  main = "left" /\ enabled /\ pipe = "open" =>
    /\ beat = "ended"
    /\ shown \in {"finished", Failed}

\* Nobody waits for ever: not for the lock of a profile, not for the lock of
\* the terminal, not for the heartbeat.
EveryAnalysisEnds ==
  /\ <>(main \in {"left", "killed"})
  /\ \A s \in Scan \ {Loud} : <>(at[s] \in {"done", "failed"})
=============================================================================
