---------------------------- MODULE ScanProgress ----------------------------
(***************************************************************************)
(* The progress lines of one piece of a scan (tools/scan_progress.py:      *)
(* Progress): the thread that does the work announces its stages, and a    *)
(* heartbeat thread repeats the last one while nothing else is said.       *)
(*                                                                         *)
(* Abstracted: a message is a value; elapsed times are left out.  The      *)
(* reader of the lines may go away at any moment.                          *)
(***************************************************************************)
EXTENDS Sequences

CONSTANTS
  Message,  \* what may be announced
  Starting, Failed,  \* two of them: the first, and that of __exit__ on an error
  Nothing,  \* no line
  Nobody    \* nobody has the lock

ASSUME MessageAssumption == {Starting, Failed} \subseteq Message
ASSUME NobodyAssumption  == Nobody \notin {"main", "beat"}

VARIABLES
  enabled, stop, mutex, stage,  \* the fields of Progress
  main,     \* where the working thread is
  pending,  \* what it is about to announce
  after,    \* where it goes then: "start" the thread, "work", or "leave"
  beat,     \* where the heartbeat thread is
  line,     \* the line it has formatted
  pipe,     \* "open", or "closed" by the reader
  shown     \* what the last line the reader has been given says

fields   == <<enabled, stop, mutex, stage>>
progress == <<fields, main, pending, after, beat, line, pipe, shown>>

-----------------------------------------------------------------------------

\* print, and what an OSError does.
Written(message) ==
  \/ /\ pipe = "open"
     /\ shown' = message
     /\ UNCHANGED <<enabled, stop>>
  \/ /\ pipe = "closed"
     /\ enabled' = FALSE
     /\ stop' = TRUE
     /\ UNCHANGED shown

(* The working thread *)

\* __enter__, if enabled; otherwise there is no more to this module.
Enter ==
  /\ main = "outside"
  /\ main' = "calling" /\ pending' = <<Starting>>
  /\ UNCHANGED <<fields, after, beat, line, pipe, shown>>

\* __call__ for each message in turn, and nothing at all if disabled.
Say(messages) ==
  /\ pending' = messages
  /\ main' = "calling"
  /\ after' = "work"
  /\ UNCHANGED <<fields, beat, line, pipe, shown>>

\* The first message has been dealt with.  After the last one of __enter__ the
\* thread is started, even if that line was refused.
Proceed ==
  /\ pending' = Tail(pending)
  /\ IF Tail(pending) # <<>>
       THEN main' = "calling" /\ UNCHANGED <<after, beat>>
       ELSE /\ main' = IF after = "leave" THEN "left" ELSE "working"
            /\ beat' = IF after = "start" THEN "waiting" ELSE beat
            /\ after' = "work"

\* Mutated: the stage and its line are not under the lock.
Call_Unlocked ==
  /\ main = "calling"
  /\ enabled
  /\ mutex' = mutex
  /\ stage' = Head(pending)
  /\ main' = "writing"
  /\ UNCHANGED <<enabled, stop, pending, after, beat, line, pipe, shown>>
Call ==
  /\ main = "calling"
  /\ enabled
  /\ mutex = Nobody
  /\ mutex' = "main"
  /\ stage' = Head(pending)
  /\ main' = "writing"
  /\ UNCHANGED <<enabled, stop, pending, after, beat, line, pipe, shown>>

Write ==
  /\ main = "writing"
  /\ Written(Head(pending))
  /\ mutex' = IF mutex = "main" THEN Nobody ELSE mutex
  /\ Proceed
  /\ UNCHANGED <<stage, line, pipe>>

Disabled ==
  /\ main = "calling"
  /\ ~enabled
  /\ Proceed
  /\ UNCHANGED <<fields, line, pipe, shown>>

\* finish, and __exit__ on an error: the thread is stopped first.
Finish(message) ==
  /\ pending' = <<message>>
  /\ main' = "closing"
  /\ after' = "leave"
  /\ UNCHANGED <<fields, beat, line, pipe, shown>>

\* close: tell the thread, and wait for it.  Mutated: the lock is held on to.
Close_Locked ==
  /\ main = "closing"
  /\ mutex = Nobody
  /\ mutex' = "main"
  /\ stop' = TRUE
  /\ main' = "joining"
  /\ UNCHANGED <<enabled, stage, pending, after, beat, line, pipe, shown>>
Close ==
  /\ main = "closing"
  /\ stop' = TRUE
  /\ main' = "joining"
  /\ UNCHANGED <<enabled, mutex, stage, pending, after, beat, line, pipe, shown>>

\* Mutated: the thread is told, and not waited for.
Join_Told ==
  /\ main = "joining"
  /\ main' = "calling"
  /\ UNCHANGED <<fields, pending, after, beat, line, pipe, shown>>
Join ==
  /\ main = "joining"
  /\ beat \in {"none", "ended"}
  /\ main' = "calling"
  /\ UNCHANGED <<fields, pending, after, beat, line, pipe, shown>>

\* An interrupt of the working thread inside the block: a lock it holds is
\* given up, and __exit__ ends the block.
Interrupted ==
  /\ main \notin {"outside", "left", "killed"}
  /\ after = "work" \/ (after = "leave" /\ pending # <<Failed>>)
  /\ mutex' = IF mutex = "main" THEN Nobody ELSE mutex
  /\ pending' = <<Failed>>
  /\ main' = "closing"
  /\ after' = "leave"
  /\ UNCHANGED <<enabled, stop, stage, beat, line, pipe, shown>>

(* The heartbeat thread *)

Timeout ==
  /\ beat = "waiting"
  /\ ~stop
  /\ beat' = "acquiring"
  /\ UNCHANGED <<fields, main, pending, after, line, pipe, shown>>
Stopped ==
  /\ beat = "waiting"
  /\ stop
  /\ beat' = "ended"
  /\ UNCHANGED <<fields, main, pending, after, line, pipe, shown>>

BeatAcquire ==
  /\ beat = "acquiring"
  /\ mutex = Nobody
  /\ mutex' = "beat"
  /\ line' = stage
  /\ beat' = "writing"
  /\ UNCHANGED <<enabled, stop, stage, main, pending, after, pipe, shown>>
BeatWrite ==
  /\ beat = "writing"
  /\ Written(line)
  /\ mutex' = IF mutex = "beat" THEN Nobody ELSE mutex
  /\ beat' = "waiting"
  /\ line' = Starting
  /\ UNCHANGED <<stage, main, pending, after, pipe>>

(* Around it *)

ClosePipe ==
  /\ pipe = "open"
  /\ pipe' = "closed"
  /\ shown' = Nothing
  /\ UNCHANGED <<fields, main, pending, after, beat, line>>

\* The end of the process takes both threads, and what they know.
Killed ==
  /\ main' = "killed" /\ beat' = "ended" /\ pipe' = "closed"
  /\ enabled' = FALSE /\ stop' = TRUE /\ mutex' = Nobody /\ stage' = Starting
  /\ pending' = <<>> /\ after' = "leave" /\ line' = Starting
  /\ shown' = Nothing

-----------------------------------------------------------------------------

InitProgress ==
  /\ enabled = TRUE
  /\ stop = FALSE /\ mutex = Nobody /\ stage = Starting
  /\ main = "outside" /\ pending = <<>> /\ after = "start"
  /\ beat = "none" /\ line = Starting
  /\ pipe = "open"
  /\ shown = Nothing

MainProgress == Enter \/ Call \/ Write \/ Disabled \/ Close \/ Join
Heartbeat    == Timeout \/ Stopped \/ BeatAcquire \/ BeatWrite

\* The thread is at work, with nothing left to say.
AtWork == main = "working"
=============================================================================
