------------------------ MODULE SignatureStore_proof ------------------------
(***************************************************************************)
(* Proofs about SignatureStore, for any number of scans, videos, contents, *)
(* settings and generations: what the index says of a file is true, what a *)
(* scan has been given is right and stays so, and a remembered hash is the *)
(* hash of the file.  One lemma for each part of the inductive invariant;  *)
(* in each, one step for each action.                                      *)
(***************************************************************************)
EXTENDS SignatureStore, TLAPS

\* What writing one field of the local variables of make leaves.
LEMMA JobFields ==
  ASSUME NEW j \in Job
  PROVE  /\ \A c \in 1..MaxId : LET i == [j EXCEPT !.id = c] IN
              i \in Job /\ i.hash = j.hash /\ i.setting = j.setting
         /\ \A c \in Content : LET i == [j EXCEPT !.hash = c] IN
              i \in Job /\ i.hash = c /\ i.setting = j.setting
         /\ \A c \in Content : LET i == [j EXCEPT !.duration = c] IN
              i \in Job /\ i.hash = j.hash /\ i.setting = j.setting
         /\ \A c \in Content : LET i == [j EXCEPT !.crop = c] IN
              i \in Job /\ i.hash = j.hash /\ i.setting = j.setting
         /\ \A c \in Content : LET i == [j EXCEPT !.made = c] IN
              i \in Job /\ i.hash = j.hash /\ i.setting = j.setting
         /\ \A c \in Gen : LET i == [j EXCEPT !.name = c] IN
              i \in Job /\ i.hash = j.hash /\ i.setting = j.setting
  BY MaxIdAssumption DEF Job

\* A scan that is not in make, and one that begins it.
LEMMA NoJobTyped == NoJob \in Job
  BY MaxIdAssumption DEF Job, NoJob, Called

LEMMA BegunTyped ==
  ASSUME NEW f \in Path, NEW s \in Setting, NEW t \in Tool, NEW o \in BOOLEAN, NEW i \in 1..MaxId
  PROVE  Called(f, s, t, o, i) \in Job
<1>1. i \in 0..MaxId
  BY MaxIdAssumption
<1>. QED BY <1>1, Zenon DEF Called, Job


\* What make gives is right when it gives it, from the store ...
LEMMA FoundIsRight ==
  ASSUME StoreInv, NEW p \in Proc, LookUp(p), Hit(p)
  PROVE  LET h == Signature(p, sigs[KeyOf(p)], facts[job[p].hash]) IN
           /\ h \in Held /\ Right(h) /\ h.id <= video[h.path].id
           /\ h.name = sigs[KeyOf(p)].name
<1>. DEFINE k == KeyOf(p)
            h == Signature(p, sigs[k], facts[job[p].hash])
<1>1. /\ stage[p] = "looking" /\ job[p].path \in Path /\ job[p].id \in 1..MaxId
      /\ job[p].hash \in Content /\ job[p].setting \in Setting
      /\ job[p].id = video[job[p].path].id /\ job[p].hash = video[job[p].path].content
  BY NoneAssumption DEF StoreInv, LookUp, At, Unchanged, JobInv, TakenInv, Still, Identified, Locked
<1>2. /\ k \in Key /\ k[1] = job[p].hash /\ k[2] = job[p].setting
  BY <1>1 DEF Key, KeyOf
<1>3. /\ sigs[k] \in Row /\ ~Shared(k) /\ dir[sigs[k].name] # None
      /\ facts[job[p].hash] # None
  BY <1>2 DEF Hit, Usable, StoreInv, TypeOK
<1>4. /\ sigs[k].crop = k[1] /\ facts[job[p].hash] = job[p].hash
      /\ dir[sigs[k].name] = [of |-> k[1], by |-> k[2], tool |-> sigs[k].tool]
  BY <1>1, <1>2, <1>3 DEF StoreInv, RowsInv, Hit, Usable
<1>5. sigs[k].name \in Name /\ sigs[k].tool \in Tool
  BY <1>3 DEF Row
<1>6. h = [path |-> job[p].path, id |-> job[p].id, hash |-> job[p].hash,
           setting |-> job[p].setting, name |-> sigs[k].name, crop |-> job[p].hash,
           tool |-> sigs[k].tool, duration |-> job[p].hash,
           bytes |-> [of |-> job[p].hash, by |-> job[p].setting, tool |-> sigs[k].tool]]
  BY <1>2, <1>4 DEF Signature
<1>7. h \in Held
  BY <1>1, <1>5, <1>6 DEF Held, File
<1>8. Right(h)
  BY <1>1, <1>2, <1>4, <1>6 DEF Right
<1>9. h.id <= video[h.path].id /\ h.name = sigs[k].name
  BY <1>1, <1>6
<1>. QED BY <1>7, <1>8, <1>9

\* ... and when it has just been made.
LEMMA MadeIsRight ==
  ASSUME StoreInv, NEW p \in Proc, Return(p)
  PROVE  LET h == Signature(p, RowMade(p), job[p].duration) IN
           /\ h \in Held /\ Right(h) /\ h.id <= video[h.path].id
           /\ h.name = job[p].name
<1>. DEFINE h == Signature(p, RowMade(p), job[p].duration)
<1>1. /\ stage[p] = "returning" /\ job[p].path \in Path /\ job[p].id \in 1..MaxId
      /\ job[p].hash \in Content /\ job[p].setting \in Setting /\ job[p].tool \in Tool
      /\ job[p].name \in Gen /\ job[p].id <= video[job[p].path].id
      /\ job[p].id = video[job[p].path].id => job[p].hash = video[job[p].path].content
      /\ job[p].duration = job[p].hash /\ job[p].crop = job[p].hash
  BY DEF StoreInv, Return, At, JobInv, TakenInv, Still, Identified, Locked, Saved
<1>2. dir[job[p].name] = [of |-> job[p].hash, by |-> job[p].setting, tool |-> job[p].tool]
  BY <1>1 DEF StoreInv, MineInv, Saved
<1>3. h = [path |-> job[p].path, id |-> job[p].id, hash |-> job[p].hash,
           setting |-> job[p].setting, name |-> job[p].name, crop |-> job[p].hash,
           tool |-> job[p].tool, duration |-> job[p].hash,
           bytes |-> [of |-> job[p].hash, by |-> job[p].setting, tool |-> job[p].tool]]
  BY <1>1, <1>2 DEF Signature, RowMade
<1>4. h \in Held
  BY <1>1, <1>3 DEF Held, File, Name
<1>5. Right(h)
  BY <1>1, <1>2, <1>3 DEF Right
<1>. QED BY <1>1, <1>3, <1>4, <1>5

\* What make has found out so far is there when a later stage reads it.
LEMMA JobStep ==
  StoreInv /\ Next => JobInv'
<1>0. SUFFICES ASSUME StoreInv, Next PROVE JobInv'
      OBVIOUS
<1> USE NoneAssumption, NameAssumption, ProcAssumption, MaxIdAssumption DEF StoreInv, At, Go, Set, index, Key, Name, File, Row, Locked, Stage, Identified, Saved, NoJob, Called, Job, Held, JobInv, TypeOK, TakenInv
<1>1. ASSUME NEW p \in Proc, Open(p) PROVE JobInv'
      BY <1>0, <1>1 DEF Open, Ambiguous
<1>2. ASSUME NEW p \in Proc, Begin(p) PROVE JobInv'
      BY <1>0, <1>2 DEF Begin
<1>3. ASSUME NEW p \in Proc, Recall(p) PROVE JobInv'
  <2>1. /\ stage[p] = "recalling" /\ UNCHANGED <<video, index, dir, lock, held>>
        /\ job[p].path \in Path /\ job[p].id \in 1..MaxId /\ job[p] \in Job
    BY <1>0, <1>3 DEF Recall
  <2>2. CASE files[job[p].path].id = job[p].id
    <3>. DEFINE c == files[job[p].path].hash
    <3>1. /\ stage' = [stage EXCEPT ![p] = "locking"]
          /\ job' = [job EXCEPT ![p] = [job[p] EXCEPT !.hash = c]]
      BY <1>3, <2>2 DEF Recall
    <3>2. c \in Content
      BY <1>0, <2>1, <2>2 DEF TakenInv
    <3>. HIDE DEF c
    <3>. QED BY <1>0, <2>1, <2>2, <3>1, <3>2
  <2>3. CASE files[job[p].path].id # job[p].id
    <3>1. stage' = [stage EXCEPT ![p] = "identifying"] /\ job' = job
      BY <1>3, <2>3 DEF Recall
    <3>. QED BY <1>0, <2>1, <3>1
  <2>. QED BY <2>2, <2>3
<1>4. ASSUME NEW p \in Proc, Identify(p) PROVE JobInv'
      BY <1>0, <1>4 DEF Identify
<1>5. ASSUME NEW p \in Proc, Hashed(p) PROVE JobInv'
      BY <1>0, <1>5 DEF Hashed
<1>6. ASSUME NEW p \in Proc, Lock(p) PROVE JobInv'
      BY <1>0, <1>6 DEF Lock, KeyOf
<1>7. ASSUME NEW p \in Proc, LookUp(p) PROVE JobInv'
  <2>1. CASE Hit(p)
    <3>. DEFINE h == Signature(p, sigs[KeyOf(p)], facts[job[p].hash])
    <3>1. /\ stage[p] = "looking" /\ stage' = [stage EXCEPT ![p] = "idle"]
          /\ lock' = [k \in Key |-> IF lock[k] = p THEN NoProc ELSE lock[k]]
          /\ job' = [job EXCEPT ![p] = NoJob]
          /\ files' = [files EXCEPT ![job[p].path] = [id |-> job[p].id, hash |-> job[p].hash]]
          /\ held' = [held EXCEPT ![p] = @ \cup {h}]
          /\ UNCHANGED <<video, facts, sigs, dir>>
      BY <1>7, <2>1 DEF LookUp, Leave, Released, RememberFile, Remembered, Give
    <3>2. h \in Held /\ Right(h) /\ h.id <= video[h.path].id /\ h.name = sigs[KeyOf(p)].name
      BY <1>0, <1>7, <2>1, FoundIsRight
    <3>. HIDE DEF h
    <3>. QED BY <1>0, <3>1, <3>2
  <2>2. CASE ~Hit(p)
    <3>1. /\ stage[p] = "looking" /\ stage' = [stage EXCEPT ![p] = "probing"]
          /\ UNCHANGED <<video, index, dir, lock, job, held>>
      BY <1>7, <2>2 DEF LookUp
    <3>. QED BY <1>0, <3>1
  <2>. QED BY <2>1, <2>2
<1>8. ASSUME NEW p \in Proc, Probe(p) PROVE JobInv'
      BY <1>0, <1>8 DEF Probe
<1>9. ASSUME NEW p \in Proc, Decide(p) PROVE JobInv'
      BY <1>0, <1>9 DEF Decide
<1>10. ASSUME NEW p \in Proc, Decode(p) PROVE JobInv'
      BY <1>0, <1>10 DEF Decode
<1>11. ASSUME NEW p \in Proc, Publish(p) PROVE JobInv'
      BY <1>0, <1>11 DEF Publish, PublishAs, Fresh, KeyOf
<1>12. ASSUME NEW p \in Proc, Save(p) PROVE JobInv'
      BY <1>0, <1>12 DEF Save
<1>13. ASSUME NEW p \in Proc, Commit(p) PROVE JobInv'
      BY <1>0, <1>13 DEF Commit, RememberFile, Remembered, RowMade, KeyOf
<1>14. ASSUME NEW p \in Proc, Return(p) PROVE JobInv'
      BY <1>0, <1>14 DEF Return, Leave, Released, Give, Signature, RowMade
<1>15. ASSUME NEW p \in Proc, Fail(p) PROVE JobInv'
      BY <1>0, <1>15 DEF Fail, Leave, Released
<1>16. ASSUME NEW p \in Proc, Undo(p) PROVE JobInv'
      BY <1>0, <1>16 DEF Undo, Leave, Released
<1>17. ASSUME NEW p \in Proc, Quit(p) PROVE JobInv'
      BY <1>0, <1>17 DEF Quit
<1>18. ASSUME NEW p \in Proc, Kill(p) PROVE JobInv'
      BY <1>0, <1>18 DEF Kill, Leave, Released
<1>19. CASE Replace
      BY <1>0, <1>19 DEF Replace
<1>20. CASE Clear
      BY <1>0, <1>20 DEF Clear
<1>. QED BY <1>0, <1>1, <1>2, <1>3, <1>4, <1>5, <1>6, <1>7, <1>8, <1>9, <1>10, <1>11, <1>12, <1>13, <1>14, <1>15, <1>16, <1>17, <1>18, <1>19, <1>20 DEF Next, Make 

\* Types; and only the one that has the lock of a key is at work on it.
LEMMA TypeStep ==
  StoreInv /\ Next => TypeOK'
<1>0. SUFFICES ASSUME StoreInv, Next PROVE TypeOK'
      OBVIOUS
<1> USE NoneAssumption, NameAssumption, ProcAssumption, MaxIdAssumption DEF StoreInv, At, Go, Set, index, Key, Name, File, Row, Locked, Stage, Identified, Saved, TypeOK, JobInv, MineInv, RowsInv, TakenInv, KeyOf
<1>1. ASSUME NEW p \in Proc, Open(p) PROVE TypeOK'
      BY <1>0, <1>1 DEF Open, Ambiguous
<1>2. ASSUME NEW p \in Proc, Begin(p) PROVE TypeOK'
  <2>1. PICK f \in Path, s \in Setting, t \in Tool, o \in BOOLEAN :
          /\ job' = [job EXCEPT ![p] = Called(f, s, t, o, video[f].id)]
          /\ stage' = [stage EXCEPT ![p] = IF o THEN "identifying" ELSE "recalling"]
    BY <1>2 DEF Begin
  <2>2. video[f].id \in 1..MaxId
    BY <1>0
  <2>3. Called(f, s, t, o, video[f].id) \in Job
    BY <2>2, BegunTyped
  <2>. QED BY <1>0, <1>2, <2>1, <2>3 DEF Begin
<1>3. ASSUME NEW p \in Proc, Recall(p) PROVE TypeOK'
  <2>1. /\ stage[p] = "recalling" /\ UNCHANGED <<video, index, dir, lock, held>>
        /\ job[p].path \in Path /\ job[p].id \in 1..MaxId /\ job[p] \in Job
    BY <1>0, <1>3 DEF Recall
  <2>2. CASE files[job[p].path].id = job[p].id
    <3>. DEFINE c == files[job[p].path].hash
    <3>1. /\ stage' = [stage EXCEPT ![p] = "locking"]
          /\ job' = [job EXCEPT ![p] = [job[p] EXCEPT !.hash = c]]
      BY <1>3, <2>2 DEF Recall
    <3>2. c \in Content
      BY <1>0, <2>1, <2>2 DEF TakenInv
    <3>. HIDE DEF c
    <3>. QED BY <1>0, <2>1, <2>2, <3>1, <3>2, JobFields
  <2>3. CASE files[job[p].path].id # job[p].id
    <3>1. stage' = [stage EXCEPT ![p] = "identifying"] /\ job' = job
      BY <1>3, <2>3 DEF Recall
    <3>. QED BY <1>0, <2>1, <3>1
  <2>. QED BY <2>2, <2>3
<1>4. ASSUME NEW p \in Proc, Identify(p) PROVE TypeOK'
  <2>1. video[job[p].path].id \in 1..MaxId
        BY <1>0, <1>4 DEF Identify
  <2>. QED BY <1>0, <1>4, <2>1, JobFields DEF Identify
<1>5. ASSUME NEW p \in Proc, Hashed(p) PROVE TypeOK'
  <2>1. video[job[p].path].content \in Content
        BY <1>0, <1>5 DEF Hashed
  <2>. QED BY <1>0, <1>5, <2>1, JobFields DEF Hashed
<1>6. ASSUME NEW p \in Proc, Lock(p) PROVE TypeOK'
      BY <1>0, <1>6 DEF Lock, KeyOf
<1>7. ASSUME NEW p \in Proc, LookUp(p) PROVE TypeOK'
  <2>1. CASE Hit(p)
    <3>. DEFINE h == Signature(p, sigs[KeyOf(p)], facts[job[p].hash])
    <3>1. /\ stage[p] = "looking" /\ stage' = [stage EXCEPT ![p] = "idle"]
          /\ lock' = [k \in Key |-> IF lock[k] = p THEN NoProc ELSE lock[k]]
          /\ job' = [job EXCEPT ![p] = NoJob]
          /\ files' = [files EXCEPT ![job[p].path] = [id |-> job[p].id, hash |-> job[p].hash]]
          /\ held' = [held EXCEPT ![p] = @ \cup {h}]
          /\ UNCHANGED <<video, facts, sigs, dir>>
      BY <1>7, <2>1 DEF LookUp, Leave, Released, RememberFile, Remembered, Give
    <3>2. h \in Held /\ Right(h) /\ h.id <= video[h.path].id /\ h.name = sigs[KeyOf(p)].name
      BY <1>0, <1>7, <2>1, FoundIsRight
    <3>. HIDE DEF h
    <3>. QED BY <1>0, <3>1, <3>2, NoJobTyped
  <2>2. CASE ~Hit(p)
    <3>1. /\ stage[p] = "looking" /\ stage' = [stage EXCEPT ![p] = "probing"]
          /\ UNCHANGED <<video, index, dir, lock, job, held>>
      BY <1>7, <2>2 DEF LookUp
    <3>. QED BY <1>0, <3>1
  <2>. QED BY <2>1, <2>2
<1>8. ASSUME NEW p \in Proc, Probe(p) PROVE TypeOK'
  <2>1. video[job[p].path].content \in Content
        BY <1>0, <1>8 DEF Probe
  <2>. QED BY <1>0, <1>8, <2>1, JobFields DEF Probe
<1>9. ASSUME NEW p \in Proc, Decide(p) PROVE TypeOK'
  <2>1. video[job[p].path].content \in Content
        BY <1>0, <1>9 DEF Decide
  <2>. QED BY <1>0, <1>9, <2>1, JobFields DEF Decide
<1>10. ASSUME NEW p \in Proc, Decode(p) PROVE TypeOK'
  <2>1. video[job[p].path].content \in Content
        BY <1>0, <1>10 DEF Decode
  <2>. QED BY <1>0, <1>10, <2>1, JobFields DEF Decode
<1>11. ASSUME NEW p \in Proc, Publish(p) PROVE TypeOK'
  <2>1. PICK n \in Gen : Fresh(n) /\ dir' = [dir EXCEPT ![n] = [of |-> job[p].made, by |-> job[p].setting,
                                                                  tool |-> job[p].tool]]
                          /\ job' = [job EXCEPT ![p] = [job[p] EXCEPT !.name = n]]
    BY <1>11 DEF Publish, PublishAs
  <2>2. /\ stage[p] = "publishing" /\ stage' = [stage EXCEPT ![p] = "saving"]
        /\ UNCHANGED <<video, index, lock, held>>
    BY <1>11 DEF Publish
  <2>3. [of |-> job[p].made, by |-> job[p].setting, tool |-> job[p].tool] \in File
    BY <1>0, <2>2
  <2>. QED BY <1>0, <2>1, <2>2, <2>3, JobFields
<1>12. ASSUME NEW p \in Proc, Save(p) PROVE TypeOK'
      BY <1>0, <1>12 DEF Save
<1>13. ASSUME NEW p \in Proc, Commit(p) PROVE TypeOK'
      BY <1>0, <1>13 DEF Commit, RememberFile, Remembered, RowMade, KeyOf
<1>14. ASSUME NEW p \in Proc, Return(p) PROVE TypeOK'
  <2>. DEFINE h == Signature(p, RowMade(p), job[p].duration)
  <2>1. /\ stage[p] = "returning" /\ stage' = [stage EXCEPT ![p] = "idle"]
        /\ lock' = [k \in Key |-> IF lock[k] = p THEN NoProc ELSE lock[k]]
        /\ job' = [job EXCEPT ![p] = NoJob]
        /\ held' = [held EXCEPT ![p] = @ \cup {h}]
        /\ UNCHANGED <<video, index, dir>>
    BY <1>14 DEF Return, Leave, Released, Give
  <2>2. h \in Held /\ Right(h) /\ h.id <= video[h.path].id /\ h.name = job[p].name
    BY <1>0, <1>14, MadeIsRight
  <2>. HIDE DEF h
  <2>. QED BY <1>0, <2>1, <2>2, NoJobTyped
<1>15. ASSUME NEW p \in Proc, Fail(p) PROVE TypeOK'
      BY <1>0, <1>15, NoJobTyped DEF Fail, Leave, Released
<1>16. ASSUME NEW p \in Proc, Undo(p) PROVE TypeOK'
      BY <1>0, <1>16, NoJobTyped DEF Undo, Leave, Released
<1>17. ASSUME NEW p \in Proc, Quit(p) PROVE TypeOK'
      BY <1>0, <1>17 DEF Quit
<1>18. ASSUME NEW p \in Proc, Kill(p) PROVE TypeOK'
      BY <1>0, <1>18, NoJobTyped DEF Kill, Leave, Released
<1>19. CASE Replace
      BY <1>0, <1>19 DEF Replace
<1>20. CASE Clear
      BY <1>0, <1>20 DEF Clear
<1>. QED BY <1>0, <1>1, <1>2, <1>3, <1>4, <1>5, <1>6, <1>7, <1>8, <1>9, <1>10, <1>11, <1>12, <1>13, <1>14, <1>15, <1>16, <1>17, <1>18, <1>19, <1>20 DEF Next, Make 

\* What make has taken from a video is of one content while the video still
\* has the identity that make began with.
LEMMA TakenStep ==
  StoreInv /\ Next => TakenInv'
<1>0. SUFFICES ASSUME StoreInv, Next PROVE TakenInv'
      OBVIOUS
<1> USE NoneAssumption, NameAssumption, ProcAssumption, MaxIdAssumption DEF StoreInv, At, Go, Set, index, Key, Name, File, Row, Locked, Stage, Identified, Saved, NoJob, Called, Job, Held, TakenInv, JobInv, TypeOK, Unchanged, Still
<1>1. ASSUME NEW p \in Proc, Open(p) PROVE TakenInv'
      BY <1>0, <1>1 DEF Open, Ambiguous
<1>2. ASSUME NEW p \in Proc, Begin(p) PROVE TakenInv'
      BY <1>0, <1>2 DEF Begin
<1>3. ASSUME NEW p \in Proc, Recall(p) PROVE TakenInv'
  <2>1. /\ stage[p] = "recalling" /\ UNCHANGED <<video, index, dir, lock, held>>
        /\ job[p].path \in Path /\ job[p].id \in 1..MaxId /\ job[p] \in Job
    BY <1>0, <1>3 DEF Recall, JobInv, TypeOK
  <2>2. CASE files[job[p].path].id = job[p].id
    <3>. DEFINE c == files[job[p].path].hash
    <3>1. /\ stage' = [stage EXCEPT ![p] = "locking"]
          /\ job' = [job EXCEPT ![p] = [job[p] EXCEPT !.hash = c]]
      BY <1>3, <2>2 DEF Recall
    <3>2. c \in Content
      BY <1>0, <2>1, <2>2 DEF TakenInv
    <3>. QED BY <1>0, <2>1, <2>2, <3>1, <3>2
  <2>3. CASE files[job[p].path].id # job[p].id
    <3>1. stage' = [stage EXCEPT ![p] = "identifying"] /\ job' = job
      BY <1>3, <2>3 DEF Recall
    <3>. QED BY <1>0, <2>1, <3>1
  <2>. QED BY <2>2, <2>3
<1>4. ASSUME NEW p \in Proc, Identify(p) PROVE TakenInv'
      BY <1>0, <1>4 DEF Identify
<1>5. ASSUME NEW p \in Proc, Hashed(p) PROVE TakenInv'
      BY <1>0, <1>5 DEF Hashed
<1>6. ASSUME NEW p \in Proc, Lock(p) PROVE TakenInv'
      BY <1>0, <1>6 DEF Lock, KeyOf
<1>7. ASSUME NEW p \in Proc, LookUp(p) PROVE TakenInv'
  <2>1. CASE Hit(p)
    <3>. DEFINE h == Signature(p, sigs[KeyOf(p)], facts[job[p].hash])
    <3>1. /\ stage[p] = "looking" /\ stage' = [stage EXCEPT ![p] = "idle"]
          /\ lock' = [k \in Key |-> IF lock[k] = p THEN NoProc ELSE lock[k]]
          /\ job' = [job EXCEPT ![p] = NoJob]
          /\ files' = [files EXCEPT ![job[p].path] = [id |-> job[p].id, hash |-> job[p].hash]]
          /\ held' = [held EXCEPT ![p] = @ \cup {h}]
          /\ UNCHANGED <<video, facts, sigs, dir>>
      BY <1>7, <2>1 DEF LookUp, Leave, Released, RememberFile, Remembered, Give
    <3>2. h \in Held /\ Right(h) /\ h.id <= video[h.path].id /\ h.name = sigs[KeyOf(p)].name
      BY <1>0, <1>7, <2>1, FoundIsRight
    <3>. HIDE DEF h
    <3>3. /\ job[p].path \in Path /\ job[p].id \in 1..MaxId /\ job[p].hash \in Content
          /\ job[p].id = video[job[p].path].id /\ job[p].hash = video[job[p].path].content
      BY <1>0, <1>7, <3>1 DEF LookUp
    <3>4. \A f \in Path : files'[f] = IF f = job[p].path THEN [id |-> job[p].id, hash |-> job[p].hash]
                                                       ELSE files[f]
      BY <1>0, <3>1, <3>3
    <3>5. \A q \in Proc : job'[q] = IF q = p THEN NoJob ELSE job[q]
      BY <1>0, <3>1
    <3>6. \A q \in Proc : stage'[q] = IF q = p THEN "idle" ELSE stage[q]
      BY <1>0, <3>1
    <3>. QED BY <1>0, <3>1, <3>3, <3>4, <3>5, <3>6
  <2>2. CASE ~Hit(p)
    <3>1. /\ stage[p] = "looking" /\ stage' = [stage EXCEPT ![p] = "probing"]
          /\ UNCHANGED <<video, index, dir, lock, job, held>>
      BY <1>7, <2>2 DEF LookUp
    <3>. QED BY <1>0, <3>1
  <2>. QED BY <2>1, <2>2
<1>8. ASSUME NEW p \in Proc, Probe(p) PROVE TakenInv'
      BY <1>0, <1>8 DEF Probe
<1>9. ASSUME NEW p \in Proc, Decide(p) PROVE TakenInv'
      BY <1>0, <1>9 DEF Decide
<1>10. ASSUME NEW p \in Proc, Decode(p) PROVE TakenInv'
      BY <1>0, <1>10 DEF Decode
<1>11. ASSUME NEW p \in Proc, Publish(p) PROVE TakenInv'
      BY <1>0, <1>11 DEF Publish, PublishAs, Fresh, KeyOf
<1>12. ASSUME NEW p \in Proc, Save(p) PROVE TakenInv'
      BY <1>0, <1>12 DEF Save
<1>13. ASSUME NEW p \in Proc, Commit(p) PROVE TakenInv'
      BY <1>0, <1>13 DEF Commit, RememberFile, Remembered, RowMade, KeyOf
<1>14. ASSUME NEW p \in Proc, Return(p) PROVE TakenInv'
      BY <1>0, <1>14 DEF Return, Leave, Released, Give, Signature, RowMade
<1>15. ASSUME NEW p \in Proc, Fail(p) PROVE TakenInv'
      BY <1>0, <1>15 DEF Fail, Leave, Released
<1>16. ASSUME NEW p \in Proc, Undo(p) PROVE TakenInv'
      BY <1>0, <1>16 DEF Undo, Leave, Released
<1>17. ASSUME NEW p \in Proc, Quit(p) PROVE TakenInv'
      BY <1>0, <1>17 DEF Quit
<1>18. ASSUME NEW p \in Proc, Kill(p) PROVE TakenInv'
      BY <1>0, <1>18 DEF Kill, Leave, Released
<1>19. CASE Replace
      BY <1>0, <1>19 DEF Replace
<1>20. CASE Clear
      BY <1>0, <1>20 DEF Clear
<1>. QED BY <1>0, <1>1, <1>2, <1>3, <1>4, <1>5, <1>6, <1>7, <1>8, <1>9, <1>10, <1>11, <1>12, <1>13, <1>14, <1>15, <1>16, <1>17, <1>18, <1>19, <1>20 DEF Next, Make 

\* Nobody else names, holds or removes a generation before it is recorded.
LEMMA MineStep ==
  StoreInv /\ Next => MineInv'
<1>0. SUFFICES ASSUME StoreInv, Next PROVE MineInv'
      OBVIOUS
<1> USE NoneAssumption, NameAssumption, ProcAssumption, MaxIdAssumption DEF StoreInv, At, Go, Set, index, Key, Name, File, Row, Locked, Stage, Identified, Saved, NoJob, Called, Job, Held, MineInv, JobInv, TypeOK, KeyOf
<1>1. ASSUME NEW p \in Proc, Open(p) PROVE MineInv'
      BY <1>0, <1>1 DEF Open, Ambiguous
<1>2. ASSUME NEW p \in Proc, Begin(p) PROVE MineInv'
      BY <1>0, <1>2 DEF Begin
<1>3. ASSUME NEW p \in Proc, Recall(p) PROVE MineInv'
  <2>1. /\ stage[p] = "recalling" /\ UNCHANGED <<video, index, dir, lock, held>>
        /\ job[p].path \in Path /\ job[p].id \in 1..MaxId /\ job[p] \in Job
    BY <1>0, <1>3 DEF Recall, JobInv, TypeOK
  <2>2. CASE files[job[p].path].id = job[p].id
    <3>. DEFINE c == files[job[p].path].hash
    <3>1. /\ stage' = [stage EXCEPT ![p] = "locking"]
          /\ job' = [job EXCEPT ![p] = [job[p] EXCEPT !.hash = c]]
      BY <1>3, <2>2 DEF Recall
    <3>2. c \in Content
      BY <1>0, <2>1, <2>2 DEF TakenInv
    <3>. HIDE DEF c
    <3>. QED BY <1>0, <2>1, <2>2, <3>1, <3>2
  <2>3. CASE files[job[p].path].id # job[p].id
    <3>1. stage' = [stage EXCEPT ![p] = "identifying"] /\ job' = job
      BY <1>3, <2>3 DEF Recall
    <3>. QED BY <1>0, <2>1, <3>1
  <2>. QED BY <2>2, <2>3
<1>4. ASSUME NEW p \in Proc, Identify(p) PROVE MineInv'
      BY <1>0, <1>4 DEF Identify
<1>5. ASSUME NEW p \in Proc, Hashed(p) PROVE MineInv'
      BY <1>0, <1>5 DEF Hashed
<1>6. ASSUME NEW p \in Proc, Lock(p) PROVE MineInv'
      BY <1>0, <1>6 DEF Lock, KeyOf
<1>7. ASSUME NEW p \in Proc, LookUp(p) PROVE MineInv'
  <2>1. CASE Hit(p)
    <3>. DEFINE h == Signature(p, sigs[KeyOf(p)], facts[job[p].hash])
    <3>1. /\ stage[p] = "looking" /\ stage' = [stage EXCEPT ![p] = "idle"]
          /\ lock' = [k \in Key |-> IF lock[k] = p THEN NoProc ELSE lock[k]]
          /\ job' = [job EXCEPT ![p] = NoJob]
          /\ files' = [files EXCEPT ![job[p].path] = [id |-> job[p].id, hash |-> job[p].hash]]
          /\ held' = [held EXCEPT ![p] = @ \cup {h}]
          /\ UNCHANGED <<video, facts, sigs, dir>>
      BY <1>7, <2>1 DEF LookUp, Leave, Released, RememberFile, Remembered, Give
    <3>2. h \in Held /\ Right(h) /\ h.id <= video[h.path].id /\ h.name = sigs[KeyOf(p)].name
      BY <1>0, <1>7, <2>1, FoundIsRight
    <3>. HIDE DEF h
    <3>3. \A q \in Proc : stage[q] \in Saved => job[q].name # sigs[KeyOf(p)].name
      <4>. SUFFICES ASSUME NEW q \in Proc, stage[q] \in Saved,
                          job[q].name = sigs[KeyOf(p)].name
                   PROVE FALSE
           OBVIOUS
      <4>1. KeyOf(p) \in Key /\ lock[KeyOf(p)] = p /\ lock[KeyOf(q)] = q
        BY <1>0, <3>1
      <4>2. KeyOf(p) = KeyOf(q)
        BY <1>0, <2>1, <4>1 DEF Hit, Usable
      <4>. QED BY <3>1, <4>1, <4>2
    <3>4. \A q \in Proc : stage'[q] \in Saved => q # p /\ stage[q] \in Saved /\ job'[q] = job[q]
                                            /\ stage'[q] = stage[q]
      BY <1>0, <3>1
    <3>5. \A q \in Proc : \A g \in held'[q] : g \in held[q] \/ g = h
      BY <1>0, <3>1
    <3>6. SUFFICES ASSUME NEW q \in Proc, stage'[q] \in Saved
          PROVE  /\ dir[job[q].name] = [of |-> job[q].hash, by |-> job[q].setting, tool |-> job[q].tool]
                 /\ \A r \in Proc \ {q} : stage[r] \in Saved => job[r].name # job[q].name
                 /\ \A k \in Key : sigs[k] # None /\ sigs[k].name = job[q].name =>
                      stage[q] = "returning" /\ k = <<job[q].hash, job[q].setting>>
                 /\ \A r \in Proc : \A g \in held[r] : g.name # job[q].name
      BY <3>1, <3>2, <3>3, <3>4, <3>5
    <3>. QED BY <1>0, <3>4, <3>6
  <2>2. CASE ~Hit(p)
    <3>1. /\ stage[p] = "looking" /\ stage' = [stage EXCEPT ![p] = "probing"]
          /\ UNCHANGED <<video, index, dir, lock, job, held>>
      BY <1>7, <2>2 DEF LookUp
    <3>. QED BY <1>0, <3>1
  <2>. QED BY <2>1, <2>2
<1>8. ASSUME NEW p \in Proc, Probe(p) PROVE MineInv'
      BY <1>0, <1>8 DEF Probe
<1>9. ASSUME NEW p \in Proc, Decide(p) PROVE MineInv'
      BY <1>0, <1>9 DEF Decide
<1>10. ASSUME NEW p \in Proc, Decode(p) PROVE MineInv'
      BY <1>0, <1>10 DEF Decode
<1>11. ASSUME NEW p \in Proc, Publish(p) PROVE MineInv'
  <2>1. PICK n \in Gen : Fresh(n) /\ dir' = [dir EXCEPT ![n] = [of |-> job[p].made, by |-> job[p].setting,
                                                                  tool |-> job[p].tool]]
                          /\ job' = [job EXCEPT ![p] = [job[p] EXCEPT !.name = n]]
    BY <1>11 DEF Publish, PublishAs
  <2>2. /\ stage[p] = "publishing" /\ stage' = [stage EXCEPT ![p] = "saving"]
        /\ UNCHANGED <<video, index, lock, held>>
    BY <1>11 DEF Publish
  <2>3. job[p].made = job[p].hash
    BY <1>0, <1>11, <2>2 DEF Publish, Unchanged, TakenInv, Still
  <2>4. /\ dir[n] = None /\ \A k \in Key : sigs[k] # None => sigs[k].name # n
        /\ \A q \in Proc : job[q].name # n /\ \A h \in held[q] : h.name # n
    BY <2>1 DEF Fresh
  <2>5. /\ job'[p].name = n /\ job'[p].hash = job[p].hash /\ job'[p].setting = job[p].setting
        /\ job'[p].tool = job[p].tool /\ stage'[p] = "saving"
        /\ \A q \in Proc \ {p} : job'[q] = job[q] /\ stage'[q] = stage[q]
    BY <1>0, <2>1, <2>2
  <2>6. \A m \in Name \ {n} : dir'[m] = dir[m]
    BY <1>0, <2>1
  <2>. QED BY <1>0, <2>1, <2>2, <2>3, <2>4, <2>5, <2>6
<1>12. ASSUME NEW p \in Proc, Save(p) PROVE MineInv'
      BY <1>0, <1>12 DEF Save
<1>13. ASSUME NEW p \in Proc, Commit(p) PROVE MineInv'
      BY <1>0, <1>13 DEF Commit, RememberFile, Remembered, RowMade, KeyOf
<1>14. ASSUME NEW p \in Proc, Return(p) PROVE MineInv'
      BY <1>0, <1>14 DEF Return, Leave, Released, Give, Signature, RowMade
<1>15. ASSUME NEW p \in Proc, Fail(p) PROVE MineInv'
      BY <1>0, <1>15 DEF Fail, Leave, Released
<1>16. ASSUME NEW p \in Proc, Undo(p) PROVE MineInv'
      BY <1>0, <1>16 DEF Undo, Leave, Released
<1>17. ASSUME NEW p \in Proc, Quit(p) PROVE MineInv'
      BY <1>0, <1>17 DEF Quit
<1>18. ASSUME NEW p \in Proc, Kill(p) PROVE MineInv'
      BY <1>0, <1>18 DEF Kill, Leave, Released
<1>19. CASE Replace
      BY <1>0, <1>19 DEF Replace
<1>20. CASE Clear
      BY <1>0, <1>20 DEF Clear
<1>. QED BY <1>0, <1>1, <1>2, <1>3, <1>4, <1>5, <1>6, <1>7, <1>8, <1>9, <1>10, <1>11, <1>12, <1>13, <1>14, <1>15, <1>16, <1>17, <1>18, <1>19, <1>20 DEF Next, Make 

\* What the index says of a file is true.
LEMMA RowsStep ==
  StoreInv /\ Next => RowsInv'
<1>0. SUFFICES ASSUME StoreInv, Next PROVE RowsInv'
      OBVIOUS
<1> USE NoneAssumption, NameAssumption, ProcAssumption, MaxIdAssumption DEF StoreInv, At, Go, Set, index, Key, Name, File, Row, Locked, Stage, Identified, Saved, NoJob, Called, Job, Held, RowsInv, TakenInv, MineInv, JobInv, TypeOK, Shared, KeyOf
<1>1. ASSUME NEW p \in Proc, Open(p) PROVE RowsInv'
      BY <1>0, <1>1 DEF Open, Ambiguous
<1>2. ASSUME NEW p \in Proc, Begin(p) PROVE RowsInv'
      BY <1>0, <1>2 DEF Begin
<1>3. ASSUME NEW p \in Proc, Recall(p) PROVE RowsInv'
  <2>1. /\ stage[p] = "recalling" /\ UNCHANGED <<video, index, dir, lock, held>>
        /\ job[p].path \in Path /\ job[p].id \in 1..MaxId /\ job[p] \in Job
    BY <1>0, <1>3 DEF Recall, JobInv, TypeOK
  <2>2. CASE files[job[p].path].id = job[p].id
    <3>. DEFINE c == files[job[p].path].hash
    <3>1. /\ stage' = [stage EXCEPT ![p] = "locking"]
          /\ job' = [job EXCEPT ![p] = [job[p] EXCEPT !.hash = c]]
      BY <1>3, <2>2 DEF Recall
    <3>2. c \in Content
      BY <1>0, <2>1, <2>2 DEF TakenInv
    <3>. HIDE DEF c
    <3>. QED BY <1>0, <2>1, <2>2, <3>1, <3>2
  <2>3. CASE files[job[p].path].id # job[p].id
    <3>1. stage' = [stage EXCEPT ![p] = "identifying"] /\ job' = job
      BY <1>3, <2>3 DEF Recall
    <3>. QED BY <1>0, <2>1, <3>1
  <2>. QED BY <2>2, <2>3
<1>4. ASSUME NEW p \in Proc, Identify(p) PROVE RowsInv'
      BY <1>0, <1>4 DEF Identify
<1>5. ASSUME NEW p \in Proc, Hashed(p) PROVE RowsInv'
      BY <1>0, <1>5 DEF Hashed
<1>6. ASSUME NEW p \in Proc, Lock(p) PROVE RowsInv'
      BY <1>0, <1>6 DEF Lock, KeyOf
<1>7. ASSUME NEW p \in Proc, LookUp(p) PROVE RowsInv'
  <2>1. CASE Hit(p)
    <3>. DEFINE h == Signature(p, sigs[KeyOf(p)], facts[job[p].hash])
    <3>1. /\ stage[p] = "looking" /\ stage' = [stage EXCEPT ![p] = "idle"]
          /\ lock' = [k \in Key |-> IF lock[k] = p THEN NoProc ELSE lock[k]]
          /\ job' = [job EXCEPT ![p] = NoJob]
          /\ files' = [files EXCEPT ![job[p].path] = [id |-> job[p].id, hash |-> job[p].hash]]
          /\ held' = [held EXCEPT ![p] = @ \cup {h}]
          /\ UNCHANGED <<video, facts, sigs, dir>>
      BY <1>7, <2>1 DEF LookUp, Leave, Released, RememberFile, Remembered, Give
    <3>2. h \in Held /\ Right(h) /\ h.id <= video[h.path].id /\ h.name = sigs[KeyOf(p)].name
      BY <1>0, <1>7, <2>1, FoundIsRight
    <3>. HIDE DEF h
    <3>. QED BY <1>0, <3>1, <3>2
  <2>2. CASE ~Hit(p)
    <3>1. /\ stage[p] = "looking" /\ stage' = [stage EXCEPT ![p] = "probing"]
          /\ UNCHANGED <<video, index, dir, lock, job, held>>
      BY <1>7, <2>2 DEF LookUp
    <3>. QED BY <1>0, <3>1
  <2>. QED BY <2>1, <2>2
<1>8. ASSUME NEW p \in Proc, Probe(p) PROVE RowsInv'
      BY <1>0, <1>8 DEF Probe
<1>9. ASSUME NEW p \in Proc, Decide(p) PROVE RowsInv'
      BY <1>0, <1>9 DEF Decide
<1>10. ASSUME NEW p \in Proc, Decode(p) PROVE RowsInv'
      BY <1>0, <1>10 DEF Decode
<1>11. ASSUME NEW p \in Proc, Publish(p) PROVE RowsInv'
      BY <1>0, <1>11 DEF Publish, PublishAs, Fresh, KeyOf
<1>12. ASSUME NEW p \in Proc, Save(p) PROVE RowsInv'
      BY <1>0, <1>12 DEF Save
<1>13. ASSUME NEW p \in Proc, Commit(p) PROVE RowsInv'
  <2>. DEFINE k == KeyOf(p)
  <2>1. /\ stage[p] = "committing" /\ UNCHANGED <<video, dir, lock, job, held>>
        /\ facts' = [facts EXCEPT ![job[p].hash] = job[p].duration]
        /\ sigs' = [sigs EXCEPT ![k] = RowMade(p)]
        /\ stage' = [stage EXCEPT ![p] = "returning"]
    BY <1>13 DEF Commit
  <2>2. /\ k \in Key /\ k[1] = job[p].hash /\ k[2] = job[p].setting
        /\ job[p].duration = job[p].hash /\ job[p].crop = job[p].hash
    BY <1>0, <2>1
  <2>3. /\ dir[job[p].name] = [of |-> k[1], by |-> k[2], tool |-> job[p].tool]
        /\ \A l \in Key : sigs[l] # None => sigs[l].name # job[p].name
    BY <1>0, <2>1, <2>2
  <2>4. \A l \in Key : ~Shared(l)
    BY <1>0, <2>1
  <2>5. \A l \in Key : sigs'[l] = IF l = k THEN RowMade(p) ELSE sigs[l]
    BY <1>0, <2>1, <2>2
  <2>6. /\ RowMade(p).name = job[p].name /\ RowMade(p).crop = job[p].crop
        /\ RowMade(p).tool = job[p].tool
    BY DEF RowMade
  <2>7. \A l \in Key : ~Shared(l)'
    BY <2>3, <2>4, <2>5, <2>6
  <2>8. \A l \in Key : sigs'[l] # None =>
          /\ sigs'[l].crop = l[1]
          /\ dir[sigs'[l].name] \in {None, [of |-> l[1], by |-> l[2], tool |-> sigs'[l].tool]}
    <3>. SUFFICES ASSUME NEW l \in Key, sigs'[l] # None
                  PROVE  /\ sigs'[l].crop = l[1]
                         /\ dir[sigs'[l].name] \in {None, [of |-> l[1], by |-> l[2], tool |-> sigs'[l].tool]}
         OBVIOUS
    <3>1. CASE l = k
      BY <2>2, <2>3, <2>5, <2>6, <3>1
    <3>2. CASE l # k
      BY <1>0, <2>4, <2>5, <3>2
    <3>. QED BY <3>1, <3>2
  <2>9. \A c \in Content : facts'[c] \in {c, None}
    BY <1>0, <2>1, <2>2
  <2>. QED BY <2>1, <2>7, <2>8, <2>9
<1>14. ASSUME NEW p \in Proc, Return(p) PROVE RowsInv'
      BY <1>0, <1>14 DEF Return, Leave, Released, Give, Signature, RowMade
<1>15. ASSUME NEW p \in Proc, Fail(p) PROVE RowsInv'
      BY <1>0, <1>15 DEF Fail, Leave, Released
<1>16. ASSUME NEW p \in Proc, Undo(p) PROVE RowsInv'
      BY <1>0, <1>16 DEF Undo, Leave, Released
<1>17. ASSUME NEW p \in Proc, Quit(p) PROVE RowsInv'
      BY <1>0, <1>17 DEF Quit
<1>18. ASSUME NEW p \in Proc, Kill(p) PROVE RowsInv'
      BY <1>0, <1>18 DEF Kill, Leave, Released
<1>19. CASE Replace
      BY <1>0, <1>19 DEF Replace
<1>20. CASE Clear
      BY <1>0, <1>20 DEF Clear
<1>. QED BY <1>0, <1>1, <1>2, <1>3, <1>4, <1>5, <1>6, <1>7, <1>8, <1>9, <1>10, <1>11, <1>12, <1>13, <1>14, <1>15, <1>16, <1>17, <1>18, <1>19, <1>20 DEF Next, Make 

\* What the scans have been given is right, and stays so.
LEMMA HeldStep ==
  StoreInv /\ Next => HeldInv'
<1>0. SUFFICES ASSUME StoreInv, Next PROVE HeldInv'
      OBVIOUS
<1> USE NoneAssumption, NameAssumption, ProcAssumption, MaxIdAssumption DEF StoreInv, At, Go, Set, index, Key, Name, File, Row, Locked, Stage, Identified, Saved, NoJob, Called, Job, Held, HeldInv, HeldIsRight, Right, RowsInv, TakenInv, MineInv, JobInv, TypeOK, KeyOf
<1>1. ASSUME NEW p \in Proc, Open(p) PROVE HeldInv'
      BY <1>0, <1>1 DEF Open, Ambiguous
<1>2. ASSUME NEW p \in Proc, Begin(p) PROVE HeldInv'
      BY <1>0, <1>2 DEF Begin
<1>3. ASSUME NEW p \in Proc, Recall(p) PROVE HeldInv'
  <2>1. /\ stage[p] = "recalling" /\ UNCHANGED <<video, index, dir, lock, held>>
        /\ job[p].path \in Path /\ job[p].id \in 1..MaxId /\ job[p] \in Job
    BY <1>0, <1>3 DEF Recall, JobInv, TypeOK
  <2>2. CASE files[job[p].path].id = job[p].id
    <3>. DEFINE c == files[job[p].path].hash
    <3>1. /\ stage' = [stage EXCEPT ![p] = "locking"]
          /\ job' = [job EXCEPT ![p] = [job[p] EXCEPT !.hash = c]]
      BY <1>3, <2>2 DEF Recall
    <3>2. c \in Content
      BY <1>0, <2>1, <2>2 DEF TakenInv
    <3>. HIDE DEF c
    <3>. QED BY <1>0, <2>1, <2>2, <3>1, <3>2
  <2>3. CASE files[job[p].path].id # job[p].id
    <3>1. stage' = [stage EXCEPT ![p] = "identifying"] /\ job' = job
      BY <1>3, <2>3 DEF Recall
    <3>. QED BY <1>0, <2>1, <3>1
  <2>. QED BY <2>2, <2>3
<1>4. ASSUME NEW p \in Proc, Identify(p) PROVE HeldInv'
      BY <1>0, <1>4 DEF Identify
<1>5. ASSUME NEW p \in Proc, Hashed(p) PROVE HeldInv'
      BY <1>0, <1>5 DEF Hashed
<1>6. ASSUME NEW p \in Proc, Lock(p) PROVE HeldInv'
      BY <1>0, <1>6 DEF Lock, KeyOf
<1>7. ASSUME NEW p \in Proc, LookUp(p) PROVE HeldInv'
  <2>1. CASE Hit(p)
    <3>. DEFINE h == Signature(p, sigs[KeyOf(p)], facts[job[p].hash])
    <3>1. /\ stage[p] = "looking" /\ stage' = [stage EXCEPT ![p] = "idle"]
          /\ lock' = [k \in Key |-> IF lock[k] = p THEN NoProc ELSE lock[k]]
          /\ job' = [job EXCEPT ![p] = NoJob]
          /\ files' = [files EXCEPT ![job[p].path] = [id |-> job[p].id, hash |-> job[p].hash]]
          /\ held' = [held EXCEPT ![p] = @ \cup {h}]
          /\ UNCHANGED <<video, facts, sigs, dir>>
      BY <1>7, <2>1 DEF LookUp, Leave, Released, RememberFile, Remembered, Give
    <3>2. h \in Held /\ Right(h) /\ h.id <= video[h.path].id /\ h.name = sigs[KeyOf(p)].name
      BY <1>0, <1>7, <2>1, FoundIsRight
    <3>. HIDE DEF h
    <3>. QED BY <1>0, <3>1, <3>2
  <2>2. CASE ~Hit(p)
    <3>1. /\ stage[p] = "looking" /\ stage' = [stage EXCEPT ![p] = "probing"]
          /\ UNCHANGED <<video, index, dir, lock, job, held>>
      BY <1>7, <2>2 DEF LookUp
    <3>. QED BY <1>0, <3>1
  <2>. QED BY <2>1, <2>2
<1>8. ASSUME NEW p \in Proc, Probe(p) PROVE HeldInv'
      BY <1>0, <1>8 DEF Probe
<1>9. ASSUME NEW p \in Proc, Decide(p) PROVE HeldInv'
      BY <1>0, <1>9 DEF Decide
<1>10. ASSUME NEW p \in Proc, Decode(p) PROVE HeldInv'
      BY <1>0, <1>10 DEF Decode
<1>11. ASSUME NEW p \in Proc, Publish(p) PROVE HeldInv'
      BY <1>0, <1>11 DEF Publish, PublishAs, Fresh, KeyOf
<1>12. ASSUME NEW p \in Proc, Save(p) PROVE HeldInv'
      BY <1>0, <1>12 DEF Save
<1>13. ASSUME NEW p \in Proc, Commit(p) PROVE HeldInv'
      BY <1>0, <1>13 DEF Commit, RememberFile, Remembered, RowMade, KeyOf
<1>14. ASSUME NEW p \in Proc, Return(p) PROVE HeldInv'
  <2>. DEFINE h == Signature(p, RowMade(p), job[p].duration)
  <2>1. /\ stage[p] = "returning" /\ stage' = [stage EXCEPT ![p] = "idle"]
        /\ lock' = [k \in Key |-> IF lock[k] = p THEN NoProc ELSE lock[k]]
        /\ job' = [job EXCEPT ![p] = NoJob]
        /\ held' = [held EXCEPT ![p] = @ \cup {h}]
        /\ UNCHANGED <<video, index, dir>>
    BY <1>14 DEF Return, Leave, Released, Give
  <2>2. h \in Held /\ Right(h) /\ h.id <= video[h.path].id /\ h.name = job[p].name
    BY <1>0, <1>14, MadeIsRight
  <2>. HIDE DEF h
  <2>. QED BY <1>0, <2>1, <2>2, NoJobTyped
<1>15. ASSUME NEW p \in Proc, Fail(p) PROVE HeldInv'
      BY <1>0, <1>15 DEF Fail, Leave, Released
<1>16. ASSUME NEW p \in Proc, Undo(p) PROVE HeldInv'
  <2>1. /\ stage[p] \in Saved /\ stage' = [stage EXCEPT ![p] = "idle"]
        /\ dir' = [dir EXCEPT ![job[p].name] = None] /\ UNCHANGED <<video, held>>
    BY <1>16 DEF Undo, Leave
  <2>2. \A q \in Proc : \A h \in held[q] : h.name # job[p].name
    BY <1>0, <2>1 DEF MineInv
  <2>3. \A q \in Proc : \A h \in held[q] : h.name \in Name /\ dir'[h.name] = dir[h.name]
    BY <1>0, <2>1, <2>2
  <2>. QED BY <1>0, <2>1, <2>3
<1>17. ASSUME NEW p \in Proc, Quit(p) PROVE HeldInv'
      BY <1>0, <1>17 DEF Quit
<1>18. ASSUME NEW p \in Proc, Kill(p) PROVE HeldInv'
      BY <1>0, <1>18 DEF Kill, Leave, Released
<1>19. CASE Replace
      BY <1>0, <1>19 DEF Replace
<1>20. CASE Clear
      BY <1>0, <1>20 DEF Clear
<1>. QED BY <1>0, <1>1, <1>2, <1>3, <1>4, <1>5, <1>6, <1>7, <1>8, <1>9, <1>10, <1>11, <1>12, <1>13, <1>14, <1>15, <1>16, <1>17, <1>18, <1>19, <1>20 DEF Next, Make 

\* The invariant holds of a new store and of one of older programs.
LEMMA InitStore == Init => StoreInv
<1>. SUFFICES ASSUME Init PROVE StoreInv
     OBVIOUS
<1>. USE DEF Init
<1>1. TypeOK
  <2>1. /\ video \in [Path -> [id : 1..MaxId, content : Content]]
        /\ files \in [Path -> [id : 0..MaxId, hash : Content \cup {None}]]
        /\ facts \in [Content -> Content \cup {None}]
    BY MaxIdAssumption
  <2>2. sigs \in [Key -> Row \cup {None}] /\ dir \in [Name -> File \cup {None}]
    BY DEF Key, Row, Name, File
  <2>3. /\ lock \in [Key -> Proc \cup {NoProc}] /\ stage \in [Proc -> Stage]
        /\ job \in [Proc -> Job] /\ held \in [Proc -> SUBSET Held]
    BY NoJobTyped DEF Stage
  <2>. QED BY <2>1, <2>2, <2>3 DEF TypeOK, Locked
<1>2. JobInv /\ MineInv
  BY DEF JobInv, MineInv, Identified, Locked, Saved
<1>3. TakenInv
  BY MaxIdAssumption DEF TakenInv, Still, Identified, Locked, Saved
<1>4. RowsInv
  <2>1. \A k \in Key : sigs[k] # None /\ ~Shared(k) =>
          /\ sigs[k].crop = k[1]
          /\ dir[sigs[k].name] \in {None, [of |-> k[1], by |-> k[2], tool |-> sigs[k].tool]}
    <3>1. PICK c \in Content, ss \in SUBSET Setting, t \in Tool, n \in Old \cup {None}, by \in Setting :
            IF n = None \/ ss = {}
              THEN /\ sigs = [k \in Key |-> None]
                   /\ dir = [m \in Name |-> None]
              ELSE /\ by \in ss
                   /\ sigs = [k \in Key |-> IF k[1] = c /\ k[2] \in ss
                                              THEN [name |-> n, crop |-> c, tool |-> t] ELSE None]
                   /\ dir = [m \in Name |-> IF m = n THEN [of |-> c, by |-> by, tool |-> t] ELSE None]
      OBVIOUS
    <3>. SUFFICES ASSUME NEW k \in Key, sigs[k] # None, ~Shared(k)
                  PROVE  /\ sigs[k].crop = k[1]
                         /\ dir[sigs[k].name] \in {None, [of |-> k[1], by |-> k[2], tool |-> sigs[k].tool]}
         OBVIOUS
    <3>2. /\ n \in Name /\ by \in ss /\ k[1] = c /\ k[2] \in ss
          /\ sigs[k] = [name |-> n, crop |-> c, tool |-> t]
          /\ dir[n] = [of |-> c, by |-> by, tool |-> t]
      BY <3>1 DEF Name
    <3>3. <<c, by>> \in Key /\ sigs[<<c, by>>] = sigs[k]
      BY <3>1, <3>2 DEF Key
    <3>4. k = <<c, by>>
      BY <3>3 DEF Shared
    <3>. QED BY <3>2, <3>4
  <2>2. \A k \in Key : ~Shared(k) \/ \A p \in Proc : stage[p] = "away"
    OBVIOUS
  <2>. QED BY <2>1, <2>2 DEF RowsInv
<1>5. HeldInv
  BY DEF HeldInv, HeldIsRight
<1>. QED BY <1>1, <1>2, <1>3, <1>4, <1>5 DEF StoreInv

LEMMA StoreStep == StoreInv /\ [Next]_vars => StoreInv'
<1>1. StoreInv /\ Next => StoreInv'
  BY JobStep, TypeStep, TakenStep, MineStep, RowsStep, HeldStep DEF StoreInv
<1>2. StoreInv /\ UNCHANGED vars => StoreInv'
  BY DEF StoreInv, TypeOK, JobInv, TakenInv, MineInv, RowsInv, HeldInv, HeldIsRight, Right,
         Still, Shared, KeyOf, vars, index
<1>. QED BY <1>1, <1>2

\* The invariant, of every store.
THEOREM StoreHolds == Spec => []StoreInv
<1>. QED BY InitStore, StoreStep, PTL DEF Spec

\* Every variable keeps its type, and whoever is between taking and giving up
\* the lock of a key is the one who has it.
THEOREM TypeCorrect == Spec => []TypeOK
<1>1. StoreInv => TypeOK
  BY DEF StoreInv
<1>. QED BY <1>1, StoreHolds, PTL

\* What a usable row says of its file is true, whatever was killed, replaced,
\* removed or overwritten (make, find_signature, _open_db).
THEOREM RowsStayTrue == Spec => []RowsAreTrue
<1>1. StoreInv => RowsAreTrue
  BY DEF StoreInv, RowsInv, RowsAreTrue, Usable
<1>. QED BY <1>1, StoreHolds, PTL

\* What make returned is the signature of the video that was asked for, and its
\* file stays what it was while the scan has it (build: a fresh generation).
THEOREM HeldStaysRight == Spec => []HeldIsRight
<1>1. StoreInv => HeldIsRight
  BY DEF StoreInv, HeldInv
<1>. QED BY <1>1, StoreHolds, PTL

\* A hash that known_hash gives is that of the file as it is now.
THEOREM KnownStaysCurrent == Spec => []KnownIsCurrent
<1>1. StoreInv => KnownIsCurrent
  BY DEF StoreInv, TakenInv, KnownIsCurrent
<1>. QED BY <1>1, StoreHolds, PTL

-----------------------------------------------------------------------------
(* Nobody decodes what the store has *)

\* A row that make has written has its duration beside it.
RowsKnown == \A k \in Key : sigs[k] # None /\ sigs[k].name \notin Old => facts[k[1]] # None
OnlyInv   == RowsKnown /\ DecodesOnlyWhatIsMissing

\* The stages between a look-up that found nothing and the commit.
Making == {"probing", "deciding", "decoding", "publishing", "saving", "committing"}

LEMMA OnlyInit == Init => OnlyInv
<1>. SUFFICES ASSUME Init PROVE OnlyInv
     OBVIOUS
<1>1. RowsKnown
  <2>. SUFFICES ASSUME NEW k \in Key, sigs[k] # None PROVE sigs[k].name \in Old
       BY DEF RowsKnown
  <2>1. PICK c \in Content, ss \in SUBSET Setting, t \in Tool, n \in Old \cup {None}, by \in Setting :
          IF n = None \/ ss = {}
            THEN sigs = [l \in Key |-> None]
            ELSE sigs = [l \in Key |-> IF l[1] = c /\ l[2] \in ss
                                         THEN [name |-> n, crop |-> c, tool |-> t] ELSE None]
    BY DEF Init
  <2>2. n \in Old /\ sigs[k] = [name |-> n, crop |-> c, tool |-> t]
    BY <2>1
  <2>. QED BY <2>2
<1>2. DecodesOnlyWhatIsMissing
  BY DEF Init, DecodesOnlyWhatIsMissing
<1>. QED BY <1>1, <1>2 DEF OnlyInv

\* A step that makes nothing usable, and that nobody has looked up something in.
LEMMA OnlyKept ==
  ASSUME OnlyInv, UNCHANGED <<facts, sigs>>,
         \A k \in Key : dir'[sigs[k].name] # None /\ sigs[k] # None => dir[sigs[k].name] # None,
         \A q \in Proc : stage'[q] \in Making =>
           /\ stage[q] \in Making /\ job'[q].overwrite = job[q].overwrite
           /\ job'[q].hash = job[q].hash /\ job'[q].setting = job[q].setting
           /\ KeyOf(q) \in Key
  PROVE  OnlyInv'
<1>1. RowsKnown'
  BY DEF OnlyInv, RowsKnown
<1>2. \A q \in Proc : stage'[q] \in Making => KeyOf(q)' = KeyOf(q)
  BY DEF KeyOf
<1>3. \A k \in Key : Usable(k)' => Usable(k)
  BY DEF Usable, Shared
<1>4. DecodesOnlyWhatIsMissing'
  BY <1>2, <1>3 DEF OnlyInv, DecodesOnlyWhatIsMissing, Making
<1>. QED BY <1>1, <1>4 DEF OnlyInv

LEMMA OnlyStep ==
  StoreInv /\ OnlyInv /\ Next => OnlyInv'
<1>0. SUFFICES ASSUME StoreInv, OnlyInv, Next PROVE OnlyInv'
      OBVIOUS
<1>a. /\ job \in [Proc -> Job] /\ stage \in [Proc -> Stage] /\ dir \in [Name -> File \cup {None}]
      /\ \A q \in Proc : stage[q] \in Making => KeyOf(q) \in Key /\ lock[KeyOf(q)] = q
      /\ sigs \in [Key -> Row \cup {None}] /\ facts \in [Content -> Content \cup {None}]
  BY <1>0 DEF StoreInv, TypeOK, Making, Locked
<1>1. ASSUME NEW p \in Proc, Open(p) PROVE OnlyInv'
  <2>1. /\ stage[p] = "away" /\ stage' = [stage EXCEPT ![p] = "idle"]
        /\ sigs' = [k \in Key |-> IF Shared(k) THEN None ELSE sigs[k]]
        /\ UNCHANGED <<facts, dir, job>>
    BY <1>1 DEF Open, At, Go, Ambiguous
  <2>2. RowsKnown'
    BY <1>0, <2>1 DEF OnlyInv, RowsKnown
  <2>3. CASE \E k \in Key : Shared(k)
    <3>1. \A q \in Proc : stage'[q] \notin Making
      BY <1>0, <1>a, <2>1, <2>3 DEF StoreInv, RowsInv, Making
    <3>. QED BY <2>2, <3>1 DEF OnlyInv, DecodesOnlyWhatIsMissing, Making
  <2>4. CASE ~\E k \in Key : Shared(k)
    <3>1. sigs' = sigs
      BY <1>a, <2>1, <2>4
    <3>2. \A q \in Proc : stage'[q] \in Making => stage[q] \in Making
      BY <1>a, <2>1 DEF Making
    <3>. QED BY <1>0, <1>a, <2>1, <3>1, <3>2, OnlyKept
  <2>. QED BY <2>3, <2>4
<1>2. ASSUME NEW p \in Proc,
             Begin(p) \/ Recall(p) \/ Identify(p) \/ Hashed(p) \/ Lock(p) \/ Fail(p) \/ Quit(p) \/ Kill(p)
      PROVE  OnlyInv'
  <2>1. /\ UNCHANGED <<index, dir>>
        /\ stage'[p] \notin Making
        /\ \A q \in Proc \ {p} : stage'[q] = stage[q] /\ job'[q] = job[q]
    BY <1>a, <1>2 DEF Begin, Recall, Identify, Hashed, Lock, Fail, Quit, Kill, Leave, Go, Set, At, Making
  <2>. QED BY <1>0, <1>a, <2>1, OnlyKept DEF index
<1>3. ASSUME NEW p \in Proc, LookUp(p) PROVE OnlyInv'
  <2>1. CASE Hit(p)
    <3>1. /\ UNCHANGED <<facts, sigs, dir>>
          /\ stage'[p] \notin Making
          /\ \A q \in Proc \ {p} : stage'[q] = stage[q] /\ job'[q] = job[q]
      BY <1>a, <1>3, <2>1 DEF LookUp, Leave, Go, Set, At, Making
    <3>. QED BY <1>0, <1>a, <3>1, OnlyKept
  <2>2. CASE ~Hit(p)
    <3>1. /\ UNCHANGED <<facts, sigs, dir, job>>
          /\ \A q \in Proc \ {p} : stage'[q] = stage[q]
          /\ stage[p] = "looking"
      BY <1>a, <1>3, <2>2 DEF LookUp, Go, At, index
    <3>2. KeyOf(p) \in Key /\ KeyOf(p)[1] = job[p].hash
      BY <1>0, <3>1 DEF StoreInv, TypeOK, Locked, KeyOf
    <3>3. ~job[p].overwrite /\ Usable(KeyOf(p)) => sigs[KeyOf(p)].name \in Old
      BY <1>0, <2>2, <3>2 DEF Hit, Usable, OnlyInv, RowsKnown
    <3>4. \A q \in Proc : KeyOf(q)' = KeyOf(q)
      BY <3>1 DEF KeyOf
    <3>5. \A k : Usable(k)' <=> Usable(k)
      BY <3>1 DEF Usable, Shared
    <3>6. DecodesOnlyWhatIsMissing'
      BY <1>0, <3>1, <3>3, <3>4, <3>5 DEF OnlyInv, DecodesOnlyWhatIsMissing
    <3>. QED BY <1>0, <3>1, <3>6 DEF OnlyInv, RowsKnown
  <2>. QED BY <2>1, <2>2
<1>4. ASSUME NEW p \in Proc, Probe(p) \/ Decide(p) \/ Decode(p) \/ Save(p) PROVE OnlyInv'
  <2>1. /\ UNCHANGED <<index, dir>> /\ stage[p] \in Making
        /\ \A q \in Proc \ {p} : stage'[q] = stage[q] /\ job'[q] = job[q]
        /\ job'[p].overwrite = job[p].overwrite
        /\ job'[p].hash = job[p].hash /\ job'[p].setting = job[p].setting
    <3>1. job[p] \in Job
      BY <1>a
    <3>. QED BY <1>a, <1>4, <3>1 DEF Probe, Decide, Decode, Save, Go, Set, At, Making, Job
  <2>. QED BY <1>0, <1>a, <2>1, OnlyKept DEF index
<1>5. ASSUME NEW p \in Proc, Publish(p) PROVE OnlyInv'
  <2>1. PICK n \in Gen :
          /\ Fresh(n)
          /\ dir' = [dir EXCEPT ![n] = [of |-> job[p].made, by |-> job[p].setting, tool |-> job[p].tool]]
          /\ job' = [job EXCEPT ![p] = [job[p] EXCEPT !.name = n]]
    BY <1>5 DEF Publish, PublishAs, Set
  <2>2. /\ UNCHANGED index /\ stage[p] \in Making
        /\ \A q \in Proc \ {p} : stage'[q] = stage[q]
    BY <1>a, <1>5 DEF Publish, Go, At, Making
  <2>3. \A k \in Key : sigs[k] # None => dir'[sigs[k].name] = dir[sigs[k].name]
    BY <1>a, <2>1 DEF Fresh
  <2>4. /\ \A q \in Proc \ {p} : job'[q] = job[q]
        /\ job'[p].overwrite = job[p].overwrite
        /\ job'[p].hash = job[p].hash /\ job'[p].setting = job[p].setting
    <3>1. job[p] \in Job
      BY <1>a
    <3>. QED BY <1>a, <2>1, <3>1 DEF Job
  <2>. QED BY <1>0, <1>a, <2>2, <2>3, <2>4, OnlyKept DEF index
<1>6. ASSUME NEW p \in Proc, Commit(p) PROVE OnlyInv'
  <2>. DEFINE k == KeyOf(p)
  <2>1. /\ stage[p] = "committing" /\ UNCHANGED <<dir, lock, job>>
        /\ facts' = [facts EXCEPT ![job[p].hash] = job[p].duration]
        /\ sigs' = [sigs EXCEPT ![k] = RowMade(p)]
        /\ stage' = [stage EXCEPT ![p] = "returning"]
    BY <1>6 DEF Commit, At, Go
  <2>2. k \in Key /\ k[1] = job[p].hash /\ job[p].duration \in Content /\ job[p].hash \in Content
    BY <1>0, <1>a, <2>1 DEF StoreInv, JobInv, KeyOf, Making, Locked, Identified, Saved
  <2>3. RowsKnown'
    <3>1. \A c \in Content : facts[c] # None => facts'[c] # None
      BY <1>a, <2>1, <2>2, NoneAssumption
    <3>2. facts'[k[1]] # None
      BY <1>a, <2>1, <2>2, NoneAssumption
    <3>3. \A l \in Key : l[1] \in Content /\ (l # k => sigs'[l] = sigs[l])
      BY <1>a, <2>1, <2>2 DEF Key
    <3>. QED BY <1>0, <3>1, <3>2, <3>3 DEF OnlyInv, RowsKnown
  <2>4. \A l \in Key : ~Shared(l)
    BY <1>0, <2>1 DEF StoreInv, RowsInv
  <2>5. ASSUME NEW q \in Proc, stage'[q] \in Making
        PROVE  /\ q # p /\ stage[q] \in Making /\ KeyOf(q)' = KeyOf(q)
               /\ KeyOf(q) \in Key /\ KeyOf(q) # k /\ sigs'[KeyOf(q)] = sigs[KeyOf(q)]
    <3>1. q # p /\ stage[q] \in Making
      BY <1>a, <2>1, <2>5 DEF Making
    <3>2. KeyOf(q)' = KeyOf(q) /\ KeyOf(q) \in Key /\ lock[KeyOf(q)] = q /\ lock[k] = p
      BY <1>a, <2>1, <3>1 DEF KeyOf, Making
    <3>. QED BY <1>a, <2>1, <3>1, <3>2
  <2>6. ASSUME NEW q \in Proc, stage'[q] \in Making, Usable(KeyOf(q))'
        PROVE  Usable(KeyOf(q))
    BY <2>1, <2>4, <2>5, <2>6 DEF Usable
  <2>7. DecodesOnlyWhatIsMissing'
    BY <1>0, <2>1, <2>5, <2>6 DEF OnlyInv, DecodesOnlyWhatIsMissing, Making
  <2>. QED BY <2>3, <2>7 DEF OnlyInv
<1>7. ASSUME NEW p \in Proc, Return(p) \/ Undo(p) PROVE OnlyInv'
  <2>1. /\ UNCHANGED <<facts, sigs>> /\ stage'[p] \notin Making
        /\ \A q \in Proc \ {p} : stage'[q] = stage[q] /\ job'[q] = job[q]
    BY <1>a, <1>7 DEF Return, Undo, Leave, Go, Set, Making, index
  <2>2. \A n \in Name : dir'[n] # None => dir[n] # None
    BY <1>a, <1>7 DEF Return, Undo
  <2>3. \A l \in Key : sigs[l] # None => sigs[l].name \in Name
    BY <1>a DEF Row
  <2>. QED BY <1>0, <1>a, <2>1, <2>2, <2>3, OnlyKept
<1>8. CASE Replace
  BY <1>0, <1>8, <1>a, OnlyKept DEF Replace, index
<1>9. CASE Clear
  <2>1. /\ UNCHANGED <<facts, sigs, stage, job>>
        /\ \A n \in Name : dir'[n] # None => dir[n] # None
    BY <1>a, <1>9 DEF Clear, index
  <2>2. \A l \in Key : sigs[l] # None => sigs[l].name \in Name
    BY <1>a DEF Row
  <2>. QED BY <1>0, <1>a, <2>1, <2>2, OnlyKept
<1>. QED BY <1>0, <1>1, <1>2, <1>3, <1>4, <1>5, <1>6, <1>7, <1>8, <1>9 DEF Next, Make

\* However many scans share the store, and whatever is replaced, killed or
\* overwritten: nobody decodes what the index already has (make, lookup).
THEOREM NothingIsDecodedTwice == Spec => []DecodesOnlyWhatIsMissing
<1>1. StoreInv /\ OnlyInv /\ UNCHANGED vars => OnlyInv'
  BY DEF OnlyInv, RowsKnown, DecodesOnlyWhatIsMissing, Usable, Shared, KeyOf, vars, index
<1>2. StoreInv /\ OnlyInv /\ [Next]_vars => OnlyInv'
  BY <1>1, OnlyStep
<1>3. OnlyInv => DecodesOnlyWhatIsMissing
  BY DEF OnlyInv
<1>. QED BY <1>2, <1>3, OnlyInit, StoreHolds, PTL DEF Spec

=============================================================================
