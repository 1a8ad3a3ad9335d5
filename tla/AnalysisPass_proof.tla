------------------------- MODULE AnalysisPass_proof -------------------------
(***************************************************************************)
(* Proofs about the cache of profiles and the pass that uses it, for any   *)
(* number of scans, contents, names and replacements of the video: what is *)
(* given is right, and nobody decodes what the cache has.                  *)
(***************************************************************************)
EXTENDS AnalysisPass, TLAPS

Stage == {"called", "knowing", "hashing", "locking", "looking", "hit", "probing", "analyzing",
          "reading", "saving", "recording", "returning", "done", "failed"}
Away  == {"called", "done", "failed"}

\* What a profile, a file, a row and the variables of make may hold.
Value == Content \cup {None}
Claim == [content_hash : Value, color : Value, measured : Value]
Entry == [name : Name, digest : Claim]
Gift  == [of : Value, got : Claim]
Job   == [hash : Value, id : Nat, overwrite : BOOLEAN, color : Value, measured : Value,
          found : Claim, name : Name \cup {None}]

Types ==
  /\ video \in [id : Nat, content : Content]
  /\ remember \in [id : Nat, hash : Content]
  /\ profiles \in [Content -> {None} \cup Entry]
  /\ dir \in [Name -> {None} \cup Claim]
  /\ lock \in [Content -> Scan \cup {NoScan}]
  /\ at \in [Scan -> Stage]
  /\ job \in [Scan -> Job]
  /\ given \in [Scan -> {None} \cup Gift]

\* The identity that was remembered is of the content that was hashed.
Remembered ==
  /\ remember.id <= video.id
  /\ remember.id = video.id => remember.hash = video.content

\* A row describes a whole profile of its content.
RowInv(c) == profiles[c] # None => profiles[c].digest = Whole(c)

\* While the video has the identity it had, all that was read of it is of the content
\* asked for.
Current(s) == job[s].id = video.id
TakenInv(s) ==
  /\ at[s] \notin {"done", "failed"} => job[s].hash \in Content
  /\ at[s] \notin Away => job[s].id <= video.id
  /\ at[s] \in {"called", "knowing", "hashing", "locking", "looking", "probing", "analyzing"} =>
       job[s].measured = None
  /\ at[s] \in {"locking", "looking", "probing", "analyzing", "reading", "saving", "recording"}
       /\ Current(s) => video.content = job[s].hash
  /\ at[s] \in {"analyzing", "reading"} /\ Current(s) =>
       job[s].color = job[s].hash /\ job[s].hash \notin Unsupported
  /\ at[s] = "reading" /\ Current(s) => job[s].measured = job[s].hash
  /\ at[s] \in {"saving", "recording"} /\ Current(s) => Made(s) = Whole(job[s].hash)
  /\ at[s] \in OnDisk => job[s].name \in Name
  /\ at[s] = "returning" => Made(s) = Whole(job[s].hash)
  /\ at[s] = "hit" => job[s].found = Whole(job[s].hash)

\* Who works on a content has its lock, and has found nothing unless told not to look.
Making == Locked \ {"looking", "hit", "returning"}
LockInv(s)  == at[s] \in Locked => lock[job[s].hash] = s
MissInv(s)  == at[s] \in Making /\ ~job[s].overwrite => ~Usable(job[s].hash)
GivenInv(s) == given[s] # None => given[s].got = Whole(given[s].of)

CacheInv ==
  /\ Types
  /\ Remembered
  /\ \A c \in Content : RowInv(c)
  /\ \A s \in Scan : TakenInv(s) /\ LockInv(s) /\ MissInv(s) /\ GivenInv(s)

-----------------------------------------------------------------------------

\* What writing one field of the local variables of make leaves.
LEMMA JobFields ==
  ASSUME NEW j \in Job
  PROVE  /\ \A i \in Nat : LET k == [j EXCEPT !.id = i] IN
              /\ k \in Job /\ k.id = i /\ k.hash = j.hash /\ k.overwrite = j.overwrite
              /\ k.color = j.color /\ k.measured = j.measured /\ k.found = j.found /\ k.name = j.name
         /\ \A c \in Value : LET k == [j EXCEPT !.color = c] IN
              /\ k \in Job /\ k.id = j.id /\ k.hash = j.hash /\ k.overwrite = j.overwrite
              /\ k.color = c /\ k.measured = j.measured /\ k.found = j.found /\ k.name = j.name
         /\ \A c \in Value : LET k == [j EXCEPT !.measured = c] IN
              /\ k \in Job /\ k.id = j.id /\ k.hash = j.hash /\ k.overwrite = j.overwrite
              /\ k.color = j.color /\ k.measured = c /\ k.found = j.found /\ k.name = j.name
         /\ \A p \in Claim : LET k == [j EXCEPT !.found = p] IN
              /\ k \in Job /\ k.id = j.id /\ k.hash = j.hash /\ k.overwrite = j.overwrite
              /\ k.color = j.color /\ k.measured = j.measured /\ k.found = p /\ k.name = j.name
         /\ \A n \in Name : LET k == [j EXCEPT !.name = n] IN
              /\ k \in Job /\ k.id = j.id /\ k.hash = j.hash /\ k.overwrite = j.overwrite
              /\ k.color = j.color /\ k.measured = j.measured /\ k.found = j.found /\ k.name = n
  BY DEF Job

LEMMA Typed ==
  /\ NoJob \in Job
  /\ Damaged \in Claim
  /\ \A c \in Content : Whole(c) \in Claim /\ Whole(c) # None /\ Whole(c).content_hash = c
<1>1. Damaged \in Claim
  BY DEF Damaged, Claim, Value
<1>2. NoJob \in Job
  BY <1>1 DEF NoJob, Job, Value
<1>3. ASSUME NEW c \in Content PROVE Whole(c) \in Claim /\ Whole(c) # None /\ Whole(c).content_hash = c
  <2>1. Whole(c) \in Profile
    BY DEF Whole, Profile
  <2>2. Whole(c) # None
    BY <2>1, NoneAssumption
  <2>3. Whole(c) \in Claim
    BY DEF Whole, Claim, Value
  <2>4. Whole(c).content_hash = c
    BY DEF Whole
  <2>. QED BY <2>2, <2>3, <2>4
<1>. QED BY <1>1, <1>2, <1>3

LEMMA CacheInit == InitCache => CacheInv
<1>. SUFFICES ASSUME InitCache PROVE CacheInv
  OBVIOUS
<1>1. video \in [id : Nat, content : Content] /\ remember = [id |-> 1, hash |-> video.content]
      /\ video.id = 1
  <2>1. video \in [id : {1}, content : Seen] /\ remember = [id |-> 1, hash |-> video.content]
    BY Zenon DEF InitCache
  <2>2. video.id = 1 /\ video.content \in Content /\ video = [id |-> video.id, content |-> video.content]
    BY <2>1, ContentAssumption
  <2>3. 1 \in Nat
    OBVIOUS
  <2>. QED BY <2>1, <2>2, <2>3
<1>2. /\ profiles \in [Content -> {None} \cup Entry] /\ dir \in [Name -> {None} \cup Claim]
      /\ \A c \in Content : RowInv(c)
  <2>1. CASE profiles = [c \in Content |-> None] /\ dir = [n \in Name |-> None]
    BY <2>1 DEF RowInv
  <2>2. CASE \E c \in Seen : \E f \in {None, Damaged, Whole(c)} :
          /\ profiles = [d \in Content |-> IF d = c THEN [name |-> Earlier, digest |-> Whole(c)]
                                           ELSE None]
          /\ dir = [n \in Name |-> IF n = Earlier THEN f ELSE None]
    <3>1. PICK c \in Seen : \E f \in {None, Damaged, Whole(c)} :
          /\ profiles = [d \in Content |-> IF d = c THEN [name |-> Earlier, digest |-> Whole(c)]
                                           ELSE None]
          /\ dir = [n \in Name |-> IF n = Earlier THEN f ELSE None]
      BY <2>2
    <3>2. c \in Content /\ Whole(c) \in Claim /\ Damaged \in Claim
      BY Typed, ContentAssumption
    <3>3. dir \in [Name -> {None} \cup Claim]
      <4>1. PICK f \in {None, Damaged, Whole(c)} :
              dir = [n \in Name |-> IF n = Earlier THEN f ELSE None]
        BY <3>1, Zenon
      <4>. QED BY <3>2, <4>1
    <3>. DEFINE e == [name |-> Earlier, digest |-> Whole(c)]
    <3>4. e \in Entry /\ e.digest = Whole(c)
      BY <3>2, NameAssumption DEF Entry, Earlier
    <3>5. profiles = [d \in Content |-> IF d = c THEN e ELSE None]
      BY <3>1
    <3>. HIDE DEF e
    <3>. QED BY <3>3, <3>4, <3>5 DEF RowInv
  <2>. QED BY <2>1, <2>2, Zenon DEF InitCache
<1>3. PICK call \in Calls :
       job = [s \in Scan |-> [NoJob EXCEPT !.hash = call[s].hash, !.overwrite = call[s].overwrite]]
  BY Zenon DEF InitCache
<1>4. ASSUME NEW s \in Scan
      PROVE job[s] \in Job /\ job[s].hash \in Content /\ job[s].measured = None
  <2>1. call[s].hash \in Content /\ call[s].overwrite \in BOOLEAN
    BY CallsAssumption, ContentAssumption
  <2>2. job[s] = [hash |-> call[s].hash, id |-> 0, overwrite |-> call[s].overwrite, color |-> None,
                  measured |-> None, found |-> Damaged, name |-> None]
    BY <1>3 DEF NoJob
  <2>. QED BY <2>1, <2>2, Typed DEF Job, Value
<1>5. /\ lock = [c \in Content |-> NoScan] /\ at = [s \in Scan |-> "called"]
      /\ given = [s \in Scan |-> None]
  BY Zenon DEF InitCache
<1>6. job \in [Scan -> Job]
  BY <1>3, <1>4
<1>7. Types
  BY <1>1, <1>2, <1>5, <1>6 DEF Types, Stage
<1>8. Remembered
  BY <1>1 DEF Remembered
<1>9. ASSUME NEW s \in Scan PROVE TakenInv(s) /\ LockInv(s) /\ MissInv(s) /\ GivenInv(s)
  BY <1>4, <1>5 DEF TakenInv, LockInv, MissInv, GivenInv, Away, OnDisk, Locked, Making
<1>. QED BY <1>2, <1>7, <1>8, <1>9 DEF CacheInv

-----------------------------------------------------------------------------

\* A step of one scan in make, seen from the others: it changes no lock but its own, and makes
\* nothing usable for which it has no lock.
LEMMA OneStep ==
  ASSUME CacheInv, NEW s \in Scan, NEW a \in Stage, NEW j \in Job,
         at' = [at EXCEPT ![s] = a], job' = [job EXCEPT ![s] = j],
         UNCHANGED <<video, remember>>,
         profiles' \in [Content -> {None} \cup Entry], dir' \in [Name -> {None} \cup Claim],
         \A c \in Content : RowInv(c)',
         lock' \in [Content -> Scan \cup {NoScan}],
         \A c \in Content : lock'[c] = lock[c] \/ lock[c] \in {s, NoScan},
         given' \in [Scan -> {None} \cup Gift], \A t \in Scan : GivenInv(t)',
         \A c \in Content : Usable(c)' => Usable(c) \/ lock[c] = s,
         TakenInv(s)', LockInv(s)', MissInv(s)'
  PROVE  CacheInv'
<1>1. Types'
  BY DEF CacheInv, Types
<1>2. Remembered'
  BY DEF CacheInv, Remembered
<1>3. ASSUME NEW t \in Scan, t # s PROVE TakenInv(t)' /\ LockInv(t)' /\ MissInv(t)'
  <2>1. at'[t] = at[t] /\ job'[t] = job[t]
    BY <1>3 DEF CacheInv, Types
  <2>2. TakenInv(t)'
    BY <2>1, Zenon DEF CacheInv, TakenInv, OnDisk, Current, Made
  <2>3. at[t] \in Locked => job[t].hash \in Content /\ lock[job[t].hash] = t
    BY DEF CacheInv, TakenInv, LockInv, Locked
  <2>4. LockInv(t)'
    BY <2>1, <2>3, <1>3, ScanAssumption DEF LockInv
  <2>5. MissInv(t)'
    BY <2>1, <2>3, <1>3 DEF CacheInv, MissInv, Making
  <2>. QED BY <2>2, <2>4, <2>5
<1>. QED BY <1>1, <1>2, <1>3 DEF CacheInv

\* What a scan leaves of the locks when it leaves make.
LEMMA Leaving ==
  ASSUME CacheInv, NEW s \in Scan, NEW a \in {"done", "failed"}, Leave(s, a),
         UNCHANGED <<video, remember, profiles>>,
         dir' \in [Name -> {None} \cup Claim],
         \A c \in Content : Usable(c)' => Usable(c),
         given' \in [Scan -> {None} \cup Gift], \A t \in Scan : GivenInv(t)'
  PROVE  CacheInv'
<1>1. at' = [at EXCEPT ![s] = a] /\ job' = [job EXCEPT ![s] = NoJob] /\ a \in Stage /\ NoJob \in Job
  BY Typed DEF Leave, Go, Set, Stage
<1>2. /\ lock' \in [Content -> Scan \cup {NoScan}]
      /\ \A c \in Content : lock'[c] = lock[c] \/ lock[c] \in {s, NoScan}
  BY DEF Leave, Released, CacheInv, Types
<1>3. at'[s] = a /\ job'[s] = NoJob
  BY <1>1 DEF CacheInv, Types
<1>4. TakenInv(s)' /\ LockInv(s)' /\ MissInv(s)'
  BY <1>3 DEF TakenInv, LockInv, MissInv, Locked, Making, OnDisk, Away
<1>5. \A c \in Content : RowInv(c)'
  BY DEF CacheInv, RowInv
<1>6. profiles' \in [Content -> {None} \cup Entry]
  BY DEF CacheInv, Types
<1>7. \A c \in Content : Usable(c)' => Usable(c) \/ lock[c] = s
  OBVIOUS
<1>. QED BY <1>1, <1>2, <1>4, <1>5, <1>6, <1>7, OneStep

\* A step that only concerns the variables of one scan.
LEMMA Inward ==
  ASSUME CacheInv, NEW s \in Scan, NEW a \in Stage, NEW j \in Job,
         at' = [at EXCEPT ![s] = a], job' = [job EXCEPT ![s] = j],
         UNCHANGED <<store, lock, given>>,
         TakenInv(s)', LockInv(s)', MissInv(s)'
  PROVE  CacheInv'
<1>1. /\ UNCHANGED <<video, remember>> /\ profiles' = profiles /\ dir' = dir
      /\ lock' = lock /\ given' = given
  BY DEF store
<1>2. /\ profiles' \in [Content -> {None} \cup Entry] /\ dir' \in [Name -> {None} \cup Claim]
      /\ lock' \in [Content -> Scan \cup {NoScan}] /\ given' \in [Scan -> {None} \cup Gift]
  BY <1>1 DEF CacheInv, Types
<1>3. (\A c \in Content : RowInv(c)') /\ (\A t \in Scan : GivenInv(t)')
  BY <1>1 DEF CacheInv, RowInv, GivenInv
<1>4. \A c \in Content : (Usable(c)' => Usable(c) \/ lock[c] = s) /\ lock'[c] = lock[c]
  BY <1>1 DEF Usable
<1>. QED BY <1>1, <1>2, <1>3, <1>4, OneStep

\* The variables of a scan, as the invariant has them.
LEMMA JobTyped ==
  ASSUME CacheInv, NEW s \in Scan
  PROVE  /\ at[s] \in Stage /\ job[s] \in Job /\ video.id \in Nat /\ video.content \in Content
         /\ \A a : [at EXCEPT ![s] = a][s] = a
         /\ \A j : [job EXCEPT ![s] = j][s] = j
         /\ TakenInv(s) /\ LockInv(s) /\ MissInv(s)
  BY DEF CacheInv, Types

LEMMA BeginKeeps == ASSUME CacheInv, NEW s \in Scan, Begin(s) PROVE CacheInv'
<1>. DEFINE j == [job[s] EXCEPT !.id = video.id]
<1>1. /\ j \in Job /\ j.id = video.id /\ j.hash = job[s].hash /\ j.measured = job[s].measured
  BY JobTyped, JobFields
<1>2. /\ at[s] = "called" /\ at' = [at EXCEPT ![s] = "knowing"] /\ job' = [job EXCEPT ![s] = j]
      /\ UNCHANGED <<store, lock, given>>
  BY DEF Begin, At, Go, Set
<1>. HIDE DEF j
<1>3. at'[s] = "knowing" /\ job'[s] = j /\ video' = video
  BY <1>2, JobTyped DEF store
<1>4. TakenInv(s)' /\ LockInv(s)' /\ MissInv(s)'
  BY <1>1, <1>2, <1>3, JobTyped DEF TakenInv, LockInv, MissInv, Locked, Making, OnDisk, Away
<1>. QED BY <1>1, <1>2, <1>4, Inward DEF Stage

LEMMA KnowKeeps == ASSUME CacheInv, NEW s \in Scan, Know(s) PROVE CacheInv'
<1>1. PICK a \in {"locking", "hashing"} :
        /\ at[s] = "knowing" /\ at' = [at EXCEPT ![s] = a]
        /\ a = "locking" => remember.id = job[s].id /\ remember.hash = job[s].hash
  BY DEF Know, At, Go, Known
<1>2. job' = job /\ UNCHANGED <<store, lock, given>>
  BY DEF Know
<1>3. at'[s] = a /\ job' = [job EXCEPT ![s] = job[s]] /\ job'[s] = job[s] /\ video' = video
  BY <1>1, <1>2 DEF CacheInv, Types, store
<1>4. a = "locking" /\ Current(s) => video.content = job[s].hash
  BY <1>1 DEF CacheInv, Remembered, Current
<1>5. TakenInv(s)' /\ LockInv(s)' /\ MissInv(s)'
  BY <1>1, <1>3, <1>4, JobTyped DEF TakenInv, LockInv, MissInv, Locked, Making, OnDisk, Away, Current
<1>. QED BY <1>1, <1>2, <1>3, <1>5, JobTyped, Inward DEF Stage

LEMMA HashKeeps == ASSUME CacheInv, NEW s \in Scan, Hash(s) PROVE CacheInv'
<1>. DEFINE j == [job[s] EXCEPT !.id = video.id]
<1>1. /\ j \in Job /\ j.id = video.id /\ j.hash = job[s].hash /\ j.measured = job[s].measured
  BY JobTyped, JobFields
<1>2. /\ at[s] = "hashing" /\ at' = [at EXCEPT ![s] = "locking"] /\ job' = [job EXCEPT ![s] = j]
      /\ video.content = job[s].hash /\ UNCHANGED <<store, lock, given>>
  BY DEF Hash, At, Go, Set
<1>. HIDE DEF j
<1>3. at'[s] = "locking" /\ job'[s] = j /\ video' = video
  BY <1>2, JobTyped DEF store
<1>4. TakenInv(s)' /\ LockInv(s)' /\ MissInv(s)'
  BY <1>1, <1>2, <1>3, JobTyped DEF TakenInv, LockInv, MissInv, Locked, Making, OnDisk, Away, Current
<1>. QED BY <1>1, <1>2, <1>4, Inward DEF Stage

LEMMA LookUpKeeps == ASSUME CacheInv, NEW s \in Scan, LookUp(s) PROVE CacheInv'
<1>1. /\ at[s] = "looking" /\ job[s].id = video.id /\ UNCHANGED <<store, lock, given>>
      /\ job[s].hash \in Content /\ lock[job[s].hash] = s
  BY JobTyped DEF LookUp, At, Unchanged, TakenInv, LockInv, Locked
<1>2. CASE /\ Usable(job[s].hash)
           /\ Set(s, [job[s] EXCEPT !.found = dir[profiles[job[s].hash].name]]) /\ Go(s, "hit")
  <2>. DEFINE p == dir[profiles[job[s].hash].name]
              j == [job[s] EXCEPT !.found = p]
  <2>1. p = Whole(job[s].hash)
    BY <1>1, <1>2 DEF Usable, CacheInv, RowInv
  <2>2. p \in Claim
    BY <1>1, <2>1, Typed
  <2>3. /\ j \in Job /\ j.id = job[s].id /\ j.hash = job[s].hash /\ j.found = p
    BY <2>2, JobTyped, JobFields
  <2>4. at' = [at EXCEPT ![s] = "hit"] /\ job' = [job EXCEPT ![s] = j]
    BY <1>2 DEF Go, Set
  <2>. HIDE DEF p, j
  <2>5. at'[s] = "hit" /\ job'[s] = j /\ video' = video /\ lock' = lock
    BY <1>1, <2>4, JobTyped DEF store
  <2>6. TakenInv(s)' /\ LockInv(s)' /\ MissInv(s)'
    BY <1>1, <2>1, <2>3, <2>5, JobTyped DEF TakenInv, LockInv, MissInv, Locked, Making, OnDisk, Away, Current, Whole
  <2>. QED BY <1>1, <2>3, <2>4, <2>6, Inward DEF Stage
<1>3. CASE (~Usable(job[s].hash) \/ job[s].overwrite) /\ Go(s, "probing") /\ UNCHANGED job
  <2>1. at' = [at EXCEPT ![s] = "probing"] /\ job' = [job EXCEPT ![s] = job[s]] /\ job'[s] = job[s]
        /\ at'[s] = "probing"
    BY <1>3 DEF Go, CacheInv, Types
  <2>2. /\ video' = video /\ lock' = lock /\ profiles' = profiles /\ dir' = dir
    BY <1>1 DEF store
  <2>3. TakenInv(s)' /\ LockInv(s)'
    BY <1>1, <2>1, <2>2, JobTyped DEF TakenInv, LockInv, Locked, OnDisk, Away, Current
  <2>4. MissInv(s)'
    BY <1>3, <2>1, <2>2 DEF MissInv, Usable
  <2>. QED BY <1>1, <2>1, <2>3, <2>4, JobTyped, Inward DEF Stage
<1>. QED BY <1>2, <1>3 DEF LookUp

LEMMA ProbeKeeps == ASSUME CacheInv, NEW s \in Scan, Probe(s) PROVE CacheInv'
<1>. DEFINE j == [job[s] EXCEPT !.color = video.content]
            a == IF video.content \in Unsupported THEN "saving" ELSE "analyzing"
<1>1. video.content \in Value
  BY JobTyped DEF Value
<1>2. /\ j \in Job /\ j.id = job[s].id /\ j.hash = job[s].hash /\ j.color = video.content
      /\ j.measured = job[s].measured /\ j.overwrite = job[s].overwrite
  BY <1>1, JobTyped, JobFields
<1>3. /\ at[s] = "probing" /\ at' = [at EXCEPT ![s] = a] /\ job' = [job EXCEPT ![s] = j]
      /\ UNCHANGED <<store, lock, given>>
  BY DEF Probe, At, Go, Set
<1>4. a \in {"saving", "analyzing"} /\ (a = "saving" <=> video.content \in Unsupported)
  OBVIOUS
<1>. HIDE DEF j, a
<1>5. /\ at'[s] = a /\ job'[s] = j /\ video' = video /\ lock' = lock
      /\ profiles' = profiles /\ dir' = dir
  BY <1>3, JobTyped DEF store
<1>6. TakenInv(s)'
  BY <1>2, <1>3, <1>4, <1>5, JobTyped DEF TakenInv, OnDisk, Away, Current, Made, Whole
<1>7. LockInv(s)' /\ MissInv(s)'
  BY <1>2, <1>3, <1>4, <1>5, JobTyped DEF LockInv, MissInv, Locked, Making, Usable
<1>. QED BY <1>2, <1>3, <1>4, <1>6, <1>7, Inward DEF Stage

LEMMA AnalyzeKeeps == ASSUME CacheInv, NEW s \in Scan, Analyze(s) PROVE CacheInv'
<1>. DEFINE j == [job[s] EXCEPT !.measured = video.content]
<1>1. video.content \in Value
  BY JobTyped DEF Value
<1>2. /\ j \in Job /\ j.id = job[s].id /\ j.hash = job[s].hash /\ j.measured = video.content
      /\ j.color = job[s].color /\ j.overwrite = job[s].overwrite
  BY <1>1, JobTyped, JobFields
<1>3. /\ at[s] = "analyzing" /\ at' = [at EXCEPT ![s] = "reading"] /\ job' = [job EXCEPT ![s] = j]
      /\ UNCHANGED <<store, lock, given>>
  BY DEF Analyze, At, Go, Set
<1>. HIDE DEF j
<1>5. /\ at'[s] = "reading" /\ job'[s] = j /\ video' = video /\ lock' = lock
      /\ profiles' = profiles /\ dir' = dir
  BY <1>3, JobTyped DEF store
<1>6. TakenInv(s)'
  BY <1>2, <1>3, <1>5, JobTyped DEF TakenInv, OnDisk, Away, Current
<1>7. LockInv(s)' /\ MissInv(s)'
  BY <1>2, <1>3, <1>5, JobTyped DEF LockInv, MissInv, Locked, Making, Usable
<1>. QED BY <1>2, <1>3, <1>6, <1>7, Inward DEF Stage

LEMMA ReadKeeps == ASSUME CacheInv, NEW s \in Scan, Read(s) PROVE CacheInv'
<1>1. /\ at[s] = "reading" /\ at' = [at EXCEPT ![s] = "saving"] /\ job' = job
      /\ UNCHANGED <<store, lock, given>>
  BY DEF Read, At, Go
<1>2. /\ at'[s] = "saving" /\ job' = [job EXCEPT ![s] = job[s]] /\ job'[s] = job[s]
      /\ video' = video /\ lock' = lock /\ profiles' = profiles /\ dir' = dir
  BY <1>1 DEF CacheInv, Types, store
<1>3. TakenInv(s)'
  BY <1>1, <1>2, JobTyped DEF TakenInv, OnDisk, Away, Current, Made, Whole
<1>4. LockInv(s)' /\ MissInv(s)'
  BY <1>1, <1>2, JobTyped DEF LockInv, MissInv, Locked, Making, Usable
<1>. QED BY <1>1, <1>2, <1>3, <1>4, JobTyped, Inward DEF Stage

LEMMA LockKeeps == ASSUME CacheInv, NEW s \in Scan, Lock(s) PROVE CacheInv'
<1>1. /\ at[s] = "locking" /\ at' = [at EXCEPT ![s] = "looking"] /\ job' = job
      /\ lock[job[s].hash] = NoScan /\ lock' = [lock EXCEPT ![job[s].hash] = s]
      /\ video' = video /\ remember' = remember /\ profiles' = profiles /\ dir' = dir
      /\ given' = given
  BY DEF Lock, At, Go, store
<1>2. /\ at'[s] = "looking" /\ job' = [job EXCEPT ![s] = job[s]] /\ job'[s] = job[s]
      /\ job[s].hash \in Content
  BY <1>1, JobTyped DEF CacheInv, Types, TakenInv
<1>3. /\ lock' \in [Content -> Scan \cup {NoScan}] /\ lock'[job[s].hash] = s
      /\ \A c \in Content : lock'[c] = lock[c] \/ lock[c] \in {s, NoScan}
  BY <1>1, <1>2 DEF CacheInv, Types
<1>4. TakenInv(s)'
  BY <1>1, <1>2, JobTyped DEF TakenInv, OnDisk, Away, Current
<1>5. LockInv(s)' /\ MissInv(s)'
  BY <1>2, <1>3 DEF LockInv, MissInv, Making
<1>6. /\ \A c \in Content : RowInv(c)' /\ (Usable(c)' => Usable(c) \/ lock[c] = s)
      /\ \A t \in Scan : GivenInv(t)'
  BY <1>1 DEF CacheInv, RowInv, GivenInv, Usable
<1>7. /\ profiles' \in [Content -> {None} \cup Entry] /\ dir' \in [Name -> {None} \cup Claim]
      /\ given' \in [Scan -> {None} \cup Gift]
  BY <1>1 DEF CacheInv, Types
<1>8. "looking" \in Stage /\ UNCHANGED <<video, remember>> /\ job[s] \in Job
  BY <1>1, JobTyped DEF Stage
<1>. QED BY <1>1, <1>2, <1>3, <1>4, <1>5, <1>6, <1>7, <1>8, OneStep

\* A file of a new name makes nothing usable: no row names it.
LEMMA SaveKeeps == ASSUME CacheInv, NEW s \in Scan, Save(s) PROVE CacheInv'
<1>. DEFINE n == NewName
            j == [job[s] EXCEPT !.name = n]
<1>1. n \in Name /\ Fresh(n)
  BY DEF Save, NewName
<1>2. /\ at[s] = "saving" /\ at' = [at EXCEPT ![s] = "recording"] /\ job' = [job EXCEPT ![s] = j]
      /\ dir' = [dir EXCEPT ![n] = Made(s)] /\ video' = video /\ remember' = remember
      /\ profiles' = profiles /\ lock' = lock /\ given' = given
  BY DEF Save, At, Go, Set
<1>. HIDE DEF n
<1>3. /\ j \in Job /\ j.id = job[s].id /\ j.hash = job[s].hash /\ j.measured = job[s].measured
      /\ j.color = job[s].color /\ j.overwrite = job[s].overwrite /\ j.name = n
  BY <1>1, JobTyped, JobFields
<1>. HIDE DEF j
<1>4. at'[s] = "recording" /\ job'[s] = j
  BY <1>2, JobTyped
<1>5. Made(s) \in Claim /\ Made(s)' = Made(s)
  BY <1>3, <1>4, JobTyped DEF Made, Claim, Job
<1>6. dir' \in [Name -> {None} \cup Claim]
  BY <1>2, <1>5 DEF CacheInv, Types
<1>7. \A c \in Content : Usable(c)' => Usable(c)
  BY <1>1, <1>2 DEF Usable, Fresh, CacheInv, Types
<1>8. TakenInv(s)'
  BY <1>1, <1>2, <1>3, <1>4, <1>5, JobTyped DEF TakenInv, OnDisk, Away, Current
<1>9. job[s].hash \in Content
  BY <1>2, JobTyped DEF TakenInv
<1>10. LockInv(s)' /\ MissInv(s)'
  BY <1>2, <1>3, <1>4, <1>7, <1>9, JobTyped DEF LockInv, MissInv, Locked, Making
<1>11. (\A c \in Content : RowInv(c)') /\ (\A t \in Scan : GivenInv(t)')
  BY <1>2 DEF CacheInv, RowInv, GivenInv
<1>12. /\ profiles' \in [Content -> {None} \cup Entry] /\ lock' \in [Content -> Scan \cup {NoScan}]
       /\ given' \in [Scan -> {None} \cup Gift] /\ \A c \in Content : lock'[c] = lock[c]
  BY <1>2 DEF CacheInv, Types
<1>13. "recording" \in Stage /\ UNCHANGED <<video, remember>>
  BY <1>2 DEF Stage
<1>. QED BY <1>2, <1>3, <1>6, <1>7, <1>8, <1>10, <1>11, <1>12, <1>13, OneStep

\* The row is of a profile made while the video was what it was asked to be.
LEMMA RecordKeeps == ASSUME CacheInv, NEW s \in Scan, Record(s) PROVE CacheInv'
<1>. DEFINE h == job[s].hash
            e == [name |-> job[s].name, digest |-> Made(s)]
<1>1. /\ at[s] = "recording" /\ at' = [at EXCEPT ![s] = "returning"] /\ job' = job
      /\ profiles' = [profiles EXCEPT ![h] = e] /\ Current(s)
      /\ video' = video /\ remember' = remember /\ dir' = dir /\ lock' = lock /\ given' = given
  BY DEF Record, At, Go, Unchanged, Current
<1>2. h \in Content /\ Made(s) = Whole(h) /\ lock[h] = s
  BY <1>1, JobTyped DEF TakenInv, LockInv, Locked
<1>3. e \in Entry /\ e.digest = Whole(h)
  <2>1. job[s].name \in Name /\ Whole(h) \in Claim
    BY <1>1, <1>2, JobTyped, Typed DEF TakenInv, OnDisk
  <2>. QED BY <1>2, <2>1 DEF Entry
<1>4. /\ at'[s] = "returning" /\ job' = [job EXCEPT ![s] = job[s]] /\ job'[s] = job[s]
      /\ Made(s)' = Made(s)
  BY <1>1, JobTyped DEF CacheInv, Types, Made
<1>. HIDE DEF e
<1>5. profiles' \in [Content -> {None} \cup Entry]
  BY <1>1, <1>3 DEF CacheInv, Types
<1>6. \A c \in Content : RowInv(c)'
  BY <1>1, <1>3 DEF CacheInv, Types, RowInv
<1>7. \A c \in Content : Usable(c)' => Usable(c) \/ lock[c] = s
  BY <1>1, <1>2 DEF Usable, CacheInv, Types
<1>8. TakenInv(s)' /\ LockInv(s)' /\ MissInv(s)'
  BY <1>1, <1>2, <1>4, JobTyped DEF TakenInv, LockInv, MissInv, Locked, Making, OnDisk, Away, Current
<1>9. /\ dir' \in [Name -> {None} \cup Claim] /\ lock' \in [Content -> Scan \cup {NoScan}]
      /\ given' \in [Scan -> {None} \cup Gift] /\ \A c \in Content : lock'[c] = lock[c]
      /\ \A t \in Scan : GivenInv(t)'
  BY <1>1 DEF CacheInv, Types, GivenInv
<1>10. "returning" \in Stage /\ UNCHANGED <<video, remember>> /\ job[s] \in Job
  BY <1>1, JobTyped DEF Stage
<1>. QED BY <1>1, <1>4, <1>5, <1>6, <1>7, <1>8, <1>9, <1>10, OneStep

\* A hit was found whole under the lock, and what was made was made of one content.
LEMMA ReturnKeeps == ASSUME CacheInv, NEW s \in Scan, Return(s) PROVE CacheInv'
<1>1. /\ UNCHANGED <<video, remember, profiles>> /\ profiles' = profiles /\ dir' = dir /\ Leave(s, "done")
  BY DEF Return, store
<1>2. PICK p : p \in Claim /\ p = Whole(job[s].hash) /\ Give(s, p)
  <2>1. CASE at[s] = "hit" /\ Give(s, job[s].found)
    BY <2>1, JobTyped DEF TakenInv, Job
  <2>2. CASE at[s] = "returning" /\ Give(s, Made(s))
    <3>1. Made(s) = Whole(job[s].hash) /\ job[s].hash \in Content
      BY <2>2, JobTyped DEF TakenInv
    <3>. QED BY <2>2, <3>1, Typed
  <2>. QED BY <2>1, <2>2 DEF Return, At
<1>. DEFINE g == [of |-> job[s].hash, got |-> p]
<1>3. g \in Gift /\ g.got = Whole(g.of)
  BY <1>2, JobTyped DEF Gift, Job
<1>4. given' = [given EXCEPT ![s] = g]
  BY <1>2 DEF Give
<1>. HIDE DEF g
<1>5. given' \in [Scan -> {None} \cup Gift] /\ \A t \in Scan : GivenInv(t)'
  BY <1>3, <1>4 DEF CacheInv, Types, GivenInv
<1>6. dir' \in [Name -> {None} \cup Claim] /\ \A c \in Content : Usable(c)' => Usable(c)
  BY <1>1 DEF CacheInv, Types, Usable
<1>. QED BY <1>1, <1>5, <1>6, Leaving

\* A file that is removed makes nothing usable.
LEMMA FailKeeps == ASSUME CacheInv, NEW s \in Scan, Fail(s) PROVE CacheInv'
<1>1. /\ UNCHANGED <<video, remember, profiles>> /\ profiles' = profiles /\ given' = given
      /\ Leave(s, "failed")
      /\ \/ dir' = dir
         \/ dir' = [dir EXCEPT ![job[s].name] = None]
  BY DEF Fail
<1>2. dir' \in [Name -> {None} \cup Claim]
  BY <1>1 DEF CacheInv, Types
<1>3. ASSUME NEW c \in Content, Usable(c)' PROVE Usable(c)
  <2>1. /\ profiles[c] # None /\ dir'[profiles[c].name] = profiles[c].digest
        /\ profiles[c].digest.content_hash = c
    BY <1>1, <1>3 DEF Usable
  <2>2. profiles[c].digest = Whole(c) /\ Whole(c) # None /\ profiles[c].name \in Name
    BY <2>1, Typed DEF CacheInv, RowInv, Types, Entry
  <2>3. dir[profiles[c].name] = profiles[c].digest
    BY <1>1, <2>1, <2>2 DEF CacheInv, Types
  <2>. QED BY <2>1, <2>3 DEF Usable
<1>4. given' \in [Scan -> {None} \cup Gift] /\ \A t \in Scan : GivenInv(t)'
  BY <1>1 DEF CacheInv, Types, GivenInv
<1>. QED BY <1>1, <1>2, <1>3, <1>4, Leaving

LEMMA KillKeeps == ASSUME CacheInv, NEW s \in Scan, Kill(s) PROVE CacheInv'
<1>1. /\ UNCHANGED <<video, remember, profiles>> /\ profiles' = profiles /\ given' = given
      /\ dir' = dir /\ Leave(s, "failed")
  BY DEF Kill, store
<1>2. /\ dir' \in [Name -> {None} \cup Claim] /\ given' \in [Scan -> {None} \cup Gift]
      /\ \A c \in Content : Usable(c)' => Usable(c)
      /\ \A t \in Scan : GivenInv(t)'
  BY <1>1 DEF CacheInv, Types, Usable, GivenInv
<1>. QED BY <1>1, <1>2, Leaving

\* Whoever has an earlier identity has no claim on what the video holds now.
LEMMA ReplaceKeeps == ASSUME CacheInv, Replace PROVE CacheInv'
<1>1. PICK c \in Content : video' = [id |-> video.id + 1, content |-> c]
  BY DEF Replace
<1>2. /\ video' \in [id : Nat, content : Content] /\ video'.id = video.id + 1 /\ video.id \in Nat
  BY <1>1 DEF CacheInv, Types
<1>3. UNCHANGED <<remember, profiles, dir, lock, at, job, given>>
  BY DEF Replace
<1>4. Types'
  BY <1>2, <1>3 DEF CacheInv, Types
<1>5. Remembered'
  BY <1>2, <1>3 DEF CacheInv, Types, Remembered
<1>6. ASSUME NEW s \in Scan PROVE TakenInv(s)' /\ LockInv(s)' /\ MissInv(s)' /\ GivenInv(s)'
  <2>1. at[s] \notin Away => job[s].id \in Nat /\ job[s].id <= video.id
    BY JobTyped DEF Job, TakenInv
  <2>2. at[s] \notin Away => ~Current(s)'
    BY <1>2, <1>3, <2>1 DEF Current
  <2>3. TakenInv(s)'
    BY <1>2, <1>3, <2>1, <2>2, JobTyped DEF TakenInv, Away, OnDisk, Made
  <2>4. LockInv(s)' /\ MissInv(s)' /\ GivenInv(s)'
    BY <1>3 DEF CacheInv, LockInv, MissInv, GivenInv, Usable
  <2>. QED BY <2>3, <2>4
<1>7. \A d \in Content : RowInv(d)'
  BY <1>3 DEF CacheInv, RowInv
<1>. QED BY <1>4, <1>5, <1>6, <1>7 DEF CacheInv

-----------------------------------------------------------------------------

LEMMA CacheStep == CacheInv /\ [NextCache]_cache => CacheInv'
<1>. SUFFICES ASSUME CacheInv, [NextCache]_cache PROVE CacheInv'
  OBVIOUS
<1>1. ASSUME NEW s \in Scan, Work(s) PROVE CacheInv'
  BY <1>1, BeginKeeps, KnowKeeps, HashKeeps, LockKeeps, LookUpKeeps, ProbeKeeps, AnalyzeKeeps,
     ReadKeeps, SaveKeeps, RecordKeeps, ReturnKeeps, FailKeeps, Zenon DEF Work, Refuse
<1>2. CASE UNCHANGED cache
  <2>1. UNCHANGED <<video, remember, profiles, dir, lock, at, job, given>>
    BY <1>2, Zenon DEF cache, store
  <2>. QED BY <2>1, Zenon DEF CacheInv, Types, Remembered, RowInv, TakenInv, LockInv, MissInv, GivenInv, Current,
         Made, Usable
<1>. QED BY <1>1, <1>2, FailKeeps, KillKeeps, ReplaceKeeps, Zenon DEF NextCache

\* The cache inside the pass, in which a step of the cache may come with one of the progress.
LEMMA PassStep == [Next]_vars => [NextCache]_cache
<1>. SUFFICES ASSUME [Next]_vars PROVE [NextCache]_cache
  OBVIOUS
<1>1. CASE LoudWork
  BY <1>1, LoudAssumption, Zenon DEF LoudWork, NextCache
<1>2. CASE LoudError
  BY <1>2, LoudAssumption, Zenon DEF LoudError, NextCache
<1>3. CASE LoudInterrupt
  BY <1>3, LoudAssumption, Zenon DEF LoudInterrupt, NextCache
<1>4. CASE LoudKill
  BY <1>4, LoudAssumption, Zenon DEF LoudKill, NextCache
<1>5. ASSUME NEW s \in Scan, QuietStep(s) PROVE [NextCache]_cache
  BY <1>5, Zenon DEF QuietStep, NextCache
<1>6. CASE World
  BY <1>6, Zenon DEF World, NextCache
<1>7. CASE Finished \/ Speak \/ Beat
  BY <1>7, Zenon DEF Finished, Speak, Beat
<1>8. CASE UNCHANGED vars
  BY <1>8, Zenon DEF vars
<1>. QED BY <1>1, <1>2, <1>3, <1>4, <1>5, <1>6, <1>7, <1>8, Zenon DEF Next

\* The inductive invariant of the cache: what a scan has read is of the content it was asked
\* for as long as the video has its identity, and rows are of whole profiles.
THEOREM CacheInvariant == Spec => []CacheInv
<1>1. Init => CacheInv
  BY CacheInit DEF Init
<1>2. CacheInv /\ [Next]_vars => CacheInv'
  BY CacheStep, PassStep
<1>. QED BY <1>1, <1>2, PTL DEF Spec

\* For any number of scans, contents and replacements of the video: a profile that make has
\* returned is whole, and read from the content it was asked for.
THEOREM ProfilesAreRight == Spec => []GivenIsRight
<1>1. CacheInv => GivenIsRight
  BY DEF CacheInv, GivenInv, GivenIsRight
<1>. QED BY <1>1, CacheInvariant, PTL

\* Nobody decodes what the cache has, unless told to.
THEOREM NothingIsAnalyzedTwice == Spec => []AnalyzesOnlyWhatIsMissing
<1>1. CacheInv => AnalyzesOnlyWhatIsMissing
  BY DEF CacheInv, MissInv, Making, AnalyzesOnlyWhatIsMissing
<1>. QED BY <1>1, CacheInvariant, PTL

-----------------------------------------------------------------------------
(* What the loud scan says *)

Main  == {"outside", "calling", "writing", "working", "closing", "joining", "left", "killed"}
After == {"start", "work", "leave"}
Beats == {"none", "waiting", "acquiring", "writing", "ended"}

\* The lock is with the thread that writes, and what a heartbeat repeats is the stage.
Threads ==
  /\ main \in Main /\ after \in After /\ beat \in Beats
  /\ main = "writing" <=> mutex = "main"
  /\ beat = "writing" <=> mutex = "beat"
  /\ beat = "writing" => line = stage

\* What is still to be announced leads to what the scan is doing, or is its last word.
LastWords == {<<"finished">>, <<Failed>>}
Speaking ==
  /\ main \in {"calling", "writing"} /\ after # "leave" =>
       \/ pending = <<Told(at[Loud])>>
       \/ pending = <<"missed", "probing">> /\ at[Loud] = "probing"
  /\ main = "writing" => stage = Head(pending)
  /\ main = "outside" => at[Loud] = "called" /\ after = "start"
  /\ after = "start" => main \in {"outside", "calling", "writing"}
  /\ main = "working" => after = "work"

\* Both threads agree on the end of the block.
Ending ==
  /\ after = "start" <=> beat = "none"
  /\ main \in {"closing", "joining", "killed"} => after = "leave"
  /\ after = "leave" => main \in {"closing", "joining", "calling", "writing", "killed"}
  /\ after = "leave" /\ main \in {"calling", "writing"} => beat = "ended"
  /\ after = "leave" /\ main # "killed" => pending \in LastWords
  /\ main = "left" => beat = "ended"

\* What the reader has seen.
Reading ==
  enabled /\ pipe = "open" =>
    /\ main = "working" => shown = stage /\ (at[Loud] \notin {"done", "failed"} => stage = Told(at[Loud]))
    /\ main = "left" => shown \in {"finished", Failed}

PassInv == Threads /\ Speaking /\ Ending /\ Reading

LEMMA OneOrTwo ==
  /\ \A m : Head(<<m>>) = m /\ Tail(<<m>>) = << >> /\ <<m>> # << >>
  /\ \A m, n : Head(<<m, n>>) = m /\ Tail(<<m, n>>) = <<n>>
  OBVIOUS

LEMMA ToldFirst == Told("called") = Starting
  BY Zenon DEF Told, OnDisk

LEMMA ToldProbing == Told("probing") = "probing"
  BY Zenon DEF Told, OnDisk

\* A message has been dealt with: another one follows, or the scan goes on, or leaves.
LEMMA Proceeding ==
  ASSUME PassInv, main \in {"calling", "writing"}, Proceed, at' = at
  PROVE  /\ main' \in Main /\ after' \in After /\ beat' \in Beats
         /\ beat' = "writing" <=> beat = "writing"
         /\ main' # "writing" /\ main' # "outside"
         /\ Speaking' /\ Ending'
         /\ main' = "working" => Head(pending) = Told(at[Loud])
         /\ main' = "left" => Head(pending) \in {"finished", Failed}
<1>1. pending' = Tail(pending)
  BY Zenon DEF Proceed
<1>2. CASE pending = <<"missed", "probing">> /\ at[Loud] = "probing" /\ after # "leave"
  <2>1. Tail(pending) = <<"probing">> /\ Tail(pending) # << >>
    BY <1>2, OneOrTwo
  <2>2. main' = "calling" /\ after' = after /\ beat' = beat
    BY <2>1, Zenon DEF Proceed
  <2>3. pending' = <<Told(at'[Loud])>>
    BY <1>1, <1>2, <2>1, ToldProbing
  <2>. QED BY <1>2, <2>2, <2>3 DEF PassInv, Threads, Speaking, Ending, Main
<1>3. CASE \E m : /\ pending = <<m>>
               /\ \/ after = "leave" /\ m \in {"finished", Failed}
                  \/ after # "leave" /\ m = Told(at[Loud])
  <2>1. Tail(pending) = << >>
    BY <1>3, OneOrTwo
  <2>2. /\ main' = IF after = "leave" THEN "left" ELSE "working"
        /\ beat' = IF after = "start" THEN "waiting" ELSE beat
        /\ after' = "work"
    BY <2>1, Zenon DEF Proceed
  <2>3. /\ after = "leave" => Head(pending) \in {"finished", Failed}
        /\ after # "leave" => Head(pending) = Told(at[Loud])
    BY <1>3, OneOrTwo
  <2>4. after \in After /\ beat \in Beats /\ (after = "start" <=> beat = "none")
        /\ (after = "leave" => beat = "ended")
    BY DEF PassInv, Threads, Ending
  <2>5. main' \in {"left", "working"} /\ after' = "work" /\ (main' = "left" <=> after = "leave")
    BY <2>2
  <2>6. Speaking'
    BY <2>5 DEF Speaking
  <2>7. beat' \in Beats /\ beat' # "none" /\ (after = "leave" => beat' = "ended")
        /\ (beat' = "writing" <=> beat = "writing")
    BY <2>2, <2>4 DEF Beats, After, PassInv, Ending
  <2>8. Ending'
    BY <2>5, <2>7 DEF Ending
  <2>. QED BY <2>3, <2>5, <2>6, <2>7, <2>8 DEF Main, After
<1>. QED BY <1>2, <1>3 DEF PassInv, Speaking, Ending, LastWords, Threads, After

LEMMA PassInit == Init => PassInv
<1>. SUFFICES ASSUME Init PROVE PassInv
  OBVIOUS
<1>1. at[Loud] = "called"
  BY LoudAssumption DEF Init, InitCache
<1>2. InitProgress
  BY DEF Init
<1>. QED BY <1>1, <1>2, NobodyAssumption DEF InitProgress, PassInv, Threads, Speaking, Ending, Reading, Main,
       After, Beats

\* The working thread speaks.
LEMMA SpeakKeeps == ASSUME PassInv, Speak PROVE PassInv'
<1>. USE NobodyAssumption DEF PassInv
<1>1. at' = at
  BY Zenon DEF Speak, cache
<1>2. CASE Enter
  <2>1. at[Loud] = "called"
    BY <1>2 DEF Enter, Speaking
  <2>2. pending' = <<Told(at[Loud])>>
    BY <1>2, <2>1, ToldFirst DEF Enter
  <2>. QED BY <1>1, <1>2, <2>2 DEF Enter, fields, Threads, Speaking, Ending, Reading, Main, After, Beats
<1>3. CASE Call
  BY <1>1, <1>3 DEF Call, fields, Threads, Speaking, Ending, Reading, Main, After, Beats
<1>4. CASE Write
  <2>1. main = "writing" /\ Proceed /\ stage' = stage /\ line' = line /\ pipe' = pipe
        /\ mutex' = IF mutex = "main" THEN Nobody ELSE mutex
    BY <1>4, Zenon DEF Write
  <2>2. stage = Head(pending)
    BY <2>1 DEF Speaking
  <2>3. \/ pipe = "open" /\ shown' = Head(pending) /\ enabled' = enabled
        \/ enabled' = FALSE
    BY <1>4, Zenon DEF Write, Written
  <2>. DEFINE told == Told(at[Loud])
  <2>4. /\ main' \in Main /\ after' \in After /\ beat' \in Beats
        /\ beat' = "writing" <=> beat = "writing"
        /\ main' # "writing" /\ main' # "outside"
        /\ Speaking' /\ Ending'
        /\ main' = "working" => Head(pending) = told
        /\ main' = "left" => Head(pending) \in {"finished", Failed}
    BY <1>1, <2>1, Proceeding
  <2>. HIDE DEF told
  <2>5. Threads'
    BY <2>1, <2>4 DEF Threads
  <2>6. told = Told(at'[Loud])
    BY <1>1 DEF told
  <2>7. Reading'
    BY <2>1, <2>2, <2>3, <2>4, <2>6 DEF Reading
  <2>. QED BY <2>4, <2>5, <2>7
<1>5. CASE Disabled
  BY <1>1, <1>5, Proceeding DEF Disabled, fields, Threads, Reading
<1>6. CASE Close
  BY <1>1, <1>6 DEF Close, Threads, Speaking, Ending, Reading, Main, After, Beats
<1>7. CASE Join
  BY <1>1, <1>7 DEF Join, fields, Threads, Speaking, Ending, Reading, Main, After, Beats
<1>. QED BY <1>2, <1>3, <1>4, <1>5, <1>6, <1>7 DEF Speak, MainProgress

\* The heartbeat repeats the stage under the lock.
LEMMA BeatKeeps == ASSUME PassInv, Beat PROVE PassInv'
<1>. USE NobodyAssumption DEF PassInv
<1>1. at' = at
  BY Zenon DEF Beat, cache
<1>2. CASE Timeout \/ Stopped
  BY <1>1, <1>2 DEF Timeout, Stopped, fields, Threads, Speaking, Ending, Reading, Beats
<1>3. CASE BeatAcquire
  BY <1>1, <1>3 DEF BeatAcquire, Threads, Speaking, Ending, Reading, Beats
<1>4. CASE BeatWrite
  <2>1. /\ beat = "writing" /\ mutex = "beat" /\ line = stage /\ main # "writing"
        /\ mutex' = Nobody /\ beat' = "waiting"
        /\ UNCHANGED <<stage, main, pending, after, pipe>>
    BY <1>4, Zenon DEF BeatWrite, Threads
  <2>2. \/ pipe = "open" /\ shown' = stage /\ enabled' = enabled
        \/ enabled' = FALSE
    BY <1>4, <2>1, Zenon DEF BeatWrite, Written
  <2>3. main # "left"
    BY <2>1 DEF Ending
  <2>. QED BY <1>1, <2>1, <2>2, <2>3 DEF Threads, Speaking, Ending, Reading, Beats
<1>. QED BY <1>2, <1>3, <1>4 DEF Beat, Heartbeat

\* The scan works on while it has nothing to say, and says where it has got to.
LEMMA LoudWorkKeeps == ASSUME PassInv, LoudWork PROVE PassInv'
<1>1. main = "working" /\ after = "work"
  BY DEF PassInv, LoudWork, AtWork, Speaking
<1>0. at[Loud] \notin {"done", "failed"}
  BY DEF LoudWork, Work, Begin, Know, Hash, Lock, LookUp, Probe, Analyze, Read, Save, Record, Return,
         Refuse, At
<1>2. CASE UNCHANGED progress /\ (at'[Loud] \in {"done", "failed"} \/ Told(at'[Loud]) = Told(at[Loud]))
  <2>1. /\ at'[Loud] \in {"done", "failed"} \/ Told(at'[Loud]) = Told(at[Loud])
        /\ UNCHANGED <<enabled, stop, mutex, stage, main, pending, after, beat, line, pipe, shown>>
    BY <1>2, Zenon DEF progress, fields
  <2>. DEFINE told == Told(at[Loud])
              next == Told(at'[Loud])
  <2>2. (at'[Loud] \in {"done", "failed"} \/ next = told)
    BY <2>1
  <2>3. enabled /\ pipe = "open" =>
          shown = stage /\ (at[Loud] \notin {"done", "failed"} => stage = told)
    BY <1>1 DEF PassInv, Reading
  <2>. HIDE DEF told, next
  <2>4. at'[Loud] \notin {"done", "failed"} => told = next
    BY <2>2
  <2>5. Reading'
    BY <1>0, <1>1, <2>1, <2>3, <2>4 DEF PassInv, Reading, next
  <2>6. Speaking'
    BY <1>1, <2>1 DEF PassInv, Speaking
  <2>7. Threads' /\ Ending'
    BY <1>1, <2>1 DEF PassInv, Threads, Ending
  <2>. QED BY <2>5, <2>6, <2>7 DEF PassInv
<1>3. CASE Say(Announced)
  <2>1. /\ pending' = Announced /\ main' = "calling" /\ after' = "work"
        /\ UNCHANGED <<enabled, stop, mutex, stage, beat, line, pipe, shown>>
    BY <1>3, Zenon DEF Say, fields
  <2>2. \/ pending' = <<Told(at'[Loud])>>
        \/ pending' = <<"missed", "probing">> /\ at'[Loud] = "probing"
    BY <2>1, Zenon DEF Announced
  <2>. QED BY <1>1, <2>1, <2>2 DEF PassInv, Threads, Speaking, Ending, Reading, Main, After
<1>. QED BY <1>2, <1>3, Zenon DEF LoudWork

\* The end of the block, by finish or by __exit__.
LEMMA FinishKeeps == ASSUME PassInv, Finished PROVE PassInv'
<1>1. /\ main = "working" /\ after = "work" /\ at' = at
      /\ pending' = <<"finished">> /\ main' = "closing" /\ after' = "leave"
      /\ UNCHANGED <<enabled, stop, mutex, stage, beat, line, pipe, shown>>
  BY Zenon DEF Finished, Finish, AtWork, PassInv, Speaking, cache, fields
<1>. QED BY <1>1 DEF PassInv, Threads, Speaking, Ending, Reading, LastWords, Main, After

LEMMA InterruptKeeps == ASSUME PassInv, LoudInterrupt PROVE PassInv'
<1>1. /\ main \notin {"outside", "left", "killed"} /\ after \in {"work", "leave"}
      /\ mutex' = IF mutex = "main" THEN Nobody ELSE mutex
      /\ pending' = <<Failed>> /\ main' = "closing" /\ after' = "leave"
      /\ UNCHANGED <<enabled, stop, stage, beat, line, pipe, shown>>
  BY DEF LoudInterrupt, Interrupted
<1>. QED BY <1>1, NobodyAssumption DEF PassInv, Threads, Speaking, Ending, Reading, LastWords, Main, After

LEMMA KilledKeeps == ASSUME PassInv, LoudKill PROVE PassInv'
<1>1. /\ main' = "killed" /\ beat' = "ended" /\ enabled' = FALSE /\ mutex' = Nobody
      /\ after' = "leave"
  BY DEF LoudKill, Killed
<1>. QED BY <1>1, NobodyAssumption DEF PassInv, Threads, Speaking, Ending, Reading, Main, After, Beats

\* The others: what they do in the cache is not what the loud scan does.
LEMMA OthersKeep ==
  ASSUME CacheInv, PassInv, NEW s \in Scan \ {Loud}, QuietStep(s)
  PROVE  PassInv'
<1>1. at'[Loud] = at[Loud]
  <2>1. Loud \in Scan /\ Loud # s /\ at \in [Scan -> Stage]
    BY LoudAssumption DEF CacheInv, Types
  <2>2. \E a : at' = [at EXCEPT ![s] = a]
    BY DEF QuietStep, Work, Begin, Know, Hash, Lock, LookUp, Probe, Analyze, Read, Save, Record, Return,
           Refuse, Fail, Kill, Leave, Go
  <2>. QED BY <2>1, <2>2
<1>2. UNCHANGED <<enabled, stop, mutex, stage, main, pending, after, beat, line, pipe, shown>>
  BY Zenon DEF QuietStep, progress, fields
<1>. QED BY <1>1, <1>2 DEF PassInv, Threads, Speaking, Ending, Reading

LEMMA WorldKeeps == ASSUME PassInv, World PROVE PassInv'
<1>1. at' = at
  BY Zenon DEF World, Replace, cache
<1>2. CASE UNCHANGED progress
  <2>1. UNCHANGED <<enabled, stop, mutex, stage, main, pending, after, beat, line, pipe, shown>>
    BY <1>2, Zenon DEF progress, fields
  <2>. QED BY <1>1, <2>1 DEF PassInv, Threads, Speaking, Ending, Reading
<1>3. CASE ClosePipe
  <2>1. pipe' = "closed" /\ UNCHANGED <<enabled, stop, mutex, stage, main, pending, after, beat, line>>
    BY <1>3, Zenon DEF ClosePipe, fields
  <2>. QED BY <1>1, <2>1 DEF PassInv, Threads, Speaking, Ending, Reading
<1>. QED BY <1>2, <1>3, Zenon DEF World

LEMMA ErrorKeeps == ASSUME CacheInv, PassInv, LoudError PROVE PassInv'
<1>1. at'[Loud] = "failed" /\ main = "working"
  <2>1. at' = [at EXCEPT ![Loud] = "failed"] /\ at \in [Scan -> Stage]
    BY Zenon DEF LoudError, Fail, Leave, Go, CacheInv, Types
  <2>. QED BY <2>1, LoudAssumption DEF LoudError, AtWork
<1>2. UNCHANGED <<enabled, stop, mutex, stage, main, pending, after, beat, line, pipe, shown>>
  BY Zenon DEF LoudError, progress, fields
<1>. QED BY <1>1, <1>2 DEF PassInv, Threads, Speaking, Ending, Reading

LEMMA PassKeeps == CacheInv /\ PassInv /\ [Next]_vars => PassInv'
<1>. SUFFICES ASSUME CacheInv, PassInv, [Next]_vars PROVE PassInv'
  OBVIOUS
<1>1. CASE UNCHANGED vars
  <2>1. UNCHANGED <<enabled, stop, mutex, stage, main, pending, after, beat, line, pipe, shown>> /\ at' = at
    BY <1>1, Zenon DEF vars, cache, progress, fields
  <2>. QED BY <2>1 DEF PassInv, Threads, Speaking, Ending, Reading
<1>. QED BY <1>1, LoudWorkKeeps, ErrorKeeps, InterruptKeeps, KilledKeeps, FinishKeeps, SpeakKeeps,
       BeatKeeps, OthersKeep, WorldKeeps, Zenon DEF Next

\* The inductive invariant of the two threads: who writes has the lock, and what is written,
\* or still to be, is the stage of the scan.
THEOREM PassInvariant == Spec => [](CacheInv /\ PassInv)
<1>1. Init => CacheInv /\ PassInv
  BY CacheInit, PassInit DEF Init
<1>2. CacheInv /\ PassInv /\ [Next]_vars => (CacheInv /\ PassInv)'
  BY CacheStep, PassStep, PassKeeps
<1>. QED BY <1>1, <1>2, PTL DEF Spec

\* However many scans there are and whenever the heartbeat wakes: the last line on the
\* terminal names what the scan is doing.
THEOREM StageIsTold == Spec => []TellsTheStage
<1>1. PassInv => TellsTheStage
  BY DEF PassInv, Reading, TellsTheStage, AtWork
<1>. QED BY <1>1, PassInvariant, PTL

\* Nothing is said after the last word of a block.
THEOREM LastWordStays == Spec => []LastWordIsLast
<1>1. PassInv => LastWordIsLast
  BY DEF PassInv, Ending, Reading, LastWordIsLast
<1>. QED BY <1>1, PassInvariant, PTL
=============================================================================
