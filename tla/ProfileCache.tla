---------------------------- MODULE ProfileCache ----------------------------
(***************************************************************************)
(* The cache of visual profiles (tools/video_profile.py: make, build) of   *)
(* one recipe, with the locks and the identity of files of                 *)
(* tools/sigstore.py.                                                      *)
(*                                                                         *)
(* Any number of scans share one index and one directory, and ask for the  *)
(* profile of the content they have fingerprinted, while the video may     *)
(* become another.                                                         *)
(*                                                                         *)
(* Abstracted: a content is its hash; the digest of a file is what is in   *)
(* it; a profile says whose it claims to be, and what ffprobe and ffmpeg   *)
(* have read; one video, for scans of different videos share only SQLite.  *)
(***************************************************************************)
EXTENDS Naturals

CONSTANTS
  Scan,         \* scans
  NoScan,       \* nobody has the lock of a content
  Content,      \* what the video may hold
  Unsupported,  \* contents whose transfer function build does not analyse
  Seen,         \* contents the video had when it was fingerprinted, by these or earlier scans
  Name,         \* names of generations
  None,         \* no row, no file, no value
  Calls,        \* what the scans ask for: a content, and whether to overwrite
  MaxId         \* bound: the last stat identity of the video

\* What is in a file of the cache.
Profile == [content_hash : Content, color : Content, measured : Content \cup {None}]

ASSUME ScanAssumption    == NoScan \notin Scan
ASSUME NoneAssumption    == None \notin Content \cup Name \cup Profile
ASSUME NameAssumption    == Name # {}
ASSUME ContentAssumption == Unsupported \cup Seen \subseteq Content
ASSUME CallsAssumption   == Calls \subseteq [Scan -> [hash : Seen, overwrite : BOOLEAN]]
ASSUME MaxIdAssumption   == MaxId \in Nat \ {0}

VARIABLES
  video,     \* its stat identity and its content
  remember,  \* the row of table files, from the fingerprint: a hash, and the identity it is of
  profiles,  \* the rows of table profiles: a file name and a digest
  dir,       \* the files
  lock,      \* the scan that has the lock file of each content
  at,        \* where each scan is in make
  job,       \* the local variables of make
  given      \* what make has returned to each scan

store == <<video, remember, profiles, dir>>
cache == <<store, lock, at, job, given>>

Whole(c) == [content_hash |-> c, color |-> c,
             measured |-> IF c \in Unsupported THEN None ELSE c]
Damaged == [content_hash |-> None, color |-> None, measured |-> None]

NoJob == [hash |-> None, id |-> 0, overwrite |-> FALSE, color |-> None,
          measured |-> None, found |-> Damaged, name |-> None]

\* The stages between taking and giving up the lock; and from here on there is
\* a file that is not recorded yet, or has just been.
Locked == {"looking", "hit", "probing", "analyzing", "reading", "saving", "recording",
           "returning"}
OnDisk == {"recording", "returning"}

-----------------------------------------------------------------------------

At(s, here) == at[s] = here
Go(s, there) == at' = [at EXCEPT ![s] = there]
Set(s, j) == job' = [job EXCEPT ![s] = j]

\* check_unchanged.  Mutated: the video is taken to be what it was.
Unchanged_Assumed(s) == TRUE
Unchanged(s) == video.id = job[s].id

\* make is left, for whatever reason, and gives up the lock it has.
Released(s) == [c \in Content |-> IF lock[c] = s THEN NoScan ELSE lock[c]]
Leave(s, there) == Go(s, there) /\ lock' = Released(s) /\ Set(s, NoJob)

\* An error or an interrupt.  Whatever it was, even an interrupt after the
\* commit, the new file is removed.
Fail(s) ==
  /\ at[s] \notin {"called", "done", "failed"}
  /\ dir' = IF at[s] \in OnDisk THEN [dir EXCEPT ![job[s].name] = None] ELSE dir
  /\ Leave(s, "failed")
  /\ UNCHANGED <<video, remember, profiles, given>>

\* make is called with the hash of a fingerprint, which may be an earlier one.
Begin(s) ==
  /\ At(s, "called")
  /\ Set(s, [job[s] EXCEPT !.id = video.id])
  /\ Go(s, "knowing")
  /\ UNCHANGED <<store, lock, given>>

\* known_hash, or else identify: what has been hashed is what its stat, taken
\* anew, describes.  It must be the content that was fingerprinted.
Known(s) == remember.id = job[s].id
Know(s) ==
  /\ At(s, "knowing")
  /\ \/ Known(s) /\ remember.hash = job[s].hash /\ Go(s, "locking")
     \/ ~Known(s) /\ Go(s, "hashing")
  /\ UNCHANGED <<store, lock, job, given>>
Hash(s) ==
  /\ At(s, "hashing")
  /\ video.content = job[s].hash
  /\ Set(s, [job[s] EXCEPT !.id = video.id])
  /\ Go(s, "locking")
  /\ UNCHANGED <<store, lock, given>>

\* Mutated: the lock does not exclude.
Lock_Unheld(s) ==
  /\ At(s, "locking")
  /\ lock' = [lock EXCEPT ![job[s].hash] = s]
  /\ Go(s, "looking")
  /\ UNCHANGED <<store, job, given>>
Lock(s) ==
  /\ At(s, "locking")
  /\ lock[job[s].hash] = NoScan
  /\ lock' = [lock EXCEPT ![job[s].hash] = s]
  /\ Go(s, "looking")
  /\ UNCHANGED <<store, job, given>>

\* The row names a file that is what its digest says.
\* Mutated: the digest is not compared.
Usable_Undigested(c) == profiles[c] # None /\ dir[profiles[c].name] # None
Usable(c) ==
  /\ profiles[c] # None
  /\ dir[profiles[c].name] = profiles[c].digest
  /\ profiles[c].digest.content_hash = c

LookUp(s) ==
  /\ At(s, "looking")
  /\ Unchanged(s)
  /\ \/ /\ Usable(job[s].hash) /\ ~job[s].overwrite
        /\ Set(s, [job[s] EXCEPT !.found = dir[profiles[job[s].hash].name]])
        /\ Go(s, "hit")
     \/ /\ ~Usable(job[s].hash) \/ job[s].overwrite
        /\ Go(s, "probing")
        /\ UNCHANGED job
  /\ UNCHANGED <<store, lock, given>>

\* ffprobe and ffmpeg read the video, each on its own.
Probe(s) ==
  /\ At(s, "probing")
  /\ Set(s, [job[s] EXCEPT !.color = video.content])
  /\ Go(s, IF video.content \in Unsupported THEN "saving" ELSE "analyzing")
  /\ UNCHANGED <<store, lock, given>>
Analyze(s) ==
  /\ At(s, "analyzing")
  /\ Set(s, [job[s] EXCEPT !.measured = video.content])
  /\ Go(s, "reading")
  /\ UNCHANGED <<store, lock, given>>
Read(s) ==
  /\ At(s, "reading")
  /\ Go(s, "saving")
  /\ UNCHANGED <<store, lock, job, given>>

Made(s) == [content_hash |-> job[s].hash, color |-> job[s].color, measured |-> job[s].measured]

\* token_hex: a name no file, row or scan has.
Fresh(n) ==
  /\ dir[n] = None
  /\ \A c \in Content : profiles[c] # None => profiles[c].name # n
  /\ \A s \in Scan : job[s].name # n

\* One is as good as another.
NewName == CHOOSE n \in Name : Fresh(n)

\* The new generation, written and synced.  No row names it yet.
Save(s) ==
  /\ At(s, "saving")
  /\ \E n \in Name : Fresh(n)
  /\ dir' = [dir EXCEPT ![NewName] = Made(s)]
  /\ Set(s, [job[s] EXCEPT !.name = NewName])
  /\ Go(s, "recording")
  /\ UNCHANGED <<video, remember, profiles, lock, given>>

\* The video is still what it was, and the transaction of its row.
Record(s) ==
  /\ At(s, "recording")
  /\ Unchanged(s)
  /\ profiles' = [profiles EXCEPT ![job[s].hash] = [name |-> job[s].name, digest |-> Made(s)]]
  /\ Go(s, "returning")
  /\ UNCHANGED <<video, remember, dir, lock, job, given>>

Give(s, profile) == given' = [given EXCEPT ![s] = [of |-> job[s].hash, got |-> profile]]
Return(s) ==
  /\ \/ At(s, "hit") /\ Give(s, job[s].found)
     \/ At(s, "returning") /\ Give(s, Made(s))
  /\ Leave(s, "done")
  /\ UNCHANGED store

\* What make itself takes for an error.
Refuse(s) ==
  /\ \/ At(s, "knowing") /\ Known(s) /\ remember.hash # job[s].hash
     \/ At(s, "hashing") /\ video.content # job[s].hash
     \/ at[s] \in {"looking", "recording"} /\ ~Unchanged(s)
  /\ Fail(s)

(* What the scans do not do *)

Kill(s) ==
  /\ at[s] \notin {"done", "failed"}
  /\ Leave(s, "failed")
  /\ UNCHANGED <<store, given>>

Replace ==
  /\ video.id < MaxId
  /\ \E c \in Content : video' = [id |-> video.id + 1, content |-> c]
  /\ UNCHANGED <<remember, profiles, dir, lock, at, job, given>>

-----------------------------------------------------------------------------

\* A name from an earlier scan.
Earlier == CHOOSE n \in Name : TRUE

\* What an earlier scan has left: nothing, a profile, or a row whose file has
\* been removed or damaged.
InitCache ==
  /\ video \in [id : {1}, content : Seen]
  /\ remember = [id |-> 1, hash |-> video.content]
  /\ \/ profiles = [c \in Content |-> None] /\ dir = [n \in Name |-> None]
     \/ \E c \in Seen : \E file \in {None, Damaged, Whole(c)} :
          /\ profiles = [d \in Content |-> IF d = c THEN [name |-> Earlier, digest |-> Whole(c)]
                                           ELSE None]
          /\ dir = [n \in Name |-> IF n = Earlier THEN file ELSE None]
  /\ lock = [c \in Content |-> NoScan]
  /\ at = [s \in Scan |-> "called"]
  /\ \E call \in Calls :
       job = [s \in Scan |-> [NoJob EXCEPT !.hash = call[s].hash, !.overwrite = call[s].overwrite]]
  /\ given = [s \in Scan |-> None]

\* The steps of make, without what its programs and the system may fail in.
Work(s) ==
  \/ Begin(s) \/ Know(s) \/ Hash(s) \/ Lock(s) \/ LookUp(s) \/ Probe(s) \/ Analyze(s)
  \/ Read(s) \/ Save(s) \/ Record(s) \/ Return(s) \/ Refuse(s)

NextCache == (\E s \in Scan : Work(s) \/ Fail(s) \/ Kill(s)) \/ Replace
CacheSpec == InitCache /\ [][NextCache]_cache

-----------------------------------------------------------------------------
(* What the runs check *)

\* What is returned for a content has been read from that content, colour and
\* measurements alike, and is whole, whatever the video and the files of the
\* cache have become meanwhile.
GivenIsRight == \A s \in Scan : given[s] # None => given[s].got = Whole(given[s].of)

\* The decoder is the expensive part.  Nobody runs it on what the cache has,
\* unless told to.
AnalyzesOnlyWhatIsMissing ==
  \A s \in Scan :
    at[s] \in Locked \ {"looking", "hit", "returning"} /\ ~job[s].overwrite
    => ~Usable(job[s].hash)
=============================================================================
