--------------------------- MODULE SignatureStore ---------------------------
(***************************************************************************)
(* The signature store: tools/sigmake.py (make, build, produce, lookup)    *)
(* with tools/sigstore.py (index, locks, identity of files).               *)
(*                                                                         *)
(* Any number of scans share one index and one directory.  A scan makes    *)
(* the signatures of videos one after the other and holds what make        *)
(* returned until it has compared them.  The user may replace a video at   *)
(* any moment; a scan may be killed or interrupted at any step; a program  *)
(* or a write may fail.                                                    *)
(*                                                                         *)
(* Abstracted: a content is its own hash; a rewrite always changes the     *)
(* stat identity (size and mtime put back on purpose are the trade         *)
(* known_hash makes); a duration, a crop and a signature are values that   *)
(* say what they were taken from; a file that is no whole signature is     *)
(* not there (read_header); .part files, which nobody looks for, are left  *)
(* out; an SQLite transaction is one step.                                 *)
(***************************************************************************)
EXTENDS Naturals, FiniteSets

CONSTANTS
  Proc,      \* scans
  NoProc,    \* nobody has the lock of a key
  Path,      \* videos
  Content,   \* what a video may hold
  Setting,   \* fps, crop_bars and detector: what else is in the key of sigs
  Rounded,   \* settings whose name was rounded by older programs
  Tool,      \* versions of ffmpeg
  Gen,       \* names of generations
  Old,       \* names of older programs, which carry no generation
  None,      \* no row, no file, no value
  MaxId      \* bound: how often a video is replaced

ASSUME ProcAssumption  == NoProc \notin Proc
ASSUME NameAssumption  == Gen \cap Old = {} /\ Rounded \subseteq Setting
ASSUME NoneAssumption  == None \notin Content \cup Setting \cup Tool \cup Gen \cup Old
ASSUME MaxIdAssumption == MaxId \in Nat \ {0}

Key  == Content \X Setting
Name == Gen \cup Old
File == [of : Content, by : Setting, tool : Tool]
Row  == [name : Name, crop : Content, tool : Tool]

VARIABLES
  video,   \* the file at each path: its stat identity and its content
  files,   \* table files: the hash of each path, and the identity it is of
  facts,   \* table content: what the recorded duration was measured on
  sigs,    \* table sigs
  dir,     \* the signature directory
  lock,    \* the process that has each key's lock file
  stage,   \* where each scan is in make
  job,     \* the local variables of make
  held     \* the signatures each scan has been given

index == <<files, facts, sigs>>
vars  == <<video, index, dir, lock, stage, job, held>>

\* The arguments of make, the first stat, and what it has yet to find out.
Called(path, setting, tool, overwrite, id) ==
  [path |-> path, setting |-> setting, tool |-> tool, overwrite |-> overwrite,
   id |-> id, hash |-> None, duration |-> None, crop |-> None, made |-> None,
   name |-> None]
NoJob == Called(None, None, None, FALSE, 0)

KeyOf(p) == <<job[p].hash, job[p].setting>>

\* The stages between taking and giving up the lock of a key.
Locked == {"looking", "probing", "deciding", "decoding", "publishing",
           "saving", "committing", "returning"}

-----------------------------------------------------------------------------

At(p, here) == stage[p] = here
Go(p, there) == stage' = [stage EXCEPT ![p] = there]
Set(p, j) == job' = [job EXCEPT ![p] = j]

\* check_unchanged.  Mutated: the file is taken to be what it was.
Unchanged_Assumed(p) == TRUE
Unchanged(p) == video[job[p].path].id = job[p].id

\* What leaves make gives up the lock of its key, if it has one.
Released(p) == [k \in Key |-> IF lock[k] = p THEN NoProc ELSE lock[k]]
Leave(p, there) ==
  /\ lock' = Released(p)
  /\ Go(p, there)
  /\ Set(p, NoJob)

\* An error, or an interrupt, before anything has been published.
Fail(p) ==
  /\ stage[p] \in {"recalling", "identifying", "hashing", "locking", "looking",
                   "probing", "deciding", "decoding", "publishing"}
  /\ Leave(p, "idle")
  /\ UNCHANGED <<video, index, dir, held>>

-----------------------------------------------------------------------------
(* Opening the index *)

\* Rows that share a name.  Mutated: only those whose name was rounded go.
Shared(k) == sigs[k] # None /\ \E l \in Key \ {k} : sigs[l] # None /\ sigs[l].name = sigs[k].name
Ambiguous_RoundedOnly(k) == Shared(k) /\ k[2] \in Rounded
Ambiguous(k) == Shared(k)

\* open_db, alone under the lock of initialize.
Open(p) ==
  /\ At(p, "away")
  /\ sigs' = [k \in Key |-> IF Ambiguous(k) THEN None ELSE sigs[k]]
  /\ Go(p, "idle")
  /\ UNCHANGED <<video, files, facts, dir, lock, job, held>>

-----------------------------------------------------------------------------
(* Identifying the video *)

Begin(p) ==
  /\ At(p, "idle")
  /\ \E f \in Path, s \in Setting, t \in Tool, o \in BOOLEAN :
       /\ Set(p, Called(f, s, t, o, video[f].id))
       /\ Go(p, IF o THEN "identifying" ELSE "recalling")
  /\ UNCHANGED <<video, index, dir, lock, held>>

\* known_hash.
Recall(p) ==
  /\ At(p, "recalling")
  /\ \/ /\ files[job[p].path].id = job[p].id
        /\ Set(p, [job[p] EXCEPT !.hash = files[job[p].path].hash])
        /\ Go(p, "locking")
     \/ /\ files[job[p].path].id # job[p].id
        /\ Go(p, "identifying")
        /\ UNCHANGED job
  /\ UNCHANGED <<video, index, dir, lock, held>>

\* identify: a stat, every byte, and a stat again.
Identify(p) ==
  /\ At(p, "identifying")
  /\ Set(p, [job[p] EXCEPT !.id = video[job[p].path].id])
  /\ Go(p, "hashing")
  /\ UNCHANGED <<video, index, dir, lock, held>>

Hashed(p) ==
  /\ At(p, "hashing")
  /\ Unchanged(p)
  /\ Set(p, [job[p] EXCEPT !.hash = video[job[p].path].content])
  /\ Go(p, "locking")
  /\ UNCHANGED <<video, index, dir, lock, held>>

-----------------------------------------------------------------------------
(* Looking it up, under the lock of its key *)

\* signature_lock.  Mutated: the lock does not exclude.
Lock_Unheld(p) ==
  /\ At(p, "locking")
  /\ lock' = [lock EXCEPT ![KeyOf(p)] = p]
  /\ Go(p, "looking")
  /\ UNCHANGED <<video, index, dir, job, held>>
Lock(p) ==
  /\ At(p, "locking")
  /\ lock[KeyOf(p)] = NoProc
  /\ lock' = [lock EXCEPT ![KeyOf(p)] = p]
  /\ Go(p, "looking")
  /\ UNCHANGED <<video, index, dir, job, held>>

\* find_signature: one row names the file, the name is not a rounded one of
\* older programs, and the file is a whole signature.
Usable(k) ==
  /\ sigs[k] # None
  /\ ~Shared(k)
  /\ ~(sigs[k].name \in Old /\ k[2] \in Rounded)
  /\ dir[sigs[k].name] # None

\* The identity remember_file is given.  Mutated: a stat of its own.
Remembered_Fresh(p) == video[job[p].path].id
Remembered(p) == job[p].id
RememberFile(p) ==
  files' = [files EXCEPT ![job[p].path] = [id |-> Remembered(p), hash |-> job[p].hash]]

\* What make returns: the signature, and the file as it is now.
Signature(p, row, duration) ==
  [path |-> job[p].path, id |-> job[p].id, hash |-> job[p].hash,
   setting |-> job[p].setting, name |-> row.name, crop |-> row.crop,
   tool |-> row.tool, duration |-> duration, bytes |-> dir[row.name]]
Give(p, row, duration) ==
  held' = [held EXCEPT ![p] = @ \cup {Signature(p, row, duration)}]

Hit(p) == ~job[p].overwrite /\ Usable(KeyOf(p)) /\ facts[job[p].hash] # None

LookUp(p) ==
  /\ At(p, "looking")
  /\ Unchanged(p)
  /\ \/ /\ Hit(p)
        /\ RememberFile(p)
        /\ Give(p, sigs[KeyOf(p)], facts[job[p].hash])
        /\ Leave(p, "idle")
        /\ UNCHANGED <<video, facts, sigs, dir>>
     \/ /\ ~Hit(p)
        /\ Go(p, "probing")
        /\ UNCHANGED <<video, index, dir, lock, job, held>>

-----------------------------------------------------------------------------
(* Building it *)

\* probe_duration, decide_crop and ffmpeg each read the video anew.
Probe(p) ==
  /\ At(p, "probing")
  /\ Unchanged(p)
  /\ Set(p, [job[p] EXCEPT !.duration = video[job[p].path].content])
  /\ Go(p, "deciding")
  /\ UNCHANGED <<video, index, dir, lock, held>>

Decide(p) ==
  /\ At(p, "deciding")
  /\ Set(p, [job[p] EXCEPT !.crop = video[job[p].path].content])
  /\ Go(p, "decoding")
  /\ UNCHANGED <<video, index, dir, lock, held>>

Decode(p) ==
  /\ At(p, "decoding")
  /\ Set(p, [job[p] EXCEPT !.made = video[job[p].path].content])
  /\ Go(p, "publishing")
  /\ UNCHANGED <<video, index, dir, lock, held>>

\* A name that nothing has, had or will have: token_hex.
Fresh(n) ==
  /\ n \in Gen
  /\ dir[n] = None
  /\ \A k \in Key : sigs[k] # None => sigs[k].name # n
  /\ \A p \in Proc : job[p].name # n /\ \A h \in held[p] : h.name # n

\* Mutated: the file replaces the one the row of the key names.
PublishAs_InPlace(p) ==
  IF sigs[KeyOf(p)] # None THEN {sigs[KeyOf(p)].name} ELSE {n \in Gen : Fresh(n)}
PublishAs(p) == {n \in Gen : Fresh(n)}

\* os.replace, at the end of produce.
Publish(p) ==
  /\ At(p, "publishing")
  /\ Unchanged(p)
  /\ \E n \in PublishAs(p) :
       /\ dir' = [dir EXCEPT ![n] = [of |-> job[p].made, by |-> job[p].setting,
                                     tool |-> job[p].tool]]
       /\ Set(p, [job[p] EXCEPT !.name = n])
  /\ Go(p, "saving")
  /\ UNCHANGED <<video, index, lock, held>>

-----------------------------------------------------------------------------
(* Recording it *)

Save(p) ==
  /\ At(p, "saving")
  /\ Unchanged(p)
  /\ Go(p, "committing")
  /\ UNCHANGED <<video, index, dir, lock, job, held>>

RowMade(p) == [name |-> job[p].name, crop |-> job[p].crop, tool |-> job[p].tool]

\* record, remember_file and commit.
Commit(p) ==
  /\ At(p, "committing")
  /\ facts' = [facts EXCEPT ![job[p].hash] = job[p].duration]
  /\ sigs' = [sigs EXCEPT ![KeyOf(p)] = RowMade(p)]
  /\ RememberFile(p)
  /\ Go(p, "returning")
  /\ UNCHANGED <<video, dir, lock, job, held>>

Return(p) ==
  /\ At(p, "returning")
  /\ Give(p, RowMade(p), job[p].duration)
  /\ Leave(p, "idle")
  /\ UNCHANGED <<video, index, dir>>

\* An error before the commit, or an interrupt even after it: the new file is
\* removed.  Mutated: and the lock is kept.
Undo_Locked(p) ==
  /\ stage[p] \in {"saving", "committing", "returning"}
  /\ dir' = [dir EXCEPT ![job[p].name] = None]
  /\ Go(p, "idle")
  /\ Set(p, NoJob)
  /\ UNCHANGED <<video, index, lock, held>>
Undo(p) ==
  /\ stage[p] \in {"saving", "committing", "returning"}
  /\ dir' = [dir EXCEPT ![job[p].name] = None]
  /\ Leave(p, "idle")
  /\ UNCHANGED <<video, index, held>>

-----------------------------------------------------------------------------
(* The end of a scan, and the user *)

Quit(p) ==
  /\ At(p, "idle")
  /\ Go(p, "away")
  /\ held' = [held EXCEPT ![p] = {}]
  /\ UNCHANGED <<video, index, dir, lock, job>>

\* At any step; a generation no row names stays.
Kill(p) ==
  /\ stage[p] # "away"
  /\ Leave(p, "away")
  /\ held' = [held EXCEPT ![p] = {}]
  /\ UNCHANGED <<video, index, dir>>

Replace ==
  /\ \E f \in Path, c \in Content :
       /\ video[f].id < MaxId
       /\ video' = [video EXCEPT ![f] = [id |-> @.id + 1, content |-> c]]
  /\ UNCHANGED <<index, dir, lock, stage, job, held>>

\* The directory is cleared, or arrives without some of its files.
Clear ==
  /\ \A p \in Proc : At(p, "away")
  /\ \E n \in Name : dir' = [dir EXCEPT ![n] = None]
  /\ UNCHANGED <<video, index, lock, stage, job, held>>

-----------------------------------------------------------------------------

\* An index of older programs: settings whose rounded name is one name share
\* its file, which is the signature of one of them.
Init ==
  /\ video \in [Path -> [id : {1}, content : Content]]
  /\ files = [f \in Path |-> [id |-> 0, hash |-> None]]
  /\ facts \in [Content -> {None}] \cup {[c \in Content |-> c]}
  /\ \E c \in Content, ss \in SUBSET Setting, t \in Tool, n \in Old \cup {None}, by \in Setting :
       IF n = None \/ ss = {}
         THEN /\ sigs = [k \in Key |-> None]
              /\ dir = [m \in Name |-> None]
         ELSE /\ by \in ss
              /\ sigs = [k \in Key |-> IF k[1] = c /\ k[2] \in ss
                                         THEN [name |-> n, crop |-> c, tool |-> t] ELSE None]
              /\ dir = [m \in Name |-> IF m = n THEN [of |-> c, by |-> by, tool |-> t] ELSE None]
  /\ lock = [k \in Key |-> NoProc]
  /\ stage = [p \in Proc |-> "away"]
  /\ job = [p \in Proc |-> NoJob]
  /\ held = [p \in Proc |-> {}]

\* make, from the first stat to its return.
Make(p) ==
  \/ Recall(p) \/ Identify(p) \/ Hashed(p) \/ Lock(p) \/ LookUp(p) \/ Probe(p)
  \/ Decide(p) \/ Decode(p) \/ Publish(p) \/ Save(p) \/ Commit(p) \/ Return(p)
  \/ Fail(p) \/ Undo(p)

Next ==
  \/ \E p \in Proc : Open(p) \/ Begin(p) \/ Make(p) \/ Quit(p) \/ Kill(p)
  \/ Replace
  \/ Clear

Spec == Init /\ [][Next]_vars

\* A scan that is not killed goes on: decoders end, with or without a result.
FairSpec == Spec /\ \A p \in Proc : WF_vars(Make(p))

-----------------------------------------------------------------------------
(* What the runs check *)

Stage == {"away", "idle", "recalling", "identifying", "hashing", "locking"} \cup Locked

Job ==
  [path : Path \cup {None}, setting : Setting \cup {None}, overwrite : BOOLEAN,
   tool : Tool \cup {None}, id : 0..MaxId, hash : Content \cup {None},
   duration : Content \cup {None}, crop : Content \cup {None},
   made : Content \cup {None}, name : Gen \cup {None}]
Held ==
  [path : Path, id : 1..MaxId, hash : Content, setting : Setting, name : Name,
   crop : Content, tool : Tool, duration : Content, bytes : File]

\* The type invariant; and whoever is between taking and giving up the lock of
\* a key is the one who has it.
TypeOK ==
  /\ video \in [Path -> [id : 1..MaxId, content : Content]]
  /\ files \in [Path -> [id : 0..MaxId, hash : Content \cup {None}]]
  /\ facts \in [Content -> Content \cup {None}]
  /\ sigs \in [Key -> Row \cup {None}]
  /\ dir \in [Name -> File \cup {None}]
  /\ lock \in [Key -> Proc \cup {NoProc}]
  /\ stage \in [Proc -> Stage]
  /\ job \in [Proc -> Job]
  /\ held \in [Proc -> SUBSET Held]
  /\ \A p \in Proc : stage[p] \in Locked => KeyOf(p) \in Key /\ lock[KeyOf(p)] = p

\* "The index selects the current generation and holds the actual crop and
\* duration": what a usable row says of its file is true, whatever was killed,
\* replaced or overwritten.
RowsAreTrue ==
  /\ \A k \in Key : Usable(k) =>
       /\ dir[sigs[k].name] = [of |-> k[1], by |-> k[2], tool |-> sigs[k].tool]
       /\ sigs[k].crop = k[1]
  /\ \A c \in Content : facts[c] \in {c, None}

\* The signature of the video that was asked for, under the settings asked for.
Right(h) ==
  /\ h.bytes = [of |-> h.hash, by |-> h.setting, tool |-> h.tool]
  /\ h.crop = h.hash /\ h.duration = h.hash
  /\ dir[h.name] = h.bytes
  /\ video[h.path].id = h.id => video[h.path].content = h.hash

\* What make has returned is right, and as long as the scan has it, the file
\* stays what it was: "Old generations stay available to active scans".
HeldIsRight == \A p \in Proc : \A h \in held[p] : Right(h)

\* "If the size and mtime match what was recorded, the stored hash still
\* describes it": the fast path never gives a hash of another content.
KnownIsCurrent ==
  \A f \in Path : files[f].id = video[f].id => files[f].hash = video[f].content

\* "The whole point of keeping them is not having to make them again": nobody
\* decodes what the store has, unless told to, and two scans wait for each
\* other; only a row of older programs may lack the duration beside it.
DecodesOnlyWhatIsMissing ==
  \A p \in Proc :
    /\ stage[p] \in {"probing", "deciding", "decoding", "publishing", "saving", "committing"}
    /\ ~job[p].overwrite
    /\ Usable(KeyOf(p))
    => sigs[KeyOf(p)].name \in Old

-----------------------------------------------------------------------------
(* Why they hold: the inductive invariant *)

\* From here on make knows the hash; and from here on it has published.
Identified == {"locking"} \cup Locked
Saved == {"saving", "committing", "returning"}

JobInv ==
  \A p \in Proc :
    /\ stage[p] \notin {"away", "idle"} =>
         /\ job[p].path \in Path /\ job[p].setting \in Setting /\ job[p].tool \in Tool
         /\ job[p].id \in 1..MaxId
    /\ stage[p] \in Identified => job[p].hash \in Content
    /\ stage[p] \in Locked \ {"looking", "probing"} => job[p].duration \in Content
    /\ stage[p] \in {"decoding", "publishing"} \cup Saved => job[p].crop \in Content
    /\ stage[p] \in {"publishing"} \cup Saved => job[p].made \in Content
    /\ stage[p] \in Saved => job[p].name \in Gen

\* An identity is never given twice, so as long as the video has the one that
\* make began with, all that make has taken from it is of one content.
Still(f, id) == video[f].id = id
TakenInv ==
  /\ \A f \in Path : files[f].id # 0 => files[f].hash \in Content
  /\ \A f \in Path : files[f].id <= video[f].id
  /\ \A f \in Path : files[f].id = video[f].id => files[f].hash = video[f].content
  /\ \A p \in Proc :
       /\ stage[p] \notin {"away", "idle"} => job[p].id <= video[job[p].path].id
       /\ stage[p] \in Identified /\ Still(job[p].path, job[p].id) =>
            /\ job[p].hash = video[job[p].path].content
            /\ stage[p] \in {"deciding", "decoding", "publishing"} => job[p].duration = job[p].hash
            /\ stage[p] \in {"decoding", "publishing"} => job[p].crop = job[p].hash
            /\ stage[p] = "publishing" => job[p].made = job[p].hash
       /\ stage[p] \in Saved => job[p].duration = job[p].hash /\ job[p].crop = job[p].hash

\* A generation that is not recorded yet is its scan's alone.
MineInv ==
  \A p \in Proc : stage[p] \in Saved =>
    /\ dir[job[p].name] = [of |-> job[p].hash, by |-> job[p].setting, tool |-> job[p].tool]
    /\ \A q \in Proc \ {p} : stage[q] \in Saved => job[q].name # job[p].name
    /\ \A k \in Key : sigs[k] # None /\ sigs[k].name = job[p].name =>
         stage[p] = "returning" /\ k = KeyOf(p)
    /\ \A q \in Proc : \A h \in held[q] : h.name # job[p].name

\* Rows share a name only until the first scan has opened the index.
RowsInv ==
  /\ \A c \in Content : facts[c] \in {c, None}
  /\ (\E k \in Key : Shared(k)) => \A p \in Proc : stage[p] = "away"
  /\ \A k \in Key : sigs[k] # None /\ ~Shared(k) =>
       /\ sigs[k].crop = k[1]
       /\ dir[sigs[k].name] \in {None, [of |-> k[1], by |-> k[2], tool |-> sigs[k].tool]}

HeldInv ==
  /\ HeldIsRight
  /\ \A p \in Proc :
       /\ stage[p] = "away" => held[p] = {}
       /\ \A h \in held[p] : h.id <= video[h.path].id

\* The inductive invariant of the proofs: types, what a scan has taken from its
\* video, whose a new generation is, and what the index and the scans then have.
StoreInv == TypeOK /\ JobInv /\ TakenInv /\ MineInv /\ RowsInv /\ HeldInv

-----------------------------------------------------------------------------
(* Liveness *)

\* No lock of a key outlives the make that took it.
LocksAreReleased ==
  \A k \in Key, p \in Proc : lock[k] = p ~> lock[k] # p
=============================================================================
