# A verification project for Mpeg7Dupes

Mpeg7Dupes finds which videos share footage.  `src/src` is a C program that
compares MPEG-7 signature files pairwise and can stop and resume over days;
`src/tools` is a Python scanner that makes the signatures, keeps them in a
store, calls the C program and writes a record of what it found.

This directory holds TLA+ models of the parts where the order of steps matters,
TLC runs on small instances of them, and proofs for instances of every size.
Paths and line numbers are those of the repository.

    tlasany M.tla                              parse a module
    tlc -workers 4 -config X.cfg MCModule      check a run
    tlapm M_proof.tla                          check the proofs of a module

## 1. The system

### Components, their state and their operations

| component | source | state | operations | hard behaviour |
|---|---|---|---|---|
| comparison run | `src/src/main.c` | list of paths, iteration counters, the shared source of an incremental run, the result stream with its buffer and error indicator | `main`, `processFiles`, `comparePair`, `stopOnWriteError` | OpenMP workers share out iterations, share one stream, one of them may end the process under the others |
| ledger | `src/src/ledger.c` | a text file (`#run`, `#input` and pair lines) under a `flock`; in memory a hash table of pairs and the digests of the inputs | `ledgerOpen`, `ledgerNoteInput`, `ledgerHas`, `ledgerRecord`, `ledgerClose` | crash and kill at any step, torn last line, failed append, several processes, changed build, settings or inputs |
| table of the ledger | `src/src/ledger.c` | open-addressed array of 64-bit hashes, capacity, count | counting pass, sizing, `ledgerInsert`, `ledgerContains` | the probes end only at an empty slot; sized once, before any thread exists |
| lists of inputs | `src/src/utils.c` | path matrix with two indices | read a list, merge two lists, iterate | which entries are sources in an incremental run |
| signature loader | `src/src/signature_load.c` | one parsed signature | `binary_import` | bounds of a binary format |
| search of a pair | `src/src/signature_lookup.c` | best match so far, pair of segments at hand, Hough accumulator, list of candidates | stage 1 `find_next_coarsecandidate`, stage 2 `get_matching_parameters`, stage 3 `evaluate_parameters` | state carried from one candidate and one pair of segments to the next |
| walk of a candidate | `src/src/signature_lookup.c` | frame of each clip, direction, five counters, ends reached | `iterate_frame`, the loop of `evaluate_parameters` | one turn with counters that are not reset, two clips at different speeds, rounding |
| result rows | `src/src/printers.c` | none beyond the stream | `printResult` and the formats | locale, buffering |
| command line | `src/src/ArgumentParsing.c` | options | argp callbacks | conflicts between options |
| logging | `src/src/slog_compat.c` | none | leveled messages | none |
| signature store | `src/tools/sigstore.py`, `src/tools/sigmake.py` | SQLite index (files, content, sigs), directory of immutable generations, one lock file for each key | `make`, `build`, `produce`, `lookup`, `find_signature`, `open_db` and its migration | files replaced while they are hashed or decoded, several processes, kill or interrupt at every step, `--overwrite` under a reader |
| video profiles | `src/tools/video_profile.py` | table `profiles`, generations of JSON | `make`, `build`, `window`, `assess` | as the store |
| scan | `src/tools/find_reuse.py`, `tool_settings.py` | maps from signature to paths, results by pair, failures, statuses | `scan`, `compare`, `compare_crop_fallback`, `write_record` | partial failure at every stage, and what may then still be claimed |
| scan record, report | `src/tools/reuse_record.py`, `render_report.py` | a JSON document | coverage rules, warnings, HTML | reading older schemas |
| scan progress | `src/tools/scan_progress.py` | stage, lock, stop event, heartbeat thread | `__call__`, `_heartbeat`, `finish`, `close` | a heartbeat racing the last line |
| bar detection | `src/tools/detect_bars.py` | none between videos | sample, estimate, agree | numerical thresholds |

### How they interact

* The C program is a process.  Its `main` builds one list (`utils.c`), opens the
  ledger, notes every input, and starts an OpenMP team.  Workers call the loader
  and the search, print to one shared `FILE *`, and append to one shared ledger
  `FILE *`.  The ledger's table and its file are used under the critical section `ledger`.
  A row is formatted and printed in the unnamed critical section of `printResult`
  (`printers.c:166`); the `fflush` and `ferror` that follow it (`main.c:216`) are outside of any, so
  that a worker may flush, or lose, the rows of another.
* Two C processes interact only through the ledger's `flock` and the files.
* A scan calls the store for each video, then runs the C program once for each
  source with the candidates as a list, and reads its CSV from a pipe.  It does
  not use a ledger (`-s`).
* Scans interact with one another through the SQLite index, the lock file of each
  key, and the signature directory.
* The heartbeat thread of a scan shares a lock and the standard error stream with
  the thread that works.

### What makes each component correct

* Comparison run and ledger: a pair is skipped only if its row is in the output,
  of the same build, settings and inputs; a run that ends cleanly has left
  nothing out; nothing is compared twice; interrupting it never costs more than the
  pairs in flight; running it again until it is not interrupted completes the batch.
  The one exception is a pair whose line the halves of two others spell (6, `fused`).
* Table: at most half full whatever the ledger held and the run adds; the set of
  hashes inserted; every probe ends.
* Walk: the two clips stay in step at the ratio; no frame is judged twice; what is
  reported was walked; a whole match is the whole overlap.
* Loader: it reads no bit that is not there, and a loaded segment is exactly the frames
  of its time.
* Search: footage that two segments share becomes a candidate wherever either has it; one
  candidate is reported, and no better one was seen; the search ends.
* Store: a row never describes a file made from another content, other settings or
  another crop; a file that a scan holds never changes; a failed run leaves nothing
  that a later one would take for a result; nothing is decoded needlessly.
* Profiles: a profile is of the content that was fingerprinted, whole, and made once.
* Scan: a candidate is `checked` or a miss only after every requested source was
  compared with it, in every requested view; a completed hit is never lost to a later
  failure; every path asked for has one status; an exit status of 0 means that everything
  asked for was done, and so does a record that says "complete".
* Progress: nothing is written after `close`; the last line names the current stage;
  nobody waits for ever.

## 2. The modules

| module | models | kind |
|---|---|---|
| `ResumableBatch` | the promise of a resumable batch | abstract specification, with a theorem |
| `ComparisonRun` | `main.c` with `ledger.c`: processes, workers, ledger, output | detailed specification |
| `MCComparisonRun` | command lines and lists for TLC | instance |
| `ComparisonRun_proof` | type, team and lock invariants, the delivery invariant, the refinement of `ResumableBatch`; no pair twice; records true, skips current, runs complete | proofs |
| `LedgerSet` | the set the rest of the program sees | abstract specification |
| `LedgerTable` | counting, sizing and probing of `ledger.c` | detailed specification |
| `MCLedgerTable` | short ledgers and colliding hashes | instance |
| `LedgerTable_proof` | half full, room for a probe, refinement of `LedgerSet`; probes are short | proofs |
| `Walk` | `evaluate_parameters` for one candidate, `iterate_frame` | specification |
| `MCWalk` | clips and ratios | instance |
| `Walk_proof` | in step, no frame twice; the section was walked, a whole match is the overlap | proofs |
| `SignatureFile` | `binary_import`: one signature is read, checked and linked | specification |
| `Alignments` | stages 1 and 2: Jaccard distance, nearest frames, Hough transform | operators |
| `SignatureLookup` | the order of segment pairs, the stages, the ranking | specification |
| `PairComparison` | a source and a candidate are loaded, then searched | composition |
| `MCPairComparison` | good files, and one for each refusal | instance |
| `PairComparison_proof` | the loader stays in its file, segments are spans; what is shared is a candidate, the best is of all; the search moves on | proofs |
| `SignatureStore` | `sigmake.make` and `sigstore.py` under several scans | specification |
| `MCSignatureStore` | small stores and their symmetry | instance |
| `SignatureStore_proof` | rows are true, held signatures are right, nothing is decoded twice | proofs |
| `ProfileCache` | `video_profile.make` and `build` under several scans | specification |
| `ScanProgress` | `Progress`: the working thread and its heartbeat | specification |
| `AnalysisPass` | pass 1 of a scan: `ProfileCache` and `ScanProgress` | composition |
| `MCAnalysisPass` | two scans that want one profile | instance |
| `AnalysisPass_proof` | profiles are right and made once; the stage is told | proofs |
| `Scan` | `scan`, `compare`, `compare_crop_fallback`, `write_record`, `main` | specification |
| `MCScan` | small inventories | instance |
| `Scan_proof` | the record is whole, `checked` is earned, hits are kept, one row for each path, the status is honest | proofs |

### ComparisonRun

A process is what one start of `mpeg7dupes -s ledger` does; a process that has ended may
be started again, by any of `Commands`.  State that survives it: `content` (the signature
files), `ledger` (the file), `output` (the file the user appends to), `lock` (the
`flock`).  State of a process: its command line `args`, the place of its main thread
`phase`, the ledger's table and digests in memory `table` and `known`, the entries
noted so far `noted`, the next iteration of `schedule(dynamic)` `next`, and the stream
`buf` and `stream`.  State of a worker: `at`, `job`, `held` (the content of the source
in its memory).

| action | code |
|---|---|
| `Start` | `main` up to `processFiles`; the header is printed and nobody looks whether it was |
| `Open` | `fopen "a+"`, `flock(LOCK_EX \| LOCK_NB)`, or the refusal |
| `DiscardTail`, `Load` | the two passes over the file: drop an unterminated line, refuse a malformed line or another `#run`, load pairs and digests |
| `ClaimLedger` | `ledgerWriteRun` on a ledger without a `#run` line |
| `NoteInput` | `ledgerNoteInput` for the next entry: known and equal, new and appended, or fatal |
| `BeginTeam` | the remaining pairs are counted; the parallel region begins, with its shared source if there is one |
| `TakeSource`, `TakeCandidate` | one iteration of either worksharing loop |
| `Look` | `ledgerHas`; a pair that is done returns from `comparePair` |
| `PrintRow` | import of the second file, comparison, `printResult` |
| `Flush` | `fflush` and `ferror` of the result stream |
| `Record` | `ledgerRecord`: append, `fflush`, then insert; its failure |
| `Halt` | `stopOnWriteError` and the fatal messages of the ledger: `exit(1)` under the other workers |
| `Join` | the implicit barrier of the loop and the end of the region |
| `Close`, `Finish` | `ledgerClose`, the last `fflush` of `main` |
| `Kill` | a signal at any step, half an append included |
| `ReplaceInput`, `StartOver` | the user: rewrites an input, moves ledger and output away |

What is abstracted.  Paths, contents, run records and rows are values.  A pair below the
threshold prints nothing; a row stands for that outcome, too.  Two different pairs have
different hashes (the comment of `ledgerHash` gives the odds).  A failed write keeps
some of the rows and drops the others, which is what stdio leaves when the process goes on.
The machine does not
crash: what `write` took stays, as `README.md` says under *Long runs*.  Inputs are
rewritten only while nobody compares, except in the run `replaced`.  Runs without `-s`
do not use the ledger and are not modelled.

Lines that fuse.  A failed append may leave the beginning of a line, and until its worker has
reached `exit(1)` another worker may append its own line to it.  `Recorded` has the three
outcomes.  Torn behind its separator, the half makes a line of two separators, which `ledgerInsertLine`
does not parse (`body = "malformed"`): the ledger is refused from then on.  Torn before it, the half makes
a line of one separator, which is read like any other.  Mostly it names a pair that no list has, and the pair
of the second worker is only compared again.  But if the half and the first path of the line are together the
name of a file, the line names another pair, and the next `ledgerOpen` loads that pair as compared:
`b` torn from a line, followed by `b.sig<Tab>z.sig`, is the line of `bb.sig` and `z.sig`.  Which lines
can read as which is a matter of spelling, so it is the constant `Fuses`, any relation between pairs; the
pairs that are in the ledger by such a line are `ledger.misnamed`, apart from `ledger.pairs`, which a line
of their own records.  `Load` takes both.  `ResumableBatch` has the same hole (`Misname`, no wider than
`Misnamable`), and promises of every other pair that it is skipped only if it is in the output (`SkippedIsDelivered`).

### LedgerTable

One process: it counts the lines of a file, doubling the capacity once at most for each
line, makes room for the pairs it may add, loads the file, and then inserts and looks up,
one slot for each step.  `Hash` is the home slot of a pair before the mask, chosen so that pairs collide
and wrap around.  A capacity is a power of two, so the mask is the remainder.
`MinCapacity` is 1024 in the code (`ledger.c:262`) and 1 in the run, so that the table grows and wraps.

### Walk

One walk of stage 3.  `clips`, `ratio` and `seed` are its input.  A step judges the two
frames at hand (`GoodFrame`, `FarFrame`) or moves on (`Move`, which is `iterate_frame`
with the turn at the end of a clip).  What a comparison of two frames says is chosen when
the walk gets there: no walk judges a pair twice (that is `NoFrameTwice`), so the choice
is that of the whole matrix of distances.  Ratios are exact fractions instead of doubles.
Frames of one clip have distinct times.

### SignatureFile, Alignments, SignatureLookup and PairComparison

`SignatureFile` is one call of `binary_import`: `Measure` (the size), `ReadHeader`,
`ReadCoarse` for each segment, `ReadFlag`, `ReadFine` for each frame, `Sort`, `Link` for each
segment, `Loaded`; any of them may be the end (`Reject`, which is `exit(1)`).  A field is its
value and its width: `pos` is the position of the bit reader, and `HeaderRead`, `CoarseRead`
and `FineRead` add up the calls of `get_bits`, while `NeedBits` adds up what the code requires beforehand.
A file may claim any counts; what follows in it is as many records as the bytes allow.
`qsort` may leave frames of one time in either order, so `Sort` chooses.

`Alignments` has stages 1 and 2 as operators: `Similar` (at most two words too far apart, and
not too far in total), `Nearest` (for each frame of the first clip the close frames of the
second that are nearest), `Votes` and `houghTransform` (two pairs of frames vote for a ratio and an
offset; a cell keeps its votes and the closest pair as its seed), `Chosen` and `Precedes` (what
becomes a candidate, and the order of the accumulator).  A distance is the number of levels that only one of two
ternary digits reaches, over all digits, which is the sum of their differences (`ApartIsDifference`).
`SegmentAssumption` says that a segment has no more frames than the accumulator has columns on either side: both are 90 in the
code.  Arithmetic is exact.  The code's is in
doubles: a slope of ten frames or fewer is exact enough for `nearbyint` to agree, and
`(int) (0.7 * h)` is `7 * h \div 10` for fewer than 90 votes; the instance is far below both.

`SignatureLookup` is the search: both cursors, one stage after the other, and the best match that carries
over.  What the walk of a candidate comes to is chosen, as module `Walk` leaves it:
length, mean distance, section, whether it passes the filters, whether it reached both ends.
Its length is positive (`WalksAssumption`): `bcount` counts the seed before the walk begins, and
in module `Walk` it follows from `SectionIsWalked`.
`PairComparison` loads the source, then the candidate, and searches the two.

### SignatureStore

A scan is a process that opens the index and calls `make` for one video after another; it
keeps what it was given (`held`) until it quits, for that is what it then compares.
State that survives it: `video` (what is at each path, with a stat identity that no other
content ever has), the tables `files`, `facts` (the table `content`) and `sigs`, the signature
directory `dir`.  State of a scan: `stage` and the local variables `job`.  `lock` is the
`flock` of each key.

| action | code |
|---|---|
| `Open` | `open_db`: rows that share a file are deleted, all of them |
| `Begin` | the arguments of `make` and its first stat |
| `Recall` | `known_hash`: the recorded hash, if the identity is the recorded one |
| `Identify`, `Hashed` | `identify`: stat, read every byte, stat again |
| `Lock` | `signature_lock` |
| `LookUp` | `check_unchanged`, `lookup`; a hit is remembered and returned |
| `Probe`, `Decide`, `Decode` | `probe_duration`, `decide_crop`, ffmpeg: each opens the video again |
| `Publish` | `check_unchanged` and `os.replace` onto a name never used before |
| `Save`, `Commit` | `check_unchanged`; one transaction for the tables |
| `Return`, `Fail`, `Undo` | the end of `make`: the signature; an error or interrupt before, or after the file exists |
| `Quit`, `Kill` | the end of the process, between videos or anywhere |
| `Replace`, `Clear` | the user: rewrites a video at any step, removes signature files while no scan runs |

What is abstracted.  A content is its hash.  A duration, a crop and a file say which content
they were taken from.  A rewrite always changes the identity; `known_hash` accepts
that one which puts size and time back passes it, and compares fewer fields of the stat than `check_unchanged`.  A
partial signature counts as none (`read_header`), and `.part` files are left out, since nothing looks for
them.  An SQLite transaction is one step.  `Undo` may follow `Commit`: an interrupt
between `con.commit()` and the end of the `try` removes a file that a row names; `find_signature` then
misses, and the next scan makes it again.  `Init` includes an index of
older programs, in which settings share one file.  Left out: the migration of schema 1,
the frame count a lookup corrects, the argument `identified` (only tests pass it).

### ProfileCache, ScanProgress and AnalysisPass

`ProfileCache` is `video_profile.make` for one recipe, called by several scans with the hash
their fingerprint had: `Know` and `Hash` (`known_hash`, `identify`), `Lock`, `LookUp` (the row, the file, its
digest), `Probe` (ffprobe), `Analyze` (ffmpeg), `Read`, `Save` (the new generation), `Record` (the
second `check_unchanged` and the commit), `Return`; `Refuse` is an error `make` finds itself,
`Fail` any other error or an interrupt, which removes a new file.  A profile says whose it claims
to be and what each of the two programs has read.  As in the store, a rewrite always
changes the identity, and an interrupt right after the commit removes the file a row names: the next scan finds no such
file and makes the profile again.

`ScanProgress` is `Progress`: a call takes the lock (`Call`), sets the stage and writes (`Write`); the
heartbeat waits, times out, takes the lock and writes; `finish` and `__exit__` stop the thread
(`Close`), wait for it (`Join`), and then say their last line.  The reader may close the pipe at any moment.
`shown` is the last line that was read.

`AnalysisPass` puts the two together as the loop of pass 1 does, for one scan that announces its
stages (`Loud`) beside quiet ones: a step of `make` that calls `progress` is followed by the call before the next
step.  An interrupt of the loud scan hits both, as it is one thread.

### Scan

One scan from the inventory to the exit status.  `request` is what `collect_videos` would return, where each path
leads, and what each file holds; a signature is named by the content, for all of a
scan have the same settings.  Actions follow the passes of `scan`: `Collect`, `Sign` (one video, made or
failed), `Profile`, `Compare` (one invocation, or the `ComparisonError` that ends them), and with
`--crop-fallback` `Retry` (one source and its misses), `Fix` (one view, made once), `CompareCropped`
(source cropped, then candidates), `Retried` (what replaces a miss).  `Report` is the record with the
statuses, `Save` and `Replace` are `write_record`, `Fatal` is what `main` catches, wherever the scan is, and
`Killed` what it does not: an interrupt, a kill, an error inside its handler (the interpreter ends
with 1 then, as it does for "incomplete").  An error after the record was written makes `main` replace it by that of a scan
that "failed before comparison", which is status 2 in both, if that second record can be written.  If it
cannot, or if the process is killed first, the record of the scan stays, and it may be a better one than the status.  So
`ExitIsHonest` does not ask that the two be equal.  It asks that "complete" be earned wherever it is said, by a status of 0
or by a record of this scan, however the process ended; and that with `--json` a status `scan` returns, unless it is that of a failure, be the one its
record has.  What is earned is stated over what completed invocations have compared (`AllDone`).  `compared` and `measured` are history: what completed invocations said.
A length stands for its coverage, since `coverage_values` is monotone in it; positions, clocks, warnings and
the rendered report are left out.

## 3. The runs

| run | instance | what it shows |
|---|---|---|
| `contention` | 2 processes of 2 builds, 2 workers, 3 files, 1 content, a pair from a ledger of an unrecorded build, lines that fuse; line buffered; fairness | the lock excludes; `ImplementsBatch`; every run ends; resuming completes the batch |
| `workers` | 1 process run after run, 2 builds, 2 workers, 3 files, 2 contents, a pair from a ledger of an unrecorded build, lines that fuse; a list that grows and is reordered, one that names a file twice, `-n` with one and with two new files; not line buffered | types and matrix bounds; the inductive invariant of the proofs; no pair twice; a recorded pair is in the output as the ledger describes it; skips are current; complete |
| `fused` (violated) | 1 process, 2 workers, 3 files, names that let two halves of lines spell a third | a finding, see 6 |
| `replaced` (violated) | inputs rewritten under a running process | a finding, see 6 |
| `table` | files of up to 3 lines, up to 2 new pairs, colliding hashes | half full; implements a set; probes end |
| `walk` | every seed of two pairs of clips at five ratios below, at and above 1 | in step; no frame twice; section walked; whole is the overlap |
| `walk_ratio` (violated) | clips of eight frames at ratio 1 | a finding, see 6 |
| `lookup` | 7 good files, of one or two segments and six frames, shared earlier, later, in place, noisily, out of order; 13 refused ones; every order of two | the reader stays in the file; segments are spans; what is shared is a candidate; the best of all; the search ends |
| `sharing` | 2 scans, an empty index, a video replaced once, 2 contents, 2 versions of ffmpeg, 2 generations | types; rows are true; what is held is right and stays; a remembered hash is current; nothing is decoded that is there; the inductive invariant |
| `legacy` | 2 scans, an index of older programs in which 2 settings may share one file, fairness | neither is ever given the other's file, which `sharing` cannot show; the lock of a key is always given up |
| `scan` | 6 inventories: 2 sources and a candidate, a source and 2 candidates, copies, a candidate that is the source, no source; every option; every part may fail | the record is whole; `checked` is earned; hits are kept; every path once; "complete" is earned, by status and by record |
| `analysis` | 2 scans of which one has progress lines, one video replaced once, 2 contents, 3 names; 4 states an earlier scan may have left | profiles are right and made once; the terminal tells the stage; the last word is last; nobody waits for ever |

Bounds, and why they are enough.  Two processes: the lock is the only thing that relates
processes, and two are enough for one to hold and one to be refused or to come next.  Two
workers: every critical section relates a worker to one other.  Three files: the smallest
list with a source that has more than one later entry and a second source (pairs ab, ac,
bc), so that iterations of different length overlap, and a list that names one of two files twice.  Two contents: one digest that fits and
one that does not, where the contents matter (`workers`, `replaced`); who has the lock, and who ends,
does not depend on them.  The three names are such that one line can read as that of another listed pair, and one as
a pair no list has (`Spelling`).  Nothing counts up for ever: processes restart from one state,
`output` and `ledger` are sets over finite values.  Three lines and two additions reach
two doublings, a full wrap-around and a displaced probe in tables of up to 16 slots.  The clips of
`walk` have four to six frames: room for three bad frames in a row, a turn by tolerance and by
each end, at ratios 1, 3/2, 2/3, 2 and 6/5.  In the store one video, replaced once (`MaxId`), is every
race of a scan with the user, whose new file may hold the same content; that the old one comes back later
is left to the proofs, which hold for every `MaxId`; a third scan would meet no other
lock; two generations let one be current while a scan holds the other, and two versions of ffmpeg
tell their files apart.  Six frames are the fewest
that let three be shared at an offset of three in either direction; their values, in base three, are chosen so that unrelated
frames are farther apart than the threshold, but for the noisy clip.  A scan of three paths has a source or a candidate
besides the one that fails, and matches of up to `MaxFrames` are below, at and above `Threshold`.  In
`analysis` the video changes once, `MaxId`, between any two steps of either scan.  `Gen` bounds how many generations exist at once: a scan that finds no fresh name can only
fail, and `Clear` or `Undo` frees names.  Workers, scans, contents, versions and names are symmetric; the runs with fairness use no symmetry.  Deadlock is checked where the system goes on for
ever (the user may always start again); a walk, a search, an analysis and a scan stop.

Fairness.  `Running`: a thread of a live process that can go on does so; the operating
system schedules it, and no modelled step waits for anything but the barrier (the
`flock` is non-blocking).  `Kill` and the user's actions have no fairness.
`Persistent`: the user starts the command again whenever it is not running; without it
nobody promises completion.  `ResumingCompletes` has the premise that from some time on
nothing goes wrong (`Calm`), which excludes kills, failed writes, changed inputs and
refusals, and nothing else.  A ledger that is refused for good, because of a malformed line or a changed input, is
not calm until the user starts over, so it says nothing of such a ledger; nor does it promise a pair that a fused line misnames.  `LedgerTable` has fairness for the thread inside the critical
section.  `PairComparison` is one thread, which is scheduled: no step of it waits.  In `AnalysisPass`
every thread goes on unless it waits, ffprobe and ffmpeg end with or without a result, and a lock of two threads that is free
again and again is got in the end (strong fairness of `Call`): the heartbeat leaves it alone for ten seconds at a time.  Errors,
interrupts, kills, the user and the reader of the pipe have none.  `SignatureStore` has
fairness for each scan inside `make`: a decoder ends, with or without a result, and what fails leaves `make`;
`Begin`, `Quit`, `Kill` and the user have none.

## 4. The proofs

Proved for every number of processes, workers, paths, contents, lines, slots, clips and
ratios, from the assumptions on constants stated in the modules.

* `ResumableBatch!BatchPromise`: in every behaviour of the abstract batch a pair marked done
  has its row, a pair that would be skipped has it unless its name can be put together from others, and rows are of
  the run the ledger names or of one unrecorded.
* `ComparisonRun_proof!TypeCorrect`, `LockExcludes`.  `TypeOK` is inductive with
  `TeamInv` (workers have an iteration only while the main thread is in the region; a
  shared-source team begins after its source), which it needs so that `job` stays in the
  path matrix when `args` changes.  `OneHolder` is inductive with `TypeOK`.
* `ComparisonRun_proof!InvariantHolds`, `Refines`, `Delivered`.  "A recorded pair is in
  the output", of pairs recorded by a line of their own, is not inductive: it needs to know why the row is there when a worker
  records.  `PrintedInv` says so: a worker that is about to record has its row in the
  output, and one that has yet to flush has it in the output or the buffer, unless the stream
  has failed.  That needs `BufferInv` (rows wait only while some worker has still to flush,
  and are rows of this run) and `ClaimInv` with `OneHolder` (the ledger names the run of its holder, and
  nobody changes it meanwhile).  With the invariant every step maps to a step of
  `ResumableBatch` or to a stutter (a fused line that names a pair to `Misname`), so its theorem holds of the code.
* `ComparisonRun_proof!OnlyNamesMislead`.  `MarkedIsPrinted` is what the comments of the program say: a listed pair
  that `ledgerOpen` would take for compared is in the output.  The run `fused` refutes it.  The theorem says that nothing
  but the names of the files does: it holds whenever no line can read as another (`Fuses = {}`), whatever is torn, killed or failed.
* `ComparisonRun_proof!NoPairTwice`.  The look-up and the record of a pair are two critical sections, so
  nothing in `comparePair` keeps two workers off one pair.  `ShareInv` says what does: no two
  workers of a team are in the same source (or, with one source, at the same candidate), what a worker has was handed out,
  the table has all pairs of the ledger, and no busy worker has a pair of the table.  In a list
  without repetitions two iterations are two pairs (`PairsDiffer`), so the record of one worker leaves the others right.
* `ComparisonRun_proof!RecordsAreTrue`, `SkipsStayCurrent`, `NothingIsLeftOut`.  These assume that `ReplaceDuringRun`
  is false; without that the run `replaced` refutes them.  The invariant, `CurrentInv`, follows a content
  from the digest to the report: the process knows what the ledger says of the inputs, and what it has noted is what the
  files hold (`FreshOf`); a worker holds what its source holds (`HeldOf`); what it has printed is of the two files as they
  are (`MadeOf`); so a pair it records is in the output as the ledger describes it (`VouchedInv`), though the ledger may
  have been begun by a build that recorded neither run nor inputs.  What is in the table is then in the output as this process would
  print it (`SkipOf`), also after a line has fused with a torn one and the ledger has lost the pair.  All of it leaves out the
  pairs a fused line has misnamed, of which there are only ever more until the ledger is begun anew (`MisnamedGrows`), so that what
  is left out on loading is still left out at the end.  `DoneOf` adds that an
  iteration that was handed out is in the table or with a worker, so that the barrier leaves nothing out.
* `LedgerTable_proof!HalfFullAlways`, `EmptySlotLeft`, `TableIsASet`.  The invariant is
  `Shape`, `Room` (capacity at least twice what is, and what may still be, inserted),
  `Counted` (the number of filled slots is the count) and `Chains` (no slot between the
  home of a hash and its place is empty).  `Chains` is why a probe that meets an empty slot may conclude
  that a hash is absent.
* `LedgerTable_proof!ProbesAreShort`, `ProbesGoOn`.  What of `ProbesEnd` is safety.  The slots a probe has passed (`Reaches`) are
  filled and, once around the table or less, all different (`AroundTheTable`), so there are no more of them than hashes in
  the table (`FilledRun`), which is half full at most: the probe has not come around, and its next step takes it one slot further.
* `Walk_proof!StaysInStep`, `NoFrameIsJudgedTwice`.  The invariant is `Shape`, `OnPath`
  (where the walk is, as a sum of rounded steps from the seed), `Rounds` (rounds are bounded by the
  frames passed, also after the turn) and `DriftBound` (a difference of rounded products is less than one
  frame off).
* `Walk_proof!SectionsAreWalked`, `WholeMatchIsTheOverlap`.  `SectionIsWalked` speaks of the end of a walk; on the way
  `WithinWalk` has to know more: the section lies between the seed and where the walk is, and a pair about to be judged is
  beyond it, which is why the good frames of a section are all different.  `OverlapInv` says
  what a walk at ratio 1 leaves behind when it turns: at the end of a clip, all the frames that follow the seed, so that
  the way back ends after the overlap; and that it turns for no other reason if it is to be whole.
* `SignatureStore_proof!RowsStayTrue`, `HeldStaysRight`, `KnownStaysCurrent`, `NothingIsDecodedTwice`, `TypeCorrect`.
  "A row is true" needs to know that all a scan took from its video is of one content, though it
  opened the video four times: `TakenInv` says so for as long as the identity is the first one, and
  `Publish` checks that it is.  "A held file stays" needs `MineInv`: a generation that is
  not recorded belongs to its maker, so that an undo removes nobody's file.  `RowsInv` says that rows share a
  name only until the first scan has opened the index; without that, a commit could leave
  the other row of a shared file alone with it.  The lock makes `MineInv` inductive,
  and keeps a miss a miss for who has looked; a row `make` has written has its duration beside it (`RowsKnown`), so that only
  rows of older programs are decoded again.
* `PairComparison_proof!StaysInTheFile`, `LoadsSpans`.  The invariant, `LoaderInvariant`, says
  that the position is the sum of the widths read so far and that the lists are no longer than the counts
  that `Backed` has accepted; the sum of the calls of `get_bits` and the constant the code compares are
  then the same number.  For spans it says that linked segments cover exactly what
  `Covers` gives, in the order `Sort` has left; the sorted list does not change after.
* `PairComparison_proof!BestIsOfAll`.  `SearchInv` has three parts.  `Held`: a clip that is loaded has a segment, and each
  segment a first frame; no clip is replaced once the search is on.  `Swept`: stage 2 has been done for exactly the similar pairs
  that the cursors are past, in the order of `find_next_coarsecandidate`, and for the one at hand once its candidates are chosen.
  `Ranking`: the best match is of a walk that passed the filters, and whatever beats it is still to be
  evaluated.  "No candidate is better" is not inductive without that last clause, for better walks wait their turn; it is
  kept because `Better` is transitive and the initial match loses to every walk, which is where the positive length is needed.
* `PairComparison_proof!SharedSegmentsAreFound`.  Mostly about the operators of stage 2, for frames of any values and any
  length of a segment: a pair of frames is closer than the threshold at one distance only, so if all of them are `d`
  apart, each is nearest to its frame (`AlikeIsChosen`); two of them vote, inside the accumulator (`TwoVote`), and
  every vote has ratio 30/30 and offset `d` or `d - 1`, whichever way `nearbyint` rounds the half (`VoteOfShift`, `RoundedHalf`).
  So at most two cells have votes, and the one with more of them is chosen (`SharedChosen`).  That the seed is one
  of the pairs needs that a cell has a first closest vote (`FirstVote`): least elements of sets of naturals, from the
  well-foundedness of `<` (`LeastNat`), no induction.  `SharedInv` carries this over the steps between pairing and choosing.
  Besides `SegmentAssumption` it assumes that a signature is a sequence of naturals (`SigAssumption`), as `binary_import` reads bytes.
* `PairComparison_proof!SearchMovesOn`, `ACandidateIsNext`.  What of `SearchEnds` is safety, once the two clips are loaded.  Every
  step goes forward in an order without infinite descent (the pair at hand, of finitely many; its stage; the candidates
  left, of finitely many), and `Evaluate`, whose guard asks for a first candidate in the order of the accumulator, has one as long as
  any is left.  The candidates left are cells of `houghTransform` (`LeftInv`), of which no two have one place (`CellsHavePlaces`).
* `Scan_proof!RecordIsWhole`.  Inductive with the types that `ScanInvariant` has (`RestTyped` is the others); what `Save` puts in
  the record is the report, whose fields are typed by those of the scan (`ReportTyped`).
* `Scan_proof!CheckedOnlyIfEarned`, `HitsStay`, `PathsHaveOneRow`, `StatusIsHonest`.  The invariant, `ScanInvariant`, relates at every stage what the scan
  knows to what was measured: a result is the full-frame measurement unless it asks for
  review, and then it is a cropped one that is longer than a full-frame miss; a completed source was compared with every
  candidate, in every view if the fallback is on and the pair was a miss; without an error nothing that was to be compared is
  left; and every path asked for was signed, has failed or is still to do.  The
  record is the report of a state in which this held, and neither `paths` nor `results` change after.  `OnceInv` adds that
  a source is signed once and does not fail then, and that a candidate that is a source is neither signed nor failed, so that the
  four ways to a row exclude each other; `HonestInv` adds that what asks for review was compared in both cropped
  views, and that the record announced is the report of the state the status is taken from.  That "complete" is earned
  is then read off that state, and stays so because nothing `AllDone` speaks of changes after the report (`Frozen`, `FrozenDone`),
  an error after the record was written included.
* `AnalysisPass_proof!ProfilesAreRight`, `NothingIsAnalyzedTwice`.  The invariant, `CacheInvariant`, says of
  a scan inside `make` that, while the identity it began with is the one of the video, all it has read of it is of the
  content asked for (`TakenInv`); the second `check_unchanged` is what makes the record follow from it.  Rows are of
  whole profiles (`RowInv`), and files are written under new names, so that a row that is no miss for one scan does not
  become one under it; a miss stays a miss for who has the lock (`MissInv`).
* `AnalysisPass_proof!StageIsTold`, `LastWordStays`.  `PassInv` says that whoever writes has the stream lock, that the
  line a heartbeat is writing is the current stage (it took both under the lock), that what is still to be announced leads to
  the stage `make` has reached or is the last word, and that the block is left only after the heartbeat has ended.

Every invariant and every action property of a passing run is stated by a theorem; so are the two refinements.
Only model-checked: liveness (`EveryRunEnds`, `ResumingCompletes`, `ProbesEnd`,
`SearchEnds`, `LocksAreReleased`, `EveryAnalysisEnds`), which needs fairness and ENABLED and is out of the prover's reach; of `ProbesEnd` and
`SearchEnds` the theorems above say what does not.
Induction over data is, too: `Similar` is a fold over the words of a segment, so its sum is taken as it is, and no theorem
depends on what it computes.

## 5. What is not modelled, and why

* `printers.c` columns, `ArgumentParsing.c`, `slog_compat.c`, `utils.c`: parsing and
  formatting in one thread, whose result is a value here.
* Progress lines of the C program and the counters behind them.
* Machine crashes of the C program: the code does not call `fsync`, and the documentation does not claim it.
* In the tools: the migration of schema 1 (one transaction at start-up), the estimates of `detect_bars.py`,
  intervals and assessments of profiles, positions and clocks of a record, the rendered report, the command lines.
* The headers of FFmpeg that are copied into `src/src/includes` (`avcodec.h` twice, `config.h`, `avfilter.h`,
  `get_bits.h`, `internal.h` twice and others).  They are some 20,000 of the 22,700 lines under `src/src`, third-party declarations with
  no behaviour of this program, and nothing of them can be modelled but the few constants that
  the C files use.  The program's own C code is about 2,600 lines.
* Benchmarks, tests and build files.

## 6. Disagreements met while modelling

* `fused`.  Comments of the program say that a pair is marked done only once its output is on its way out, and that
  the repair at the start keeps lines from fusing.  The repair comes too late for two workers of one process: one tears its
  line, the other appends to the half before the first has reached `exit(1)`, and the two may make the line of a third pair of
  the list.  Every later run skips that pair.  It takes a write that fails half way, one that succeeds right after, and
  names of which one is another one with something before it.  So `SkipsAreCurrent`, `FinishedIsComplete`,
  `ResumingCompletes` and `ImplementsBatch` except pairs that are misnamed, and no others.
* `replaced`.  The digest of an input is taken once, before the comparison, and the file
  is read again for each pair.  A file rewritten in between and restored later, which is what
  the ledger's message advises, leaves rows of the other content that a resume accepts.
* `walk_ratio`.  `--help` of `-b` says that three bad frames in a row stop a walk, so that
  the ratio of a reported candidate never falls below about 0.17.  Dissimilar frames of low
  confidence do not count as bad, stop nothing, and are in the total.

Observed, and not listed as a finding: `src/README.md:781-782` says that "the matched count and per-file boundaries are
unchanged by orientation".  Of two candidates equal in length and distance the first one found wins, and which is first
depends on which file is; with ties the boundaries may differ.

## 7. What could follow

1. An abstract cache that only ever answers what a fresh decode would, which `SignatureStore` and `ProfileCache`
   both implement.
2. Proofs: what several votes at different ratios and offsets leave to be chosen (`SharedSegmentsAreFound` is about one alignment).
3. Lists and merging (`utils.c`), agreement of the bar detector, intervals: pure operators against reference
   definitions.
