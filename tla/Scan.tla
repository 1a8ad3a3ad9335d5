-------------------------------- MODULE Scan --------------------------------
(***************************************************************************)
(* One scan: tools/find_reuse.py (scan, compare, compare_crop_fallback,    *)
(* write_record, main).                                                    *)
(*                                                                         *)
(* The inventory is taken, every source and then every candidate is given  *)
(* a signature, each is analysed, the C program is run once for each       *)
(* source, and full-frame misses are retried with cropped views.  Each of  *)
(* these may fail for one video, for one invocation or for good, and the   *)
(* record at the end says of every path what may be said of it.            *)
(*                                                                         *)
(* Abstracted: a signature is named by the content it was made from, for   *)
(* all of a scan have the same settings (copies share a signature);        *)
(* coverage_values is monotone in the matched frames, so a length stands   *)
(* for its coverage, and 0 for a pair without a row; what is made in       *)
(* sorted order is made in any order.                                      *)
(***************************************************************************)
EXTENDS Naturals, FiniteSets

CONSTANTS
  Path,        \* paths a user may ask for
  File,        \* what Path.resolve leads to
  Content,     \* what a video holds, and the name of its signature
  Requests,    \* inventories: sources, candidates, their files and contents
  MaxFrames,   \* bound: the longest match
  Threshold    \* the length that reaches the threshold

Role  == {"source", "candidate"}
Frame == 0..MaxFrames
Pair  == Content \X Content
\* The views of source and candidate a comparison was made with.
View  == {"full", "crop5/full", "full/crop5"}
Cross == View \ {"full"}

Request == [sources : SUBSET Path, candidates : SUBSET Path,
            file : [Path -> File], content : [File -> Content]]

ASSUME RequestsAssumption  == Requests \subseteq Request
ASSUME FramesAssumption    == MaxFrames \in Nat
ASSUME ThresholdAssumption == Threshold \in 1..MaxFrames

VARIABLES
  request,    \* the inventory collect_videos would return
  settings,   \* analyze, crop_fallback, and whether --json was given
  phase,      \* where scan or main is
  inventory,  \* what has been collected: main's sources and candidates
  todo,       \* the paths of this pass that have no signature yet
  paths,      \* source_paths and shown: the paths of each signature
  failures,   \* videos without a signature, by role
  unprofiled, \* analysis_failures
  toprofile,  \* signatures still to be analysed
  tocompare,  \* sources still to be compared, or retried
  results,    \* what was measured for a pair, and whether by a cropped view
  completed,  \* sources whose requested comparisons completed
  error,      \* the stage that ended the comparison
  fixed,      \* crop_fallback of each entry
  retry,      \* the source being retried, its misses, and what was measured
  record,     \* the file --json names
  exit,       \* the status of the process
  compared,   \* history: the pairs a completed invocation compared, by view
  measured    \* history: what it measured

inputs   == <<request, settings>>
signing  == <<inventory, todo, paths, failures>>
analysis == <<unprofiled, toprofile>>
search   == <<tocompare, results, completed, error, fixed, retry>>
history  == <<compared, measured>>
vars     == <<inputs, phase, signing, analysis, search, record, exit, history>>

NoRetry == [source |-> 0, misses |-> {}, done |-> {}, found |-> [v \in Cross |-> [c \in Content |-> 0]]]
Nothing == [frames |-> 0, review |-> FALSE]

\* The file an earlier scan left, and a file that is not a whole document.
Earlier == [by |-> "earlier", rows |-> {}, hits |-> {}, exit |-> "complete"]
Partial == [by |-> "nobody", rows |-> {}, hits |-> {}, exit |-> "complete"]

Keys(role) == {k \in Content : paths[role][k] # {}}
Enter(there) == phase' = there

-----------------------------------------------------------------------------
(* The inventory *)

\* collect_videos, twice.
Collect(role) ==
  /\ phase = IF role = "source" THEN "collecting" ELSE "collecting candidates"
  /\ inventory' = [inventory EXCEPT ![role] =
                     IF role = "source" THEN request.sources ELSE request.candidates]
  /\ IF role = "source" THEN Enter("collecting candidates") /\ UNCHANGED todo
                        ELSE Enter("sources") /\ todo' = inventory["source"]
  /\ UNCHANGED <<inputs, paths, failures, analysis, search, record, exit, history>>

\* A candidate that is one of the sources.
Skipped == {p \in inventory["candidate"] :
              \E s \in inventory["source"] : request.file[s] = request.file[p]}

-----------------------------------------------------------------------------
(* Signatures *)

\* make_signature: made or found, or a failure that is recorded.
Sign(role) ==
  /\ phase = IF role = "source" THEN "sources" ELSE "candidates"
  /\ \E p \in todo :
       /\ todo' = todo \ {p}
       /\ \/ LET key == request.content[request.file[p]]
             IN paths' = [paths EXCEPT ![role][key] = @ \cup {p}] /\ UNCHANGED failures
          \/ failures' = [failures EXCEPT ![role] = @ \cup {p}] /\ UNCHANGED paths
  /\ UNCHANGED <<inputs, phase, inventory, analysis, search, record, exit, history>>

\* Without a usable source no candidate is looked at.
SourcesSigned ==
  /\ phase = "sources"
  /\ inventory["source"] # {}
  /\ todo = {}
  /\ Enter("candidates")
  /\ todo' = IF Keys("source") # {} THEN inventory["candidate"] \ Skipped ELSE {}
  /\ UNCHANGED <<inputs, inventory, paths, failures, analysis, search, record, exit, history>>

CandidatesSigned ==
  /\ phase = "candidates"
  /\ todo = {}
  /\ Enter("analysing")
  /\ toprofile' = IF settings.analyze
                    THEN {e \in Role \X Content : e[2] \in Keys(e[1])} ELSE {}
  /\ UNCHANGED <<inputs, signing, unprofiled, search, record, exit, history>>

\* Pass 1: video_profile.make.  Its failure fails no comparison.
Profile ==
  /\ phase = "analysing"
  /\ \E e \in toprofile :
       /\ toprofile' = toprofile \ {e}
       /\ \/ UNCHANGED unprofiled
          \/ unprofiled' = unprofiled \cup paths[e[1]][e[2]]
  /\ UNCHANGED <<inputs, phase, signing, search, record, exit, history>>

-----------------------------------------------------------------------------
(* The comparison *)

Prepared ==
  /\ phase = "analysing"
  /\ toprofile = {}
  /\ \/ /\ Keys("source") # {} /\ Keys("candidate") # {}
        /\ Enter("comparing")
        /\ tocompare' = Keys("source")
        /\ UNCHANGED error
     \/ /\ Keys("source") = {} \/ Keys("candidate") = {}
        /\ Enter("reporting")
        /\ error' = "prepare"
        /\ UNCHANGED tocompare
  /\ UNCHANGED <<inputs, signing, analysis, results, completed, fixed, retry, record, exit, history>>

\* What a completed invocation says of source s and candidates ks.
Heard(view, s, ks, found) ==
  /\ compared' = [compared EXCEPT ![view] = @ \cup ({s} \X ks)]
  /\ measured' = [measured EXCEPT ![view] =
                    [x \in Pair |-> IF x[1] = s /\ x[2] \in ks THEN found[x[2]] ELSE @[x]]]

\* compare: one invocation for each source; ComparisonError ends them all.
Compare ==
  /\ phase = "comparing"
  /\ \E s \in tocompare :
       \/ /\ \E found \in [Keys("candidate") -> Frame] :
               /\ Heard("full", s, Keys("candidate"), found)
               /\ results' = [x \in Pair |->
                    IF x[1] = s /\ x[2] \in Keys("candidate")
                      THEN [frames |-> found[x[2]], review |-> FALSE] ELSE results[x]]
          /\ tocompare' = tocompare \ {s}
          /\ completed' = completed \cup {s}
          /\ UNCHANGED <<phase, error>>
       \/ /\ Enter("reporting")
          /\ error' = "compare"
          /\ UNCHANGED <<tocompare, results, completed, history>>
  /\ UNCHANGED <<inputs, signing, analysis, fixed, retry, record, exit>>

Compared ==
  /\ phase = "comparing"
  /\ tocompare = {}
  /\ \/ /\ settings.fallback
        /\ Enter("retrying")
        /\ tocompare' = Keys("source")
        /\ completed' = {}
     \/ ~settings.fallback /\ Enter("reporting") /\ UNCHANGED <<tocompare, completed>>
  /\ UNCHANGED <<inputs, signing, analysis, results, error, fixed, retry, record, exit, history>>

-----------------------------------------------------------------------------
(* The crop fallback *)

\* Only completed misses are retried.  Mutated: every pair is.
Misses_All(s) == Keys("candidate")
Misses(s) == {c \in Keys("candidate") : results[<<s, c>>].frames < Threshold}

Retry ==
  /\ phase = "retrying"
  /\ \E s \in tocompare :
       \/ /\ Misses(s) = {}
          /\ tocompare' = tocompare \ {s}
          /\ completed' = completed \cup {s}
          /\ UNCHANGED <<phase, retry>>
       \/ /\ Misses(s) # {}
          /\ retry' = [NoRetry EXCEPT !.source = s, !.misses = Misses(s)]
          /\ Enter("fixing")
          /\ UNCHANGED <<tocompare, completed>>
  /\ UNCHANGED <<inputs, signing, analysis, results, error, fixed, record, exit, history>>

\* What ends the fallback: "completed earlier sources and all baseline hits
\* remain available".
GiveUp ==
  /\ Enter("reporting")
  /\ error' = "crop_fallback"
  /\ UNCHANGED <<inputs, signing, analysis, tocompare, results, completed, retry, record, exit, history>>

\* fixed: a view is made once for each entry.  It fails, too, if the video no
\* longer has the content or the frames of the full view.
Unfixed == {e \in ({"source"} \X {retry.source}) \cup ({"candidate"} \X retry.misses) :
              fixed[e[1]][e[2]] # "ready"}
Fix ==
  /\ phase = "fixing"
  /\ \E e \in Unfixed :
       \/ /\ fixed' = [fixed EXCEPT ![e[1]][e[2]] = "ready"]
          /\ UNCHANGED <<inputs, phase, signing, analysis, tocompare, results, completed,
                         error, retry, record, exit, history>>
       \/ /\ fixed' = [fixed EXCEPT ![e[1]][e[2]] = "failed"]
          /\ GiveUp

\* Source cropped first, then the candidates.
NextView == IF retry.done = {} THEN "crop5/full" ELSE "full/crop5"
CompareCropped ==
  /\ phase = "fixing"
  /\ Unfixed = {}
  /\ retry.done # Cross
  /\ \/ /\ \E found \in [retry.misses -> Frame] :
             /\ Heard(NextView, retry.source, retry.misses, found)
             /\ retry' = [retry EXCEPT !.done = @ \cup {NextView},
                            !.found[NextView] = [c \in Content |->
                               IF c \in retry.misses THEN found[c] ELSE 0]]
        /\ UNCHANGED <<inputs, phase, signing, analysis, tocompare, results, completed,
                       error, fixed, record, exit>>
     \/ GiveUp /\ UNCHANGED fixed

\* The longer of the two measurements, if it is longer than the full one.
Selected(c) == IF retry.found["crop5/full"][c] >= retry.found["full/crop5"][c]
                 THEN retry.found["crop5/full"][c] ELSE retry.found["full/crop5"][c]
Retried ==
  /\ phase = "fixing"
  /\ retry.done = Cross
  /\ results' = [x \in Pair |->
       IF x[1] = retry.source /\ x[2] \in retry.misses /\ Selected(x[2]) > results[x].frames
         THEN [frames |-> Selected(x[2]), review |-> TRUE] ELSE results[x]]
  /\ tocompare' = tocompare \ {retry.source}
  /\ completed' = completed \cup {retry.source}
  /\ retry' = NoRetry
  /\ Enter("retrying")
  /\ UNCHANGED <<inputs, signing, analysis, error, fixed, record, exit, history>>

AllRetried ==
  /\ phase = "retrying"
  /\ tocompare = {}
  /\ Enter("reporting")
  /\ UNCHANGED <<inputs, signing, analysis, search, record, exit, history>>

-----------------------------------------------------------------------------
(* What is said of it *)

comparison_complete == error = "none" /\ failures["source"] = {}

Hits(review) == {x \in Pair : results[x].frames >= Threshold /\ results[x].review = review}
matched  == {x[2] : x \in Hits(FALSE)}
reviewed == {x[2] : x \in Hits(TRUE)}

\* The status of a candidate that has a signature.
\* Mutated: unfinished work does not matter.
Status_Optimistic(k) ==
  CASE k \in matched            -> "matched"
    [] k \in reviewed \ matched -> "needs_review"
    [] OTHER                    -> "checked"
Status(k) ==
  CASE k \in matched            -> "matched"
    [] k \in reviewed \ matched -> "needs_review"
    [] k \notin matched \cup reviewed /\ comparison_complete  -> "checked"
    [] k \notin matched \cup reviewed /\ ~comparison_complete -> "not_compared"

Row(role, p, status, why) == [role |-> role, path |-> p, status |-> status, why |-> why]

ProcessedSources == UNION {{Row("source", p, "processed", "signed") : p \in paths["source"][k]} : k \in Content}
FailedSources    == {Row("source", p, "failed", "failure") : p \in failures["source"]}
SourceRows       == ProcessedSources \cup FailedSources

Represented(rows) == {r.path : r \in rows}
SignedRows  == UNION {{Row("candidate", p, Status(k), "signed") : p \in paths["candidate"][k]} : k \in Content}
FailedRows  == {Row("candidate", p, "failed", "failure") : p \in failures["candidate"]}
SkippedRows == {Row("candidate", p, "skipped", "source") : p \in Skipped}

\* Mutated: a candidate without a signature has no row.
CandidateRows_Signed == SignedRows \cup FailedRows \cup SkippedRows
CandidateRows ==
  LET rows == SignedRows \cup FailedRows \cup SkippedRows
  IN  rows \cup {Row("candidate", p, "not_compared", "no usable source") :
                   p \in inventory["candidate"] \ Represented(rows)}

\* summarise, and what an error or a failed analysis makes of it.
\* Mutated: a failure of the crop fallback leaves what the rows say.
ExitStatus_Rows ==
  IF error \in {"prepare", "compare"} THEN "unusable"
  ELSE IF unprofiled # {} \/ \E r \in SourceRows \cup CandidateRows : r.status = "failed"
    THEN "incomplete" ELSE "complete"
ExitStatus ==
  IF error # "none" THEN "unusable"
  ELSE IF \/ unprofiled # {}
          \/ \E r \in SourceRows \cup CandidateRows : r.status \in {"failed", "not_compared"}
    THEN "incomplete" ELSE "complete"

\* build_record, of scan and of main's last resort.
Report == [by   |-> "scan",
           rows |-> SourceRows \cup CandidateRows,
           hits |-> UNION {{[source |-> x[1], candidate |-> x[2], review |-> review] :
                              x \in Hits(review)} : review \in BOOLEAN},
           exit |-> ExitStatus]
LastResort == [by   |-> "main",
               rows |-> UNION {{Row(role, p, "not_compared", "scan failed") :
                                  p \in inventory[role]} : role \in Role},
               hits |-> {},
               exit |-> "unusable"]

-----------------------------------------------------------------------------
(* The record and the end *)

End(status) == Enter("ended") /\ exit' = status

\* write_record: a file of another name, written and synced, and then renamed.
\* Mutated: the record is written in its place.
Save_InPlace ==
  /\ phase \in {"reporting", "failing"} /\ settings.json
  /\ \/ /\ record' = Partial
        /\ Enter(IF phase = "reporting" THEN "replacing" ELSE "replacing anyway")
        /\ UNCHANGED exit
     \/ End("unusable") /\ UNCHANGED record
  /\ UNCHANGED <<inputs, signing, analysis, search, history>>
Save ==
  /\ phase \in {"reporting", "failing"} /\ settings.json
  /\ \/ Enter(IF phase = "reporting" THEN "replacing" ELSE "replacing anyway") /\ UNCHANGED exit
     \/ End("unusable")
  /\ UNCHANGED <<inputs, signing, analysis, search, record, history>>

Replace ==
  /\ \/ /\ phase = "replacing"
        /\ record' = Report
        /\ Enter("announcing")
        /\ UNCHANGED exit
     \/ /\ phase = "replacing anyway"
        /\ record' = LastResort
        /\ End("unusable")
     \/ /\ phase \in {"replacing", "replacing anyway"}
        /\ End("unusable")
        /\ UNCHANGED record
  /\ UNCHANGED <<inputs, signing, analysis, search, history>>

\* The last lines, and the status of the process.
Return ==
  /\ \/ phase = "announcing" /\ End(ExitStatus)
     \/ phase = "reporting" /\ ~settings.json /\ End(ExitStatus)
     \/ phase = "failing" /\ ~settings.json /\ End("unusable")
  /\ UNCHANGED <<inputs, signing, analysis, search, record, history>>

\* A missing program, a path or a database that cannot be used, a terminal
\* that is gone: what main catches, wherever scan is.
Fatal ==
  /\ phase \notin {"failing", "replacing anyway", "ended"}
  /\ Enter("failing")
  /\ UNCHANGED <<inputs, signing, analysis, search, record, exit, history>>

\* What main does not catch: an interrupt, a kill, an error of main's own.
Killed ==
  /\ phase # "ended"
  /\ End("killed")
  /\ UNCHANGED <<inputs, signing, analysis, search, record, history>>

-----------------------------------------------------------------------------

Init ==
  /\ request \in Requests
  /\ settings \in [analyze : BOOLEAN, fallback : BOOLEAN, json : BOOLEAN]
  /\ phase = "collecting"
  /\ inventory = [role \in Role |-> {}]
  /\ todo = {}
  /\ paths = [role \in Role |-> [k \in Content |-> {}]]
  /\ failures = [role \in Role |-> {}]
  /\ unprofiled = {} /\ toprofile = {}
  /\ tocompare = {} /\ completed = {}
  /\ results = [x \in Pair |-> Nothing]
  /\ error = "none"
  /\ fixed = [role \in Role |-> [k \in Content |-> "none"]]
  /\ retry = NoRetry
  /\ record = Earlier
  /\ exit = "running"
  /\ compared = [v \in View |-> {}]
  /\ measured = [v \in View |-> [x \in Pair |-> 0]]

Next ==
  \/ \E role \in Role : Collect(role) \/ Sign(role)
  \/ SourcesSigned \/ CandidatesSigned \/ Profile \/ Prepared
  \/ Compare \/ Compared \/ Retry \/ Fix \/ CompareCropped \/ Retried \/ AllRetried
  \/ Save \/ Replace \/ Return \/ Fatal \/ Killed

Spec == Init /\ [][Next]_vars

-----------------------------------------------------------------------------
(* What the runs check *)

Phase == {"collecting", "collecting candidates", "sources", "candidates", "analysing",
          "comparing", "retrying", "fixing", "reporting", "replacing", "announcing",
          "failing", "replacing anyway", "ended"}
Rows == [role : Role, path : Path,
         status : {"processed", "failed", "matched", "needs_review", "checked", "not_compared", "skipped"},
         why : {"signed", "failure", "source", "no usable source", "scan failed"}]
Record == [by : {"earlier", "scan", "main"}, rows : SUBSET Rows,
           hits : SUBSET [source : Content, candidate : Content, review : BOOLEAN],
           exit : {"complete", "incomplete", "unusable"}]

\* The type invariant.  Whatever happens while it is replaced, the file --json
\* names is a whole record: "Replacement is atomic".
TypeOK ==
  /\ request \in Requests
  /\ settings \in [analyze : BOOLEAN, fallback : BOOLEAN, json : BOOLEAN]
  /\ phase \in Phase
  /\ inventory \in [Role -> SUBSET Path]
  /\ todo \in SUBSET Path
  /\ paths \in [Role -> [Content -> SUBSET Path]]
  /\ failures \in [Role -> SUBSET Path]
  /\ unprofiled \in SUBSET Path
  /\ toprofile \in SUBSET (Role \X Content)
  /\ tocompare \in SUBSET Content /\ completed \in SUBSET Content
  /\ results \in [Pair -> [frames : Frame, review : BOOLEAN]]
  /\ error \in {"none", "prepare", "compare", "crop_fallback"}
  /\ fixed \in [Role -> [Content -> {"none", "ready", "failed"}]]
  /\ retry \in [source : Content \cup {0}, misses : SUBSET Content, done : SUBSET Cross,
                found : [Cross -> [Content -> Frame]]]
  /\ record \in Record
  /\ exit \in {"running", "complete", "incomplete", "unusable", "killed"}
  /\ compared \in [View -> SUBSET Pair]
  /\ measured \in [View -> [Pair -> Frame]]

\* The signature a path was given in a role.
SignedAs(role, p, k) == p \in paths[role][k]

\* The pair was compared as requested, and came to nothing.
Ruled(s, c) ==
  \A v \in IF settings.fallback THEN View ELSE {"full"} :
    <<s, c>> \in compared[v] /\ measured[v][<<s, c>>] < Threshold

\* "Compared against every requested source; no hit reached the threshold":
\* unfinished work is never called checked.
CheckedIsEarned ==
  \A r \in record.rows : r.status = "checked" =>
    \A s \in request.sources : \E k, c \in Content :
      SignedAs("source", s, k) /\ SignedAs("candidate", r.path, c) /\ Ruled(k, c)

\* "Preserve earlier completed hits": a full-frame hit of a completed
\* comparison is in the report as itself, and its candidate as matched,
\* whatever failed afterwards; and only crop evidence asks for review.
HitsAreKept ==
  record.by = "scan" =>
    /\ \A x \in Pair : x \in compared["full"] /\ measured["full"][x] >= Threshold =>
         /\ [source |-> x[1], candidate |-> x[2], review |-> FALSE] \in record.hits
         /\ \A r \in record.rows :
              r.role = "candidate" /\ SignedAs("candidate", r.path, x[2]) => r.status = "matched"
    /\ \A h \in record.hits :
         \E v \in IF h.review THEN Cross ELSE {"full"} :
           measured[v][<<h.source, h.candidate>>] >= Threshold

\* "Every requested source and candidate stays in the JSON", once.
EveryPathOnce ==
  record.by # "earlier" =>
    \A role \in Role : \A p \in inventory[role] :
      Cardinality({r \in record.rows : r.role = role /\ r.path = p}) = 1

\* All that was requested: every path signed, every video profiled, and every pair
\* compared in full and, where it came to nothing, in the cropped views.
AllDone ==
  /\ failures = [role \in Role |-> {}] /\ unprofiled = {}
  /\ \A p \in request.candidates \ Skipped, s \in request.sources :
       \E k, c \in Content :
         /\ SignedAs("source", s, k) /\ SignedAs("candidate", p, c)
         /\ <<k, c>> \in compared["full"]
         /\ settings.fallback /\ measured["full"][<<k, c>>] < Threshold =>
              \A v \in Cross : <<k, c>> \in compared[v]

\* "Complete", by the status 0 or by a record of this scan, however the process
\* ended after writing it, has been earned; and a status that scan returns, not that
\* of a failure, is the one its record has.  (The status of a failure may come with
\* a better record, and earned: when the terminal is gone after the record was
\* replaced, and the last resort cannot be written in its place.  What ends the
\* interpreter instead, "killed", may leave any record of this or an earlier scan.)
ExitIsHonest ==
  /\ exit = "complete" \/ (record.by = "scan" /\ record.exit = "complete") => AllDone
  /\ settings.json /\ exit \in {"complete", "incomplete"} =>
       record.by = "scan" /\ record.exit = exit
=============================================================================
