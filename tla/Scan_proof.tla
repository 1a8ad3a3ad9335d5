----------------------------- MODULE Scan_proof -----------------------------
(***************************************************************************)
(* Proofs about Scan: for inventories of any size and videos that fail in  *)
(* any order, unfinished work is never called checked, a completed         *)
(* full-frame hit is never lost, every path has one row, and the status    *)
(* is that of the record.                                                  *)
(***************************************************************************)
EXTENDS Scan, FiniteSetTheorems, TLAPS

\* The stages of a scan in which it still compares, and after which it does not.
Comparing == {"comparing", "retrying", "fixing"}
Telling   == {"reporting", "replacing", "announcing"}
Over      == {"announcing", "failing", "replacing anyway", "ended"}

Types ==
  /\ request \in Requests
  /\ settings \in [analyze : BOOLEAN, fallback : BOOLEAN, json : BOOLEAN]
  /\ inventory \in [Role -> SUBSET Path]
  /\ todo \in SUBSET Path
  /\ paths \in [Role -> [Content -> SUBSET Path]]
  /\ failures \in [Role -> SUBSET Path]
  /\ tocompare \in SUBSET Content
  /\ results \in [Pair -> [frames : Frame, review : BOOLEAN]]
  /\ compared \in [View -> SUBSET Pair]
  /\ measured \in [View -> [Pair -> Frame]]
  /\ retry.misses \in SUBSET Content /\ retry.done \in SUBSET Cross
  /\ retry.found \in [Cross -> [Content -> Frame]]

\* Every source asked for is signed, failed, or still to be signed.
Accounted(p) == p \in failures["source"] \/ \E k \in Content : SignedAs("source", p, k)
SourcesAccounted ==
  /\ phase = "collecting candidates" => inventory["source"] = request.sources
  /\ phase = "sources" => /\ inventory["source"] = request.sources
                          /\ \A p \in request.sources : p \in todo \/ Accounted(p)
  /\ phase \in {"candidates", "analysing"} \cup Comparing \cup Telling =>
       \A p \in request.sources : Accounted(p)

\* A candidate is signed once, as what it holds, and neither failed nor skipped.
CandidatesOnce ==
  /\ \A k \in Content : \A p \in paths["candidate"][k] :
       k = request.content[request.file[p]] /\ p \notin failures["candidate"] /\ p \notin Skipped
  /\ phase \in {"collecting", "collecting candidates", "sources"} =>
       failures["candidate"] = {} /\ \A k \in Content : paths["candidate"][k] = {}
  /\ phase = "candidates" =>
       \A p \in todo : /\ p \notin failures["candidate"] /\ p \notin Skipped
                       /\ \A k \in Content : ~SignedAs("candidate", p, k)

\* What the retries of a pair have to do before it is ruled out.
Cropped(x) == \A v \in Cross : x \in compared[v] /\ measured[v][x] <= results[x].frames
Settled(x) == results[x].frames >= Threshold \/ Cropped(x)

\* What has been compared by now.
Progress ==
  /\ phase = "comparing" =>
       \A k \in Keys("source") \ tocompare : \A c \in Keys("candidate") : <<k, c>> \in compared["full"]
  /\ phase \in {"retrying", "fixing"} =>
       /\ settings.fallback
       /\ \A k \in Keys("source"), c \in Keys("candidate") : <<k, c>> \in compared["full"]
       /\ \A k \in Keys("source") \ tocompare : \A c \in Keys("candidate") : Settled(<<k, c>>)
  /\ phase = "fixing" =>
       /\ retry.source \in tocompare
       /\ retry.misses = Misses(retry.source)
       /\ \A v \in retry.done : \A c \in retry.misses :
            <<retry.source, c>> \in compared[v] /\ measured[v][<<retry.source, c>>] = retry.found[v][c]
  /\ phase \in Telling /\ error = "none" =>
       \A k \in Keys("source"), c \in Keys("candidate") :
         <<k, c>> \in compared["full"] /\ (settings.fallback => Settled(<<k, c>>))

\* What a result says of what was measured.
Faithful(x) ==
  /\ x \in compared["full"] /\ measured["full"][x] >= Threshold => ~results[x].review
  /\ ~results[x].review => results[x].frames = measured["full"][x]
  /\ measured["full"][x] <= results[x].frames
  /\ results[x].review => \E v \in Cross : measured[v][x] = results[x].frames

\* Cropped views are only measured of sources that are being retried.
NotYetCropped ==
  /\ phase \notin {"retrying", "fixing"} \cup Telling \cup Over => \A x \in Pair : ~results[x].review
  /\ phase \in {"retrying", "fixing"} => \A x \in Pair : x[1] \in tocompare => ~results[x].review

\* The record of a scan is of the state in which it ended.
RecordStands ==
  /\ phase \in Over
     \/ (record.by # "scan" /\ \A r \in record.rows : r.status # "checked")
  /\ CheckedIsEarned
  /\ HitsAreKept

ScanInv ==
  /\ Types /\ SourcesAccounted /\ CandidatesOnce /\ Progress
  /\ \A x \in Pair : Faithful(x)
  /\ NotYetCropped /\ RecordStands

-----------------------------------------------------------------------------

LEMMA ScanInit == Init => ScanInv
<1> SUFFICES ASSUME Init PROVE ScanInv
  OBVIOUS
<1>1. Types
  BY FramesAssumption DEF Init, Types, Role, Pair, View, Cross, Frame, Nothing, NoRetry
<1>2. SourcesAccounted
  BY DEF Init, SourcesAccounted, Comparing, Telling
<1>3. CandidatesOnce
  BY DEF Init, CandidatesOnce, Role
<1>4. Progress
  BY DEF Init, Progress, Telling
<1>5. ASSUME NEW x \in Pair PROVE Faithful(x)
  BY <1>5, FramesAssumption DEF Init, Faithful, Nothing, View
<1>6. NotYetCropped
  BY DEF Init, NotYetCropped, Telling, Over, Nothing
<1>7. RecordStands
  BY DEF Init, RecordStands, CheckedIsEarned, HitsAreKept, Earlier
<1> QED BY <1>1, <1>2, <1>3, <1>4, <1>5, <1>6, <1>7 DEF ScanInv

\* A record that stands is neither touched nor contradicted by what follows.
LEMMA RecordKept ==
  ASSUME ScanInv, record' = record,
         phase \in Over => phase' \in Over /\ UNCHANGED <<request, settings, paths, compared, measured>>
  PROVE  RecordStands'
<1>1. CASE phase \in Over
  <2>1. CheckedIsEarned'
    BY <1>1 DEF ScanInv, RecordStands, CheckedIsEarned, SignedAs, Ruled
  <2>2. HitsAreKept'
    BY <1>1 DEF ScanInv, RecordStands, HitsAreKept, SignedAs
  <2> QED BY <1>1, <2>1, <2>2 DEF RecordStands
<1>2. CASE phase \notin Over
  <2>1. record.by # "scan" /\ \A r \in record.rows : r.status # "checked"
    BY <1>2 DEF ScanInv, RecordStands
  <2>2. CheckedIsEarned' /\ HitsAreKept'
    BY <2>1 DEF CheckedIsEarned, HitsAreKept
  <2> QED BY <2>1, <2>2 DEF RecordStands
<1> QED BY <1>1, <1>2

LEMMA FaithfulKept ==
  ASSUME ScanInv, UNCHANGED <<results, compared, measured>>
  PROVE  \A x \in Pair : Faithful(x)'
BY DEF ScanInv, Faithful

-----------------------------------------------------------------------------
(* The inventory and the signatures *)

LEMMA CollectStep ==
  ASSUME ScanInv, NEW role \in Role, Collect(role) PROVE ScanInv'
<1>1. \/ /\ role = "source" /\ phase = "collecting" /\ phase' = "collecting candidates"
         /\ inventory' = [inventory EXCEPT !["source"] = request.sources] /\ todo' = todo
      \/ /\ role = "candidate" /\ phase = "collecting candidates" /\ phase' = "sources"
         /\ inventory' = [inventory EXCEPT !["candidate"] = request.candidates]
         /\ todo' = inventory["source"]
  BY DEF Collect, Role, Enter
<1>2. UNCHANGED <<inputs, paths, failures, analysis, search, record, exit, history>>
  BY DEF Collect
<1>3. /\ UNCHANGED <<request, settings, paths, failures, record, compared, measured>>
      /\ UNCHANGED <<tocompare, results, error, retry>>
  BY <1>2 DEF inputs, search, history
<1>4. Types'
  <2>1. request.sources \in SUBSET Path /\ request.candidates \in SUBSET Path
    BY RequestsAssumption DEF ScanInv, Types, Request
  <2>2. inventory' \in [Role -> SUBSET Path] /\ todo' \in SUBSET Path
    BY <1>1, <2>1 DEF ScanInv, Types, Role
  <2> QED BY <1>3, <2>2 DEF ScanInv, Types
<1>5. SourcesAccounted'
  BY <1>1, <1>3 DEF ScanInv, Types, SourcesAccounted, Comparing, Telling, Role
<1>6. CandidatesOnce'
  BY <1>1, <1>3 DEF ScanInv, CandidatesOnce
<1>7. Progress'
  BY <1>1 DEF Progress, Telling
<1>8. NotYetCropped'
  BY <1>1, <1>3 DEF ScanInv, NotYetCropped, Telling, Over
<1>9. RecordStands'
  BY <1>1, <1>3, RecordKept DEF Over
<1> QED BY <1>3, <1>4, <1>5, <1>6, <1>7, <1>8, <1>9, FaithfulKept DEF ScanInv

LEMMA SignStep ==
  ASSUME ScanInv, NEW role \in Role, Sign(role) PROVE ScanInv'
<1>1. PICK p \in todo :
        /\ todo' = todo \ {p}
        /\ \/ LET key == request.content[request.file[p]]
              IN  paths' = [paths EXCEPT ![role][key] = @ \cup {p}] /\ UNCHANGED failures
           \/ failures' = [failures EXCEPT ![role] = @ \cup {p}] /\ UNCHANGED paths
  BY DEF Sign
<1> DEFINE key == request.content[request.file[p]]
<1>2. /\ \/ role = "source" /\ phase = "sources"
         \/ role = "candidate" /\ phase = "candidates"
      /\ phase' = phase
      /\ UNCHANGED <<request, settings, inventory, tocompare, results, error, retry, record,
                     compared, measured>>
  BY DEF Sign, Role, inputs, search, history
<1>3. p \in Path /\ key \in Content
  BY <1>1, RequestsAssumption DEF ScanInv, Types, Request
<1>4. /\ paths \in [Role -> [Content -> SUBSET Path]] /\ failures \in [Role -> SUBSET Path]
      /\ todo \in SUBSET Path
  BY DEF ScanInv, Types
<1>5. \/ /\ paths' = [paths EXCEPT ![role][key] = @ \cup {p}] /\ failures' = failures
      \/ /\ failures' = [failures EXCEPT ![role] = @ \cup {p}] /\ paths' = paths
  BY <1>1
<1>6. Types'
  <2>1. paths' \in [Role -> [Content -> SUBSET Path]]
    BY <1>3, <1>4, <1>5
  <2>2. failures' \in [Role -> SUBSET Path]
    BY <1>3, <1>4, <1>5
  <2> QED BY <1>1, <1>2, <2>1, <2>2 DEF ScanInv, Types
<1>7. Skipped' = Skipped
  BY <1>2 DEF Skipped
<1>8. ASSUME role = "source" PROVE SourcesAccounted' /\ CandidatesOnce'
  <2>1. paths'["candidate"] = paths["candidate"] /\ failures'["candidate"] = failures["candidate"]
    BY <1>4, <1>5, <1>8 DEF Role
  <2>2. \A q : Accounted(q) => Accounted(q)'
    BY <1>3, <1>4, <1>5, <1>8 DEF Accounted, SignedAs, Role
  <2>3. Accounted(p)'
    BY <1>3, <1>4, <1>5, <1>8 DEF Accounted, SignedAs, Role
  <2>4. SourcesAccounted'
    BY <1>1, <1>2, <1>8, <2>2, <2>3 DEF ScanInv, SourcesAccounted, Comparing, Telling
  <2>5. CandidatesOnce'
    BY <1>2, <1>7, <1>8, <2>1 DEF ScanInv, CandidatesOnce
  <2> QED BY <2>4, <2>5
<1>9. ASSUME role = "candidate" PROVE SourcesAccounted' /\ CandidatesOnce'
  <2>1. paths'["source"] = paths["source"] /\ failures'["source"] = failures["source"]
    BY <1>4, <1>5, <1>9 DEF Role
  <2>2. SourcesAccounted'
    BY <1>2, <1>9, <2>1 DEF ScanInv, SourcesAccounted, Accounted, SignedAs, Comparing, Telling
  <2>3. /\ p \notin failures["candidate"] /\ p \notin Skipped
        /\ \A k \in Content : p \notin paths["candidate"][k]
    BY <1>2, <1>9 DEF ScanInv, CandidatesOnce, SignedAs
  <2>4. \A k \in Content : \A q \in paths'["candidate"][k] :
          q \in paths["candidate"][k] \/ (k = key /\ q = p /\ failures' = failures)
    BY <1>3, <1>4, <1>5, <1>9 DEF Role
  <2>5. \A q \in failures'["candidate"] : q \in failures["candidate"] \/ q = p
    BY <1>3, <1>4, <1>5, <1>9 DEF Role
  <2>6. ASSUME NEW k \in Content, NEW q \in paths'["candidate"][k]
        PROVE k = request.content[request.file[q]] /\ q \notin failures'["candidate"] /\ q \notin Skipped
    <3>1. CASE k = key /\ q = p /\ failures' = failures
      BY <2>3, <3>1
    <3>2. CASE q \in paths["candidate"][k]
      <4>1. k = request.content[request.file[q]] /\ q \notin failures["candidate"] /\ q \notin Skipped
        BY <3>2 DEF ScanInv, CandidatesOnce
      <4> QED BY <4>1, <3>2, <2>3, <2>5
    <3> QED BY <2>4, <3>1, <3>2
  <2>7. ASSUME NEW q \in todo'
        PROVE  /\ q \notin failures'["candidate"] /\ q \notin Skipped
               /\ \A k \in Content : q \notin paths'["candidate"][k]
    <3>1. q \in todo /\ q # p
      BY <1>1
    <3>2. /\ q \notin failures["candidate"] /\ q \notin Skipped
          /\ \A k \in Content : q \notin paths["candidate"][k]
      BY <1>2, <1>9, <3>1 DEF ScanInv, CandidatesOnce, SignedAs
    <3> QED BY <3>1, <3>2, <2>4, <2>5
  <2>8. CandidatesOnce'
    BY <1>2, <1>7, <1>9, <2>6, <2>7 DEF CandidatesOnce, SignedAs
  <2> QED BY <2>2, <2>8
<1>10. SourcesAccounted' /\ CandidatesOnce'
  BY <1>8, <1>9 DEF Role
<1>11. Progress'
  BY <1>2 DEF Progress, Telling
<1>12. NotYetCropped'
  BY <1>2 DEF ScanInv, NotYetCropped, Telling, Over
<1>13. RecordStands'
  BY <1>2, RecordKept DEF Over
<1> QED BY <1>2, <1>6, <1>10, <1>11, <1>12, <1>13, FaithfulKept DEF ScanInv

\* A step that only moves on: what was signed, compared and recorded stays.
Quiet == UNCHANGED <<request, settings, inventory, paths, failures, results, compared, measured,
                     retry, record>>

LEMMA QuietStep ==
  ASSUME ScanInv, Quiet, todo' \in SUBSET Path, tocompare' \in SUBSET Content,
         phase \in Over => phase' \in Over
  PROVE  Types' /\ (\A x \in Pair : Faithful(x)') /\ RecordStands' /\ Skipped' = Skipped
<1>1. Types'
  BY DEF Quiet, ScanInv, Types
<1>2. \A x \in Pair : Faithful(x)'
  BY FaithfulKept DEF Quiet
<1>3. RecordStands'
  BY RecordKept DEF Quiet
<1>4. Skipped' = Skipped
  BY DEF Quiet, Skipped
<1> QED BY <1>1, <1>2, <1>3, <1>4

LEMMA SourcesSignedStep ==
  ASSUME ScanInv, SourcesSigned PROVE ScanInv'
<1>1. /\ phase = "sources" /\ phase' = "candidates" /\ todo = {} /\ Quiet
      /\ todo' = (IF Keys("source") # {} THEN inventory["candidate"] \ Skipped ELSE {})
      /\ tocompare' = tocompare
  BY DEF SourcesSigned, Enter, Quiet, inputs, search, history
<1>2. todo' \in SUBSET Path /\ todo' \cap Skipped = {}
  BY <1>1 DEF ScanInv, Types, Role
<1>3. tocompare' \in SUBSET Content
  BY <1>1 DEF ScanInv, Types
<1>4. Types' /\ (\A x \in Pair : Faithful(x)') /\ RecordStands' /\ Skipped' = Skipped
  BY <1>1, <1>2, <1>3, QuietStep DEF Over
<1>5. SourcesAccounted'
  BY <1>1 DEF ScanInv, SourcesAccounted, Accounted, SignedAs, Quiet, Comparing, Telling
<1>6. CandidatesOnce'
  BY <1>1, <1>2, <1>4 DEF ScanInv, CandidatesOnce, SignedAs, Quiet
<1>7. Progress'
  BY <1>1 DEF Progress, Telling
<1>8. NotYetCropped'
  BY <1>1 DEF ScanInv, NotYetCropped, Quiet, Telling, Over
<1> QED BY <1>4, <1>5, <1>6, <1>7, <1>8 DEF ScanInv

LEMMA CandidatesSignedStep ==
  ASSUME ScanInv, CandidatesSigned PROVE ScanInv'
<1>1. /\ phase = "candidates" /\ phase' = "analysing" /\ Quiet
      /\ todo' = todo /\ tocompare' = tocompare
  BY DEF CandidatesSigned, Enter, Quiet, inputs, signing, search, history
<1>3. todo' \in SUBSET Path /\ tocompare' \in SUBSET Content
  BY <1>1 DEF ScanInv, Types
<1>4. Types' /\ (\A x \in Pair : Faithful(x)') /\ RecordStands' /\ Skipped' = Skipped
  BY <1>1, <1>3, QuietStep DEF Over
<1>5. SourcesAccounted'
  BY <1>1 DEF ScanInv, SourcesAccounted, Accounted, SignedAs, Quiet, Comparing, Telling
<1>6. CandidatesOnce'
  BY <1>1, <1>4 DEF ScanInv, CandidatesOnce, Quiet
<1>7. Progress'
  BY <1>1 DEF Progress, Telling
<1>8. NotYetCropped'
  BY <1>1 DEF ScanInv, NotYetCropped, Quiet, Telling, Over
<1> QED BY <1>4, <1>5, <1>6, <1>7, <1>8 DEF ScanInv

LEMMA ProfileStep ==
  ASSUME ScanInv, Profile PROVE ScanInv'
<1>1. /\ phase = "analysing" /\ phase' = "analysing" /\ Quiet
      /\ todo' = todo /\ tocompare' = tocompare
  BY DEF Profile, Quiet, inputs, signing, search, history
<1>3. todo' \in SUBSET Path /\ tocompare' \in SUBSET Content
  BY <1>1 DEF ScanInv, Types
<1>4. Types' /\ (\A x \in Pair : Faithful(x)') /\ RecordStands' /\ Skipped' = Skipped
  BY <1>1, <1>3, QuietStep DEF Over
<1>5. SourcesAccounted'
  BY <1>1 DEF ScanInv, SourcesAccounted, Accounted, SignedAs, Quiet, Comparing, Telling
<1>6. CandidatesOnce'
  BY <1>1, <1>4 DEF ScanInv, CandidatesOnce, Quiet
<1>7. Progress'
  BY <1>1 DEF Progress, Telling
<1>8. NotYetCropped'
  BY <1>1 DEF ScanInv, NotYetCropped, Quiet, Telling, Over
<1> QED BY <1>4, <1>5, <1>6, <1>7, <1>8 DEF ScanInv

-----------------------------------------------------------------------------
(* The comparison and its end *)

LEMMA PreparedStep ==
  ASSUME ScanInv, Prepared PROVE ScanInv'
<1>1. /\ phase = "analysing" /\ Quiet /\ todo' = todo
      /\ \/ phase' = "comparing" /\ tocompare' = Keys("source") /\ error' = error
         \/ phase' = "reporting" /\ tocompare' = tocompare /\ error' = "prepare"
  BY DEF Prepared, Enter, Quiet, inputs, signing, search, history
<1>2. Keys("source") \in SUBSET Content /\ Keys("source")' = Keys("source")
  BY <1>1 DEF Keys, Quiet
<1>3. todo' \in SUBSET Path /\ tocompare' \in SUBSET Content
  BY <1>1, <1>2 DEF ScanInv, Types
<1>4. Types' /\ (\A x \in Pair : Faithful(x)') /\ RecordStands' /\ Skipped' = Skipped
  BY <1>1, <1>3, QuietStep DEF Over
<1>5. SourcesAccounted'
  BY <1>1 DEF ScanInv, SourcesAccounted, Accounted, SignedAs, Quiet, Comparing, Telling
<1>6. CandidatesOnce'
  BY <1>1, <1>4 DEF ScanInv, CandidatesOnce, Quiet
<1>7. Progress'
  BY <1>1, <1>2 DEF Progress, Telling
<1>8. NotYetCropped'
  BY <1>1 DEF ScanInv, NotYetCropped, Quiet, Telling, Over
<1> QED BY <1>4, <1>5, <1>6, <1>7, <1>8 DEF ScanInv

LEMMA ComparedStep ==
  ASSUME ScanInv, Compared PROVE ScanInv'
<1>1. /\ phase = "comparing" /\ tocompare = {} /\ Quiet /\ todo' = todo /\ error' = error
      /\ \/ phase' = "retrying" /\ tocompare' = Keys("source") /\ settings.fallback
         \/ phase' = "reporting" /\ tocompare' = tocompare /\ ~settings.fallback
  BY DEF Compared, Enter, Quiet, inputs, signing, search, history
<1>2. /\ Keys("source") \in SUBSET Content
      /\ Keys("source")' = Keys("source") /\ Keys("candidate")' = Keys("candidate")
  BY <1>1 DEF Keys, Quiet
<1>3. todo' \in SUBSET Path /\ tocompare' \in SUBSET Content
  BY <1>1, <1>2 DEF ScanInv, Types
<1>4. Types' /\ (\A x \in Pair : Faithful(x)') /\ RecordStands' /\ Skipped' = Skipped
  BY <1>1, <1>3, QuietStep DEF Over
<1>5. SourcesAccounted'
  BY <1>1 DEF ScanInv, SourcesAccounted, Accounted, SignedAs, Quiet, Comparing, Telling
<1>6. CandidatesOnce'
  BY <1>1, <1>4 DEF ScanInv, CandidatesOnce, Quiet
<1>7. \A k \in Keys("source"), c \in Keys("candidate") : <<k, c>> \in compared["full"]
  BY <1>1 DEF ScanInv, Progress
<1>8. Progress'
  BY <1>1, <1>2, <1>7 DEF Progress, Telling, Quiet
<1>9. NotYetCropped'
  BY <1>1 DEF ScanInv, NotYetCropped, Quiet, Telling, Over
<1> QED BY <1>4, <1>5, <1>6, <1>8, <1>9 DEF ScanInv

\* A stage of the scan ends, whatever error it ends with.
LEMMA GiveUpStep ==
  ASSUME ScanInv, phase \in Comparing, Quiet, UNCHANGED <<todo, tocompare>>,
         phase' = "reporting", error' # "none"
  PROVE  ScanInv'
<1>3. todo' \in SUBSET Path /\ tocompare' \in SUBSET Content
  BY DEF ScanInv, Types
<1>4. Types' /\ (\A x \in Pair : Faithful(x)') /\ RecordStands' /\ Skipped' = Skipped
  BY <1>3, QuietStep DEF Over, Comparing
<1>5. SourcesAccounted'
  BY DEF ScanInv, SourcesAccounted, Accounted, SignedAs, Quiet, Comparing, Telling
<1>6. CandidatesOnce'
  BY <1>4 DEF ScanInv, CandidatesOnce, Quiet
<1>7. Progress'
  BY DEF Progress, Telling
<1>8. NotYetCropped'
  BY DEF NotYetCropped, Telling
<1> QED BY <1>4, <1>5, <1>6, <1>7, <1>8 DEF ScanInv

\* What is heard of one source.
LEMMA HeardOf ==
  ASSUME Types, NEW view \in View, NEW s \in Content, NEW ks \in SUBSET Content,
         NEW found \in [ks -> Frame], Heard(view, s, ks, found)
  PROVE  /\ compared' \in [View -> SUBSET Pair] /\ measured' \in [View -> [Pair -> Frame]]
         /\ \A v \in View : compared[v] \subseteq compared'[v]
         /\ \A v \in View \ {view} : compared'[v] = compared[v] /\ measured'[v] = measured[v]
         /\ \A c \in ks : <<s, c>> \in compared'[view] /\ measured'[view][<<s, c>>] = found[c]
         /\ \A x \in Pair : x[1] # s \/ x[2] \notin ks =>
              /\ measured'[view][x] = measured[view][x]
              /\ x \in compared'[view] <=> x \in compared[view]
<1>1. /\ compared \in [View -> SUBSET Pair] /\ measured \in [View -> [Pair -> Frame]]
      /\ {s} \X ks \in SUBSET Pair
  BY DEF Types, Pair
<1>2. compared' = [compared EXCEPT ![view] = @ \cup ({s} \X ks)]
  BY DEF Heard
<1> DEFINE new == [x \in Pair |-> IF x[1] = s /\ x[2] \in ks THEN found[x[2]] ELSE measured[view][x]]
<1>3. measured' = [measured EXCEPT ![view] = new]
  BY DEF Heard
<1>4. /\ new \in [Pair -> Frame]
      /\ \A c \in ks : new[<<s, c>>] = found[c]
      /\ \A x \in Pair : x[1] # s \/ x[2] \notin ks => new[x] = measured[view][x]
  <2>1. ASSUME NEW x \in Pair PROVE new[x] \in Frame
    BY <1>1
  <2>2. new \in [Pair -> Frame]
    BY <2>1
  <2>3. ASSUME NEW c \in ks PROVE new[<<s, c>>] = found[c]
    BY DEF Pair
  <2>4. ASSUME NEW x \in Pair, x[1] # s \/ x[2] \notin ks PROVE new[x] = measured[view][x]
    BY <2>4
  <2> QED BY <2>2, <2>3, <2>4
<1> HIDE DEF new
<1>5. compared' \in [View -> SUBSET Pair] /\ measured' \in [View -> [Pair -> Frame]]
  BY <1>1, <1>2, <1>3, <1>4
<1>6. \A v \in View : compared[v] \subseteq compared'[v]
  BY <1>1, <1>2
<1>7. \A v \in View \ {view} : compared'[v] = compared[v] /\ measured'[v] = measured[v]
  BY <1>1, <1>2, <1>3
<1>8. \A c \in ks : <<s, c>> \in compared'[view] /\ measured'[view][<<s, c>>] = found[c]
  BY <1>1, <1>2, <1>3, <1>4
<1>9. ASSUME NEW x \in Pair, x[1] # s \/ x[2] \notin ks
      PROVE  /\ measured'[view][x] = measured[view][x]
             /\ x \in compared'[view] <=> x \in compared[view]
  BY <1>1, <1>2, <1>3, <1>4, <1>9
<1> QED BY <1>5, <1>6, <1>7, <1>8, <1>9

LEMMA CompareStep ==
  ASSUME ScanInv, Compare PROVE ScanInv'
<1>1. PICK s \in tocompare :
        \/ /\ \E found \in [Keys("candidate") -> Frame] :
                /\ Heard("full", s, Keys("candidate"), found)
                /\ results' = [x \in Pair |->
                     IF x[1] = s /\ x[2] \in Keys("candidate")
                       THEN [frames |-> found[x[2]], review |-> FALSE] ELSE results[x]]
           /\ tocompare' = tocompare \ {s}
           /\ UNCHANGED <<phase, error>>
        \/ /\ phase' = "reporting" /\ error' = "compare"
           /\ UNCHANGED <<tocompare, results, history>>
  BY DEF Compare, Enter
<1>2. /\ phase = "comparing"
      /\ UNCHANGED <<request, settings, inventory, todo, paths, failures, retry, record>>
  BY DEF Compare, inputs, signing
<1>3. CASE phase' = "reporting" /\ error' = "compare" /\ UNCHANGED <<tocompare, results, history>>
  <2>1. Quiet
    BY <1>2, <1>3 DEF Quiet, history
  <2> QED BY <1>2, <1>3, <2>1, GiveUpStep DEF Comparing
<1>4. ASSUME NEW found \in [Keys("candidate") -> Frame],
             Heard("full", s, Keys("candidate"), found),
             results' = [x \in Pair |->
                IF x[1] = s /\ x[2] \in Keys("candidate")
                  THEN [frames |-> found[x[2]], review |-> FALSE] ELSE results[x]],
             tocompare' = tocompare \ {s}, UNCHANGED <<phase, error>>
      PROVE  ScanInv'
  <2>1. Types /\ s \in Content /\ Keys("candidate") \in SUBSET Content /\ "full" \in View
    BY DEF ScanInv, Types, Keys, View
  <2>2. /\ compared' \in [View -> SUBSET Pair] /\ measured' \in [View -> [Pair -> Frame]]
        /\ \A v \in View : compared[v] \subseteq compared'[v]
        /\ \A v \in View \ {"full"} : compared'[v] = compared[v] /\ measured'[v] = measured[v]
        /\ \A c \in Keys("candidate") :
             <<s, c>> \in compared'["full"] /\ measured'["full"][<<s, c>>] = found[c]
        /\ \A x \in Pair : x[1] # s \/ x[2] \notin Keys("candidate") =>
             /\ measured'["full"][x] = measured["full"][x]
             /\ x \in compared'["full"] <=> x \in compared["full"]
    BY <2>1, <1>4, HeardOf
  <2>3. \A x \in Pair :
          IF x[1] = s /\ x[2] \in Keys("candidate")
            THEN results'[x] = [frames |-> measured'["full"][x], review |-> FALSE]
            ELSE results'[x] = results[x]
    <3>1. ASSUME NEW x \in Pair, x[1] = s, x[2] \in Keys("candidate")
          PROVE  results'[x] = [frames |-> measured'["full"][x], review |-> FALSE]
      <4>1. x = <<s, x[2]>>
        BY <3>1 DEF Pair
      <4>2. measured'["full"][x] = found[x[2]]
        BY <3>1, <4>1, <2>2
      <4>3. results'[x] = [frames |-> found[x[2]], review |-> FALSE]
        BY <3>1, <1>4
      <4> QED BY <4>2, <4>3
    <3>2. ASSUME NEW x \in Pair, ~(x[1] = s /\ x[2] \in Keys("candidate"))
          PROVE  results'[x] = results[x]
      BY <3>2, <1>4
    <3> QED BY <3>1, <3>2
  <2>4. results' \in [Pair -> [frames : Frame, review : BOOLEAN]]
    <3>1. ASSUME NEW x \in Pair
          PROVE  (IF x[1] = s /\ x[2] \in Keys("candidate")
                    THEN [frames |-> found[x[2]], review |-> FALSE] ELSE results[x])
                 \in [frames : Frame, review : BOOLEAN]
      BY <2>1 DEF Types
    <3> QED BY <3>1, <1>4
  <2>5. Types'
    BY <2>1, <2>2, <2>4, <1>2, <1>4 DEF Types
  <2>6. SourcesAccounted'
    BY <1>2, <1>4 DEF ScanInv, SourcesAccounted, Accounted, SignedAs, Comparing, Telling
  <2>7. CandidatesOnce'
    BY <1>2, <1>4 DEF ScanInv, CandidatesOnce, Skipped
  <2>8. Keys("source")' = Keys("source") /\ Keys("candidate")' = Keys("candidate")
    BY <1>2 DEF Keys
  <2>9. ASSUME NEW k \in Keys("source") \ tocompare', NEW c \in Keys("candidate")
        PROVE  <<k, c>> \in compared'["full"]
    <3>1. CASE k = s
      BY <3>1, <2>2
    <3>2. CASE k # s
      <4>1. <<k, c>> \in compared["full"]
        BY <3>2, <1>2, <1>4 DEF ScanInv, Progress
      <4> QED BY <4>1, <2>2 DEF View
    <3> QED BY <3>1, <3>2
  <2>10. Progress'
    BY <1>2, <1>4, <2>8, <2>9 DEF Progress, Telling
  <2>11. ASSUME NEW x \in Pair PROVE Faithful(x)'
    <3>1. Faithful(x) /\ ~results[x].review
      BY <1>2 DEF ScanInv, NotYetCropped, Telling, Over
    <3>2. CASE x[1] = s /\ x[2] \in Keys("candidate")
      <4>0. results'[x] = [frames |-> measured'["full"][x], review |-> FALSE]
        BY <2>3, <3>2
      <4>1. results'[x].frames = measured'["full"][x] /\ ~results'[x].review
        BY <4>0
      <4>2. measured'["full"][x] \in Nat
        BY <2>2, FramesAssumption DEF View, Frame
      <4> QED BY <4>1, <4>2 DEF Faithful
    <3>3. CASE ~(x[1] = s /\ x[2] \in Keys("candidate"))
      <4>1. results'[x] = results[x] /\ measured'["full"][x] = measured["full"][x]
        BY <2>2, <2>3, <3>3
      <4> QED BY <4>1, <3>1 DEF Faithful
    <3> QED BY <3>2, <3>3
  <2>12. NotYetCropped'
    <3>1. ASSUME NEW x \in Pair PROVE ~results'[x].review
      <4>1. ~results[x].review
        BY <1>2 DEF ScanInv, NotYetCropped, Telling, Over
      <4>2. \/ results'[x] = [frames |-> measured'["full"][x], review |-> FALSE]
            \/ results'[x] = results[x]
        BY <2>3
      <4> QED BY <4>1, <4>2
    <3> QED BY <3>1, <1>2, <1>4 DEF NotYetCropped
  <2>13. RecordStands'
    BY <1>2, RecordKept DEF Over
  <2> QED BY <2>5, <2>6, <2>7, <2>10, <2>11, <2>12, <2>13 DEF ScanInv
<1> QED BY <1>1, <1>3, <1>4

-----------------------------------------------------------------------------
(* The crop fallback *)

LEMMA RetryStep ==
  ASSUME ScanInv, Retry PROVE ScanInv'
<1>1. PICK s \in tocompare :
        \/ /\ Misses(s) = {} /\ tocompare' = tocompare \ {s} /\ UNCHANGED <<phase, retry>>
        \/ /\ Misses(s) # {} /\ UNCHANGED tocompare /\ phase' = "fixing"
           /\ retry' = [NoRetry EXCEPT !.source = s, !.misses = Misses(s)]
  BY DEF Retry, Enter
<1>2. /\ phase = "retrying"
      /\ UNCHANGED <<request, settings, inventory, todo, paths, failures, results, error,
                     compared, measured, record>>
  BY DEF Retry, inputs, signing, history
<1>3. /\ Keys("source")' = Keys("source") /\ Keys("candidate")' = Keys("candidate")
      /\ \A x : Settled(x)' = Settled(x)
      /\ Skipped' = Skipped
      /\ Misses(s) \in SUBSET Content /\ Misses(s)' = Misses(s)
  BY <1>2 DEF Keys, Settled, Cropped, Skipped, Misses
<1>4. /\ \A k \in Keys("source"), c \in Keys("candidate") : <<k, c>> \in compared["full"]
      /\ \A k \in Keys("source") \ tocompare : \A c \in Keys("candidate") : Settled(<<k, c>>)
      /\ settings.fallback
      /\ \A x \in Pair : x[1] \in tocompare => ~results[x].review
  BY <1>2 DEF ScanInv, Progress, NotYetCropped
<1>5. SourcesAccounted'
  BY <1>1, <1>2 DEF ScanInv, SourcesAccounted, Accounted, SignedAs, Comparing, Telling
<1>6. CandidatesOnce'
  BY <1>1, <1>2, <1>3 DEF ScanInv, CandidatesOnce
<1>7. RecordStands'
  BY <1>2, RecordKept DEF Over
<1>8. \A x \in Pair : Faithful(x)'
  BY <1>2, FaithfulKept
<1>9. ASSUME Misses(s) = {}, tocompare' = tocompare \ {s}, UNCHANGED <<phase, retry>>
      PROVE  Types' /\ Progress' /\ NotYetCropped'
  <2>1. Types'
    BY <1>2, <1>9 DEF ScanInv, Types
  <2>2. ASSUME NEW c \in Keys("candidate") PROVE Settled(<<s, c>>)
    <3>1. ~(results[<<s, c>>].frames < Threshold)
      BY <1>9 DEF Misses
    <3>2. <<s, c>> \in Pair
      BY DEF ScanInv, Types, Pair, Keys
    <3>3. results[<<s, c>>].frames \in Nat
      BY <3>2, FramesAssumption DEF ScanInv, Types, Frame
    <3> QED BY <3>1, <3>3, FramesAssumption, ThresholdAssumption DEF Settled
  <2>3. \A k \in Keys("source") \ tocompare' : \A c \in Keys("candidate") : Settled(<<k, c>>)
    BY <1>4, <1>9, <2>2
  <2>4. Progress'
    BY <1>2, <1>3, <1>4, <1>9, <2>3 DEF Progress, Telling
  <2>5. NotYetCropped'
    BY <1>2, <1>4, <1>9 DEF NotYetCropped, Telling, Over
  <2> QED BY <2>1, <2>4, <2>5
<1>10. ASSUME UNCHANGED tocompare, phase' = "fixing",
              retry' = [NoRetry EXCEPT !.source = s, !.misses = Misses(s)]
       PROVE  Types' /\ Progress' /\ NotYetCropped'
  <2>1. /\ retry'.source = s /\ retry'.misses = Misses(s) /\ retry'.done = {}
        /\ retry'.found \in [Cross -> [Content -> Frame]]
    BY <1>10, FramesAssumption DEF NoRetry, Frame
  <2>2. Types'
    BY <1>2, <1>3, <1>10, <2>1 DEF ScanInv, Types
  <2>3. Progress'
    BY <1>2, <1>3, <1>4, <1>10, <2>1 DEF Progress, Telling, Misses
  <2>4. NotYetCropped'
    BY <1>2, <1>4, <1>10 DEF NotYetCropped, Telling, Over
  <2> QED BY <2>2, <2>3, <2>4
<1> QED BY <1>1, <1>5, <1>6, <1>7, <1>8, <1>9, <1>10 DEF ScanInv

LEMMA FixStep ==
  ASSUME ScanInv, Fix PROVE ScanInv'
<1>1. /\ phase = "fixing" /\ Quiet /\ UNCHANGED <<todo, tocompare>>
      /\ \/ phase' = "fixing" /\ error' = error
         \/ phase' = "reporting" /\ error' # "none"
  BY DEF Fix, GiveUp, Enter, Quiet, inputs, signing, history
<1>2. CASE phase' = "reporting" /\ error' # "none"
  BY <1>1, <1>2, GiveUpStep DEF Comparing
<1>3. CASE phase' = "fixing" /\ error' = error
  <2>1. todo' \in SUBSET Path /\ tocompare' \in SUBSET Content
    BY <1>1 DEF ScanInv, Types
  <2>2. Types' /\ (\A x \in Pair : Faithful(x)') /\ RecordStands' /\ Skipped' = Skipped
    BY <1>1, <2>1, QuietStep DEF Over
  <2>3. SourcesAccounted'
    BY <1>1, <1>3 DEF ScanInv, SourcesAccounted, Accounted, SignedAs, Quiet, Comparing, Telling
  <2>4. CandidatesOnce'
    BY <1>1, <1>3, <2>2 DEF ScanInv, CandidatesOnce, Quiet
  <2>5. Progress'
    BY <1>1, <1>3 DEF ScanInv, Progress, Quiet, Telling, Keys, Misses, Settled, Cropped
  <2>6. NotYetCropped'
    BY <1>1, <1>3 DEF ScanInv, NotYetCropped, Quiet, Telling, Over
  <2> QED BY <2>2, <2>3, <2>4, <2>5, <2>6 DEF ScanInv
<1> QED BY <1>1, <1>2, <1>3

LEMMA AllRetriedStep ==
  ASSUME ScanInv, AllRetried PROVE ScanInv'
<1>1. /\ phase = "retrying" /\ tocompare = {} /\ phase' = "reporting" /\ Quiet
      /\ UNCHANGED <<todo, tocompare>>
  BY DEF AllRetried, Enter, Quiet, inputs, signing, search, history
<1>2. todo' \in SUBSET Path /\ tocompare' \in SUBSET Content
  BY <1>1 DEF ScanInv, Types
<1>3. Types' /\ (\A x \in Pair : Faithful(x)') /\ RecordStands' /\ Skipped' = Skipped
  BY <1>1, <1>2, QuietStep DEF Over
<1>4. SourcesAccounted'
  BY <1>1 DEF ScanInv, SourcesAccounted, Accounted, SignedAs, Quiet, Comparing, Telling
<1>5. CandidatesOnce'
  BY <1>1, <1>3 DEF ScanInv, CandidatesOnce, Quiet
<1>6. \A k \in Keys("source"), c \in Keys("candidate") :
        <<k, c>> \in compared["full"] /\ Settled(<<k, c>>)
  BY <1>1 DEF ScanInv, Progress
<1>7. Progress'
  BY <1>1, <1>6 DEF Progress, Telling, Quiet, Keys, Settled, Cropped
<1>8. NotYetCropped'
  BY <1>1 DEF NotYetCropped, Telling
<1> QED BY <1>3, <1>4, <1>5, <1>7, <1>8 DEF ScanInv

LEMMA CompareCroppedStep ==
  ASSUME ScanInv, CompareCropped PROVE ScanInv'
<1> DEFINE s == retry.source
           ks == retry.misses
<1>1. /\ phase = "fixing" /\ s \in tocompare /\ s \in Content /\ ks = Misses(s) /\ ks \in SUBSET Content
      /\ NextView \in View /\ NextView \in Cross /\ NextView # "full"
  BY DEF CompareCropped, ScanInv, Types, Progress, NextView, View, Cross
<1>2. UNCHANGED <<request, settings, inventory, todo, paths, failures, tocompare, results, record>>
  BY DEF CompareCropped, GiveUp, inputs, signing
<1>3. \/ /\ \E found \in [ks -> Frame] :
              /\ Heard(NextView, s, ks, found)
              /\ retry' = [retry EXCEPT !.done = @ \cup {NextView},
                             !.found[NextView] = [c \in Content |->
                                IF c \in ks THEN found[c] ELSE 0]]
         /\ UNCHANGED <<phase, error>>
      \/ phase' = "reporting" /\ error' # "none" /\ UNCHANGED <<retry, compared, measured>>
  BY DEF CompareCropped, GiveUp, Enter, history
<1>4. CASE phase' = "reporting" /\ error' # "none" /\ UNCHANGED <<retry, compared, measured>>
  <2>1. Quiet
    BY <1>2, <1>4 DEF Quiet
  <2> QED BY <1>1, <1>2, <1>4, <2>1, GiveUpStep DEF Comparing
<1>5. ASSUME NEW found \in [ks -> Frame], Heard(NextView, s, ks, found),
             retry' = [retry EXCEPT !.done = @ \cup {NextView},
                         !.found[NextView] = [c \in Content |-> IF c \in ks THEN found[c] ELSE 0]],
             UNCHANGED <<phase, error>>
      PROVE  ScanInv'
  <2>1. Types
    BY DEF ScanInv
  <2>2. /\ compared' \in [View -> SUBSET Pair] /\ measured' \in [View -> [Pair -> Frame]]
        /\ \A v \in View : compared[v] \subseteq compared'[v]
        /\ \A v \in View \ {NextView} : compared'[v] = compared[v] /\ measured'[v] = measured[v]
        /\ \A c \in ks :
             <<s, c>> \in compared'[NextView] /\ measured'[NextView][<<s, c>>] = found[c]
        /\ \A x \in Pair : x[1] # s \/ x[2] \notin ks =>
             /\ measured'[NextView][x] = measured[NextView][x]
             /\ x \in compared'[NextView] <=> x \in compared[NextView]
    BY <2>1, <1>1, <1>5, HeardOf
  <2> DEFINE new == [c \in Content |-> IF c \in ks THEN found[c] ELSE 0]
  <2>3. new \in [Content -> Frame] /\ \A c \in ks : new[c] = found[c]
    BY <1>1, FramesAssumption DEF Frame
  <2>4. /\ retry' = [retry EXCEPT !.done = @ \cup {NextView}, !.found[NextView] = new]
        /\ retry.found \in [Cross -> [Content -> Frame]] /\ retry.done \in SUBSET Cross
    BY <1>5, <2>1 DEF Types
  <2> HIDE DEF new
  <2>5. /\ retry'.source = s /\ retry'.misses = ks
        /\ retry'.done = retry.done \cup {NextView}
        /\ retry'.found = [retry.found EXCEPT ![NextView] = new]
    BY <2>4
  <2>6. /\ retry'.found \in [Cross -> [Content -> Frame]] /\ retry'.done \in SUBSET Cross
        /\ retry'.found[NextView] = new
        /\ \A v \in Cross \ {NextView} : retry'.found[v] = retry.found[v]
    BY <1>1, <2>3, <2>4, <2>5
  <2>7. Types'
    BY <1>1, <1>2, <2>1, <2>2, <2>5, <2>6 DEF Types
  <2>8. SourcesAccounted'
    BY <1>2, <1>5 DEF ScanInv, SourcesAccounted, Accounted, SignedAs, Comparing, Telling
  <2>9. CandidatesOnce'
    <3>1. Skipped' = Skipped
      BY <1>2 DEF Skipped
    <3> QED BY <1>1, <1>2, <1>5, <3>1 DEF ScanInv, CandidatesOnce
  <2>10. /\ Keys("source")' = Keys("source") /\ Keys("candidate")' = Keys("candidate")
         /\ Misses(s)' = Misses(s)
    BY <1>2, <2>5 DEF Keys, Misses
  <2>11. ASSUME NEW x \in Pair, x[1] # s
         PROVE  \A v \in View : /\ measured'[v][x] = measured[v][x]
                                /\ x \in compared'[v] <=> x \in compared[v]
    BY <2>2, <2>11
  <2>12. ASSUME NEW k \in Keys("source") \ tocompare', NEW c \in Keys("candidate")
         PROVE  Settled(<<k, c>>)'
    <3>1. k # s /\ Settled(<<k, c>>) /\ <<k, c>> \in Pair
      BY <1>1, <1>2 DEF ScanInv, Progress, Keys, Pair
    <3>2. \A v \in View : /\ measured'[v][<<k, c>>] = measured[v][<<k, c>>]
                          /\ <<k, c>> \in compared'[v] <=> <<k, c>> \in compared[v]
      BY <2>11, <3>1
    <3> QED BY <1>2, <3>1, <3>2 DEF Settled, Cropped, View, Cross
  <2>13. ASSUME NEW v \in retry'.done, NEW c \in ks
         PROVE  <<s, c>> \in compared'[v] /\ measured'[v][<<s, c>>] = retry'.found[v][c]
    <3>1. CASE v = NextView
      BY <3>1, <2>2, <2>3, <2>6
    <3>2. CASE v # NextView
      <4>1. v \in retry.done /\ v \in Cross /\ v \in View
        BY <2>4, <2>5, <3>2 DEF Cross
      <4>2. <<s, c>> \in compared[v] /\ measured[v][<<s, c>>] = retry.found[v][c]
        BY <1>1, <4>1 DEF ScanInv, Progress
      <4> QED BY <3>2, <4>1, <4>2, <2>2, <2>6
    <3> QED BY <3>1, <3>2
  <2>14. /\ settings.fallback
         /\ \A k \in Keys("source"), c \in Keys("candidate") : <<k, c>> \in compared'["full"]
    BY <1>1, <2>2 DEF ScanInv, Progress, View
  <2>15. Progress'
    BY <1>1, <1>2, <1>5, <2>5, <2>10, <2>12, <2>13, <2>14 DEF Progress, Telling
  <2>16. ASSUME NEW x \in Pair PROVE Faithful(x)'
    <3>1. Faithful(x) /\ (x[1] \in tocompare => ~results[x].review)
      BY <1>1 DEF ScanInv, NotYetCropped
    <3>2. measured'["full"] = measured["full"] /\ compared'["full"] = compared["full"]
      BY <1>1, <2>2 DEF View
    <3>3. results[x].review => \E v \in Cross : measured'[v][x] = results[x].frames
      BY <1>1, <2>11, <3>1 DEF Faithful, Cross, View
    <3> QED BY <1>2, <3>1, <3>2, <3>3 DEF Faithful
  <2>17. NotYetCropped'
    BY <1>1, <1>2, <1>5 DEF ScanInv, NotYetCropped, Telling, Over
  <2>18. RecordStands'
    BY <1>1, <1>2, RecordKept DEF Over
  <2> QED BY <2>7, <2>8, <2>9, <2>15, <2>16, <2>17, <2>18 DEF ScanInv
<1> QED BY <1>3, <1>4, <1>5

LEMMA RetriedStep ==
  ASSUME ScanInv, Retried PROVE ScanInv'
<1> DEFINE s == retry.source
           ks == retry.misses
           Longer(x) == x[1] = s /\ x[2] \in ks /\ Selected(x[2]) > results[x].frames
<1>1. /\ phase = "fixing" /\ retry.done = Cross /\ phase' = "retrying"
      /\ UNCHANGED <<request, settings, inventory, todo, paths, failures, error, record,
                     compared, measured>>
      /\ tocompare' = tocompare \ {s} /\ retry' = NoRetry
  BY DEF Retried, Enter, inputs, signing, history
<1>2. /\ s \in tocompare /\ s \in Content /\ ks = Misses(s) /\ ks \in SUBSET Content
      /\ settings.fallback
  BY <1>1 DEF ScanInv, Types, Progress
<1>3. results' = [x \in Pair |->
        IF Longer(x) THEN [frames |-> Selected(x[2]), review |-> TRUE] ELSE results[x]]
  BY DEF Retried
<1>4. ASSUME NEW c \in ks
      PROVE  /\ Selected(c) \in Frame
             /\ \A v \in Cross : /\ <<s, c>> \in compared[v]
                                 /\ measured[v][<<s, c>>] <= Selected(c)
             /\ \E v \in Cross : measured[v][<<s, c>>] = Selected(c)
             /\ results[<<s, c>>].frames < Threshold
  <2>1. \A v \in Cross : <<s, c>> \in compared[v] /\ measured[v][<<s, c>>] = retry.found[v][c]
    BY <1>1 DEF ScanInv, Progress
  <2>2. \A v \in Cross : retry.found[v][c] \in Nat /\ retry.found[v][c] \in Frame
    BY <1>2, FramesAssumption DEF ScanInv, Types, Frame
  <2>3. "crop5/full" \in Cross /\ "full/crop5" \in Cross /\ \A v \in Cross : v \in {"crop5/full", "full/crop5"}
    BY DEF Cross, View
  <2>4. /\ Selected(c) \in Frame
        /\ retry.found["crop5/full"][c] <= Selected(c) /\ retry.found["full/crop5"][c] <= Selected(c)
        /\ Selected(c) = retry.found["crop5/full"][c] \/ Selected(c) = retry.found["full/crop5"][c]
    BY <2>2, <2>3 DEF Selected
  <2>5. results[<<s, c>>].frames < Threshold
    BY <1>2 DEF Misses
  <2> QED BY <2>1, <2>3, <2>4, <2>5
<1>5. ASSUME NEW x \in Pair
      PROVE  /\ results[x].frames \in Nat /\ results[x] \in [frames : Frame, review : BOOLEAN]
             /\ x = <<x[1], x[2]>>
             /\ \A v \in View : measured[v][x] \in Nat
  BY FramesAssumption DEF ScanInv, Types, Frame, Pair
<1>6. \A x \in Pair : /\ Longer(x) => results'[x] = [frames |-> Selected(x[2]), review |-> TRUE]
                      /\ ~Longer(x) => results'[x] = results[x]
  BY <1>3
<1>7. results' \in [Pair -> [frames : Frame, review : BOOLEAN]]
  <2>1. ASSUME NEW x \in Pair
        PROVE  (IF Longer(x) THEN [frames |-> Selected(x[2]), review |-> TRUE] ELSE results[x])
               \in [frames : Frame, review : BOOLEAN]
    BY <1>4, <1>5
  <2> QED BY <2>1, <1>3
<1>8. Types'
  <2>1. /\ NoRetry.misses \in SUBSET Content /\ NoRetry.done \in SUBSET Cross
        /\ NoRetry.found \in [Cross -> [Content -> Frame]]
    BY FramesAssumption DEF NoRetry, Frame
  <2> QED BY <1>1, <1>7, <2>1 DEF ScanInv, Types
<1>9. SourcesAccounted' /\ CandidatesOnce'
  <2>1. Skipped' = Skipped
    BY <1>1 DEF Skipped
  <2>2. SourcesAccounted'
    BY <1>1 DEF ScanInv, SourcesAccounted, Accounted, SignedAs, Comparing, Telling
  <2>3. CandidatesOnce'
    BY <1>1, <2>1 DEF ScanInv, CandidatesOnce
  <2> QED BY <2>2, <2>3
<1>10. /\ Keys("source")' = Keys("source") /\ Keys("candidate")' = Keys("candidate")
  BY <1>1 DEF Keys
<1>11. ASSUME NEW k \in Keys("source") \ tocompare', NEW c \in Keys("candidate")
       PROVE  Settled(<<k, c>>)'
  <2> DEFINE x == <<k, c>>
  <2>1. x \in Pair /\ x[1] = k /\ x[2] = c
    BY DEF Keys, Pair
  <2>2. CASE k # s
    <3>1. Settled(x)
      BY <1>1, <2>2 DEF ScanInv, Progress
    <3>2. results'[x] = results[x]
      BY <1>6, <2>1, <2>2
    <3> QED BY <1>1, <3>1, <3>2 DEF Settled, Cropped
  <2>3. CASE k = s /\ c \notin ks
    <3>1. results[x].frames >= Threshold
      BY <1>2, <1>5, <2>1, <2>3, ThresholdAssumption, FramesAssumption DEF Misses
    <3>2. results'[x] = results[x]
      BY <1>6, <2>1, <2>3
    <3> QED BY <3>1, <3>2 DEF Settled
  <2>4. CASE k = s /\ c \in ks
    <3>1. /\ Selected(c) \in Nat
          /\ \A v \in Cross : x \in compared[v] /\ measured[v][x] <= Selected(c)
      BY <1>4, <2>4, FramesAssumption DEF Frame
    <3>2. Selected(c) <= results'[x].frames
      <4>1. CASE Longer(x)
        <5>1. results'[x] = [frames |-> Selected(c), review |-> TRUE]
          BY <1>6, <2>1, <4>1
        <5> QED BY <3>1, <5>1
      <4>2. CASE ~Longer(x)
        <5>1. results'[x] = results[x] /\ ~(Selected(c) > results[x].frames)
          BY <1>6, <2>1, <2>4, <4>2
        <5> QED BY <3>1, <5>1, <1>5, <2>1
      <4> QED BY <4>1, <4>2
    <3>3. results'[x].frames \in Nat /\ \A v \in Cross : measured[v][x] \in Nat
      BY <1>5, <1>7, <2>1, FramesAssumption DEF Frame, Cross
    <3>4. \A v \in Cross : measured[v][x] <= results'[x].frames
      BY <3>1, <3>2, <3>3
    <3> QED BY <1>1, <3>1, <3>4 DEF Settled, Cropped
  <2> QED BY <2>2, <2>3, <2>4
<1>12. Progress'
  <2>1. \A k \in Keys("source"), c \in Keys("candidate") : <<k, c>> \in compared["full"]
    BY <1>1 DEF ScanInv, Progress
  <2> QED BY <1>1, <1>2, <1>10, <1>11, <2>1 DEF Progress, Telling
<1>13. ASSUME NEW x \in Pair PROVE Faithful(x)'
  <2>1. Faithful(x)
    BY DEF ScanInv
  <2>2. CASE Longer(x)
    <3>1. results'[x] = [frames |-> Selected(x[2]), review |-> TRUE]
      BY <1>6, <2>2
    <3>2. /\ \E v \in Cross : measured[v][x] = Selected(x[2])
          /\ results[x].frames < Threshold /\ Selected(x[2]) \in Nat
      BY <1>4, <1>5, <2>2, FramesAssumption DEF Frame
    <3>3. ~(measured["full"][x] >= Threshold) /\ measured["full"][x] <= Selected(x[2])
      <4>1. /\ measured["full"][x] \in Nat /\ results[x].frames \in Nat
            /\ measured["full"][x] <= results[x].frames /\ results[x].frames < Selected(x[2])
        BY <1>5, <2>1, <2>2, <3>2 DEF Faithful, View
      <4> QED BY <3>2, <4>1, ThresholdAssumption, FramesAssumption
    <3>4. results'[x].frames = Selected(x[2]) /\ results'[x].review = TRUE
      BY <3>1
    <3> QED BY <1>1, <3>2, <3>3, <3>4 DEF Faithful
  <2>3. CASE ~Longer(x)
    <3>1. results'[x] = results[x]
      BY <1>6, <2>3
    <3> QED BY <1>1, <2>1, <3>1 DEF Faithful
  <2> QED BY <2>2, <2>3
<1>14. NotYetCropped'
  <2>1. ASSUME NEW x \in Pair, x[1] \in tocompare' PROVE ~results'[x].review
    <3>1. ~results[x].review /\ x[1] # s
      BY <1>1, <2>1 DEF ScanInv, NotYetCropped
    <3>2. results'[x] = results[x]
      BY <1>6, <3>1
    <3> QED BY <3>1, <3>2
  <2> QED BY <1>1, <2>1 DEF NotYetCropped, Telling, Over
<1>15. RecordStands'
  BY <1>1, RecordKept DEF Over
<1> QED BY <1>8, <1>9, <1>12, <1>13, <1>14, <1>15 DEF ScanInv

-----------------------------------------------------------------------------
(* The record and the end *)

\* A pair that is no hit has come to nothing.
LEMMA NoHitIsRuled ==
  ASSUME ScanInv, phase \in Telling, error = "none",
         NEW k \in Keys("source"), NEW c \in Keys("candidate"), c \notin matched \cup reviewed
  PROVE  Ruled(k, c)
<1> DEFINE x == <<k, c>>
<1>1. x \in Pair /\ x[2] = c
  BY DEF Keys, Pair
<1>2. /\ results[x].frames \in Nat /\ results[x].review \in BOOLEAN
      /\ \A v \in View : measured[v][x] \in Nat
  <2>1. /\ results[x] \in [frames : Frame, review : BOOLEAN]
        /\ \A v \in View : measured[v][x] \in Frame
    <3>1. /\ results \in [Pair -> [frames : Frame, review : BOOLEAN]]
          /\ measured \in [View -> [Pair -> Frame]] /\ x \in Pair
      BY <1>1 DEF ScanInv, Types
    <3> HIDE DEF x
    <3> QED BY <3>1
  <2>2. results[x].frames \in Frame /\ results[x].review \in BOOLEAN
    BY <2>1
  <2> QED BY <2>1, <2>2, FramesAssumption DEF Frame
<1>3. results[x].frames < Threshold
  <2>1. SUFFICES ASSUME results[x].frames >= Threshold PROVE FALSE
    BY <1>2, ThresholdAssumption, FramesAssumption
  <2>2. x \in Hits(TRUE) \/ x \in Hits(FALSE)
    BY <1>1, <1>2, <2>1 DEF Hits
  <2> QED BY <1>1, <2>2 DEF matched, reviewed
<1>4. x \in compared["full"] /\ (settings.fallback => Settled(x))
  BY DEF ScanInv, Progress
<1>5. measured["full"][x] < Threshold
  <2>1. measured["full"][x] <= results[x].frames /\ measured["full"][x] \in Nat
    BY <1>1, <1>2 DEF ScanInv, Faithful, View
  <2> QED BY <1>2, <1>3, <2>1, ThresholdAssumption, FramesAssumption
<1>6. ASSUME settings.fallback, NEW v \in Cross
      PROVE  x \in compared[v] /\ measured[v][x] < Threshold
  <2>1. ~(results[x].frames >= Threshold)
    BY <1>2, <1>3, ThresholdAssumption, FramesAssumption
  <2>2. x \in compared[v] /\ measured[v][x] <= results[x].frames /\ measured[v][x] \in Nat
    BY <1>2, <1>4, <1>6, <2>1 DEF Settled, Cropped, Cross
  <2> QED BY <1>2, <1>3, <2>2, ThresholdAssumption, FramesAssumption
<1> QED BY <1>4, <1>5, <1>6 DEF Ruled, Cross

\* Which rows there are.
LEMMA RowsOfReport ==
  ASSUME NEW r \in Report.rows
  PROVE  \/ r \in SignedRows
         \/ r.role = "source" /\ r.status # "checked"
         \/ /\ r.role = "candidate" /\ r.status # "checked"
            /\ r.path \in failures["candidate"] \cup Skipped
         \/ /\ r.role = "candidate" /\ r.status # "checked"
            /\ r.path \notin Represented(SignedRows)
<1>1. r \in SourceRows \cup CandidateRows
  BY DEF Report
<1> DEFINE rows == SignedRows \cup FailedRows \cup SkippedRows
           rest == {Row("candidate", p, "not_compared", "no usable source") :
                      p \in inventory["candidate"] \ Represented(rows)}
<1>2. CandidateRows = rows \cup rest
  BY DEF CandidateRows
<1>3. CASE r \in SourceRows
  <2>1. CASE r \in ProcessedSources
    <3>1. PICK k \in Content : \E p \in paths["source"][k] : r = Row("source", p, "processed", "signed")
      BY <2>1 DEF ProcessedSources
    <3> QED BY <3>1 DEF Row
  <2>2. CASE r \in FailedSources
    BY <2>2 DEF FailedSources, Row
  <2> QED BY <1>3, <2>1, <2>2 DEF SourceRows
<1>4. CASE r \in FailedRows
  BY <1>4 DEF FailedRows, Row
<1>5. CASE r \in SkippedRows
  BY <1>5 DEF SkippedRows, Row
<1>6. CASE r \in rest
  <2>1. PICK p \in inventory["candidate"] \ Represented(rows) :
          r = Row("candidate", p, "not_compared", "no usable source")
    BY <1>6
  <2>2. p \notin Represented(SignedRows)
    BY <2>1 DEF Represented
  <2> QED BY <2>1, <2>2 DEF Row
<1> QED BY <1>1, <1>2, <1>3, <1>4, <1>5, <1>6

LEMMA ReportIsEarned ==
  ASSUME ScanInv, phase \in Telling,
         NEW r \in Report.rows, r.status = "checked", NEW s \in request.sources
  PROVE  \E k, c \in Content :
           SignedAs("source", s, k) /\ SignedAs("candidate", r.path, c) /\ Ruled(k, c)
<1>2. r \in SignedRows
  BY RowsOfReport
<1>3. PICK c \in Content : \E p \in paths["candidate"][c] : r = Row("candidate", p, Status(c), "signed")
  BY <1>2 DEF SignedRows
<1>4. PICK p \in paths["candidate"][c] : r = Row("candidate", p, Status(c), "signed")
  BY <1>3
<1>5. r.path = p /\ Status(c) = "checked"
  BY <1>4 DEF Row
<1>6. c \notin matched \cup reviewed /\ error = "none" /\ failures["source"] = {}
  BY <1>5 DEF Status, comparison_complete
<1>7. PICK k \in Content : SignedAs("source", s, k)
  BY <1>6 DEF ScanInv, SourcesAccounted, Accounted
<1>8. k \in Keys("source") /\ c \in Keys("candidate")
  BY <1>4, <1>7 DEF Keys, SignedAs
<1>9. Ruled(k, c)
  BY <1>6, <1>8, NoHitIsRuled
<1> QED BY <1>4, <1>5, <1>7, <1>9 DEF SignedAs

LEMMA ReportKeepsHits ==
  ASSUME ScanInv, NEW x \in Pair, x \in compared["full"], measured["full"][x] >= Threshold
  PROVE  /\ [source |-> x[1], candidate |-> x[2], review |-> FALSE] \in Report.hits
         /\ \A r \in Report.rows :
              r.role = "candidate" /\ SignedAs("candidate", r.path, x[2]) => r.status = "matched"
<1>1. x \in Hits(FALSE)
  <2>1. ~results[x].review /\ results[x].review \in BOOLEAN /\ results[x].frames >= Threshold
    BY DEF ScanInv, Faithful, Types
  <2> QED BY <2>1 DEF Hits
<1>2. [source |-> x[1], candidate |-> x[2], review |-> FALSE] \in Report.hits
  <2> DEFINE of(review) == {[source |-> y[1], candidate |-> y[2], review |-> review] :
                              y \in Hits(review)}
  <2>1. Report.hits = UNION {of(review) : review \in BOOLEAN}
    BY DEF Report
  <2>2. [source |-> x[1], candidate |-> x[2], review |-> FALSE] \in of(FALSE)
    BY <1>1
  <2> HIDE DEF of
  <2> QED BY <2>1, <2>2
<1>3. ASSUME NEW r \in Report.rows, r.role = "candidate", SignedAs("candidate", r.path, x[2])
      PROVE  r.status = "matched"
  <2>1. r.path \in paths["candidate"][x[2]] /\ x[2] \in Content
    BY <1>3 DEF SignedAs, Pair
  <2>2. /\ x[2] = request.content[request.file[r.path]]
        /\ r.path \notin failures["candidate"] /\ r.path \notin Skipped
    BY <2>1 DEF ScanInv, CandidatesOnce
  <2>3. Row("candidate", r.path, Status(x[2]), "signed") \in SignedRows
    BY <2>1 DEF SignedRows
  <2>4. r.path \in Represented(SignedRows)
    BY <2>3 DEF Represented, Row
  <2>5. r \in SignedRows
    BY <1>3, <2>2, <2>4, RowsOfReport
  <2>6. PICK c \in Content : \E p \in paths["candidate"][c] : r = Row("candidate", p, Status(c), "signed")
    BY <2>5 DEF SignedRows
  <2>7. PICK p \in paths["candidate"][c] : r = Row("candidate", p, Status(c), "signed")
    BY <2>6
  <2>8. p = r.path /\ r.status = Status(c)
    BY <2>7 DEF Row
  <2>9. c = x[2]
    BY <2>2, <2>7, <2>8 DEF ScanInv, CandidatesOnce
  <2>10. x[2] \in matched
    BY <1>1 DEF matched
  <2> QED BY <2>8, <2>9, <2>10 DEF Status
<1> QED BY <1>2, <1>3

LEMMA ReportStands ==
  ASSUME ScanInv, phase = "replacing", phase' = "announcing", record' = Report,
         UNCHANGED <<request, settings, paths, compared, measured>>
  PROVE  RecordStands'
<1>1. CheckedIsEarned'
  <2>1. SUFFICES ASSUME NEW r \in Report.rows, r.status = "checked", NEW s \in request.sources
                 PROVE  \E k, c \in Content :
                          (SignedAs("source", s, k) /\ SignedAs("candidate", r.path, c) /\ Ruled(k, c))'
    BY DEF CheckedIsEarned
  <2>2. PICK k \in Content, c \in Content :
          SignedAs("source", s, k) /\ SignedAs("candidate", r.path, c) /\ Ruled(k, c)
    BY <2>1, ReportIsEarned DEF Telling
  <2> QED BY <2>2 DEF SignedAs, Ruled
<1>2. HitsAreKept'
  <2>1. ASSUME NEW x \in Pair, x \in compared["full"], measured["full"][x] >= Threshold
        PROVE  /\ [source |-> x[1], candidate |-> x[2], review |-> FALSE] \in Report.hits
               /\ \A r \in Report.rows :
                    r.role = "candidate" /\ SignedAs("candidate", r.path, x[2]) => r.status = "matched"
    BY <2>1, ReportKeepsHits
  <2>2. ASSUME NEW h \in Report.hits
        PROVE  \E v \in IF h.review THEN Cross ELSE {"full"} :
                 measured[v][<<h.source, h.candidate>>] >= Threshold
    <3>0. PICK review \in BOOLEAN : \E x \in Hits(review) :
            h = [source |-> x[1], candidate |-> x[2], review |-> review]
      BY <2>2 DEF Report
    <3>1. PICK x \in Hits(review) : h = [source |-> x[1], candidate |-> x[2], review |-> review]
      BY <3>0
    <3>2. x \in Pair /\ results[x].frames >= Threshold /\ results[x].review = review
      BY DEF Hits
    <3>3. Faithful(x) /\ <<x[1], x[2]>> = x
      BY <3>2 DEF ScanInv, Pair
    <3>4. h.source = x[1] /\ h.candidate = x[2] /\ h.review = review
      BY <3>1
    <3>5. CASE review
      <4>1. PICK v \in Cross : measured[v][x] = results[x].frames
        BY <3>2, <3>3, <3>5 DEF Faithful
      <4> QED BY <3>2, <3>3, <3>4, <3>5, <4>1
    <3>6. CASE ~review
      <4>1. measured["full"][x] = results[x].frames
        BY <3>2, <3>3, <3>6 DEF Faithful
      <4> QED BY <3>2, <3>3, <3>4, <3>6, <4>1
    <3> QED BY <3>5, <3>6
  <2> QED BY <2>1, <2>2 DEF HitsAreKept, SignedAs
<1> QED BY <1>1, <1>2 DEF RecordStands, Over

\* The scan is over, whatever comes of its record.
LEMMA OverStep ==
  ASSUME ScanInv, phase' \in {"failing", "replacing anyway", "ended"},
         UNCHANGED <<request, settings, inventory, todo, paths, failures, tocompare, results,
                     retry, compared, measured>>,
         RecordStands'
  PROVE  ScanInv'
<1>1. Types'
  BY DEF ScanInv, Types
<1>2. \A x \in Pair : Faithful(x)'
  BY FaithfulKept
<1>3. SourcesAccounted'
  BY DEF SourcesAccounted, Comparing, Telling
<1>4. CandidatesOnce'
  <2>1. Skipped' = Skipped
    BY DEF Skipped
  <2> QED BY <2>1 DEF ScanInv, CandidatesOnce
<1>5. Progress' /\ NotYetCropped'
  BY DEF Progress, NotYetCropped, Telling, Over
<1> QED BY <1>1, <1>2, <1>3, <1>4, <1>5 DEF ScanInv

\* The scan tells what it has come to.
LEMMA TellingStep ==
  ASSUME ScanInv, phase \in Telling, phase' \in Telling,
         UNCHANGED <<request, settings, inventory, todo, paths, failures, tocompare, results,
                     retry, error, compared, measured>>,
         RecordStands'
  PROVE  ScanInv'
<1>1. Types'
  BY DEF ScanInv, Types
<1>2. \A x \in Pair : Faithful(x)'
  BY FaithfulKept
<1>3. SourcesAccounted'
  BY DEF ScanInv, SourcesAccounted, Accounted, SignedAs, Comparing, Telling
<1>4. CandidatesOnce'
  <2>1. Skipped' = Skipped
    BY DEF Skipped
  <2> QED BY <2>1 DEF ScanInv, CandidatesOnce, Telling
<1>5. Progress'
  BY DEF ScanInv, Progress, Telling, Keys, Settled, Cropped
<1>6. NotYetCropped'
  BY DEF NotYetCropped, Telling
<1> QED BY <1>1, <1>2, <1>3, <1>4, <1>5, <1>6 DEF ScanInv

LEMMA SaveStep ==
  ASSUME ScanInv, Save PROVE ScanInv'
<1>1. /\ \/ phase = "reporting" /\ phase' = "replacing"
         \/ phase \in {"reporting", "failing"} /\ phase' \in {"replacing anyway", "ended"}
      /\ UNCHANGED <<request, settings, inventory, todo, paths, failures, tocompare, results,
                     retry, error, compared, measured, record>>
  BY DEF Save, End, Enter, inputs, signing, search, history
<1>2. RecordStands'
  BY <1>1, RecordKept DEF Over
<1> QED BY <1>1, <1>2, OverStep, TellingStep DEF Telling

LEMMA ReplaceStep ==
  ASSUME ScanInv, Replace PROVE ScanInv'
<1>1. UNCHANGED <<request, settings, inventory, todo, paths, failures, tocompare, results,
                  retry, error, compared, measured>>
  BY DEF Replace, inputs, signing, search, history
<1>2. \/ phase = "replacing" /\ phase' = "announcing" /\ record' = Report
      \/ phase = "replacing anyway" /\ phase' = "ended" /\ record' = LastResort
      \/ phase \in {"replacing", "replacing anyway"} /\ phase' = "ended" /\ record' = record
  BY DEF Replace, End, Enter
<1>3. CASE phase = "replacing" /\ phase' = "announcing" /\ record' = Report
  <2>1. RecordStands'
    BY <1>1, <1>3, ReportStands
  <2> QED BY <1>1, <1>3, <2>1, TellingStep DEF Telling
<1>4. CASE phase = "replacing anyway" /\ phase' = "ended" /\ record' = LastResort
  <2>1. LastResort.by # "scan" /\ \A r \in LastResort.rows : r.status # "checked"
    <3>1. \A r \in LastResort.rows : \E role \in Role : \E p \in inventory[role] :
                 r = Row(role, p, "not_compared", "scan failed")
      <4> DEFINE of(role) == {Row(role, p, "not_compared", "scan failed") : p \in inventory[role]}
      <4>1. LastResort.rows = UNION {of(role) : role \in Role}
        BY DEF LastResort
      <4>2. \A role \in Role : \A r \in of(role) : \E p \in inventory[role] :
              r = Row(role, p, "not_compared", "scan failed")
        OBVIOUS
      <4> HIDE DEF of
      <4>3. \A r \in LastResort.rows : \E role \in Role : r \in of(role)
        BY <4>1
      <4> QED BY <4>2, <4>3
    <3>2. ASSUME NEW r \in LastResort.rows PROVE r.status # "checked"
      <4>1. PICK role \in Role : \E p \in inventory[role] :
              r = Row(role, p, "not_compared", "scan failed")
        BY <3>1
      <4>2. PICK p \in inventory[role] : r = Row(role, p, "not_compared", "scan failed")
        BY <4>1
      <4> QED BY <4>2 DEF Row
    <3>3. LastResort.by # "scan"
      BY DEF LastResort
    <3> QED BY <3>2, <3>3
  <2>2. RecordStands'
    BY <1>4, <2>1 DEF RecordStands, CheckedIsEarned, HitsAreKept, Over
  <2> QED BY <1>1, <1>4, <2>2, OverStep
<1>5. CASE phase \in {"replacing", "replacing anyway"} /\ phase' = "ended" /\ record' = record
  <2>1. RecordStands'
    BY <1>1, <1>5, RecordKept DEF Over
  <2> QED BY <1>1, <1>5, <2>1, OverStep
<1> QED BY <1>2, <1>3, <1>4, <1>5

LEMMA EndStep ==
  ASSUME ScanInv, Return \/ Fatal \/ Killed PROVE ScanInv'
<1>1. /\ phase' \in {"failing", "ended"}
      /\ UNCHANGED <<request, settings, inventory, todo, paths, failures, tocompare, results,
                     retry, error, compared, measured, record>>
  BY DEF Return, Fatal, Killed, End, Enter, inputs, signing, search, history
<1>2. RecordStands'
  BY <1>1, RecordKept DEF Over
<1> QED BY <1>1, <1>2, OverStep

LEMMA ScanNext == ScanInv /\ [Next]_vars => ScanInv'
<1> SUFFICES ASSUME ScanInv, [Next]_vars PROVE ScanInv'
  OBVIOUS
<1>1. CASE UNCHANGED vars
  <2>1. UNCHANGED <<request, settings, phase, inventory, todo, paths, failures, tocompare, results,
                    retry, error, compared, measured, record>>
    BY <1>1 DEF vars, inputs, signing, search, history
  <2>2. Types' /\ SourcesAccounted'
    BY <2>1 DEF ScanInv, Types, SourcesAccounted, Accounted, SignedAs
  <2>3. CandidatesOnce'
    <3>1. Skipped' = Skipped
      BY <2>1 DEF Skipped
    <3> QED BY <2>1, <3>1 DEF ScanInv, CandidatesOnce, SignedAs
  <2>4. Progress'
    BY <2>1 DEF ScanInv, Progress, Keys, Misses, Settled, Cropped
  <2>5. NotYetCropped' /\ \A x \in Pair : Faithful(x)'
    BY <2>1, FaithfulKept DEF ScanInv, NotYetCropped
  <2>6. RecordStands'
    BY <2>1, RecordKept
  <2> QED BY <2>2, <2>3, <2>4, <2>5, <2>6 DEF ScanInv
<1>2. CASE \E role \in Role : Collect(role)
  BY <1>2, CollectStep
<1>3. CASE \E role \in Role : Sign(role)
  BY <1>3, SignStep
<1>4. CASE SourcesSigned
  BY <1>4, SourcesSignedStep
<1>5. CASE CandidatesSigned
  BY <1>5, CandidatesSignedStep
<1>6. CASE Profile
  BY <1>6, ProfileStep
<1>7. CASE Prepared
  BY <1>7, PreparedStep
<1>8. CASE Compare
  BY <1>8, CompareStep
<1>9. CASE Compared
  BY <1>9, ComparedStep
<1>10. CASE Retry
  BY <1>10, RetryStep
<1>11. CASE Fix
  BY <1>11, FixStep
<1>12. CASE CompareCropped
  BY <1>12, CompareCroppedStep
<1>13. CASE Retried
  BY <1>13, RetriedStep
<1>14. CASE AllRetried
  BY <1>14, AllRetriedStep
<1>15. CASE Save
  BY <1>15, SaveStep
<1>16. CASE Replace
  BY <1>16, ReplaceStep
<1>17. CASE Return \/ Fatal \/ Killed
  BY <1>17, EndStep
<1> QED BY <1>1, <1>2, <1>3, <1>4, <1>5, <1>6, <1>7, <1>8, <1>9, <1>10, <1>11, <1>12, <1>13,
           <1>14, <1>15, <1>16, <1>17 DEF Next

\* Whatever fails and whenever the scan ends, each source is accounted for and
\* each result says what was measured.
THEOREM ScanInvariant == Spec => []ScanInv
<1> QED BY ScanInit, ScanNext, PTL DEF Spec

\* A candidate is called checked only if it was compared with every requested
\* source, cropped too where that was asked for, and no measurement reached the
\* threshold (candidate rows of tools/find_reuse.py).
THEOREM CheckedOnlyIfEarned == Spec => []CheckedIsEarned
<1>1. ScanInv => CheckedIsEarned
  BY DEF ScanInv, RecordStands
<1> QED BY <1>1, ScanInvariant, PTL

\* What fails after a completed full-frame hit takes neither the hit nor the
\* candidate's status from the record, and only crop evidence asks for review.
THEOREM HitsStay == Spec => []HitsAreKept
<1>1. ScanInv => HitsAreKept
  BY DEF ScanInv, RecordStands
<1> QED BY <1>1, ScanInvariant, PTL

-----------------------------------------------------------------------------
(* Every path has one row *)

Early == {"collecting", "collecting candidates", "sources"}
Lost  == {"failing", "replacing anyway", "ended"}

\* A source is signed once, as what it holds, and has not failed then.
SourcesOnce ==
  /\ \A k \in Content : \A p \in paths["source"][k] :
       k = request.content[request.file[p]] /\ p \notin failures["source"]
  /\ phase \in {"collecting", "collecting candidates"} =>
       failures["source"] = {} /\ \A k \in Content : paths["source"][k] = {}
  /\ phase = "sources" =>
       \A p \in todo : p \notin failures["source"] /\ \A k \in Content : ~SignedAs("source", p, k)

\* What is collected is what was asked for.
AsRequested ==
  /\ phase \notin {"collecting"} \cup Lost => inventory["source"] = request.sources
  /\ phase \notin {"collecting", "collecting candidates"} \cup Lost =>
       inventory["candidate"] = request.candidates

\* A record that is written, is written at the end.
Written == record.by # "earlier" => phase \in Over /\ EveryPathOnce

\* A candidate that is a source is not signed, and so does not fail.
SkippedOnce == \A p \in failures["candidate"] : p \notin Skipped

OnceInv == SourcesOnce /\ SkippedOnce /\ AsRequested /\ Written

LEMMA OnceInit == Init => OnceInv
<1> SUFFICES ASSUME Init PROVE OnceInv
  OBVIOUS
<1>1. SourcesOnce /\ SkippedOnce /\ AsRequested
  BY DEF Init, SourcesOnce, SkippedOnce, AsRequested, Role
<1>2. Written
  BY DEF Init, Written, Earlier
<1> QED BY <1>1, <1>2 DEF OnceInv

\* A step that signs nothing and writes no record.
LEMMA OnceKept ==
  ASSUME OnceInv,
         UNCHANGED <<request, inventory, paths, failures, record>>,
         \/ phase' \notin Early
         \/ phase' = phase /\ todo' = todo,
         phase \in Early \cup Lost => phase' \in {phase} \cup Lost,
         phase \in Over => phase' \in Over
  PROVE  OnceInv'
<1>1. SourcesOnce'
  BY DEF OnceInv, SourcesOnce, SignedAs, Early
<1>2. AsRequested'
  BY DEF OnceInv, AsRequested, Early, Lost
<1>3. Written'
  BY DEF OnceInv, Written, EveryPathOnce
<1>4. SkippedOnce'
  BY DEF OnceInv, SkippedOnce, Skipped
<1> QED BY <1>1, <1>2, <1>3, <1>4 DEF OnceInv

LEMMA OnceCollect ==
  ASSUME ScanInv, OnceInv, NEW role \in Role, Collect(role) PROVE OnceInv'
<1>1. \/ /\ phase = "collecting" /\ phase' = "collecting candidates"
         /\ inventory' = [inventory EXCEPT !["source"] = request.sources]
      \/ /\ phase = "collecting candidates" /\ phase' = "sources"
         /\ inventory' = [inventory EXCEPT !["candidate"] = request.candidates]
  BY DEF Collect, Role, Enter
<1>2. UNCHANGED <<request, paths, failures, record>>
  BY DEF Collect, inputs
<1>3. inventory \in [Role -> SUBSET Path] /\ {"source", "candidate"} = Role
  BY DEF ScanInv, Types, Role
<1>4. SourcesOnce'
  BY <1>1, <1>2 DEF OnceInv, SourcesOnce, SignedAs
<1>5. AsRequested'
  BY <1>1, <1>2, <1>3 DEF OnceInv, AsRequested, Lost
<1>6. Written'
  BY <1>1, <1>2 DEF OnceInv, Written, Over
<1>7. SkippedOnce'
  BY <1>1, <1>2 DEF ScanInv, CandidatesOnce, SkippedOnce
<1> QED BY <1>4, <1>5, <1>6, <1>7 DEF OnceInv

LEMMA OnceSign ==
  ASSUME ScanInv, OnceInv, NEW role \in Role, Sign(role) PROVE OnceInv'
<1>1. PICK p \in todo :
        /\ todo' = todo \ {p}
        /\ \/ LET key == request.content[request.file[p]]
              IN  paths' = [paths EXCEPT ![role][key] = @ \cup {p}] /\ UNCHANGED failures
           \/ failures' = [failures EXCEPT ![role] = @ \cup {p}] /\ UNCHANGED paths
  BY DEF Sign
<1> DEFINE key == request.content[request.file[p]]
<1>2. /\ \/ role = "source" /\ phase = "sources"
         \/ role = "candidate" /\ phase = "candidates"
      /\ phase' = phase
      /\ UNCHANGED <<request, inventory, record>>
  BY DEF Sign, Role, inputs
<1>3. p \in Path /\ key \in Content
  BY <1>1, RequestsAssumption DEF ScanInv, Types, Request
<1>4. /\ paths \in [Role -> [Content -> SUBSET Path]] /\ failures \in [Role -> SUBSET Path]
      /\ {"source", "candidate"} = Role
  BY DEF ScanInv, Types, Role
<1>5. \/ /\ paths' = [paths EXCEPT ![role][key] = @ \cup {p}] /\ failures' = failures
      \/ /\ failures' = [failures EXCEPT ![role] = @ \cup {p}] /\ paths' = paths
  BY <1>1
<1> HIDE DEF key
<1>6. SourcesOnce'
  <2>1. CASE role = "source"
    <3>1. phase = "sources" /\ phase' = "sources"
      BY <1>2, <2>1
    <3>2. p \notin failures["source"] /\ \A k \in Content : p \notin paths["source"][k]
      BY <1>1, <3>1 DEF OnceInv, SourcesOnce, SignedAs
    <3>3. CASE paths' = [paths EXCEPT !["source"][key] = @ \cup {p}] /\ failures' = failures
      <4>1. \A k \in Content : paths'["source"][k] = IF k = key THEN paths["source"][k] \cup {p}
                                                              ELSE paths["source"][k]
        BY <3>3, <1>3, <1>4
      <4>0. \A k \in Content : \A q \in paths["source"][k] :
              k = request.content[request.file[q]] /\ q \notin failures["source"]
        BY DEF OnceInv, SourcesOnce
      <4>2. \A k \in Content : \A q \in paths'["source"][k] :
              k = request.content[request.file[q]] /\ q \notin failures["source"]
        <5> SUFFICES ASSUME NEW k \in Content, NEW q \in paths'["source"][k]
                     PROVE  k = request.content[request.file[q]] /\ q \notin failures["source"]
          OBVIOUS
        <5>1. q \in paths["source"][k] \/ (k = key /\ q = p)
          BY <4>1
        <5> QED BY <4>0, <5>1, <3>2 DEF key
      <4>3. \A q \in todo' : q \notin failures["source"] /\ \A k \in Content : q \notin paths'["source"][k]
        BY <1>1, <3>1, <4>1 DEF OnceInv, SourcesOnce, SignedAs
      <4> QED BY <1>2, <3>1, <3>3, <4>2, <4>3 DEF SourcesOnce, SignedAs
    <3>4. CASE failures' = [failures EXCEPT !["source"] = @ \cup {p}] /\ paths' = paths
      <4>1. failures'["source"] = failures["source"] \cup {p}
        BY <3>4, <1>4
      <4> QED BY <1>1, <1>2, <3>1, <3>2, <3>4, <4>1 DEF OnceInv, SourcesOnce, SignedAs
    <3> QED BY <1>5, <2>1, <3>3, <3>4
  <2>2. CASE role = "candidate"
    <3>1. paths'["source"] = paths["source"] /\ failures'["source"] = failures["source"]
      BY <1>4, <1>5, <2>2
    <3>2. phase = "candidates" /\ phase' = "candidates"
      BY <1>2, <2>2
    <3> QED BY <1>2, <3>1, <3>2 DEF OnceInv, SourcesOnce
  <2> QED BY <2>1, <2>2 DEF Role
<1>7. AsRequested'
  BY <1>2 DEF OnceInv, AsRequested
<1>8. Written'
  BY <1>2 DEF OnceInv, Written, EveryPathOnce
<1>9. SkippedOnce'
  <2>1. Skipped' = Skipped
    BY <1>2 DEF Skipped
  <2>2. CASE role = "candidate"
    <3>1. p \notin Skipped
      BY <1>1, <1>2, <2>2 DEF ScanInv, CandidatesOnce
    <3>2. failures'["candidate"] \subseteq failures["candidate"] \cup {p}
      BY <1>4, <1>5, <2>2
    <3> QED BY <2>1, <3>1, <3>2 DEF OnceInv, SkippedOnce
  <2>3. CASE role = "source"
    <3>1. failures'["candidate"] = failures["candidate"]
      BY <1>4, <1>5, <2>3
    <3> QED BY <2>1, <3>1 DEF OnceInv, SkippedOnce
  <2> QED BY <2>2, <2>3 DEF Role
<1> QED BY <1>6, <1>7, <1>8, <1>9 DEF OnceInv

-----------------------------------------------------------------------------
(* The rows of a report *)

LEMMA OneRow ==
  ASSUME NEW rows, NEW role, NEW p, NEW row \in rows, row.role = role, row.path = p,
         \A r \in rows : r.role = role /\ r.path = p => r = row
  PROVE  Cardinality({r \in rows : r.role = role /\ r.path = p}) = 1
<1>1. {r \in rows : r.role = role /\ r.path = p} = {row}
  OBVIOUS
<1> QED BY <1>1, FS_Singleton

\* The rows of a source, and those of a candidate that has a signature or failed.
LEMMA RowsOfSources ==
  ASSUME NEW r
  PROVE  /\ r \in ProcessedSources <=>
              \E k \in Content : \E p \in paths["source"][k] : r = Row("source", p, "processed", "signed")
         /\ r \in SignedRows <=>
              \E k \in Content : \E p \in paths["candidate"][k] : r = Row("candidate", p, Status(k), "signed")
         /\ r \in FailedSources <=> \E p \in failures["source"] : r = Row("source", p, "failed", "failure")
         /\ r \in FailedRows <=> \E p \in failures["candidate"] : r = Row("candidate", p, "failed", "failure")
         /\ r \in SkippedRows <=> \E p \in Skipped : r = Row("candidate", p, "skipped", "source")
<1>1. r \in ProcessedSources <=>
        \E k \in Content : \E p \in paths["source"][k] : r = Row("source", p, "processed", "signed")
  BY DEF ProcessedSources
<1>2. r \in SignedRows <=>
        \E k \in Content : \E p \in paths["candidate"][k] : r = Row("candidate", p, Status(k), "signed")
  BY DEF SignedRows
<1>3. r \in FailedSources <=> \E p \in failures["source"] : r = Row("source", p, "failed", "failure")
  BY DEF FailedSources
<1>4. r \in FailedRows <=> \E p \in failures["candidate"] : r = Row("candidate", p, "failed", "failure")
  BY DEF FailedRows
<1>5. r \in SkippedRows <=> \E p \in Skipped : r = Row("candidate", p, "skipped", "source")
  BY DEF SkippedRows
<1> QED BY <1>1, <1>2, <1>3, <1>4, <1>5

LEMMA OneSourceRow ==
  ASSUME ScanInv, OnceInv, phase \in Telling, NEW p \in request.sources
  PROVE  Cardinality({r \in Report.rows : r.role = "source" /\ r.path = p}) = 1
<1> DEFINE rest == {Row("candidate", q, "not_compared", "no usable source") :
                      q \in inventory["candidate"] \ Represented(SignedRows \cup FailedRows \cup SkippedRows)}
<1>1. \A r : r \in Report.rows <=> r \in ProcessedSources \cup FailedSources
                                     \cup SignedRows \cup FailedRows \cup SkippedRows \cup rest
  BY DEF Report, SourceRows, CandidateRows
<1>2. \A r \in SignedRows \cup FailedRows \cup SkippedRows \cup rest : r.role = "candidate"
  <2>1. ASSUME NEW r \in rest PROVE r.role = "candidate"
    <3>1. PICK q : r = Row("candidate", q, "not_compared", "no usable source")
      BY <2>1
    <3> QED BY <3>1 DEF Row
  <2> HIDE DEF rest
  <2> QED BY <2>1, RowsOfSources DEF Row
<1> HIDE DEF rest
<1>3. \A r \in Report.rows : r.role = "source" => r \in ProcessedSources \cup FailedSources
  BY <1>1, <1>2
<1>4. Accounted(p)
  BY DEF ScanInv, SourcesAccounted
<1>5. CASE p \in failures["source"]
  <2> DEFINE row == Row("source", p, "failed", "failure")
  <2>1. row \in Report.rows
    BY <1>1, <1>5, RowsOfSources
  <2>2. \A k \in Content : p \notin paths["source"][k]
    BY <1>5 DEF OnceInv, SourcesOnce
  <2>3. \A r \in Report.rows : r.role = "source" /\ r.path = p => r = row
    BY <1>3, <2>2, RowsOfSources DEF Row
  <2>4. row.role = "source" /\ row.path = p
    BY DEF Row
  <2> HIDE DEF row
  <2>5. {r \in Report.rows : r.role = "source" /\ r.path = p} = {row}
    BY <2>1, <2>3, <2>4
  <2> QED BY <2>5, FS_Singleton
<1>6. CASE \E k \in Content : p \in paths["source"][k]
  <2> DEFINE row == Row("source", p, "processed", "signed")
  <2>1. row \in Report.rows
    BY <1>1, <1>6, RowsOfSources
  <2>2. p \notin failures["source"]
    BY <1>6 DEF OnceInv, SourcesOnce
  <2>3. \A r \in Report.rows : r.role = "source" /\ r.path = p => r = row
    BY <1>3, <2>2, RowsOfSources DEF Row
  <2>4. row.role = "source" /\ row.path = p
    BY DEF Row
  <2> HIDE DEF row
  <2>5. {r \in Report.rows : r.role = "source" /\ r.path = p} = {row}
    BY <2>1, <2>3, <2>4
  <2> QED BY <2>5, FS_Singleton
<1> QED BY <1>4, <1>5, <1>6 DEF Accounted, SignedAs

LEMMA OneCandidateRow ==
  ASSUME ScanInv, OnceInv, phase \in Telling, NEW p \in inventory["candidate"]
  PROVE  Cardinality({r \in Report.rows : r.role = "candidate" /\ r.path = p}) = 1
<1> DEFINE known == SignedRows \cup FailedRows \cup SkippedRows
           rest  == {Row("candidate", q, "not_compared", "no usable source") :
                       q \in inventory["candidate"] \ Represented(known)}
<1>1. \A r : r \in Report.rows <=> r \in ProcessedSources \cup FailedSources \cup known \cup rest
  BY DEF Report, SourceRows, CandidateRows
<1>2. \A r \in ProcessedSources \cup FailedSources : r.role = "source"
  BY RowsOfSources DEF Row
<1>3. \A q : q \in Represented(known) <=> \E r \in known : r.path = q
  BY DEF Represented
<1>4. \A r : r \in rest <=> \E q \in inventory["candidate"] \ Represented(known) :
                              r = Row("candidate", q, "not_compared", "no usable source")
  OBVIOUS
<1>b. ASSUME NEW r \in rest
      PROVE  /\ r.path \notin Represented(known)
             /\ r = Row("candidate", r.path, "not_compared", "no usable source")
  <2>1. PICK q \in inventory["candidate"] \ Represented(known) :
          r = Row("candidate", q, "not_compared", "no usable source")
    BY <1>4
  <2>2. r.path = q
    BY <2>1 DEF Row
  <2> QED BY <2>1, <2>2
<1>5. \A r \in Report.rows : r.role = "candidate" => r \in known \cup rest
  BY <1>1, <1>2
<1>6. \A r : r \in known <=> r \in SignedRows \/ r \in FailedRows \/ r \in SkippedRows
  OBVIOUS
<1>a. \A r \in known : r.role = "candidate"
  BY <1>6, RowsOfSources DEF Row
<1> HIDE DEF known, rest
<1>7. CASE p \in Represented(known)
  <2>1. PICK row \in known : row.path = p
    BY <1>3, <1>7
  <2>2. \A r \in Report.rows : r.role = "candidate" /\ r.path = p => r \in known
    BY <1>b, <1>5, <1>7
  <2>3. ASSUME NEW r \in known, r.path = p PROVE r = row
    <3>1. CASE \E k \in Content : p \in paths["candidate"][k]
      <4>1. PICK k \in Content : p \in paths["candidate"][k]
        BY <3>1
      <4>0. \A c \in Content : \A q \in paths["candidate"][c] :
              c = request.content[request.file[q]] /\ q \notin failures["candidate"] /\ q \notin Skipped
        BY DEF ScanInv, CandidatesOnce
      <4>2. /\ p \notin failures["candidate"] /\ p \notin Skipped
            /\ \A c \in Content : p \in paths["candidate"][c] => c = k
        BY <4>0, <4>1
      <4>3. \A x \in known : x.path = p => x = Row("candidate", p, Status(k), "signed")
        BY <4>2, <1>6, RowsOfSources DEF Row
      <4> QED BY <2>1, <2>3, <4>3
    <3>2. CASE ~\E k \in Content : p \in paths["candidate"][k]
      <4>1. CASE p \in failures["candidate"] /\ p \notin Skipped
        <5>1. \A x \in known : x.path = p => x = Row("candidate", p, "failed", "failure")
          BY <3>2, <4>1, <1>6, RowsOfSources DEF Row
        <5> QED BY <2>1, <2>3, <5>1
      <4>2. CASE p \notin failures["candidate"]
        <5>1. \A x \in known : x.path = p => x = Row("candidate", p, "skipped", "source")
          BY <3>2, <4>2, <1>6, RowsOfSources DEF Row
        <5> QED BY <2>1, <2>3, <5>1
      <4>3. ~(p \in failures["candidate"] /\ p \in Skipped)
        BY DEF OnceInv, SkippedOnce
      <4> QED BY <4>1, <4>2, <4>3
    <3> QED BY <3>1, <3>2
  <2>4. row \in Report.rows /\ row.role = "candidate"
    BY <1>1, <1>a, <2>1
  <2> QED BY <2>1, <2>2, <2>3, <2>4, OneRow
<1>8. CASE p \notin Represented(known)
  <2> DEFINE row == Row("candidate", p, "not_compared", "no usable source")
  <2>1. row \in Report.rows
    BY <1>1, <1>4, <1>8
  <2>2. \A r \in Report.rows : r.role = "candidate" /\ r.path = p => r = row
    BY <1>3, <1>b, <1>5, <1>8
  <2>3. row.role = "candidate" /\ row.path = p
    BY DEF Row
  <2> HIDE DEF row
  <2> QED BY <2>1, <2>2, <2>3, OneRow
<1> QED BY <1>7, <1>8

LEMMA OnceReplace ==
  ASSUME ScanInv, OnceInv, Replace PROVE OnceInv'
<1>1. UNCHANGED <<request, inventory, paths, failures>>
  BY DEF Replace, inputs, signing
<1>2. \/ phase = "replacing" /\ phase' = "announcing" /\ record' = Report
      \/ phase = "replacing anyway" /\ phase' = "ended" /\ record' = LastResort
      \/ phase' = "ended" /\ record' = record
  BY DEF Replace, End, Enter
<1>3. SourcesOnce' /\ SkippedOnce'
  BY <1>1, <1>2 DEF OnceInv, SourcesOnce, SkippedOnce, Skipped
<1>4. AsRequested'
  BY <1>1, <1>2 DEF OnceInv, AsRequested, Lost
<1>5. CASE phase = "replacing" /\ phase' = "announcing" /\ record' = Report
  <2>1. \A p \in inventory["source"] :
          Cardinality({r \in Report.rows : r.role = "source" /\ r.path = p}) = 1
    BY <1>5, OneSourceRow DEF OnceInv, AsRequested, Telling, Lost
  <2>2. \A p \in inventory["candidate"] :
          Cardinality({r \in Report.rows : r.role = "candidate" /\ r.path = p}) = 1
    BY <1>5, OneCandidateRow DEF Telling
  <2>3. EveryPathOnce'
    BY <1>1, <1>5, <2>1, <2>2 DEF EveryPathOnce, Role
  <2> QED BY <1>3, <1>4, <1>5, <2>3 DEF OnceInv, Written, Over
<1>6. CASE phase' = "ended" /\ record' = LastResort
  <2> DEFINE of(role) == {Row(role, p, "not_compared", "scan failed") : p \in inventory[role]}
  <2>1. LastResort.rows = UNION {of(role) : role \in Role}
    BY DEF LastResort
  <2>2. \A r, role : r \in of(role) <=> \E p \in inventory[role] : r = Row(role, p, "not_compared", "scan failed")
    OBVIOUS
  <2> HIDE DEF of
  <2>3. \A r : r \in LastResort.rows <=> \E role \in Role : r \in of(role)
    BY <2>1
  <2>4. ASSUME NEW role \in Role, NEW p \in inventory[role]
        PROVE  Cardinality({r \in LastResort.rows : r.role = role /\ r.path = p}) = 1
    <3> DEFINE row == Row(role, p, "not_compared", "scan failed")
    <3>1. row \in LastResort.rows
      BY <2>2, <2>3
    <3>2. ASSUME NEW r \in LastResort.rows, r.role = role, r.path = p PROVE r = row
      <4>1. PICK there \in Role : r \in of(there)
        BY <2>3
      <4>2. PICK q \in inventory[there] : r = Row(there, q, "not_compared", "scan failed")
        BY <2>2, <4>1
      <4>3. there = role /\ q = p
        BY <3>2, <4>2 DEF Row
      <4> QED BY <4>2, <4>3
    <3>3. row.role = role /\ row.path = p
      BY DEF Row
    <3> HIDE DEF row
    <3> QED BY <3>1, <3>2, <3>3, OneRow
  <2>5. EveryPathOnce'
    BY <1>1, <1>6, <2>4 DEF EveryPathOnce
  <2> QED BY <1>3, <1>4, <1>6, <2>5 DEF OnceInv, Written, Over
<1>7. CASE phase' = "ended" /\ record' = record
  <2>1. Written'
    BY <1>1, <1>7 DEF OnceInv, Written, EveryPathOnce, Over
  <2> QED BY <1>3, <1>4, <2>1 DEF OnceInv
<1> QED BY <1>2, <1>5, <1>6, <1>7

LEMMA OnceNext == ScanInv /\ OnceInv /\ [Next]_vars => OnceInv'
<1> SUFFICES ASSUME ScanInv, OnceInv, [Next]_vars PROVE OnceInv'
  OBVIOUS
<1>1. CASE UNCHANGED vars
  <2>1. UNCHANGED <<request, inventory, paths, failures, record, phase, todo>>
    BY <1>1 DEF vars, inputs, signing
  <2> QED BY <2>1, OnceKept DEF Early
<1>2. CASE \E role \in Role : Collect(role)
  BY <1>2, OnceCollect
<1>3. CASE \E role \in Role : Sign(role)
  BY <1>3, OnceSign
<1>4. CASE SourcesSigned
  <2>1. /\ phase = "sources" /\ phase' = "candidates"
        /\ UNCHANGED <<request, inventory, paths, failures, record>>
    BY <1>4 DEF SourcesSigned, Enter, inputs
  <2>2. SourcesOnce' /\ SkippedOnce'
    BY <2>1 DEF OnceInv, SourcesOnce, SkippedOnce, Skipped
  <2>3. AsRequested' /\ Written'
    BY <2>1 DEF OnceInv, AsRequested, Written, Over, Lost
  <2> QED BY <2>2, <2>3 DEF OnceInv
<1>5. CASE CandidatesSigned \/ Profile \/ Prepared \/ Compare \/ Compared \/ Retry
  <2>1. /\ phase \in {"candidates", "analysing", "comparing", "retrying"}
        /\ phase' \in {"analysing", "comparing", "retrying", "fixing", "reporting"}
        /\ UNCHANGED <<request, inventory, paths, failures, record>>
    BY <1>5 DEF CandidatesSigned, Profile, Prepared, Compare, Compared, Retry, Enter, inputs, signing
  <2> QED BY <2>1, OnceKept DEF Early, Lost, Over
<1>6. CASE Fix \/ CompareCropped \/ Retried \/ AllRetried
  <2>1. /\ phase \in {"fixing", "retrying"} /\ phase' \in {"fixing", "retrying", "reporting"}
        /\ UNCHANGED <<request, inventory, paths, failures, record>>
    BY <1>6 DEF Fix, CompareCropped, Retried, AllRetried, GiveUp, Enter, inputs, signing
  <2> QED BY <2>1, OnceKept DEF Early, Lost, Over
<1>7. CASE Save \/ Return \/ Fatal \/ Killed
  <2>1. /\ phase \in Over => phase' \in Over
        /\ phase \in Early \cup Lost => phase' \in Lost
        /\ phase' \notin Early
        /\ UNCHANGED <<request, inventory, paths, failures, record>>
    BY <1>7 DEF Save, Return, Fatal, Killed, End, Enter, inputs, signing, Over, Early, Lost
  <2> QED BY <2>1, OnceKept
<1>8. CASE Replace
  BY <1>8, OnceReplace
<1> QED BY <1>1, <1>2, <1>3, <1>4, <1>5, <1>6, <1>7, <1>8 DEF Next

LEMMA OnceAlways == Spec => []OnceInv
<1> QED BY OnceInit, OnceNext, ScanInvariant, PTL DEF Spec

\* Whatever fails, and with copies and sources among the candidates: every path
\* of the inventory has one row, in each of its roles (build_record).
THEOREM PathsHaveOneRow == Spec => []EveryPathOnce
<1>1. OnceInv => EveryPathOnce
  BY DEF OnceInv, Written, EveryPathOnce
<1> QED BY <1>1, OnceAlways, PTL

-----------------------------------------------------------------------------
(* The status of the process *)

\* Crop evidence is of both views, and the record is announced as it was written.
CroppedTwice == \A x \in Pair : results[x].review => \A v \in Cross : x \in compared[v]
Announced ==
  /\ phase \in {"replacing", "announcing"} => settings.json
  /\ phase = "announcing" => record = Report
  /\ exit # "running" => phase = "ended"
HonestInv == CroppedTwice /\ Announced /\ ExitIsHonest

LEMMA HonestInit == Init => HonestInv
<1> SUFFICES ASSUME Init PROVE HonestInv
  OBVIOUS
<1>1. CroppedTwice
  BY DEF Init, CroppedTwice, Nothing
<1>2. Announced /\ ExitIsHonest
  BY DEF Init, Announced, ExitIsHonest, Earlier
<1> QED BY <1>1, <1>2 DEF HonestInv

\* What is known once the scan is over stays so.
Frozen == UNCHANGED <<request, settings, inventory, paths, failures, unprofiled, compared, measured>>
LEMMA FrozenDone == ASSUME Frozen PROVE AllDone' <=> AllDone
<1>1. Skipped' = Skipped
  BY DEF Frozen, Skipped
<1> QED BY <1>1 DEF Frozen, AllDone, SignedAs

\* A step that does not end the scan, or ends it with a bad status, and leaves
\* the record alone or gives it to the last resort.
LEMMA HonestKept ==
  ASSUME OnceInv, HonestInv, CroppedTwice', phase # "ended",
         \/ phase' # "ended" /\ exit' = exit
         \/ phase' = "ended" /\ exit' \in {"unusable", "killed"},
         phase' # "announcing", phase' = "replacing" => settings'.json,
         record' = record \/ record'.by = "main",
         phase \in Over => Frozen
  PROVE  HonestInv'
<1>1. Announced'
  BY DEF HonestInv, Announced
<1>2. exit' \notin {"complete", "incomplete"}
  BY <1>1 DEF HonestInv, Announced
<1>3. ASSUME record'.by = "scan", record'.exit = "complete" PROVE AllDone'
  <2>1. record.by = "scan" /\ record.exit = "complete"
    BY <1>3
  <2>2. phase \in Over
    BY <2>1 DEF OnceInv, Written
  <2> QED BY <2>1, <2>2, FrozenDone DEF HonestInv, ExitIsHonest
<1>4. ExitIsHonest'
  BY <1>2, <1>3 DEF ExitIsHonest
<1> QED BY <1>1, <1>4 DEF HonestInv

\* A status of 0 is that of a scan that has done everything.
LEMMA CompleteIsDone ==
  ASSUME ScanInv, OnceInv, CroppedTwice, phase \in Telling, ExitStatus = "complete"
  PROVE  AllDone
<1>1. /\ error = "none" /\ unprofiled = {}
      /\ \A r \in SourceRows \cup CandidateRows : r.status \notin {"failed", "not_compared"}
  BY DEF ExitStatus
<1> DEFINE known == SignedRows \cup FailedRows \cup SkippedRows
           rest  == {Row("candidate", q, "not_compared", "no usable source") :
                       q \in inventory["candidate"] \ Represented(known)}
<1>2. CandidateRows = known \cup rest /\ SourceRows = ProcessedSources \cup FailedSources
  BY DEF CandidateRows, SourceRows
<1>3. \A q : q \in Represented(known) <=> \E r \in known : r.path = q
  BY DEF Represented
<1>4. \A r : r \in rest <=> \E q \in inventory["candidate"] \ Represented(known) :
                              r = Row("candidate", q, "not_compared", "no usable source")
  OBVIOUS
<1>5. \A r : r \in known <=> r \in SignedRows \/ r \in FailedRows \/ r \in SkippedRows
  OBVIOUS
<1> HIDE DEF known, rest
<1>6. failures["source"] = {} /\ failures["candidate"] = {}
  <2>1. ASSUME NEW p \in failures["source"] PROVE FALSE
    <3>1. Row("source", p, "failed", "failure") \in SourceRows
      BY <1>2, RowsOfSources
    <3> QED BY <1>1, <3>1 DEF Row
  <2>2. ASSUME NEW p \in failures["candidate"] PROVE FALSE
    <3>1. Row("candidate", p, "failed", "failure") \in CandidateRows
      BY <1>2, <1>5, RowsOfSources
    <3> QED BY <1>1, <3>1 DEF Row
  <2> QED BY <2>1, <2>2
<1>7. failures = [role \in Role |-> {}]
  BY <1>6 DEF ScanInv, Types, Role
<1>8. ASSUME NEW p \in request.candidates \ Skipped, NEW s \in request.sources
      PROVE  \E k, c \in Content :
                /\ SignedAs("source", s, k) /\ SignedAs("candidate", p, c)
                /\ <<k, c>> \in compared["full"]
                /\ settings.fallback /\ measured["full"][<<k, c>>] < Threshold =>
                     \A v \in Cross : <<k, c>> \in compared[v]
  <2>1. inventory["candidate"] = request.candidates
    BY DEF OnceInv, AsRequested, Telling, Lost
  <2>2. p \in Represented(known)
    <3> SUFFICES ASSUME p \notin Represented(known) PROVE FALSE
      OBVIOUS
    <3>1. Row("candidate", p, "not_compared", "no usable source") \in CandidateRows
      BY <1>2, <1>4, <2>1
    <3>2. Row("candidate", p, "not_compared", "no usable source").status = "not_compared"
      BY DEF Row
    <3> QED BY <1>1, <3>1, <3>2
  <2>3. PICK r \in known : r.path = p
    BY <1>3, <2>2
  <2>4. PICK c \in Content : SignedAs("candidate", p, c)
    <3>1. r \notin FailedRows
      BY <1>6, RowsOfSources
    <3>2. r \notin SkippedRows
      <4>1. r \in SkippedRows => \E q \in Skipped : r = Row("candidate", q, "skipped", "source")
        BY RowsOfSources
      <4> QED BY <2>3, <4>1 DEF Row
    <3>3. \E c \in Content : \E q \in paths["candidate"][c] : r = Row("candidate", q, Status(c), "signed")
      BY <1>5, <3>1, <3>2, RowsOfSources
    <3> QED BY <2>3, <3>3 DEF Row, SignedAs
  <2>5. PICK k \in Content : SignedAs("source", s, k)
    BY <1>6 DEF ScanInv, SourcesAccounted, Accounted
  <2>6. k \in Keys("source") /\ c \in Keys("candidate")
    BY <2>4, <2>5 DEF Keys, SignedAs
  <2>7. <<k, c>> \in compared["full"] /\ (settings.fallback => Settled(<<k, c>>))
    BY <1>1, <2>6 DEF ScanInv, Progress
  <2>8. ASSUME settings.fallback, measured["full"][<<k, c>>] < Threshold
        PROVE  \A v \in Cross : <<k, c>> \in compared[v]
    <3>1. <<k, c>> \in Pair
      BY DEF Pair
    <3>2. CASE Cropped(<<k, c>>)
      BY <3>2 DEF Cropped
    <3>3. CASE results[<<k, c>>].frames >= Threshold
      <4>1. /\ ~results[<<k, c>>].review => results[<<k, c>>].frames = measured["full"][<<k, c>>]
            /\ measured["full"][<<k, c>>] \in Nat /\ Threshold \in Nat
        BY <3>1, ThresholdAssumption, FramesAssumption DEF ScanInv, Faithful, Types, View, Frame
      <4>2. results[<<k, c>>].review
        BY <2>8, <3>3, <4>1
      <4> QED BY <3>1, <4>2 DEF CroppedTwice
    <3> QED BY <2>7, <2>8, <3>2, <3>3 DEF Settled
  <2> QED BY <2>4, <2>5, <2>7, <2>8
<1> QED BY <1>1, <1>7, <1>8 DEF AllDone

\* What a report says depends on what the scan knows.
LEMMA SameReport ==
  ASSUME UNCHANGED <<inventory, request, paths, failures, unprofiled, results, error>>
  PROVE  Report' = Report /\ ExitStatus' = ExitStatus
<1>1. \A review \in BOOLEAN : Hits(review)' = Hits(review)
  BY DEF Hits
<1>2. matched' = matched /\ reviewed' = reviewed
  BY <1>1 DEF matched, reviewed
<1>3. \A k \in Content : Status(k)' = Status(k)
  BY <1>2 DEF Status, comparison_complete
<1>4. SignedRows' = SignedRows
  BY <1>3 DEF SignedRows
<1>5. FailedRows' = FailedRows /\ SkippedRows' = SkippedRows
  BY DEF FailedRows, SkippedRows, Skipped
<1>6. CandidateRows' = CandidateRows
  BY <1>4, <1>5 DEF CandidateRows
<1>7. SourceRows' = SourceRows
  BY DEF SourceRows, ProcessedSources, FailedSources
<1>8. ExitStatus' = ExitStatus
  BY <1>6, <1>7 DEF ExitStatus
<1> DEFINE of(review) == {[source |-> x[1], candidate |-> x[2], review |-> review] : x \in Hits(review)}
<1>9. \A review \in BOOLEAN : of(review)' = of(review)
  BY <1>1
<1> HIDE DEF of
<1>10. (UNION {of(review) : review \in BOOLEAN})' = UNION {of(review) : review \in BOOLEAN}
  BY <1>9
<1>11. Report = [by |-> "scan", rows |-> SourceRows \cup CandidateRows,
                 hits |-> UNION {of(review) : review \in BOOLEAN}, exit |-> ExitStatus]
  BY DEF Report, of
<1>12. Report' = [by |-> "scan", rows |-> SourceRows \cup CandidateRows,
                  hits |-> UNION {of(review) : review \in BOOLEAN}, exit |-> ExitStatus]'
  BY DEF Report, of
<1> QED BY <1>6, <1>7, <1>8, <1>10, <1>11, <1>12

\* What is heard of one source takes nothing from what has been compared.
LEMMA HeardMore ==
  ASSUME ScanInv, NEW view \in View, NEW s, NEW ks, NEW found, Heard(view, s, ks, found)
  PROVE  \A v \in View : compared[v] \subseteq compared'[v]
<1>1. compared' = [compared EXCEPT ![view] = @ \cup ({s} \X ks)]
  BY DEF Heard
<1>2. compared \in [View -> SUBSET Pair]
  BY DEF ScanInv, Types
<1> QED BY <1>1, <1>2

\* While the scan compares.
LEMMA CroppedNext ==
  ASSUME ScanInv, CroppedTwice, Compare \/ CompareCropped \/ Retried PROVE CroppedTwice'
<1>1. CASE Compare
  <2>1. PICK s \in tocompare :
          \/ \E found \in [Keys("candidate") -> Frame] :
               /\ Heard("full", s, Keys("candidate"), found)
               /\ results' = [x \in Pair |->
                    IF x[1] = s /\ x[2] \in Keys("candidate")
                      THEN [frames |-> found[x[2]], review |-> FALSE] ELSE results[x]]
          \/ UNCHANGED <<results, compared>>
    BY <1>1 DEF Compare, history
  <2>2. CASE UNCHANGED <<results, compared>>
    BY <2>2 DEF CroppedTwice
  <2>3. ASSUME NEW found \in [Keys("candidate") -> Frame],
               Heard("full", s, Keys("candidate"), found),
               results' = [x \in Pair |->
                 IF x[1] = s /\ x[2] \in Keys("candidate")
                   THEN [frames |-> found[x[2]], review |-> FALSE] ELSE results[x]]
        PROVE  CroppedTwice'
    <3>1. \A v \in View : compared[v] \subseteq compared'[v]
      BY <2>3, HeardMore DEF View
    <3>2. \A x \in Pair : results'[x].review => results[x].review
      BY <2>3
    <3> QED BY <3>1, <3>2 DEF CroppedTwice, Cross
  <2> QED BY <2>1, <2>2, <2>3
<1>2. CASE CompareCropped
  <2>1. results' = results
    BY <1>2 DEF CompareCropped, GiveUp
  <2>2. \A v \in View : compared[v] \subseteq compared'[v]
    <3>1. NextView \in View
      BY DEF NextView, View
    <3>2. \/ \E found : Heard(NextView, retry.source, retry.misses, found)
          \/ compared' = compared
      BY <1>2 DEF CompareCropped, GiveUp, history
    <3> QED BY <3>1, <3>2, HeardMore
  <2> QED BY <2>1, <2>2 DEF CroppedTwice, Cross
<1>3. CASE Retried
  <2>1. /\ phase = "fixing" /\ retry.done = Cross /\ compared' = compared
        /\ results' = [x \in Pair |->
             IF x[1] = retry.source /\ x[2] \in retry.misses /\ Selected(x[2]) > results[x].frames
               THEN [frames |-> Selected(x[2]), review |-> TRUE] ELSE results[x]]
    BY <1>3 DEF Retried, history
  <2>2. \A v \in Cross : \A c \in retry.misses : <<retry.source, c>> \in compared[v]
    BY <2>1 DEF ScanInv, Progress
  <2>3. ASSUME NEW x \in Pair, results'[x].review PROVE \A v \in Cross : x \in compared[v]
    <3>1. CASE x[1] = retry.source /\ x[2] \in retry.misses
      <4>1. x = <<retry.source, x[2]>>
        BY <3>1 DEF Pair
      <4> QED BY <2>2, <3>1, <4>1
    <3>2. CASE ~(x[1] = retry.source /\ x[2] \in retry.misses)
      <4>1. results'[x] = results[x]
        BY <2>1, <3>2
      <4> QED BY <2>3, <4>1 DEF CroppedTwice
    <3> QED BY <3>1, <3>2
  <2> QED BY <2>1, <2>3 DEF CroppedTwice
<1> QED BY <1>1, <1>2, <1>3

\* The process returns what the report says.
LEMMA HonestReturn ==
  ASSUME ScanInv, OnceInv, HonestInv, Return PROVE HonestInv'
<1>1. /\ UNCHANGED <<request, settings, inventory, paths, failures, unprofiled, results, error,
                     compared, measured, record>>
      /\ phase' = "ended"
      /\ \/ phase = "announcing" /\ exit' = ExitStatus
         \/ phase = "reporting" /\ ~settings.json /\ exit' = ExitStatus
         \/ phase = "failing" /\ exit' = "unusable"
  BY DEF Return, End, Enter, inputs, signing, analysis, search, history
<1>2. CroppedTwice'
  BY <1>1 DEF HonestInv, CroppedTwice
<1>3. CASE phase = "failing" /\ exit' = "unusable"
  BY <1>1, <1>2, <1>3, HonestKept DEF Frozen
<1>4. CASE exit' = ExitStatus /\ (phase = "announcing" \/ (phase = "reporting" /\ ~settings.json))
  <2>1. /\ phase = "announcing" => settings.json /\ record = Report
        /\ phase = "reporting" => record.by = "earlier"
    BY DEF HonestInv, Announced, OnceInv, Written, Over
  <2>2. Report.exit = ExitStatus /\ Report.by = "scan"
    BY DEF Report
  <2>3. ASSUME ExitStatus = "complete" PROVE AllDone'
    <3>1. AllDone
      BY <1>4, <2>3, CompleteIsDone DEF HonestInv, Telling
    <3> QED BY <1>1, <3>1, FrozenDone DEF Frozen
  <2>4. settings.json => record' = record /\ record.by = "scan" /\ record.exit = ExitStatus
    BY <1>1, <1>4, <2>1, <2>2
  <2>5. ExitIsHonest'
    <3>1. ASSUME record'.by = "scan", record'.exit = "complete" PROVE AllDone'
      <4>1. record = Report /\ ExitStatus = "complete"
        BY <1>1, <1>4, <2>1, <2>2, <3>1
      <4> QED BY <4>1, <2>3
    <3> QED BY <1>1, <1>4, <2>3, <2>4, <3>1 DEF ExitIsHonest
  <2>6. Announced'
    BY <1>1 DEF Announced
  <2> QED BY <1>2, <2>5, <2>6 DEF HonestInv
<1>5. \/ exit' = ExitStatus /\ (phase = "announcing" \/ (phase = "reporting" /\ ~settings.json))
      \/ phase = "failing" /\ exit' = "unusable"
  BY <1>1
<1> QED BY <1>3, <1>4, <1>5

LEMMA HonestReplace ==
  ASSUME ScanInv, OnceInv, HonestInv, Replace PROVE HonestInv'
<1>1. UNCHANGED <<request, settings, inventory, paths, failures, unprofiled, results, error,
                  compared, measured>>
  BY DEF Replace, inputs, signing, analysis, search, history
<1>f. Frozen
  BY <1>1 DEF Frozen
<1>2. CroppedTwice'
  BY <1>1 DEF HonestInv, CroppedTwice
<1>3. \/ phase = "replacing" /\ record' = Report /\ phase' = "announcing" /\ exit' = exit
      \/ /\ phase # "ended" /\ phase' = "ended" /\ exit' = "unusable"
         /\ record' = record \/ record'.by = "main"
  <2>1. LastResort.by = "main"
    BY DEF LastResort
  <2> QED BY <2>1 DEF Replace, End, Enter
<1>4. CASE phase = "replacing" /\ record' = Report /\ phase' = "announcing" /\ exit' = exit
  <2>1. settings'.json /\ exit' = "running"
    BY <1>1, <1>4 DEF HonestInv, Announced
  <2>2. record' = Report'
    BY <1>1, <1>4, SameReport
  <2>3. Report.exit = ExitStatus
    BY DEF Report
  <2>4. ASSUME record'.exit = "complete" PROVE AllDone'
    <3>1. AllDone
      BY <1>4, <2>3, <2>4, CompleteIsDone DEF HonestInv, Telling
    <3> QED BY <3>1, <1>f, FrozenDone
  <2>5. Announced' /\ ExitIsHonest'
    BY <1>4, <2>1, <2>2, <2>4 DEF Announced, ExitIsHonest
  <2> QED BY <1>2, <2>5 DEF HonestInv
<1>5. CASE /\ phase # "ended" /\ phase' = "ended" /\ exit' = "unusable"
           /\ record' = record \/ record'.by = "main"
  BY <1>2, <1>5, <1>f, HonestKept
<1> QED BY <1>3, <1>4, <1>5

LEMMA HonestNext == ScanInv /\ OnceInv /\ HonestInv /\ [Next]_vars => HonestInv'
<1> SUFFICES ASSUME ScanInv, OnceInv, HonestInv, [Next]_vars PROVE HonestInv'
  OBVIOUS
<1>1. CASE UNCHANGED vars
  <2>1. UNCHANGED <<request, settings, phase, inventory, paths, failures, unprofiled, results, error,
                    record, exit, compared, measured>>
    BY <1>1 DEF vars, inputs, signing, analysis, search, history
  <2>2. CroppedTwice'
    BY <2>1 DEF HonestInv, CroppedTwice
  <2>3. Announced'
    <3>1. Report' = Report
      BY <2>1, SameReport
    <3> QED BY <2>1, <3>1 DEF HonestInv, Announced
  <2>4. ExitIsHonest'
    BY <2>1, FrozenDone DEF Frozen, HonestInv, ExitIsHonest
  <2> QED BY <2>2, <2>3, <2>4 DEF HonestInv
<1>2. CASE \/ \E role \in Role : Collect(role) \/ Sign(role)
           \/ SourcesSigned \/ CandidatesSigned \/ Profile \/ Prepared
  <2>1. /\ phase' \notin {"ended", "announcing", "replacing"} /\ phase \notin Over
        /\ exit' = exit /\ record' = record /\ UNCHANGED <<results, compared>>
    BY <1>2 DEF Collect, Sign, SourcesSigned, CandidatesSigned, Profile, Prepared, Enter, Role,
                Over, search, history
  <2>2. CroppedTwice'
    BY <2>1 DEF HonestInv, CroppedTwice
  <2> QED BY <2>1, <2>2, HonestKept DEF Over
<1>3. CASE Compared \/ Retry \/ Fix \/ AllRetried
  <2>1. /\ phase' \notin {"ended", "announcing", "replacing"} /\ phase \notin Over
        /\ exit' = exit /\ record' = record /\ UNCHANGED <<results, compared>>
    BY <1>3 DEF Compared, Retry, Fix, GiveUp, AllRetried, Enter, Over, search, history
  <2>2. CroppedTwice'
    BY <2>1 DEF HonestInv, CroppedTwice
  <2> QED BY <2>1, <2>2, HonestKept DEF Over
<1>4. CASE Compare \/ CompareCropped \/ Retried
  <2>1. /\ phase' \notin {"ended", "announcing", "replacing"} /\ phase \notin Over
        /\ exit' = exit /\ record' = record
    BY <1>4 DEF Compare, CompareCropped, Retried, GiveUp, Enter, Over
  <2>2. CroppedTwice'
    BY <1>4, CroppedNext DEF HonestInv
  <2> QED BY <2>1, <2>2, HonestKept DEF Over
<1>5. CASE Save \/ Fatal \/ Killed
  <2>1. /\ \/ phase' # "ended" /\ exit' = exit
           \/ phase' = "ended" /\ exit' \in {"unusable", "killed"}
        /\ phase # "ended" /\ phase' # "announcing"
        /\ phase' = "replacing" => settings'.json
        /\ UNCHANGED <<results, compared, record>> /\ Frozen
    BY <1>5 DEF Save, Fatal, Killed, End, Enter, Frozen, inputs, signing, analysis, search, history
  <2>2. CroppedTwice'
    BY <2>1 DEF HonestInv, CroppedTwice
  <2> QED BY <2>1, <2>2, HonestKept DEF Over
<1>6. CASE Replace
  BY <1>6, HonestReplace
<1>7. CASE Return
  BY <1>7, HonestReturn
<1> QED BY <1>1, <1>2, <1>3, <1>4, <1>5, <1>6, <1>7 DEF Next

\* "Complete", as the status or in the record of this scan, is earned: everything
\* requested has been done, however the process ended after it wrote the record; and
\* a status that scan returns, unless it is that of a failure, is the one its record has
\* (summarise, write_record and main).
THEOREM StatusIsHonest == Spec => []ExitIsHonest
<1>1. Spec => []HonestInv
  BY HonestInit, HonestNext, ScanInvariant, OnceAlways, PTL DEF Spec
<1>2. HonestInv => ExitIsHonest
  BY DEF HonestInv
<1> QED BY <1>1, <1>2, PTL

-----------------------------------------------------------------------------
(* The type invariant *)

\* What the other variables hold.
RestTyped ==
  /\ phase \in Phase
  /\ unprofiled \in SUBSET Path
  /\ toprofile \in SUBSET (Role \X Content)
  /\ completed \in SUBSET Content
  /\ error \in {"none", "prepare", "compare", "crop_fallback"}
  /\ fixed \in [Role -> [Content -> {"none", "ready", "failed"}]]
  /\ retry \in [source : Content \cup {0}, misses : SUBSET Content, done : SUBSET Cross,
                found : [Cross -> [Content -> Frame]]]
  /\ record \in Record
  /\ exit \in {"running", "complete", "incomplete", "unusable", "killed"}

LEMMA RestInit == Init => RestTyped
<1> SUFFICES ASSUME Init PROVE RestTyped
  OBVIOUS
<1>1. 0 \in Frame
  BY FramesAssumption DEF Frame
<1>2. retry \in [source : Content \cup {0}, misses : SUBSET Content, done : SUBSET Cross,
                 found : [Cross -> [Content -> Frame]]]
  BY <1>1 DEF Init, NoRetry
<1>3. record \in Record
  BY DEF Init, Earlier, Record
<1>4. QED
  BY <1>2, <1>3 DEF Init, RestTyped, Phase

\* A report says of each path and pair something a record can say.
LEMMA ReportTyped ==
  ASSUME Types, RestTyped
  PROVE  Report \in Record /\ LastResort \in Record /\ ExitStatus \in {"complete", "incomplete", "unusable"}
<1>1. ExitStatus \in {"complete", "incomplete", "unusable"}
  BY DEF ExitStatus
<1>2. \A k \in Content : Status(k) \in {"matched", "needs_review", "checked", "not_compared"}
  BY DEF Status
<1>3. /\ \A k \in Content : paths["source"][k] \subseteq Path /\ paths["candidate"][k] \subseteq Path
      /\ failures["source"] \subseteq Path /\ failures["candidate"] \subseteq Path
      /\ inventory["source"] \subseteq Path /\ inventory["candidate"] \subseteq Path
  BY DEF Types, Role
<1>4. \A role \in Role, p \in Path,
         status \in {"processed", "failed", "matched", "needs_review", "checked", "not_compared", "skipped"},
         why \in {"signed", "failure", "source", "no usable source", "scan failed"} :
        Row(role, p, status, why) \in Rows
  BY DEF Row, Rows
<1>5. SourceRows \subseteq Rows
  <2>1. ProcessedSources \subseteq Rows
    <3> SUFFICES ASSUME NEW r \in ProcessedSources PROVE r \in Rows
      OBVIOUS
    <3>1. PICK k \in Content : \E p \in paths["source"][k] : r = Row("source", p, "processed", "signed")
      BY DEF ProcessedSources
    <3>2. QED
      BY <3>1, <1>3, <1>4 DEF Role
  <2>2. FailedSources \subseteq Rows
    BY <1>3, <1>4 DEF FailedSources, Role
  <2>3. QED
    BY <2>1, <2>2 DEF SourceRows
<1>6. CandidateRows \subseteq Rows
  <2>1. SignedRows \subseteq Rows
    <3> SUFFICES ASSUME NEW r \in SignedRows PROVE r \in Rows
      OBVIOUS
    <3>1. PICK k \in Content : \E p \in paths["candidate"][k] : r = Row("candidate", p, Status(k), "signed")
      BY DEF SignedRows
    <3>2. QED
      BY <3>1, <1>2, <1>3, <1>4 DEF Role
  <2>2. FailedRows \subseteq Rows /\ SkippedRows \subseteq Rows
    BY <1>3, <1>4 DEF FailedRows, SkippedRows, Skipped, Role
  <2>3. QED
    BY <2>1, <2>2, <1>3, <1>4 DEF CandidateRows, Role
<1>7. Report.hits \in SUBSET [source : Content, candidate : Content, review : BOOLEAN]
  BY DEF Report, Hits, Pair
<1>8. LastResort.rows \subseteq Rows
  <2> SUFFICES ASSUME NEW r \in LastResort.rows PROVE r \in Rows
    OBVIOUS
  <2>1. PICK role \in Role : \E p \in inventory[role] : r = Row(role, p, "not_compared", "scan failed")
    BY DEF LastResort
  <2>2. QED
    BY <2>1, <1>3, <1>4 DEF Role
<1>9. QED
  BY <1>1, <1>5, <1>6, <1>7, <1>8 DEF Report, LastResort, Record

\* Every step leaves the other variables typed.
LEMMA RestNext == ScanInv /\ RestTyped /\ [Next]_vars => RestTyped'
<1> SUFFICES ASSUME ScanInv, RestTyped, [Next]_vars PROVE RestTyped'
  OBVIOUS
<1>a. Types /\ Types'
  BY ScanNext DEF ScanInv
<1>u. \A role \in Role : Keys(role) \subseteq Content
  BY DEF Keys
<1>1. CASE UNCHANGED vars
  BY <1>1 DEF RestTyped, vars, analysis, search
<1>2. ASSUME NEW role \in Role, Collect(role) \/ Sign(role) PROVE RestTyped'
  BY <1>2 DEF RestTyped, Collect, Sign, Enter, Phase, analysis, search
<1>3. CASE SourcesSigned \/ CandidatesSigned
  BY <1>3, <1>u DEF RestTyped, SourcesSigned, CandidatesSigned, Enter, Phase, analysis, search
<1>4. CASE Profile
  <2>1. \A e \in Role \X Content : paths[e[1]][e[2]] \subseteq Path
    BY <1>a DEF Types
  <2>2. unprofiled' \in SUBSET Path /\ toprofile' \in SUBSET (Role \X Content)
    BY <1>4, <2>1 DEF RestTyped, Profile
  <2>3. QED
    BY <1>4, <2>2 DEF RestTyped, Profile, search
<1>5. CASE Prepared
  BY <1>5 DEF RestTyped, Prepared, Enter, Phase, analysis
<1>6. CASE Compare
  BY <1>6, <1>a DEF RestTyped, Compare, Enter, Phase, analysis, Types
<1>7. CASE Compared
  BY <1>7, <1>a DEF RestTyped, Compared, Enter, Phase, analysis, Types
<1>8. CASE Retry
  <2>1. PICK s \in tocompare :
         \/ /\ completed' = completed \cup {s}
            /\ UNCHANGED <<phase, retry>>
         \/ /\ retry' = [NoRetry EXCEPT !.source = s, !.misses = Misses(s)]
            /\ Enter("fixing")
            /\ UNCHANGED <<tocompare, completed>>
    BY <1>8 DEF Retry
  <2>2. s \in Content /\ Misses(s) \in SUBSET Content
    BY <1>a, <1>u DEF Types, Misses, Role
  <2>3. NoRetry \in [source : Content \cup {0}, misses : SUBSET Content, done : SUBSET Cross,
                     found : [Cross -> [Content -> Frame]]]
    BY FramesAssumption DEF NoRetry, Frame
  <2>4. /\ retry' \in [source : Content \cup {0}, misses : SUBSET Content, done : SUBSET Cross,
                       found : [Cross -> [Content -> Frame]]]
        /\ completed' \in SUBSET Content /\ phase' \in Phase
    BY <2>1, <2>2, <2>3 DEF RestTyped, Enter, Phase
  <2>5. QED
    BY <1>8, <2>4 DEF RestTyped, Retry, analysis
<1>9. CASE Fix
  <2>1. PICK e \in Unfixed : fixed' = [fixed EXCEPT ![e[1]][e[2]] = "ready"]
                             \/ fixed' = [fixed EXCEPT ![e[1]][e[2]] = "failed"]
    BY <1>9 DEF Fix
  <2>2. fixed' \in [Role -> [Content -> {"none", "ready", "failed"}]]
    <3>1. e[1] \in Role /\ e[2] \in Content
      BY <1>9, <1>a DEF Fix, Unfixed, Role, ScanInv, Progress, Types
    <3>2. QED
      BY <2>1, <3>1 DEF RestTyped
  <2>3. /\ phase' \in Phase /\ error' \in {"none", "prepare", "compare", "crop_fallback"}
        /\ UNCHANGED <<unprofiled, toprofile, completed, retry, record, exit>>
    BY <1>9 DEF RestTyped, Fix, GiveUp, Enter, Phase, analysis
  <2>4. QED
    BY <2>2, <2>3 DEF RestTyped
<1>10. CASE CompareCropped
  <2>1. CASE GiveUp /\ UNCHANGED fixed
    BY <2>1 DEF RestTyped, GiveUp, Enter, Phase, analysis
  <2>2. CASE /\ \E found \in [retry.misses -> Frame] :
                  retry' = [retry EXCEPT !.done = @ \cup {NextView},
                              !.found[NextView] = [c \in Content |->
                                 IF c \in retry.misses THEN found[c] ELSE 0]]
             /\ UNCHANGED <<phase, unprofiled, toprofile, completed, error, fixed, record, exit>>
    <3>1. PICK found \in [retry.misses -> Frame] :
             retry' = [retry EXCEPT !.done = @ \cup {NextView},
                         !.found[NextView] = [c \in Content |->
                            IF c \in retry.misses THEN found[c] ELSE 0]]
      BY <2>2
    <3>2. NextView \in Cross
      BY DEF NextView, Cross, View
    <3>3. [c \in Content |-> IF c \in retry.misses THEN found[c] ELSE 0] \in [Content -> Frame]
      BY FramesAssumption DEF Frame
    <3>4. retry' \in [source : Content \cup {0}, misses : SUBSET Content, done : SUBSET Cross,
                      found : [Cross -> [Content -> Frame]]]
      BY <3>1, <3>2, <3>3 DEF RestTyped
    <3>5. QED
      BY <2>2, <3>4 DEF RestTyped
  <2>3. QED
    BY <1>10, <2>1, <2>2 DEF CompareCropped, analysis
<1>11. CASE Retried
  <2>1. retry.source \in Content
    BY <1>11, <1>a DEF Retried, ScanInv, Progress, Types
  <2>2. NoRetry \in [source : Content \cup {0}, misses : SUBSET Content, done : SUBSET Cross,
                     found : [Cross -> [Content -> Frame]]]
    BY FramesAssumption DEF NoRetry, Frame
  <2>3. QED
    BY <1>11, <2>1, <2>2 DEF RestTyped, Retried, Enter, Phase, analysis
<1>12. CASE AllRetried
  BY <1>12 DEF RestTyped, AllRetried, Enter, Phase, analysis, search
<1>13. CASE Save
  BY <1>13 DEF RestTyped, Save, Enter, End, Phase, analysis, search
<1>14. CASE Replace
  <2>1. Report \in Record /\ LastResort \in Record
    BY <1>a, ReportTyped
  <2>2. QED
    BY <1>14, <2>1 DEF RestTyped, Replace, Enter, End, Phase, analysis, search
<1>15. CASE Return
  <2>1. ExitStatus \in {"complete", "incomplete", "unusable"}
    BY <1>a, ReportTyped
  <2>2. QED
    BY <1>15, <2>1 DEF RestTyped, Return, Enter, End, Phase, analysis, search
<1>16. CASE Fatal \/ Killed
  BY <1>16 DEF RestTyped, Fatal, Killed, Enter, End, Phase, analysis, search
<1>17. QED
  BY <1>1, <1>2, <1>3, <1>4, <1>5, <1>6, <1>7, <1>8, <1>9, <1>10, <1>11, <1>12, <1>13,
     <1>14, <1>15, <1>16 DEF Next

\* Every variable keeps its type; above all the file --json names is a whole
\* record at every step of its replacement.
THEOREM RecordIsWhole == Spec => []TypeOK
<1>1. ScanInv /\ RestTyped => TypeOK
  BY DEF ScanInv, Types, RestTyped, TypeOK
<1>2. QED
  BY <1>1, RestInit, RestNext, ScanInit, ScanNext, PTL DEF Spec
=============================================================================
