--------------------------- MODULE MCAnalysisPass ---------------------------
(***************************************************************************)
(* Two scans, one of them quiet, and a video that becomes another.         *)
(***************************************************************************)
EXTENDS AnalysisPass

CONSTANTS s1, s2, c1, c2

Ask(c, o) == [hash |-> c, overwrite |-> o]
\* Both want one profile.
FewCalls == {[s \in Scan |-> Ask(c1, o /\ s = s1)] : o \in BOOLEAN}

Messages == {"starting", "hashing", "locking", "hit", "missed", "probing", "analyzing",
             "reading", "saving", "finished", "failed"}
=============================================================================
