-------------------------- MODULE MCComparisonRun --------------------------
(***************************************************************************)
(* Small instances of ComparisonRun: which command lines are started, and  *)
(* which lines fuse.                                                       *)
(***************************************************************************)
EXTENDS ComparisonRun, TLC

CONSTANTS a, b, c, r1, r2

\* -l files: every entry is a source.
List(r, files) == [run |-> r, files |-> files, sources |-> Len(files), incremental |-> FALSE]
\* -n files of which the first n are new.
Added(r, files, n) == [run |-> r, files |-> files, sources |-> n, incremental |-> TRUE]

TwoBuilds   == {List(r1, <<a, b, c>>), List(r2, <<a, b, c>>)}
GrowingList == {List(r1, <<a, b>>), List(r1, <<c, b, a>>)}
OneList     == {List(r1, <<a, b, c>>)}
NewFiles    == {Added(r1, <<a, b, c>>, 1), Added(r1, <<b, c, a>>, 2)}
\* The first one names a file twice, the second one is of another build.
MoreLists   == GrowingList \cup NewFiles \cup {List(r1, <<a, b, a>>), List(r2, <<a, b, c>>)}

OldPair == {{a, b}}

\* The files are a = "bb.sig", b = "b.sig" and c = "z.sig": after the half line
\* "b", the line "b.sig<Tab>z.sig" of {b, c} reads as that of {a, c}, and the
\* line "b.sig<Tab>bb.sig" of {a, b} names a file with itself.
Spelling == {<<{b, c}, {a, c}>>, <<{a, b}, {a}>>}

\* Workers and contents are interchangeable: no definition tells one from another.
Symmetry == Permutations(Worker) \cup Permutations(Content)
=============================================================================
