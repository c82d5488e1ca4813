-------------------------- MODULE MCCompactionPlan --------------------------
(***************************************************************************)
(* mmsPlan against the tables of TestCompactionPlan and                    *)
(* TestCompactionPlanWithAbnormal (tssp_file_reader_test.go:1062, 1287):   *)
(* every case is planned at level 2 with four files to a group, as the     *)
(* tests do.  A name is written <<sequence, level, extent>>.               *)
(***************************************************************************)
EXTENDS CompactionPlan

VARIABLE case      \* the case under test

Name(n) == [seq |-> n[1], level |-> n[2], extent |-> n[3], order |-> TRUE]

Names(list) == {Name(list[i]) : i \in DOMAIN list}

L0(from, to) == [i \in 1 .. (to - from + 1) |-> <<from + i - 1, 0, 0>>]

Extents1And21 ==
    <<<<1, 2, 0>>, <<1, 2, 1>>, <<1, 2, 2>>, <<21, 2, 0>>, <<21, 2, 1>>>>

Level1Run == <<<<41, 1, 0>>, <<49, 1, 0>>, <<51, 1, 0>>, <<59, 1, 0>>>>

Cases ==
    << \* TestCompactionPlan
       [files |-> L0(1, 8) \o <<<<9, 2, 0>>, <<11, 2, 0>>, <<19, 2, 0>>, <<21, 1, 0>>>>,
        inCompaction |-> <<>>, groups |-> {}],
       [files |-> <<<<0, 0, 0>>, <<1, 2, 0>>, <<9, 2, 0>>, <<11, 2, 0>>, <<19, 2, 0>>, <<21, 1, 0>>>>,
        inCompaction |-> <<>>, groups |-> {{1, 9, 11, 19}}],
       [files |-> <<<<1, 2, 0>>, <<9, 2, 0>>, <<11, 2, 0>>, <<19, 2, 0>>>>,
        inCompaction |-> <<>>, groups |-> {{1, 9, 11, 19}}],
       [files |-> Extents1And21 \o <<<<41, 2, 0>>, <<49, 2, 0>>, <<51, 2, 0>>>>,
        inCompaction |-> <<>>, groups |-> {}],
       [files |-> Extents1And21 \o <<<<41, 2, 0>>, <<49, 2, 0>>, <<51, 2, 0>>, <<59, 2, 0>>>>,
        inCompaction |-> <<>>, groups |-> {{41, 49, 51, 59}}],
       [files |-> Extents1And21 \o <<<<41, 2, 0>>, <<49, 2, 0>>, <<51, 2, 0>>, <<59, 2, 0>>, <<59, 2, 1>>>>,
        inCompaction |-> <<>>, groups |-> {}],
       [files |-> Extents1And21 \o <<<<41, 2, 0>>, <<49, 2, 0>>, <<49, 2, 1>>, <<49, 2, 2>>,
                                     <<51, 2, 0>>, <<59, 2, 0>>, <<61, 2, 0>>, <<69, 2, 0>>, <<71, 2, 0>>>>,
        inCompaction |-> <<>>, groups |-> {{51, 59, 61, 69}}],
       [files |-> <<<<0, 0, 0>>, <<1, 2, 0>>, <<9, 2, 0>>, <<11, 2, 0>>, <<19, 2, 0>>, <<21, 2, 0>>,
                    <<29, 2, 0>>, <<29, 2, 1>>, <<31, 2, 0>>, <<39, 2, 0>>, <<39, 2, 1>>,
                    <<41, 2, 0>>, <<49, 2, 0>>, <<51, 2, 0>>, <<59, 2, 0>>, <<61, 2, 0>>>>,
        inCompaction |-> <<>>, groups |-> {{1, 9, 11, 19}, {41, 49, 51, 59}}],
       \* TestCompactionPlanWithAbnormal
       [files |-> L0(1, 8) \o <<<<9, 2, 0>>, <<11, 2, 0>>, <<19, 2, 0>>, <<21, 2, 0>>, <<29, 1, 0>>>>,
        inCompaction |-> <<<<2, 0, 0>>, <<3, 0, 0>>>>, groups |-> {{9, 11, 19, 21}}],
       [files |-> <<<<0, 0, 0>>, <<1, 2, 0>>, <<9, 2, 0>>, <<11, 2, 0>>, <<19, 2, 0>>, <<21, 1, 0>>>>,
        inCompaction |-> <<<<1, 2, 0>>>>, groups |-> {}],
       [files |-> <<<<1, 2, 0>>, <<9, 2, 0>>, <<11, 2, 0>>, <<19, 2, 0>>, <<21, 2, 0>>>>,
        inCompaction |-> <<<<1, 2, 0>>>>, groups |-> {}],
       [files |-> <<<<1, 2, 0>>, <<9, 2, 0>>, <<11, 2, 0>>, <<19, 2, 0>>, <<21, 2, 0>>>>,
        inCompaction |-> <<<<11, 2, 0>>>>, groups |-> {}],
       [files |-> <<<<1, 1, 0>>, <<2, 1, 0>>, <<3, 1, 0>>, <<4, 1, 0>>,
                    <<9, 2, 0>>, <<11, 2, 0>>, <<19, 2, 0>>, <<21, 2, 0>>, <<29, 0, 0>>>>,
        inCompaction |-> <<>>, groups |-> {{9, 11, 19, 21}}],
       [files |-> <<<<1, 2, 0>>, <<21, 2, 0>>>> \o Level1Run \o
                  <<<<61, 2, 0>>, <<81, 2, 0>>, <<101, 2, 0>>, <<121, 2, 0>>>>,
        inCompaction |-> <<>>, groups |-> {{61, 81, 101, 121}}],
       [files |-> <<<<1, 2, 0>>, <<21, 2, 0>>>> \o Level1Run \o
                  <<<<61, 2, 0>>, <<81, 2, 0>>, <<101, 2, 0>>, <<121, 2, 0>>>>,
        inCompaction |-> <<<<61, 2, 0>>>>, groups |-> {}],
       [files |-> Extents1And21 \o <<<<41, 2, 0>>, <<49, 2, 0>>, <<51, 2, 0>>>>,
        inCompaction |-> <<<<21, 2, 1>>>>, groups |-> {}],
       [files |-> Extents1And21 \o <<<<41, 2, 0>>, <<49, 2, 0>>, <<51, 2, 0>>, <<59, 2, 0>>, <<59, 2, 1>>>>,
        inCompaction |-> <<<<59, 2, 1>>>>, groups |-> {}],
       [files |-> Extents1And21 \o Level1Run \o <<<<61, 2, 0>>, <<81, 2, 0>>, <<101, 2, 0>>>>,
        inCompaction |-> <<>>, groups |-> {}] >>

Init == case = 1

Next == case < Len(Cases) /\ case' = case + 1

Spec == Init /\ [][Next]_case

\* The groups of the case, each as the set of its sequence numbers.
Planned ==
    {{f.seq : f \in g} :
        g \in mmsPlan(InOrder(Names(Cases[case].files)), 2, 4, Names(Cases[case].inCompaction))}

\* mmsPlan gives the groups the tests of the planner expect, with and
\* without files marked as in compaction beforehand.
PlanIsTheExpectedGroups == Planned = Cases[case].groups

=============================================================================
