--------------------------- MODULE CompactionPlan ---------------------------
(***************************************************************************)
(* The level compaction planner, from spec.md 4.2 (ordering, adjacency)    *)
(* and 4.5 (the code is not in src/).  TestCompactionPlan and              *)
(* TestCompactionPlanWithAbnormal of                                       *)
(* src/engine/immutable/tssp_file_reader_test.go hold the groups it is     *)
(* expected to give; MCCompactionPlan checks the operator against them.    *)
(*                                                                         *)
(* A file name is a record [seq, level, extent, order]; the merge counter  *)
(* of the name takes no part in planning and is left out.  The plan is a   *)
(* set of groups, each a set of names: the order of the groups and of the  *)
(* names in one is the order of the list, which InOrder gives back.        *)
(***************************************************************************)
EXTENDS Integers, Sequences, FiniteSets

\* The ordering of two names: by sequence, then by extent.
Before(a, b) == a.seq < b.seq \/ (a.seq = b.seq /\ a.extent < b.extent)

\* A file set as the sorted list the planner scans.
RECURSIVE InOrder(_)
InOrder(files) ==
    IF files = {} THEN <<>>
    ELSE LET first == CHOOSE a \in files : \A b \in files \ {a} : Before(a, b)
         IN  <<first>> \o InOrder(files \ {first})

Between(i, j) == (i .. j) \cup (j .. i)

\* list[i] is an extent of a file that was split into several.
Split(list, i) ==
    \E j \in DOMAIN list : list[j].seq = list[i].seq /\ list[j].extent > 0

\* The span of list[i]: the files of the level around it that no file of
\* another level separates from it.
Span(list, level, i) ==
    {j \in DOMAIN list : \A k \in Between(i, j) : list[k].level = level}

\* mutant: the in-compaction set is not looked at
Poolable_IgnoresMarks(list, level, inCompact, i) ==
    /\ list[i].level = level
    /\ ~Split(list, i)

\* list[i] may be pooled: it has the level, it is a whole file, and nothing
\* of its span is in compaction.
Poolable(list, level, inCompact, i) ==
    /\ list[i].level = level
    /\ ~Split(list, i)
    /\ \A j \in Span(list, level, i) : list[j] \notin inCompact

\* The candidates list[i] is accumulated with: the poolable files next to it.
Run(list, level, inCompact, i) ==
    {j \in DOMAIN list : \A k \in Between(i, j) : Poolable(list, level, inCompact, k)}

\* The places a group starts at: every minGroupFileN-th file of a run, when
\* the run still holds a whole group from there.
Starts(list, level, minGroupFileN, inCompact) ==
    {i \in DOMAIN list :
        /\ Poolable(list, level, inCompact, i)
        /\ i + minGroupFileN - 1 \in Run(list, level, inCompact, i)
        /\ Cardinality({j \in Run(list, level, inCompact, i) : j < i}) % minGroupFileN = 0}

\* One planning pass over the files of a measurement at a level.
mmsPlan(list, level, minGroupFileN, inCompact) ==
    {{list[j] : j \in i .. (i + minGroupFileN - 1)} :
        i \in Starts(list, level, minGroupFileN, inCompact)}

=============================================================================
