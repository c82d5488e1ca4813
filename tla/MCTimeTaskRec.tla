---------------------------- MODULE MCTimeTaskRec ----------------------------
(***************************************************************************)
(* TimeTaskRec for TLC: the sets of record shapes that are put.            *)
(***************************************************************************)
EXTENDS TimeTaskRec

CONSTANTS
    MCTimes,        \* the times rows carry
    MCTypes,        \* the types of field the calls find, "none" for none
    MaxRecRows      \* rows in one record

HasNil(col) == \E i \in DOMAIN col.nils : col.nils[i]

\* Every shape of at most MaxRecRows rows whose times do not decrease (a
\* column that no call reads is given no nils: nothing looks at them).
MCAllRecords ==
    {sh \in UNION {Shape(MCTimes, MCTypes, n) : n \in 0 .. MaxRecRows} :
        /\ \A i \in DOMAIN sh.times \ {1} : sh.times[i - 1] <= sh.times[i]
        /\ \A c \in Calls : sh.cols[c].type = "none" => ~HasNil(sh.cols[c])}

\* The shapes in which only the columns that are counted have nil rows.
MCNilsCountedOnly ==
    {sh \in MCAllRecords :
        \A c \in Calls \ CountCalls :
            sh.cols[c].type = "none" \/ ~HasNil(sh.cols[c])}

\* The shapes whose rows are all of one time and without a nil.
MCPlainRecords ==
    {sh \in MCAllRecords :
        /\ \A i \in DOMAIN sh.times : sh.times[i] = sh.times[1]
        /\ \A c \in Calls : ~HasNil(sh.cols[c])}

=============================================================================
