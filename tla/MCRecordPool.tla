----------------------------- MODULE MCRecordPool -----------------------------
(***************************************************************************)
(* RecordPool for TLC: two cursors with rings of three records over a      *)
(* cache of four, so that a Put finds the cache full, and limits of 2      *)
(* fields and 1 row in place of 512 and 2024, so that the schema of three  *)
(* fields and a record of two rows are too large to be pooled.             *)
(***************************************************************************)
EXTENDS RecordPool, TLC

\* a slice of two fields and one of three
MCSchemas == [a |-> <<1, 2>>, c |-> <<1, 2, 3>>]

\* two slices of two fields each, with different fields
MCSchemasAlias == [a |-> <<1, 2>>, b |-> <<3, 4>>]

MCSymmetry == Permutations(Cursors) \cup Permutations(Records)
===============================================================================
