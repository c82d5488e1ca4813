--------------------------- MODULE RecordOwnership ----------------------------
(***************************************************************************)
(* What a pool of records promises to the cursors that share it, with      *)
(* nothing of how the pool keeps its records: a record is held by at most  *)
(* one cursor, a cursor is handed only a record that nobody holds and that *)
(* carries no data, only the holder of a record writes or clears it, and a *)
(* record that is handed back carries no data.                             *)
(*                                                                         *)
(* Module RecordPool, the pools of lib/record/record.go, implements this   *)
(* specification under the mapping given there.                            *)
(***************************************************************************)
CONSTANTS Holders,      \* who can hold a record
          Records       \* the records

VARIABLES lease,        \* lease[r]: the holders of record r
          data          \* data[r]: record r has rows of its holder's

ownership == <<lease, data>>

TypeOK ==
    /\ lease \in [Records -> SUBSET Holders]
    /\ data \in [Records -> BOOLEAN]

Init ==
    /\ lease = [r \in Records |-> {}]
    /\ data = [r \in Records |-> FALSE]

\* h is handed r, which is free and empty
Acquire(h, r) ==
    /\ lease[r] = {}
    /\ ~data[r]
    /\ lease' = [lease EXCEPT ![r] = {h}]
    /\ UNCHANGED data

\* the holder of r fills it
Write(h, r) ==
    /\ lease[r] = {h}
    /\ data' = [data EXCEPT ![r] = TRUE]
    /\ UNCHANGED lease

\* the holder of r empties it to fill it again
Clear(h, r) ==
    /\ lease[r] = {h}
    /\ data' = [data EXCEPT ![r] = FALSE]
    /\ UNCHANGED lease

\* the holder of r hands it back, and what it wrote is gone
Release(h, r) ==
    /\ lease[r] = {h}
    /\ lease' = [lease EXCEPT ![r] = {}]
    /\ data' = [data EXCEPT ![r] = FALSE]

Next ==
    \E h \in Holders, r \in Records :
        \/ Acquire(h, r)
        \/ Write(h, r)
        \/ Clear(h, r)
        \/ Release(h, r)

Spec == Init /\ [][Next]_ownership
===============================================================================
