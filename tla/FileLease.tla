----------------------------- MODULE FileLease -----------------------------
(***************************************************************************)
(* What a sealed TSSP file promises its owners (spec.md 3 "TSSPFile",      *)
(* 4.4 and the first design note of 9): a handle shared by many owners,    *)
(* released exactly once, at the step at which the file is both closed     *)
(* and unreferenced, and never read or evicted under an owner.             *)
(*                                                                         *)
(* There is no counter and no flag here: the owners of a file are a set    *)
(* of threads.  TsspFile keeps a counter and two flags instead, and        *)
(* MmsTables shows that the threads of the table store drive them as       *)
(* this specification allows.                                              *)
(***************************************************************************)
EXTENDS Naturals

CONSTANTS Files,      \* the files
          Threads     \* the owners: queries, compactions, droppers

VARIABLES holders,    \* holders[f]: the threads that hold a reference to f
          users,      \* users[f]: the holders that are reading f right now
          closing,    \* the files a close was requested for
          freed,      \* freed[f]: how often the handle of f was released
          inMemory    \* the files whose blocks are cached in memory

leaseVars == <<holders, users, closing, freed, inMemory>>

LeaseTypeOK ==
    /\ holders \in [Files -> SUBSET Threads]
    /\ users \in [Files -> SUBSET Threads]
    /\ closing \subseteq Files
    /\ freed \in [Files -> {0, 1}]
    /\ inMemory \subseteq Files

LeaseInit ==
    /\ holders = [f \in Files |-> {}]
    /\ users = [f \in Files |-> {}]
    /\ closing = {}
    /\ freed = [f \in Files |-> 0]
    /\ inMemory = {}

\* The handle of f goes, and the cached blocks with it.
Freed(f) ==
    /\ freed' = [freed EXCEPT ![f] = 1]
    /\ inMemory' = inMemory \ {f}

\* A thread takes a reference.  It may be late: the file may be closed, or
\* released, by then.
Acquire(t, f) ==
    /\ t \notin holders[f]
    /\ holders' = [holders EXCEPT ![f] = @ \cup {t}]
    /\ UNCHANGED <<users, closing, freed, inMemory>>

\* Only a holder reads, and only what is not released.
BeginUse(t, f) ==
    /\ t \in holders[f] \ users[f]
    /\ freed[f] = 0
    /\ users' = [users EXCEPT ![f] = @ \cup {t}]
    /\ UNCHANGED <<holders, closing, freed, inMemory>>

EndUse(t, f) ==
    /\ t \in users[f]
    /\ users' = [users EXCEPT ![f] = @ \ {t}]
    /\ UNCHANGED <<holders, closing, freed, inMemory>>

\* A holder that is not reading gives its reference back.  The last one out
\* of a closing file releases it, in the same step.
Release(t, f) ==
    /\ t \in holders[f] \ users[f]
    /\ holders' = [holders EXCEPT ![f] = @ \ {t}]
    /\ IF f \in closing /\ holders[f] = {t} /\ freed[f] = 0
          THEN Freed(f)
          ELSE UNCHANGED <<freed, inMemory>>
    /\ UNCHANGED <<users, closing>>

\* A close is requested once.  It releases an unreferenced file at once and
\* leaves a referenced one to its last holder.
RequestClose(f) ==
    /\ f \notin closing
    /\ closing' = closing \cup {f}
    /\ IF holders[f] = {}
          THEN Freed(f)
          ELSE UNCHANGED <<freed, inMemory>>
    /\ UNCHANGED <<holders, users>>

Load(f) ==
    /\ f \notin closing
    /\ inMemory' = inMemory \cup {f}
    /\ UNCHANGED <<holders, users, closing, freed>>

\* Cached blocks go only while nobody holds the file.
Evict(f) ==
    /\ holders[f] = {}
    /\ inMemory' = inMemory \ {f}
    /\ UNCHANGED <<holders, users, closing, freed>>

LeaseNext ==
    \E f \in Files :
        \/ \E t \in Threads : Acquire(t, f) \/ BeginUse(t, f) \/ EndUse(t, f) \/ Release(t, f)
        \/ RequestClose(f)
        \/ Load(f)
        \/ Evict(f)

LeaseSpec == LeaseInit /\ [][LeaseNext]_leaseVars

=============================================================================
