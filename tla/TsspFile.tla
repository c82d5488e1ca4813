------------------------------ MODULE TsspFile ------------------------------
(***************************************************************************)
(* The reference-counted lifecycle of a sealed TSSP file, from spec.md 4.3 *)
(* and 4.4 (the code is not in src/; its tests are, in                     *)
(* src/engine/immutable/tssp_file_reader_test.go).                         *)
(*                                                                         *)
(* The reference count and the closed flag are the state shared without a  *)
(* mutex (spec.md 5), so Ref, Unref, Close and Free are the atomic steps:  *)
(* each reads and writes the state of one file at once.  The threads that  *)
(* take these steps, and the order they take them in, are MmsTables'.      *)
(***************************************************************************)
EXTENDS Integers

CONSTANTS Files       \* the names of the files

VARIABLES ref,        \* ref[f]: the reference count of f
          closed,     \* closed[f]: Close was called, the accessors fail fast
          deferred,   \* deferred[f]: closed while referenced, release is owed
          released,   \* released[f]: how often the handle was released
          cached      \* cached[f]: the blocks of f are loaded into memory

fileVars == <<ref, closed, deferred, released, cached>>

FileTypeOK ==
    /\ ref \in [Files -> Nat]
    /\ closed \in [Files -> BOOLEAN]
    /\ deferred \in [Files -> BOOLEAN]
    /\ released \in [Files -> Nat]
    /\ cached \in [Files -> BOOLEAN]

FileInit ==
    /\ ref = [f \in Files |-> 0]
    /\ closed = [f \in Files |-> FALSE]
    /\ deferred = [f \in Files |-> FALSE]
    /\ released = [f \in Files |-> 0]
    /\ cached = [f \in Files |-> FALSE]

\* The release: the descriptor is closed, the mapping and the caches go.
release(f) ==
    /\ released' = [released EXCEPT ![f] = @ + 1]
    /\ cached' = [cached EXCEPT ![f] = FALSE]

Ref(f) ==
    /\ ref' = [ref EXCEPT ![f] = @ + 1]
    /\ UNCHANGED <<closed, deferred, released, cached>>

\* mutant: the release is owed for as long as the file is closed
Unref_WheneverClosed(f) ==
    /\ ref' = [ref EXCEPT ![f] = @ - 1]
    /\ IF ref[f] - 1 = 0 /\ closed[f]
          THEN release(f)
          ELSE UNCHANGED <<released, cached>>
    /\ UNCHANGED <<closed, deferred>>

\* The decrement, and the deferred release by the one that brings the count
\* to zero after a close that found the file referenced.
Unref(f) ==
    /\ ref' = [ref EXCEPT ![f] = @ - 1]
    /\ IF ref[f] - 1 = 0 /\ deferred[f]
          THEN /\ release(f)
               /\ deferred' = [deferred EXCEPT ![f] = FALSE]
          ELSE UNCHANGED <<deferred, released, cached>>
    /\ UNCHANGED closed

\* mutant: Close releases whatever the count is
Close_ReleasesReferenced(f) ==
    /\ closed' = [closed EXCEPT ![f] = TRUE]
    /\ release(f)
    /\ UNCHANGED <<ref, deferred>>

\* Close marks the file and releases it if nobody holds it; otherwise the
\* release is left to the last Unref.
Close(f) ==
    /\ closed' = [closed EXCEPT ![f] = TRUE]
    /\ IF ref[f] = 0
          THEN release(f) /\ UNCHANGED deferred
          ELSE /\ deferred' = [deferred EXCEPT ![f] = TRUE]
               /\ UNCHANGED <<released, cached>>
    /\ UNCHANGED ref

\* LoadIntoMemory is an accessor: it fails fast on a closed file.
LoadIntoMemory(f) ==
    /\ ~closed[f]
    /\ cached' = [cached EXCEPT ![f] = TRUE]
    /\ UNCHANGED <<ref, closed, deferred, released>>

\* mutant: force evicts under a reader
Free_ForceEvicts(f, force) ==
    /\ cached[f]
    /\ cached' = [cached EXCEPT ![f] = ref[f] > 0 /\ ~force]
    /\ UNCHANGED <<ref, closed, deferred, released>>

\* Free evicts the cached blocks and keeps the handle.  While a reference
\* is held it frees nothing, forced or not (TestFreeMemory).
Free(f, force) ==
    /\ cached[f]
    /\ cached' = [cached EXCEPT ![f] = ref[f] > 0]
    /\ UNCHANGED <<ref, closed, deferred, released>>

=============================================================================
