------------------------------ MODULE MmsTables ------------------------------
(***************************************************************************)
(* The table store of a shard, from spec.md 3, 4.5, 4.6, 5 and 7 (the code *)
(* is not in src/): the file sets of the measurements, the in-compaction   *)
(* set, and the threads that work on them.  A caller looks a file up and   *)
(* reads it, drops a measurement or closes the store; a compaction opens   *)
(* the files of a planned group, merges them, swaps them for the merged    *)
(* files and clears its marks.  The files are TsspFile's, the plan is      *)
(* CompactionPlan's.                                                       *)
(*                                                                         *)
(* The file sets and the in-compaction set are changed under their locks,  *)
(* so a lookup, AddTable, the swap of ReplaceFiles, the removal of         *)
(* DropMeasurement and a planning pass with its marks are one step each.   *)
(* Between two such steps, and between two steps on a file, every other    *)
(* thread may run.                                                         *)
(***************************************************************************)
EXTENDS TsspFile, CompactionPlan, TLC

CONSTANTS Measurements,         \* the measurement names
          Threads,              \* the callers: queries, scans, drops, the close
          Compactors,           \* the units of work that run the planned groups
          LevelMinGroupFiles,   \* LevelMinGroupFiles[level]: the files of a group
          Cacheable,            \* bound: the files that are ever loaded into memory
          Nil                   \* no file set, no file, no measurement

VARIABLES tables,      \* tables[m]: the files of m, ordered and out of order, or Nil
          inCompact,   \* the names of the files in compaction
          plans,       \* the groups planned and not yet started
          created,     \* the names given out so far
          stopped,     \* the store was closed
          th           \* th[w]: where worker w stands, and what it has in hand

storeVars == <<tables, inCompact, plans, created, stopped>>
vars == <<ref, closed, deferred, released, cached, tables, inCompact, plans, created, stopped, th>>

Workers == Threads \cup Compactors

Idle ==
    [pc |-> "idle", mst |-> Nil, file |-> Nil,
     held |-> {}, group |-> {}, made |-> {}, retire |-> {}]

Present(m) == IF tables[m] = Nil THEN {} ELSE tables[m]

\* The ordered file set of a measurement.
Order(m) == {f \in Present(m) : f.order}

Some(files) == CHOOSE f \in files : TRUE

StoreInit ==
    /\ FileInit
    /\ tables = [m \in Measurements |-> Nil]
    /\ inCompact = {}
    /\ plans = {}
    /\ created = {}
    /\ stopped = FALSE
    /\ th = [w \in Workers |-> Idle]

-----------------------------------------------------------------------------
(* The store: steps taken under the lock of a file set or of inCompact.    *)

\* AddTable registers a newly sealed file, with the next sequence number.
AddTable(m, f) ==
    /\ ~stopped
    /\ f \in Files \ created
    /\ f.level = 0 /\ f.extent = 0
    /\ \A g \in created : g.seq < f.seq
    /\ tables' = [tables EXCEPT ![m] = Present(m) \cup {f}]
    /\ created' = created \cup {f}
    /\ UNCHANGED <<fileVars, inCompact, plans, stopped, th>>

\* One planning pass: the groups are marked as they are chosen.
LevelPlan(m, level) ==
    /\ tables[m] # Nil
    /\ \E groups \in {mmsPlan(InOrder(Order(m)), level, LevelMinGroupFiles[level], inCompact)} :
          /\ groups # {}
          /\ inCompact' = inCompact \cup UNION groups
          /\ plans' = plans \cup {[mst |-> m, group |-> g] : g \in groups}
    /\ UNCHANGED <<fileVars, tables, created, stopped, th>>

\* Cache control from outside the readers.
LoadFile(f) ==
    /\ f \in Cacheable
    /\ \E m \in Measurements : f \in Present(m)
    /\ LoadIntoMemory(f)
    /\ UNCHANGED <<storeVars, th>>

FreeFile(f, force) ==
    /\ f \in created
    /\ Free(f, force)
    /\ UNCHANGED <<storeVars, th>>

-----------------------------------------------------------------------------
(* A worker on one file: reference, closed check, read, and the references *)
(* given back at the end.                                                  *)

\* tableFiles and File: a caller takes a file out of the current set.
StartRead(t, m) ==
    /\ th[t].pc = "idle"
    /\ \E f \in Present(m) :
          th' = [th EXCEPT ![t] = [Idle EXCEPT !.pc = "ref", !.mst = m, !.file = f]]
    /\ UNCHANGED <<fileVars, storeVars>>

RefFile(w) ==
    /\ th[w].pc = "ref"
    /\ Ref(th[w].file)
    /\ th' = [th EXCEPT ![w].pc = "check", ![w].held = @ \cup {th[w].file}]
    /\ UNCHANGED storeVars

\* mutant: the closed error returns at once, the reference is kept
afterCheck_KeepsReference(isClosed) == IF isClosed THEN "idle" ELSE "read"

\* mutant: a closed file is read all the same
afterCheck_NoFailFast(isClosed) == "read"

\* Every accessor fails fast on a closed file.
afterCheck(isClosed) == IF isClosed THEN "release" ELSE "read"

CheckClosed(w) ==
    /\ th[w].pc = "check"
    /\ th' = [th EXCEPT ![w].pc = afterCheck(closed[th[w].file])]
    /\ UNCHANGED <<fileVars, storeVars>>

\* The read itself.  A compaction goes on to its next file and merges when
\* it holds them all; a caller is done.
ReadAt(w) ==
    /\ th[w].pc = "read"
    /\ \E rest \in {th[w].group \ th[w].held} :
          th' = [th EXCEPT ![w].pc = IF w \in Threads THEN "release"
                                     ELSE IF rest = {} THEN "merge" ELSE "ref",
                           ![w].file = IF rest = {} THEN @ ELSE InOrder(rest)[1]]
    /\ UNCHANGED <<fileVars, storeVars>>

\* mutant: a compaction returns without CompactDone
afterRelease_MarksKept(w) == Idle

\* A compaction goes on to CompactDone however it ended; a caller returns.
afterRelease(w) == IF w \in Compactors THEN [th[w] EXCEPT !.pc = "done", !.held = {}] ELSE Idle

UnrefFile(w) ==
    /\ th[w].pc = "release"
    /\ \E f \in {Some(th[w].held)} :
          /\ Unref(f)
          /\ th' = [th EXCEPT ![w] = IF th[w].held = {f} THEN afterRelease(w)
                                     ELSE [@ EXCEPT !.held = @ \ {f}]]
    /\ UNCHANGED storeVars

\* The files to be retired are closed one by one.
CloseOld(w) ==
    /\ th[w].pc = "retire"
    /\ \E f \in {Some(th[w].retire)} :
          /\ Close(f)
          /\ th' = [th EXCEPT ![w] = IF th[w].retire # {f} THEN [@ EXCEPT !.retire = @ \ {f}]
                                     ELSE IF th[w].held = {} THEN Idle
                                     ELSE [@ EXCEPT !.retire = {}, !.pc = "release"]]
    /\ UNCHANGED storeVars

-----------------------------------------------------------------------------
(* A compaction.                                                           *)

StartCompact(c) ==
    /\ th[c].pc = "idle"
    /\ \E p \in plans :
          /\ plans' = plans \ {p}
          /\ th' = [th EXCEPT ![c] = [Idle EXCEPT !.pc = "ref", !.mst = p.mst,
                                                  !.group = p.group,
                                                  !.file = InOrder(p.group)[1]]]
    /\ UNCHANGED <<fileVars, tables, inCompact, created, stopped>>

\* What a merge of the group may write: the extents of one file of the next
\* level, under a sequence number of the group.
Outputs(group) ==
    {new \in SUBSET (Files \ created) :
        /\ new # {}
        /\ \E seq \in {g.seq : g \in group} :
              \A n \in new : /\ n.seq = seq
                             /\ n.order
                             /\ \A g \in group : n.level = g.level + 1
        /\ {n.extent : n \in new} = 0 .. (Cardinality(new) - 1)}

MergeOk(c) ==
    /\ th[c].pc = "merge"
    /\ \E new \in Outputs(th[c].group) :
          /\ created' = created \cup new
          /\ th' = [th EXCEPT ![c].pc = "replace", ![c].made = new]
    /\ UNCHANGED <<fileVars, tables, inCompact, plans, stopped>>

\* The merge fails on an I/O or a decode error: the files stay as they are.
MergeFail(c) ==
    /\ th[c].pc = "merge"
    /\ th' = [th EXCEPT ![c].pc = "release"]
    /\ UNCHANGED <<fileVars, storeVars>>

\* mutant: the swap does not look whether the old files are still there
Registered_Unchecked(m, group) == TRUE

\* The old files are still the files of the measurement.
Registered(m, group) == group \subseteq Present(m)

\* ReplaceFiles swaps the old files for the new ones and retires the old
\* ones.  When the measurement was dropped in between, there is nothing to
\* swap and the new files are retired instead.
ReplaceFiles(c) ==
    /\ th[c].pc = "replace"
    /\ \E swap \in {Registered(th[c].mst, th[c].group)} :
          /\ tables' = IF swap
                          THEN [tables EXCEPT ![th[c].mst] =
                                    (Present(th[c].mst) \ th[c].group) \cup th[c].made]
                          ELSE tables
          /\ th' = [th EXCEPT ![c].pc = "retire",
                              ![c].retire = IF swap THEN th[c].group ELSE th[c].made]
    /\ UNCHANGED <<fileVars, inCompact, plans, created, stopped>>

\* CompactDone clears the marks of the group, after success and failure.
CompactDone(c) ==
    /\ th[c].pc = "done"
    /\ inCompact' = inCompact \ th[c].group
    /\ th' = [th EXCEPT ![c] = Idle]
    /\ UNCHANGED <<fileVars, tables, plans, created, stopped>>

-----------------------------------------------------------------------------
(* Drop and close.                                                         *)

\* mutant: the file sets are left in place while their files are closed
taken_LeftInPlace(ms) == tables

\* The file sets of the measurements ms are taken out of the store.
taken(ms) == [m \in Measurements |-> IF m \in ms THEN Nil ELSE tables[m]]

\* DropMeasurement removes the file sets of m and closes their files.  A
\* second drop finds nothing and returns.
DropMeasurement(t, m) ==
    /\ th[t].pc = "idle"
    /\ tables[m] # Nil
    /\ tables' = taken({m})
    /\ th' = [th EXCEPT ![t] = [Idle EXCEPT !.pc = "retire", !.mst = m, !.retire = tables[m]]]
    /\ UNCHANGED <<fileVars, inCompact, plans, created, stopped>>

\* Close of the store: nothing is added from now on, every file is closed.
CloseStore(t) ==
    /\ th[t].pc = "idle"
    /\ ~stopped
    /\ stopped' = TRUE
    /\ tables' = taken(Measurements)
    /\ \E files \in {UNION {Present(m) : m \in Measurements}} :
          th' = [th EXCEPT ![t] = IF files = {} THEN Idle
                                  ELSE [Idle EXCEPT !.pc = "retire", !.retire = files]]
    /\ UNCHANGED <<fileVars, inCompact, plans, created>>

-----------------------------------------------------------------------------

\* What a worker does once it has begun.
Step(w) ==
    \/ RefFile(w)
    \/ CheckClosed(w)
    \/ ReadAt(w)
    \/ UnrefFile(w)
    \/ CloseOld(w)
    \/ MergeOk(w)
    \/ MergeFail(w)
    \/ ReplaceFiles(w)
    \/ CompactDone(w)

StoreNext ==
    \/ \E m \in Measurements, f \in Files : AddTable(m, f)
    \/ \E m \in Measurements, level \in DOMAIN LevelMinGroupFiles : LevelPlan(m, level)
    \/ \E f \in Files : LoadFile(f)
    \/ \E f \in Files, force \in BOOLEAN : FreeFile(f, force)
    \/ \E t \in Threads, m \in Measurements : StartRead(t, m)
    \/ \E t \in Threads, m \in Measurements : DropMeasurement(t, m)
    \/ \E t \in Threads : CloseStore(t)
    \/ \E c \in Compactors : StartCompact(c)
    \/ \E w \in Workers : RefFile(w)
    \/ \E w \in Workers : CheckClosed(w)
    \/ \E w \in Workers : ReadAt(w)
    \/ \E w \in Workers : UnrefFile(w)
    \/ \E w \in Workers : CloseOld(w)
    \/ \E c \in Compactors : MergeOk(c)
    \/ \E c \in Compactors : MergeFail(c)
    \/ \E c \in Compactors : ReplaceFiles(c)
    \/ \E c \in Compactors : CompactDone(c)

\* A worker that has begun goes on, and a planned group is started: reads,
\* writes and compactions are independent units of work.  Nothing makes a
\* caller come, a file be sealed or a planning pass be run.
Fairness ==
    /\ \A w \in Workers : WF_vars(Step(w))
    /\ \A c \in Compactors : WF_vars(StartCompact(c))

StoreSpec == StoreInit /\ [][StoreNext]_vars /\ Fairness

-----------------------------------------------------------------------------

TypeOK ==
    /\ FileTypeOK
    /\ tables \in [Measurements -> SUBSET Files \cup {Nil}]
    /\ inCompact \subseteq Files
    /\ \A p \in plans : p.mst \in Measurements /\ p.group \subseteq Files
    /\ created \subseteq Files
    /\ stopped \in BOOLEAN
    /\ \A w \in Workers :
          /\ th[w].pc \in {"idle", "ref", "check", "read", "release", "retire",
                           "merge", "replace", "done"}
          /\ th[w].mst \in Measurements \cup {Nil}
          /\ th[w].file \in Files \cup {Nil}
          /\ th[w].held \subseteq Files /\ th[w].group \subseteq Files
          /\ th[w].made \subseteq Files /\ th[w].retire \subseteq Files

\* The groups in compaction: the planned ones and the ones a compaction runs.
Groups == ({p.group : p \in plans} \cup {th[c].group : c \in Compactors}) \ {{}}

Lease ==
    INSTANCE FileLease WITH
        Threads <- Workers,
        holders <- [f \in Files |-> {w \in Workers : f \in th[w].held}],
        users <- [f \in Files |-> {w \in Workers : th[w].pc = "read" /\ th[w].file = f}],
        closing <- {f \in Files : closed[f]},
        freed <- released,
        inMemory <- {f \in Files : cached[f]}

\* The counter and the flags of TsspFile, driven by the callers and the
\* compactions of the store, are a lease: whatever the order of Ref, Unref,
\* Close, ReadAt and Free of the threads, a file is read only by a holder
\* and before its release, evicted only when nobody holds it, closed once,
\* and released once, at the step that leaves it closed and unreferenced.
ImplementsFileLease == Lease!LeaseSpec

\* A file is in one compaction at a time, and what is in compaction is
\* marked: a planning pass that runs while groups are planned or merged
\* (LevelPlan against StartCompact ... CompactDone) takes none of their files.
CompactionsShareNoFile ==
    /\ \A g, h \in Groups : g # h => g \cap h = {}
    /\ Cardinality(plans) + Cardinality({c \in Compactors : th[c].group # {}})
          = Cardinality(Groups)
    /\ UNION Groups \subseteq inCompact

\* A measurement that is dropped stays absent until a newly sealed file is
\* added: a compaction that was under way when DropMeasurement ran does not
\* bring it back with ReplaceFiles.
DroppedMeasurementStaysAbsent ==
    [][\A m \in Measurements :
          tables[m] = Nil /\ tables'[m] # Nil => \A f \in tables'[m] : f.level = 0]_vars

\* The marks of a group are cleared whatever becomes of its compaction: a
\* merge that fails, or a file found closed on the way, does not keep the
\* files from later planning passes.
CompactMarksAreCleared ==
    \A f \in Files : f \in inCompact ~> f \notin inCompact

\* A closed file is released in the end: every holder gives its reference
\* back, on the failure paths of a read and of a compaction as well.
ClosedFilesAreReleased ==
    \A f \in Files : closed[f] ~> released[f] > 0

=============================================================================
