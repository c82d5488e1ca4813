----------------------------- MODULE TimeTaskRec -----------------------------
(***************************************************************************)
(* consumeData of the stream time task fed with records (CacheRecord),     *)
(* on its own: it calculates one record after another into the ring and    *)
(* advances the ring when a window update arrives.  cycleFlush is left out *)
(* (module TimeTask has it), so a window update is one step here.          *)
(*                                                                         *)
(* Beside the ring the module keeps the records that were calculated, so   *)
(* that a property can say, cell by cell and without walking any column,   *)
(* which of their values belong in the ring.                               *)
(***************************************************************************)
EXTENDS TimeTaskCalc

CONSTANTS
    Dests,          \* the (ptId, shardId) pairs records arrive with
    Records,        \* bound: the shapes of record that are put
    MaxRecs,        \* bound: records ever put
    MaxUpdates      \* bound: window updates ever received

VARIABLES
    startTimeStamp, \* s.startTimeStamp
    startWindowID,  \* s.startWindowID
    ring,           \* s.values, s.validValues, s.shardIds, s.ptIds
    state,          \* consumeData is "running", or "exited"
    panicked,       \* consumeData's recover has caught a panic
    put             \* history: the records calculated, each with its
                    \* destination and the start of the ring it met

vars == <<startTimeStamp, startWindowID, ring, state, panicked, put>>

\* A shape is a record without its values: the time column and, for each
\* call, the type of the field the call finds and which rows are nil.
Shape(times, types, rows) ==
    [times : [1 .. rows -> times],
     cols  : [Calls -> [type : types, nils : [1 .. rows -> BOOLEAN]]]]

\* The n-th record put, of shape sh: the value of row i in the column of
\* call c is named after the three.
RecordOf(sh, n) ==
    [times |-> sh.times,
     cols  |-> [c \in Calls |->
                  [type  |-> sh.cols[c].type,
                   nils  |-> sh.cols[c].nils,
                   cells |-> [i \in DOMAIN sh.times |->
                                [rec |-> n, row |-> i, call |-> c]]]]]

EmptyRing ==
    [values      |-> [i \in Cells |-> {}],
     validValues |-> [i \in Cells |-> FALSE],
     shardIds    |-> [w \in Slots |-> Unset],
     ptIds       |-> [w \in Slots |-> Unset]]

-----------------------------------------------------------------------------
Init ==
    /\ startTimeStamp = 0
    /\ startWindowID = 0
    /\ ring = EmptyRing
    /\ state = "running" /\ panicked = FALSE
    /\ put = <<>>

\* case cache := <-s.cache with a *CacheRecord: calculate hands it to
\* calculateRec.  A panic in there is caught by consumeData's deferred
\* recover, which logs it; consumeData has then returned.
RecvRecord ==
    /\ state = "running"
    /\ Len(put) < MaxRecs
    /\ \E sh \in Records, dest \in Dests :
         LET rec == RecordOf(sh, Len(put) + 1)
             wk  == calculateRec(ring, rec, dest, startTimeStamp,
                                 startWindowID)
         IN  /\ ring' = wk.ring
             /\ panicked' = wk.panic
             /\ state' = IF wk.panic THEN "exited" ELSE "running"
             /\ put' = Append(put, [rec |-> rec, dest |-> dest,
                                    start |-> startTimeStamp])
    /\ UNCHANGED <<startTimeStamp, startWindowID>>

\* walkUpdate on the slot w.
Wiped(r, w) ==
    LET cells == windowOffset(w) .. windowOffset(w) + FieldCallsLen - 1 IN
    [values      |-> [i \in Cells |-> IF i \in cells THEN {} ELSE r.values[i]],
     validValues |-> [i \in Cells |-> i \notin cells /\ r.validValues[i]],
     shardIds    |-> [r.shardIds EXCEPT ![w] = Unset],
     ptIds       |-> [r.ptIds EXCEPT ![w] = Unset]]

RecvUpdateWindow_NoMod ==
    /\ state = "running"
    /\ startTimeStamp < MaxUpdates * Window
    /\ startTimeStamp' = startTimeStamp + Window
    /\ startWindowID' = startWindowID + 1
    /\ ring' = Wiped(ring, startWindowID)
    /\ UNCHANGED <<state, panicked, put>>

\* case <-s.updateWindow: the ring moves on by one window and walkUpdate
\* wipes the slot of the window that was the oldest.
RecvUpdateWindow ==
    /\ state = "running"
    /\ startTimeStamp < MaxUpdates * Window
    /\ startTimeStamp' = startTimeStamp + Window
    /\ startWindowID' = (startWindowID + 1) % WindowNum
    /\ ring' = Wiped(ring, startWindowID)
    /\ UNCHANGED <<state, panicked, put>>

\* case <-s.abort: return
consumeDataAbort ==
    /\ state = "running"
    /\ state' = "exited"
    /\ UNCHANGED <<startTimeStamp, startWindowID, ring, panicked, put>>

Terminated ==
    /\ state = "exited"
    /\ UNCHANGED vars

Next == RecvRecord \/ RecvUpdateWindow \/ consumeDataAbort \/ Terminated

Spec == Init /\ [][Next]_vars

-----------------------------------------------------------------------------
Cell == [rec : 1 .. MaxRecs, row : Nat, call : Calls]

TypeOK ==
    /\ startTimeStamp \in {k * Window : k \in 0 .. MaxUpdates}
    /\ startWindowID \in Slots
    /\ DOMAIN ring = {"values", "validValues", "shardIds", "ptIds"}
    /\ DOMAIN ring.values = Cells
    /\ \A i \in Cells : ring.values[i] \subseteq Cell
    /\ ring.validValues \in [Cells -> BOOLEAN]
    /\ ring.shardIds \in [Slots -> Dests \cup {Unset}]
    /\ ring.ptIds \in [Slots -> Dests \cup {Unset}]
    /\ state \in {"running", "exited"}
    /\ panicked \in BOOLEAN
    /\ Len(put) <= MaxRecs

-----------------------------------------------------------------------------
(* What the records put should have left in the ring.                      *)

\* The window that slot w stands for now starts here.
StartOf(w) ==
    startTimeStamp + ((w - startWindowID) % WindowNum) * Window

\* The values of the n-th record that belong in the cell of call c in slot
\* w: of the rows that have a value for a call that finds its field, whose
\* time is in the window of w and was within the ring when the record came.
Belonging(n, c, w) ==
    LET rec == put[n].rec
        col == rec.cols[c] IN
    {col.cells[i] : i \in
        {i \in DOMAIN rec.times :
            /\ col.type # "none"
            /\ ~col.nils[i]
            /\ StartOf(w) <= rec.times[i]
            /\ rec.times[i] < StartOf(w) + Window
            /\ rec.times[i] < put[n].start + WindowNum * Window}}

\* The records that left a value in slot w.
Givers(w) == {n \in DOMAIN put : \E c \in Calls : Belonging(n, c, w) # {}}

\* calculateRec folds into every cell of the ring exactly the values that
\* belong there: the value of each row that is not nil and lies within the
\* ring, into the window of that row's time, for each call that finds its
\* field; and a window has the shard and partition of the first record
\* that gave it a value.  The walkers get there by runs of rows of one
\* window, an index into the packed values and the window ids computed
\* before, and walkUpdate by wiping one slot per update; the property
\* compares the ring, after any sequence of records and window updates,
\* with the definition by membership.
RecordFoldedAsBelongs ==
    ~panicked =>
        \A w \in Slots :
            /\ \A c \in Calls :
                 LET held == UNION {Belonging(n, c, w) : n \in DOMAIN put} IN
                 /\ ring.values[windowOffset(w) + c] = held
                 /\ ring.validValues[windowOffset(w) + c] = (held # {})
            /\ LET dest == IF Givers(w) = {} THEN Unset
                           ELSE put[Min(Givers(w))].dest IN
               ring.shardIds[w] = dest /\ ring.ptIds[w] = dest

\* calculateRec gives a row outside the ring the window id -1 and counts
\* it as skipped (skip++, AddWindowSkip): a record with late or early rows
\* is calculated without them, and consumeData lives on to take the next.
RowsOutsideRingAreSkipped == ~panicked

=============================================================================
