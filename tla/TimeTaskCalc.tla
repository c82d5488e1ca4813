---------------------------- MODULE TimeTaskCalc ----------------------------
(***************************************************************************)
(* The arithmetic of the stream time task's ring of windows and the        *)
(* column walkers of calculateRec (app/ts-store/stream/time_task.go), as   *)
(* operators without state of their own.                                   *)
(*                                                                         *)
(* A ring is the record of s.values, s.validValues, s.shardIds, s.ptIds.   *)
(* A walker takes a ring and one column of a record and gives the ring     *)
(* after the loop, or the ring as it was when the loop panicked on an      *)
(* index out of range.  As in TimeTask an aggregate is the set of what was *)
(* folded into it; what a column folds for a row is the row's cell in the  *)
(* column.  A column stores the values of its non-nil rows only, packed:   *)
(* FloatValues()[k] is the value of the k-th non-nil row.                  *)
(***************************************************************************)
EXTENDS Integers, Sequences, FiniteSets, SequencesExt

CONSTANTS
    WindowNum,      \* s.windowNum: windows kept in the ring
    Window,         \* s.window.Nanoseconds(): width of a window
    FieldCallsLen,  \* len(s.fieldCalls)
    CountCalls      \* the calls c with s.fieldCalls[c].Call == "count"

ASSUME /\ WindowNum \in Nat \ {0} /\ Window \in Nat \ {0}
       /\ FieldCallsLen \in Nat \ {0}
       /\ CountCalls \subseteq 0 .. FieldCallsLen - 1

Slots == 0 .. WindowNum - 1
Calls == 0 .. FieldCallsLen - 1
Cells == 0 .. WindowNum * FieldCallsLen - 1
Unset == -1

maxDuration == WindowNum * Window

windowOffset(i) == i * FieldCallsLen

\* s.windowId(t) with the ring starting at time start in slot sid.
RingSlot(t, start, sid) == (((t - start) \div Window) + sid) % WindowNum

\* The test that makes skipRow and calculateRec leave a row out.
OutOfRing_Inclusive(t, start) == t < start \/ t > start + maxDuration
OutOfRing(t, start) == t < start \/ t >= start + maxDuration

-----------------------------------------------------------------------------
(* Columns.                                                                *)

\* A column is [cells |-> what each row would fold, nils |-> which rows
\* are nil].  Its length counts the nil rows too.
Length(col)   == Len(col.nils)
NilCount(col) == Cardinality({i \in DOMAIN col.nils : col.nils[i]})

\* FloatValues(), IntegerValues(): the cells of the non-nil rows, packed.
\* Go indexes them from 0, so Go's values[k] is PackedValues(col)[k + 1].
PackedValues(col) ==
    LET kept == SelectSeq([i \in DOMAIN col.nils |-> i],
                          LAMBDA i : ~col.nils[i])
    IN  [k \in DOMAIN kept |-> col.cells[kept[k]]]

-----------------------------------------------------------------------------
(* The loops.  A walk is the ring together with the walker's locals.       *)

Begin(ring) ==
    [ring |-> ring, lastWindowID |-> -1, lastIndex |-> -1, colIndex |-> 0,
     panic |-> FALSE]

Panic(wk) == [wk EXCEPT !.panic = TRUE]

\* s.values[lastIndex] = call.SingleThreadFunc(s.values[lastIndex], v)
FoldLast(wk, v) ==
    IF wk.lastIndex \in Cells
    THEN [wk EXCEPT !.ring.values[wk.lastIndex] = @ \cup {v}]
    ELSE Panic(wk)

\* The first row of a run of rows of window w: the cell of call c in w
\* becomes the last cell, takes v and is valid, and the window takes the
\* cache's destination unless it has one.
EnterWindow(wk, w, c, v, dest) ==
    IF w \notin Slots
    THEN Panic(wk)
    ELSE LET index == windowOffset(w) + c
             unset == wk.ring.shardIds[w] < 0
         IN  [wk EXCEPT !.lastWindowID = w,
                        !.lastIndex = index,
                        !.ring.values[index] = @ \cup {v},
                        !.ring.validValues[index] = TRUE,
                        !.ring.shardIds[w] = IF unset THEN dest ELSE @,
                        !.ring.ptIds[w] = IF unset THEN dest ELSE @]

\* The loop over a column without nils: row i folds values[i].
WalkNoNil(ring, windowIDS, c, dest, col) ==
    LET vals == PackedValues(col)
        Step(wk, i) ==
            CASE wk.panic -> wk
              [] wk.lastWindowID = windowIDS[i] -> FoldLast(wk, vals[i])
              [] OTHER -> EnterWindow(wk, windowIDS[i], c, vals[i], dest)
    IN  FoldLeftDomain(Step, Begin(ring), col.nils)

\* The loop of calculateCountValues over a column with nils: rows outside
\* the ring and nil rows are passed over, every other row folds its 1.
WalkNilCount(ring, windowIDS, c, dest, col) ==
    LET Step(wk, i) ==
            CASE wk.panic \/ windowIDS[i] < 0 \/ col.nils[i] -> wk
              [] wk.lastWindowID = windowIDS[i] -> FoldLast(wk, col.cells[i])
              [] OTHER -> EnterWindow(wk, windowIDS[i], c, col.cells[i], dest)
    IN  FoldLeftDomain(Step, Begin(ring), col.nils)

\* The loop of calculateFloatValues and calculateIntValues over a column
\* with nils.  colIndex walks the packed values: a row of the window of
\* the row before folds values[colIndex] and then steps colIndex; the first
\* row of another window steps colIndex and then folds values[colIndex].
WalkNilValue(ring, windowIDS, c, dest, col) ==
    LET vals == PackedValues(col)
        Step(wk, i) ==
            CASE wk.panic \/ windowIDS[i] < 0 \/ col.nils[i] -> wk
              [] wk.lastWindowID = windowIDS[i] ->
                    IF wk.colIndex + 1 \in DOMAIN vals
                    THEN [FoldLast(wk, vals[wk.colIndex + 1])
                            EXCEPT !.colIndex = @ + 1]
                    ELSE Panic(wk)
              [] OTHER ->
                    IF wk.colIndex + 2 \in DOMAIN vals
                    THEN [EnterWindow(wk, windowIDS[i], c,
                                      vals[wk.colIndex + 2], dest)
                            EXCEPT !.colIndex = @ + 1]
                    ELSE Panic(wk)
    IN  FoldLeftDomain(Step, Begin(ring), col.nils)

calculateFloatValues(ring, windowIDS, c, dest, col) ==
    IF NilCount(col) = 0
    THEN WalkNoNil(ring, windowIDS, c, dest, col)
    ELSE WalkNilValue(ring, windowIDS, c, dest, col)

\* The same loops with float64(values[k]).
calculateIntValues(ring, windowIDS, c, dest, col) ==
    calculateFloatValues(ring, windowIDS, c, dest, col)

calculateCountValues(ring, windowIDS, c, dest, col) ==
    IF NilCount(col) = 0
    THEN WalkNoNil(ring, windowIDS, c, dest, col)
    ELSE WalkNilCount(ring, windowIDS, c, dest, col)

-----------------------------------------------------------------------------
(* calculateRec.  A record is [times |-> the time column, cols |-> for     *)
(* each call its column, with "type" the type of the field the call finds  *)
(* in the schema, "none" when it finds none.                               *)

\* The first loop: -1 for a row outside the ring, else its slot.
WindowIDS(times, start, sid) ==
    [i \in DOMAIN times |->
        IF OutOfRing(times[i], start) THEN -1
        ELSE RingSlot(times[i], start, sid)]

\* One pass of the loop over s.fieldCalls.
calculateColumn(ring, windowIDS, c, dest, col) ==
    CASE col.type = "none" \/ Length(col) + NilCount(col) = 0 -> Begin(ring)
      [] col.type \in {"float", "int"} /\ c \in CountCalls ->
            calculateCountValues(ring, windowIDS, c, dest, col)
      [] col.type = "float" ->
            calculateFloatValues(ring, windowIDS, c, dest, col)
      [] col.type = "int" ->
            calculateIntValues(ring, windowIDS, c, dest, col)
      [] OTHER -> Begin(ring)

\* The whole of calculateRec: the calls in order, none after a panic.
calculateRec(ring, rec, dest, start, sid) ==
    LET windowIDS == WindowIDS(rec.times, start, sid)
        Step(wk, k) ==
            IF wk.panic THEN wk
            ELSE calculateColumn(wk.ring, windowIDS, k - 1, dest,
                                 rec.cols[k - 1])
    IN  FoldLeftDomain(Step, Begin(ring), [k \in 1 .. FieldCallsLen |-> k])

=============================================================================
