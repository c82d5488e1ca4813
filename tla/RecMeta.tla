------------------------------- MODULE RecMeta -------------------------------
(***************************************************************************)
(* The RecMeta of lib/record/record.go: what module Record leaves out.     *)
(*                                                                         *)
(* A record carries, behind a pointer that may be nil, a ColMeta per       *)
(* column (the pre-aggregates) and Times, a slice of slices of int64 with  *)
(* one time per row for the columns that have times.  The functions that   *)
(* move rows between records move these too, and three of them hand the    *)
(* outer slice of one record to another, so the model keeps the arrays     *)
(* behind the outer slices as objects of a heap:                           *)
(*   heap[a]        the cells of array a, its capacity is their number,    *)
(*   a cell         buf, the array behind the inner slice, and len,        *)
(*   meta.Times     a slice header: the array and the length.              *)
(* The array behind an inner slice belongs to one cell only (no function   *)
(* copies the header of a cell into another cell), so it is part of the    *)
(* cell.  An append that does not fit allocates exactly what it needs.     *)
(*                                                                         *)
(* Of a record's columns the model keeps the number of rows, of Schema its *)
(* length; tags, tagIndex and IntervalIndex are left out.  A time is the   *)
(* number of its row in the record it was loaded into, 0 for an empty row. *)
(*                                                                         *)
(* A panic ends the behaviour: what a panicking call has written before    *)
(* is not modelled.                                                        *)
(***************************************************************************)
EXTENDS Integers, Sequences, FiniteSets, TLC

CONSTANTS Records,      \* the records
          Nil,
          Values,       \* the pre-aggregates a caller sets, none of them 0
          SchemaLens,   \* the lengths of the schemas the callers use
          MaxCols,      \* the longest of them
          MaxRows,      \* the most rows of a record
          MaxTimes,     \* the most times of a cell, read or not
          MaxCalls      \* the calls of a behaviour

ASSUME /\ MaxCols \in Nat \ {0} /\ MaxRows \in Nat \ {0} /\ Values \subseteq Nat \ {0}
       /\ SchemaLens \subseteq 1..MaxCols
       /\ MaxTimes \in Nat /\ MaxTimes >= MaxRows
       /\ MaxCalls \in Nat

VARIABLES rec,          \* the records
          heap,         \* the arrays behind the outer slices of Times
          where,        \* pool, own, ring (of a ring, not handed out), got
          initColMeta,  \* CircularRecordPool.initColMeta of the record's ring
          panic,        \* the function that panicked
          fwd,          \* history: the sources read front to back so far
          calls         \* the calls made so far

vars == <<rec, heap, where, initColMeta, panic, fwd, calls>>

\* One array for each record and one for the call that allocates: arrays
\* no record points to are given back at the end of every call.
Arrays == 1 .. Cardinality(Records) + 1

---------------------------------------------------------------------------
(* ColMeta: val stands for min, max, first, last, sum, count and the times *)
(* of the first four.                                                      *)

\* ColMeta{}, and a ColMeta after Init
ZeroColMeta == [isSetFlag |-> FALSE, val |-> 0]

ColMetaIsEmpty(m) == ~m.isSetFlag

\* Min, Max, First, Last, Sum, Count
Agg(m) == m.val

\* SetMin, SetMax, SetFirst, SetLast, SetSum, SetCount
SetAgg(m, v) == [isSetFlag |-> TRUE, val |-> v]

Clone(m) == [isSetFlag |-> m.isSetFlag, val |-> Agg(m)]

IsEmpty(meta) == \A i \in DOMAIN meta.ColMeta : ColMetaIsEmpty(meta.ColMeta[i])

\* make([]ColMeta, n), and the ColMeta of a record after Init of each
Zeros(n) == [i \in 1..n |-> ZeroColMeta]

---------------------------------------------------------------------------
(* Slices                                                                  *)

NilTimes == [arr |-> Nil, len |-> 0]
NilCell  == [buf |-> <<>>, len |-> 0]

\* &Record{}
ZeroRecord == [schemaLen |-> 0, rows |-> 0, meta |-> Nil]

NilCells(n) == [i \in 1..n |-> NilCell]

Capacity(t) == IF t.arr = Nil THEN 0 ELSE Len(heap[t.arr])
Cell(t, i)  == heap[t.arr][i + 1]

\* the times a cell reads as, c[start:end] and c[:0]
Read(c)                == SubSeq(c.buf, 1, c.len)
Reslice(c, start, end) == SubSeq(c.buf, start + 1, end)
Truncate_Not(c)        == c
Truncate(c)            == [c EXCEPT !.len = 0]

\* append(c, vals...): in place where the capacity allows
AppendTimes(c, vals) ==
    LET n == c.len + Len(vals)
    IN  [buf |-> Read(c) \o vals \o SubSeq(c.buf, n + 1, Len(c.buf)), len |-> n]

\* make([][]int64, n): an array that is free, and the header of n cells in it
Fresh        == CHOOSE a \in Arrays : heap[a] = <<>>
MadeTimes(n) == IF n = 0 THEN NilTimes ELSE [arr |-> Fresh, len |-> n]

\* h with the cells of `new`, a function of indexes, written into the array of t
Written(h, t, new) ==
    IF DOMAIN new = {} THEN h
    ELSE [h EXCEPT ![t.arr] = [j \in DOMAIN @ |-> IF j - 1 \in DOMAIN new THEN new[j - 1] ELSE @[j]]]

\* h with the array of t made of cells
Made(h, t, cells) == IF t.arr = Nil THEN h ELSE [h EXCEPT ![t.arr] = cells]

\* the garbage collector: what is left of h when the records are rs
Collect(rs, h) ==
    [a \in Arrays |->
        IF \E r \in Records : rs[r].meta # Nil /\ rs[r].meta.Times.arr = a
           THEN h[a] ELSE <<>>]

\* a record's times as its user reads them, column by column
View(r) ==
    IF rec[r].meta = Nil THEN <<>>
    ELSE [i \in 1..rec[r].meta.Times.len |-> Read(Cell(rec[r].meta.Times, i - 1))]

\* the columns of a record that have times: the cells the loops do not skip
Timed(r) ==
    IF rec[r].meta = Nil THEN {}
    ELSE {i \in 0..rec[r].meta.Times.len - 1 : Cell(rec[r].meta.Times, i).len # 0}

\* the records a caller holds
Held == {r \in Records : where[r] \in {"own", "got"}}

---------------------------------------------------------------------------
(* How a call ends                                                         *)

\* fwd when a call has written cells of array a, or has changed record d
Spoiled(d, a) ==
    [x \in Records |->
        IF x = d \/ (a # Nil /\ rec[x].meta # Nil /\ rec[x].meta.Times.arr = a)
           THEN Nil ELSE fwd[x]]

\* the program goes on: no call has panicked, and there are calls left
Running == panic = Nil /\ calls < MaxCalls

Returns(rs, h, f) ==
    /\ \A a \in Arrays : \A i \in DOMAIN h[a] : Len(h[a][i].buf) <= MaxTimes
    /\ rec' = rs
    /\ heap' = Collect(rs, h)
    /\ fwd' = f
    /\ panic' = Nil
    /\ calls' = calls + 1

\* index out of range, slice bounds out of range, nil pointer dereference
Panics(fn) ==
    /\ panic' = fn
    /\ calls' = calls + 1
    /\ UNCHANGED <<rec, heap, fwd>>

\* the array of a record's Times, Nil where it has none
ArrayOf(x) == IF x.meta = Nil THEN Nil ELSE x.meta.Times.arr

---------------------------------------------------------------------------
(* Records are made, reset and handed out                                  *)

NewRecord(r, schemaLen, initMeta) ==
    /\ Running /\ where[r] = "pool"
    /\ where' = [where EXCEPT ![r] = "own"]
    /\ Returns([rec EXCEPT ![r] = [schemaLen |-> schemaLen, rows |-> 0,
                                   meta |-> IF initMeta THEN [ColMeta |-> Zeros(schemaLen), Times |-> NilTimes]
                                                        ELSE Nil]],
               heap, Spoiled(r, Nil))
    /\ UNCHANGED initColMeta

\* Record.ResetDeep and RecMeta.ResetDeep: the cells keep what they hold
ResetDeep(x) ==
    [schemaLen |-> 0, rows |-> 0,
     meta |-> IF x.meta = Nil THEN Nil ELSE [ColMeta |-> <<>>, Times |-> [x.meta.Times EXCEPT !.len = 0]]]

\* Record.ResetForReuse and RecMeta.ResetForReuse: the record, and its cells
ResetForReuse(x) ==
    [x EXCEPT !.rows = 0, !.meta = IF @ = Nil THEN Nil ELSE [@ EXCEPT !.ColMeta = Zeros(Len(@))]]

\* the cells of x after ResetForReuse
Emptied(x) ==
    IF x.meta = Nil THEN <<>> ELSE [i \in 0..x.meta.Times.len - 1 |-> Truncate(Cell(x.meta.Times, i))]

\* what RecordPool.Get returns: a record of the pool, or &Record{}
PoolGet(r, fresh) ==
    /\ Running /\ where[r] = "pool"
    /\ where' = [where EXCEPT ![r] = "own"]
    /\ Returns([rec EXCEPT ![r] = IF fresh THEN ZeroRecord ELSE @], heap, fwd)
    /\ UNCHANGED initColMeta

\* RecordPool.Put of a record it keeps, by its holder or by CircularRecordPool.Put
Put(r) ==
    /\ Running /\ where[r] # "pool"
    /\ where' = [where EXCEPT ![r] = "pool"]
    /\ initColMeta' = [initColMeta EXCEPT ![r] = FALSE]
    /\ Returns([rec EXCEPT ![r] = ResetDeep(@)], heap, Spoiled(r, Nil))

Grows_Never(old, schemaLen) == FALSE

\* timeCap < schemaLen: the Times of a record of the pool are too short
Grows(old, schemaLen) == Capacity(old) < schemaLen

\* One turn of the loop of NewCircularRecordPool, after the columns.
NewCircularRecordPool(r, schemaLen, initMeta, fresh) ==
    LET x     == IF fresh THEN ZeroRecord ELSE rec[r]
        made  == initMeta /\ x.meta = Nil
        old   == IF x.meta = Nil THEN NilTimes ELSE x.meta.Times
        grown == initMeta /\ ~made /\ Grows(old, schemaLen)
        t     == IF made \/ grown THEN MadeTimes(schemaLen) ELSE [old EXCEPT !.len = schemaLen]
        cells == [i \in 1..schemaLen |-> IF i <= old.len THEN Cell(old, i - 1) ELSE NilCell]
        meta  == IF ~initMeta THEN x.meta
                 ELSE [ColMeta |-> IF made THEN <<>> ELSE x.meta.ColMeta, Times |-> t]
    IN  /\ Running /\ where[r] = "pool"
        /\ where' = [where EXCEPT ![r] = "ring"]
        /\ initColMeta' = [initColMeta EXCEPT ![r] = initMeta]
        /\ Returns([rec EXCEPT ![r] = [schemaLen |-> schemaLen, rows |-> 0, meta |-> meta]],
                   IF made \/ grown THEN Made(heap, t, cells) ELSE heap, fwd)

\* CircularRecordPool.GetBySchema, and Get with the schema the record has:
\* the ring hands out a record whether or not its last holder is done with it.
GetBySchema(r, schemaLen) ==
    LET x == ResetForReuse([rec[r] EXCEPT !.schemaLen = schemaLen])
    IN  /\ Running /\ where[r] \in {"ring", "got"}
        /\ where' = [where EXCEPT ![r] = "got"]
        /\ Returns([rec EXCEPT ![r] = IF initColMeta[r] THEN x ELSE [x EXCEPT !.meta = Nil]],
                   Written(heap, x.meta.Times, Emptied(x)), Spoiled(r, ArrayOf(x)))
        /\ UNCHANGED initColMeta

Get(r) == GetBySchema(r, rec[r].schemaLen)

---------------------------------------------------------------------------
(* Records are filled                                                      *)

\* the times of k rows: the row numbers
Rows(k) == [j \in 1..k |-> j]

\* A reader loads k rows and, with AssignRecMetaTimes, the times of the
\* columns cols, which are fields: the last column is the time itself.
Load(r, k, cols) ==
    LET t     == MadeTimes(rec[r].schemaLen)
        cells == [i \in 1..rec[r].schemaLen |-> IF i - 1 \in cols THEN [buf |-> Rows(k), len |-> k] ELSE NilCell]
    IN  /\ Running /\ r \in Held
        /\ rec[r].rows = 0 /\ rec[r].schemaLen > 0
        /\ cols # {} => rec[r].meta # Nil
        /\ IF cols = {}
              THEN Returns([rec EXCEPT ![r].rows = k], heap, Spoiled(r, Nil))
              ELSE Returns([rec EXCEPT ![r].rows = k, ![r].meta.Times = t], Made(heap, t, cells),
                           [Spoiled(r, Nil) EXCEPT ![r] = [next |-> 0, cols |-> cols]])
        /\ UNCHANGED <<where, initColMeta>>

\* a setter of ColMeta, on column i
SetColMeta(r, i, v) ==
    /\ Running /\ r \in Held
    /\ rec[r].meta # Nil /\ i \in DOMAIN rec[r].meta.ColMeta
    /\ Returns([rec EXCEPT ![r].meta.ColMeta[i] = SetAgg(@, v)], heap, fwd)
    /\ UNCHANGED <<where, initColMeta>>

---------------------------------------------------------------------------
(* Rows move between records                                               *)

\* The end of appendRecImpl: rows start to end of s, appended to d.
AppendRec(d, s, start, end) ==
    LET sm     == rec[s].meta
        made   == sm # Nil /\ sm.Times.len > 0 /\ rec[d].meta = Nil
        t      == IF made THEN MadeTimes(rec[s].schemaLen)
                  ELSE IF rec[d].meta = Nil THEN NilTimes ELSE rec[d].meta.Times
        old(i) == IF made THEN NilCell ELSE Cell(t, i)
        new    == [i \in Timed(s) |-> AppendTimes(old(i), Reslice(Cell(sm.Times, i), start, end))]
        bad    == \E i \in Timed(s) : i >= t.len \/ end > Len(Cell(sm.Times, i).buf)
        rs     == [rec EXCEPT ![d].rows = @ + end - start,
                              ![d].meta = IF made THEN [ColMeta |-> <<>>, Times |-> t] ELSE @]
    IN  /\ Running /\ {d, s} \subseteq Held /\ d # s
        /\ 0 < rec[s].schemaLen /\ rec[s].schemaLen <= rec[d].schemaLen
        /\ start < end /\ end <= rec[s].rows
        /\ rec[d].rows + end - start <= MaxRows
        /\ IF bad THEN Panics("appendRecImpl")
                  ELSE Returns(rs, Written(IF made THEN Made(heap, t, NilCells(t.len)) ELSE heap, t, new),
                               Spoiled(d, IF Timed(s) = {} THEN Nil ELSE t.arr))
        /\ UNCHANGED <<where, initColMeta>>

\* The RecMeta SliceFromRecord goes on with: a new one where d has none, or
\* has fewer ColMeta than s.
SliceMeta(d, s) ==
    LET dm == rec[d].meta
        sm == rec[s].meta
    IN  IF dm = Nil
           THEN [ColMeta |-> Zeros(rec[s].schemaLen), Times |-> NilTimes]
        ELSE IF sm # Nil /\ Len(dm.ColMeta) < Len(sm.ColMeta)
           THEN [ColMeta |-> Zeros(rec[s].schemaLen - Len(dm.ColMeta)), Times |-> NilTimes]
           ELSE dm

\* CopyColMetaTo: dm with the Times of sm where it has none, and the
\* pre-aggregates of sm
CopyColMetaTo(sm, dm) ==
    [ColMeta |-> [i \in DOMAIN dm.ColMeta |->
                     IF i <= Len(sm.ColMeta) THEN [dm.ColMeta[i] EXCEPT !.val = sm.ColMeta[i].val]
                                             ELSE dm.ColMeta[i]],
     Times   |-> IF sm.Times.len # 0 /\ dm.Times.len = 0 THEN sm.Times ELSE dm.Times]

\* SliceFromRecord: d becomes rows start to end of s.
SliceFromRecord(d, s, start, end) ==
    LET sm   == rec[s].meta
        m    == IF sm = Nil THEN SliceMeta(d, s) ELSE CopyColMetaTo(sm, SliceMeta(d, s))
        cols == IF m.Times.len = 0 THEN {} ELSE Timed(s)
        new  == [i \in cols |-> AppendTimes(Truncate(Cell(m.Times, i)), Reslice(Cell(sm.Times, i), start, end))]
        \* make of a negative length, or dst.ColMeta[i] past the ColMeta made
        bad  == \/ sm # Nil /\ Len(sm.ColMeta) > Len(SliceMeta(d, s).ColMeta)
                \/ \E i \in cols : i >= m.Times.len \/ end > Len(Cell(sm.Times, i).buf)
        ahead == fwd[s] # Nil /\ fwd[s].next <= start /\ start < end
        a    == IF cols = {} THEN Nil ELSE m.Times.arr
    IN  /\ Running /\ {d, s} \subseteq Held /\ d # s
        /\ 0 < rec[s].schemaLen
        /\ start <= end /\ end <= rec[s].rows
        /\ IF bad THEN Panics("SliceFromRecord")
                  ELSE Returns([rec EXCEPT ![d] = [schemaLen |-> rec[s].schemaLen, rows |-> end - start, meta |-> m]],
                               Written(heap, m.Times, new),
                               [Spoiled(d, a) EXCEPT ![s] = IF ahead THEN [fwd[s] EXCEPT !.next = end] ELSE Nil])
        /\ UNCHANGED <<where, initColMeta>>

\* RecMeta.Copy
CopyMeta(sm, t) == [ColMeta |-> [i \in DOMAIN sm.ColMeta |-> Clone(sm.ColMeta[i])], Times |-> t]

\* Record.Copy: d is a new record, and CopyImpl copies into it where s has rows.
Copy(d, s) ==
    LET sm    == rec[s].meta
        t     == IF sm = Nil THEN NilTimes ELSE MadeTimes(sm.Times.len)
        cells == [i \in 1..t.len |-> [buf |-> Read(Cell(sm.Times, i - 1)), len |-> Cell(sm.Times, i - 1).len]]
        copy  == [rec[s] EXCEPT !.meta = IF sm = Nil THEN Nil ELSE CopyMeta(sm, t)]
    IN  /\ Running /\ s \in Held /\ where[d] = "pool"
        /\ where' = [where EXCEPT ![d] = "own"]
        /\ IF rec[s].rows = 0
              THEN Returns([rec EXCEPT ![d] = ZeroRecord], heap, Spoiled(d, Nil))
              ELSE Returns([rec EXCEPT ![d] = copy], Made(heap, t, cells), Spoiled(d, Nil))
        /\ UNCHANGED initColMeta

---------------------------------------------------------------------------
(* Interval records: rows are appended and updated one at a time           *)

\* the times of a call that reads them of s and writes them of d
MoveTimes(fn, d, cols, bad, new, rows) ==
    /\ Running
    /\ IF bad THEN Panics(fn)
              ELSE Returns([rec EXCEPT ![d].rows = rows], Written(heap, rec[d].meta.Times, new),
                           Spoiled(d, IF cols = {} THEN Nil ELSE ArrayOf(rec[d])))
    /\ UNCHANGED <<where, initColMeta>>

\* rec.RecMeta.Times[i], or the panic that reading it is
NoCell(r, i) == rec[r].meta = Nil \/ i >= rec[r].meta.Times.len
NoTime(r, i, row) == NoCell(r, i) \/ row >= Cell(rec[r].meta.Times, i).len

AppendIntervalEmptyRow(r, initRecMeta) ==
    LET cols == IF initRecMeta /\ rec[r].meta # Nil THEN 0..rec[r].meta.Times.len - 2 ELSE {}
    IN  /\ r \in Held /\ 0 < rec[r].schemaLen /\ rec[r].rows < MaxRows
        /\ MoveTimes("AppendIntervalEmptyRow", r, cols, initRecMeta /\ rec[r].meta = Nil,
                     [i \in cols |-> AppendTimes(Cell(rec[r].meta.Times, i), <<0>>)], rec[r].rows + 1)

\* the columns of re for which appendRecMeta2iRec and updateRecMeta go on
Moved(re, last) ==
    IF rec[re].meta = Nil \/ rec[re].meta.Times.len = 0 THEN {}
    ELSE {i \in 0..last : NoCell(re, i) \/ Cell(rec[re].meta.Times, i).len # 0}

\* AppendRecRow2IntervalRec and appendRecMeta2iRec: row of re is appended to iRec
AppendRecRow2IntervalRec(iRec, re, row) ==
    LET cols == Moved(re, rec[re].schemaLen - 1)
    IN  /\ {iRec, re} \subseteq Held /\ iRec # re
        /\ 0 < rec[re].schemaLen /\ rec[re].schemaLen <= rec[iRec].schemaLen
        /\ row < rec[re].rows /\ rec[iRec].rows < MaxRows
        /\ MoveTimes("appendRecMeta2iRec", iRec, cols,
                     \E i \in cols : NoTime(re, i, row) \/ NoCell(iRec, i),
                     [i \in cols |-> AppendTimes(Cell(rec[iRec].meta.Times, i), <<Cell(rec[re].meta.Times, i).buf[row + 1]>>)],
                     rec[iRec].rows + 1)

\* UpdateIntervalRecRow and updateRecMeta: row of iRec becomes recRow of re
UpdateIntervalRecRow(iRec, re, recRow, row) ==
    LET cols == {i \in Moved(re, rec[re].schemaLen - 1) : i < rec[re].meta.Times.len - 1}
    IN  /\ {iRec, re} \subseteq Held /\ iRec # re
        /\ 0 < rec[re].schemaLen /\ rec[re].schemaLen <= rec[iRec].schemaLen
        /\ recRow < rec[re].rows /\ row < rec[iRec].rows
        /\ MoveTimes("updateRecMeta", iRec, cols,
                     \E i \in cols : NoTime(re, i, recRow) \/ NoTime(iRec, i, row),
                     [i \in cols |-> [Cell(rec[iRec].meta.Times, i) EXCEPT !.buf[row + 1] = Cell(rec[re].meta.Times, i).buf[recRow + 1]]],
                     rec[iRec].rows)

\* TransIntervalRec2Rec of one row that is not null, and appendRecMeta2Rec:
\* row of iRec is appended to re
TransIntervalRec2Rec(iRec, re, row) ==
    LET cols == IF rec[re].meta = Nil THEN {}
                ELSE IF rec[iRec].meta = Nil THEN 0..rec[iRec].schemaLen - 1
                ELSE Moved(iRec, rec[iRec].schemaLen - 1)
    IN  /\ {iRec, re} \subseteq Held /\ iRec # re
        /\ 0 < rec[iRec].schemaLen /\ rec[iRec].schemaLen <= rec[re].schemaLen
        /\ row < rec[iRec].rows /\ rec[re].rows < MaxRows
        /\ MoveTimes("appendRecMeta2Rec", re, cols,
                     \E i \in cols : NoTime(iRec, i, row) \/ NoCell(re, i),
                     [i \in cols |-> AppendTimes(Cell(rec[re].meta.Times, i), <<Cell(rec[iRec].meta.Times, i).buf[row + 1]>>)],
                     rec[re].rows + 1)

---------------------------------------------------------------------------
Init ==
    /\ rec = [r \in Records |-> ZeroRecord]
    /\ heap = [a \in Arrays |-> <<>>]
    /\ where = [r \in Records |-> "pool"]
    /\ initColMeta = [r \in Records |-> FALSE]
    /\ panic = Nil
    /\ fwd = [r \in Records |-> Nil]
    /\ calls = 0

\* a panic ends the program, and so does its last call
Stopped == ~Running /\ UNCHANGED vars

Next ==
    \/ \E r \in Records :
          \/ \E schemaLen \in SchemaLens, initMeta \in BOOLEAN :
                \/ NewRecord(r, schemaLen, initMeta)
                \/ \E fresh \in BOOLEAN : NewCircularRecordPool(r, schemaLen, initMeta, fresh)
          \/ \E fresh \in BOOLEAN : PoolGet(r, fresh)
          \/ Put(r)
          \/ Get(r)
          \/ \E schemaLen \in SchemaLens : GetBySchema(r, schemaLen)
          \/ \E k \in 1..MaxRows, cols \in SUBSET (0..rec[r].schemaLen - 2) : Load(r, k, cols)
          \/ \E i \in 1..MaxCols, v \in Values : SetColMeta(r, i, v)
          \/ \E initRecMeta \in BOOLEAN : AppendIntervalEmptyRow(r, initRecMeta)
    \/ \E d, s \in Records :
          \/ \E start, end \in 0..MaxRows :
                \/ AppendRec(d, s, start, end)
                \/ SliceFromRecord(d, s, start, end)
                \/ UpdateIntervalRecRow(d, s, start, end)
          \/ Copy(d, s)
          \/ \E row \in 0..MaxRows :
                \/ AppendRecRow2IntervalRec(d, s, row)
                \/ TransIntervalRec2Rec(d, s, row)
    \/ Stopped

Spec == Init /\ [][Next]_vars

\* no definition tells one record from another
Symmetry == Permutations(Records)

---------------------------------------------------------------------------
(* Properties                                                              *)

MetaOK(m) ==
    /\ DOMAIN m = {"ColMeta", "Times"}
    /\ DOMAIN m.ColMeta = 1..Len(m.ColMeta) /\ Len(m.ColMeta) <= MaxCols
    /\ \A i \in DOMAIN m.ColMeta : m.ColMeta[i] \in [isSetFlag : BOOLEAN, val : Values \cup {0}]
    /\ m.Times.arr \in Arrays \cup {Nil}
    /\ m.Times.len \in 0..Capacity(m.Times)

CellOK(c) ==
    /\ c.len \in 0..Len(c.buf)
    /\ Len(c.buf) <= MaxTimes
    /\ \A j \in DOMAIN c.buf : c.buf[j] \in 0..MaxRows

\* The variables have their types, and what Go keeps of slices holds: a
\* length is within the capacity, for Times (NewCircularRecordPool reslices
\* them to the schema after it has grown them) and for every cell; the arrays
\* are those that records point to.
TypeOK ==
    /\ \A r \in Records :
          /\ rec[r].schemaLen \in 0..MaxCols /\ rec[r].rows \in 0..MaxRows
          /\ rec[r].meta # Nil => MetaOK(rec[r].meta)
          /\ where[r] = "pool" => rec[r].rows = 0 /\ (rec[r].meta # Nil => rec[r].meta.Times.len = 0)
          /\ fwd[r] # Nil => r \in Held /\ fwd[r].next \in 0..rec[r].rows /\ fwd[r].cols \subseteq Timed(r)
    /\ where \in [Records -> {"pool", "own", "ring", "got"}]
    /\ initColMeta \in [Records -> BOOLEAN]
    /\ calls \in 0..MaxCalls
    /\ panic \in {Nil, "appendRecImpl", "SliceFromRecord", "AppendIntervalEmptyRow",
                  "appendRecMeta2iRec", "updateRecMeta", "appendRecMeta2Rec"}
    /\ \A a \in Arrays :
          /\ Len(heap[a]) <= MaxCols
          /\ \A i \in DOMAIN heap[a] : CellOK(heap[a][i])
          /\ heap[a] # <<>> => \E r \in Records : ArrayOf(rec[r]) = a

\* the times of rows start to end of a source as it was loaded
Window(start, end) == [j \in 1..end - start |-> start + j]

\* A source that is read front to back gives every window the times of its
\* rows: SliceFromRecord lends the destination the source's own Times where
\* it has none and moves the window to the front of every cell, which keeps
\* the rows behind the window, and only those, as they were.
ForwardSlicesReadTheirRows ==
    [][\A d, s \in Records, start, end \in 0..MaxRows :
          /\ panic' = Nil /\ fwd[s] # Nil /\ fwd[s].next <= start /\ start < end
          /\ SliceFromRecord(d, s, start, end)
          => \A i \in fwd[s].cols : View(d)'[i + 1] = Window(start, end)]_vars

\* SliceFromRecord returns for every window of the source: the only panic of
\* an append path is that of an unknown column type.
SliceFromRecordReturns == panic # "SliceFromRecord"

\* appendRecImpl returns for every range of rows of the source.
AppendRecReturns == panic # "appendRecImpl"

\* SliceFromRecord reads its source and writes its destination: the times
\* of the source are after the call what they were before.
SliceLeavesTheSource ==
    [][\A d, s \in Records, start, end \in 0..MaxRows :
          SliceFromRecord(d, s, start, end) => View(s)' = View(s)]_vars

\* RecMeta.IsEmpty tells whether a record holds pre-aggregates: where it is
\* true every ColMeta is as Init leaves it.
IsEmptyTellsAggregates ==
    \A r \in Held :
        rec[r].meta # Nil /\ IsEmpty(rec[r].meta)
           => \A i \in DOMAIN rec[r].meta.ColMeta : Agg(rec[r].meta.ColMeta[i]) = 0

=============================================================================
