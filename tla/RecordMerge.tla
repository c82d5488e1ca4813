----------------------------- MODULE RecordMerge ------------------------------
(***************************************************************************)
(* The paged merge of two records, driven the way the storage engine       *)
(* drives lib/record/record.go: a new and an old record of one series,     *)
(* both sorted by time in the same direction, are merged page by page.     *)
(* Every page is one call of MergeRecordLimitRows, of its descending twin  *)
(* or of MergeRecordByMaxTimeOfOldRec on a reset receiver; the call hands  *)
(* back how far it consumed either record and the next call goes on from   *)
(* there.  When one record is exhausted the caller appends what the other  *)
(* has left with AppendRec.                                                *)
(*                                                                         *)
(* The algorithms are the operators of module Record.  merged is a history *)
(* variable: the rows of all pages so far.                                 *)
(***************************************************************************)
EXTENDS Record

CONSTANTS Names,        \* field names, numbers so that they sort as in a Schema
          Times,        \* the timestamps a row can have
          MaxRows,      \* rows of an input record
          MaxNils,      \* null cells of an input record
          MaxLimit      \* the largest limitRows a caller passes

ASSUME /\ Names \subseteq Nat /\ Times \subseteq Int
       /\ MaxRows \in Nat \ {0} /\ MaxNils \in Nat /\ MaxLimit \in Nat \ {0}

VARIABLES newRec,       \* the record with the newer data
          oldRec,       \* the record with the older data
          ascending,    \* the direction both are sorted in
          newPos,       \* rows of newRec consumed so far
          oldPos,       \* rows of oldRec consumed so far
          limitRows,    \* the limit of the last call
          call,         \* the method of the last call
          rec,          \* the receiver after the last call: the page
          merged        \* history: the rows of all pages

vars == <<newRec, oldRec, ascending, newPos, oldPos, limitRows, call, rec, merged>>

Calls == {"none", "MergeRecord", "MergeRecordLimitRows", "MergeRecordByMaxTimeOfOldRec",
          "AppendRec"}

---------------------------------------------------------------------------
(* The input records                                                       *)

SortedTimes(asc) ==
    {ts \in UNION {[1..n -> Times] : n \in 1..MaxRows} :
        \A i \in 1..Len(ts) - 1 : IF asc THEN ts[i] < ts[i + 1] ELSE ts[i] > ts[i + 1]}

\* A record of source src: a value cell names its source, field and time.
Records(src, asc) ==
    {[schema |-> schema, times |-> ts,
      cols   |-> [c \in schema |-> [i \in 1..Len(ts) |->
                    IF <<c, i>> \in nils THEN Nil ELSE <<src, c, ts[i]>>]]] :
        <<schema, ts, nils>> \in
            {<<s, t, n>> \in (SUBSET Names \ {{}}) \X SortedTimes(asc)
                                \X SUBSET (Names \X (1..MaxRows)) :
                /\ n \subseteq s \X (1..Len(t))
                /\ Cardinality(n) <= MaxNils}}

\* a record whose columns all have one cell per row
WellFormed(r) ==
    /\ r.schema \subseteq Names
    /\ r.times \in Seq(Times)
    /\ DOMAIN r.cols = r.schema
    /\ \A c \in r.schema : Len(r.cols[c]) = Len(r.times)

---------------------------------------------------------------------------
(* The rows of a record under the union of the two schemas                 *)

Fields == newRec.schema \cup oldRec.schema

Cell(r, c, i) == IF c \in r.schema /\ i \in DOMAIN r.cols[c] THEN r.cols[c][i] ELSE Nil

Rows(r) == [i \in 1..Len(r.times) |->
                [time |-> r.times[i], vals |-> [c \in Fields |-> Cell(r, c, i)]]]

---------------------------------------------------------------------------

Init ==
    /\ ascending \in BOOLEAN
    /\ newRec \in Records("new", ascending)
    /\ oldRec \in Records("old", ascending)
    /\ newPos = 0 /\ oldPos = 0
    /\ limitRows = 0
    /\ call = "none"
    /\ rec = NewRecordBuilder({})
    /\ merged = <<>>

\* what every call leaves behind
Page(name, limit, r) ==
    /\ call' = name
    /\ limitRows' = limit
    /\ rec' = r.rec
    /\ newPos' = r.newEnd
    /\ oldPos' = r.oldEnd
    /\ merged' = merged \o Rows(r.rec)
    /\ UNCHANGED <<newRec, oldRec, ascending>>

BothHaveRows == newPos < RowNums(newRec) /\ oldPos < RowNums(oldRec)

\* rec.MergeRecord(newRec, oldRec) and MergeRecordDescend
MergeRecordWhole ==
    /\ call = "none"
    /\ Page("MergeRecord", RowNums(newRec) + RowNums(oldRec),
            IF ascending THEN MergeRecord(newRec, oldRec)
            ELSE MergeRecordDescend(newRec, oldRec))

\* rec.MergeRecordLimitRows(newRec, oldRec, newPos, oldPos, limit)
MergeRecordLimitRowsPage(limit) ==
    /\ BothHaveRows
    /\ ascending
    /\ Page("MergeRecordLimitRows", limit,
            MergeRecordLimitRows(newRec, oldRec, newPos, oldPos, limit))

\* rec.MergeRecordLimitRowsDescend(newRec, oldRec, newPos, oldPos, limit)
MergeRecordLimitRowsDescendPage(limit) ==
    /\ BothHaveRows
    /\ ~ascending
    /\ Page("MergeRecordLimitRows", limit,
            MergeRecordLimitRowsDescend(newRec, oldRec, newPos, oldPos, limit))

\* rec.MergeRecordByMaxTimeOfOldRec(newRec, oldRec, newPos, oldPos, limit, ascending)
MergeRecordByMaxTimeOfOldRecPage(limit) ==
    /\ BothHaveRows
    /\ Page("MergeRecordByMaxTimeOfOldRec", limit,
            MergeRecordByMaxTimeOfOldRec(newRec, oldRec, newPos, oldPos, limit, ascending))

\* one record is exhausted: rec.AppendRec of up to limit rows of the other
AppendRest(limit) ==
    /\ ~BothHaveRows
    /\ \/ /\ newPos < RowNums(newRec)
          /\ LET end == Min({newPos + limit, RowNums(newRec)})
             IN  Page("AppendRec", limit,
                      [rec    |-> AppendRec(NewRecordBuilder(Fields), newRec, newPos, end),
                       newEnd |-> end, oldEnd |-> oldPos])
       \/ /\ oldPos < RowNums(oldRec)
          /\ LET end == Min({oldPos + limit, RowNums(oldRec)})
             IN  Page("AppendRec", limit,
                      [rec    |-> AppendRec(NewRecordBuilder(Fields), oldRec, oldPos, end),
                       newEnd |-> newPos, oldEnd |-> end])

Next ==
    \/ MergeRecordWhole
    \/ \E limit \in 1..MaxLimit :
        \/ MergeRecordLimitRowsPage(limit)
        \/ MergeRecordLimitRowsDescendPage(limit)
        \/ MergeRecordByMaxTimeOfOldRecPage(limit)
        \/ AppendRest(limit)

Spec == Init /\ [][Next]_vars

---------------------------------------------------------------------------

TypeOK ==
    /\ ascending \in BOOLEAN
    /\ WellFormed(newRec) /\ WellFormed(oldRec)
    /\ newPos \in 0..RowNums(newRec)
    /\ oldPos \in 0..RowNums(oldRec)
    /\ limitRows \in 0..(2 * MaxRows)
    /\ call \in Calls
    /\ WellFormed(rec)
    /\ Len(merged) <= 2 * MaxRows

(***************************************************************************)
(* The reference: the rows of the first n rows of newRec and the first o   *)
(* rows of oldRec, one row per time in the direction of the records; in a  *)
(* field the value of newRec unless it has none there, then oldRec's.      *)
(***************************************************************************)
Reference(n, o) ==
    LET ValueAt(r, k, c, t) ==
            IF \E i \in 1..k : r.times[i] = t
            THEN Cell(r, c, CHOOSE i \in 1..k : r.times[i] = t)
            ELSE Nil
        ts == SetToSortSeq({newRec.times[i] : i \in 1..n} \cup {oldRec.times[i] : i \in 1..o},
                           LAMBDA a, b : IF ascending THEN a < b ELSE a > b)
    IN  [i \in 1..Len(ts) |->
            [time |-> ts[i],
             vals |-> [c \in Fields |->
                        IF ValueAt(newRec, n, c, ts[i]) # Nil
                        THEN ValueAt(newRec, n, c, ts[i])
                        ELSE ValueAt(oldRec, o, c, ts[i])]]]

Before(a, b) == IF ascending THEN a < b ELSE a > b

(***************************************************************************)
(* The pages of a merge, one after the other, are the sorted merge of the  *)
(* rows consumed so far, and every row not yet consumed lies strictly      *)
(* beyond them: whatever limits the caller passes from page to page, and   *)
(* whichever of MergeRecordLimitRows, MergeRecordLimitRowsDescend,         *)
(* MergeRecordByMaxTimeOfOldRec and AppendRec makes the page, no row is    *)
(* lost, doubled or out of order, two rows of one time are never split     *)
(* over two pages, and the new value wins where both records have one.     *)
(***************************************************************************)
PagesAreTheMerge ==
    /\ merged = Reference(newPos, oldPos)
    /\ \A i \in 1..Len(merged) :
        /\ \A j \in newPos + 1..RowNums(newRec) : Before(merged[i].time, newRec.times[j])
        /\ \A j \in oldPos + 1..RowNums(oldRec) : Before(merged[i].time, oldRec.times[j])

(***************************************************************************)
(* A page of MergeRecordLimitRows or MergeRecordLimitRowsDescend has at    *)
(* least one row and at most limitRows, and it has fewer only when both    *)
(* records are exhausted: the caller's loop ends and fills its pages.      *)
(***************************************************************************)
PageFillsTheLimit ==
    call \in {"MergeRecord", "MergeRecordLimitRows"} =>
        /\ RowNums(rec) \in 1..limitRows
        /\ RowNums(rec) < limitRows =>
                newPos = RowNums(newRec) /\ oldPos = RowNums(oldRec)

(***************************************************************************)
(* limitRows caps the rows of a page whichever method makes it.  This is   *)
(* what the parameter promises of MergeRecordByMaxTimeOfOldRec as well;    *)
(* its branch for a new record that lies wholly beyond the old one appends *)
(* every row the old record has left.                                      *)
(***************************************************************************)
EveryPageWithinLimit ==
    call # "none" => RowNums(rec) <= limitRows

(***************************************************************************)
(* KickNilRow of a page keeps exactly the rows with a value in some field, *)
(* in their order.                                                         *)
(***************************************************************************)
KickNilRowKeepsValuedRows ==
    Rows(KickNilRow(rec)) =
        SelectSeq(Rows(rec), LAMBDA row : \E c \in rec.schema : row.vals[c] # Nil)

(***************************************************************************)
(* Split of a page into records of at most m rows loses and reorders       *)
(* nothing: the segments, each with 1 to m rows, concatenate to the page.  *)
(***************************************************************************)
SplitIsPartition ==
    \A m \in 1..MaxLimit :
        LET dst == Split(rec, m)
        IN  /\ FlattenSeq([j \in 1..Len(dst) |-> Rows(dst[j])]) = Rows(rec)
            /\ \A j \in 1..Len(dst) : RowNums(dst[j]) <= m
            /\ \A j \in 1..Len(dst) : WellFormed(dst[j])

(***************************************************************************)
(* Merge, the append of level compaction, puts all rows of the new record  *)
(* after the rows of the receiver under the union of their schemas, also   *)
(* when the new record brings fields the receiver does not have.           *)
(***************************************************************************)
MergeAppendsAllRows ==
    LET m == Merge(oldRec, newRec)
    IN  /\ WellFormed(m)
        /\ m.schema = Fields
        /\ Rows(m) = Rows(oldRec) \o Rows(newRec)

Valued(row) == \E c \in Fields : row.vals[c] # Nil

(***************************************************************************)
(* CopyWithCondition of an ascending page under the schema of another      *)
(* record is the rows of the page whose time lies in the range, first to   *)
(* last or last to first, with nulls in the fields the page lacks, and nil *)
(* exactly when no row is in the range or no field is shared: the two      *)
(* binary searches and the loops from endIndex down agree on the bounds.   *)
(* Over all rows it is what Copy and SliceFromRecord give.                 *)
(***************************************************************************)
CopyWithConditionIsTheRange ==
    ascending /\ call # "none" =>
        LET all   == Rows(rec)
            whole == [Min |-> At(rec.times, 0), Max |-> At(rec.times, RowNums(rec) - 1)]
        IN  /\ \A min \in Times, max \in Times, asc \in BOOLEAN :
                LET copy == CopyWithCondition(rec, asc, [Min |-> min, Max |-> max], newRec.schema)
                    rows == SelectSeq(all, LAMBDA row : row.time >= min /\ row.time <= max)
                    want == IF asc THEN rows ELSE Reverse(rows)
                IN  IF rows = <<>> \/ newRec.schema \cap rec.schema = {}
                    THEN copy = Nil
                    ELSE /\ WellFormed(copy)
                         /\ copy.schema = newRec.schema
                         /\ copy.times = [i \in 1..Len(want) |-> want[i].time]
                         /\ \A c \in newRec.schema :
                                copy.cols[c] = [i \in 1..Len(want) |->
                                                    IF c \in rec.schema THEN want[i].vals[c] ELSE Nil]
            /\ CopyWithCondition(rec, TRUE, whole, rec.schema) = Copy(rec)
            /\ SliceFromRecord(rec, 0, RowNums(rec)) = Copy(rec)
            /\ Copy(rec) = rec

(***************************************************************************)
(* AppendRecForTagSet leaves the fields behind the last field of the       *)
(* source short, and TryPadColumn makes up for exactly that: old rows      *)
(* padded to the union of the schemas, the new rows appended for a tag set *)
(* and the columns padded is the record that Merge builds.                 *)
(***************************************************************************)
TagSetAppendPaddedIsMerge ==
    TryPadColumn(AppendRecForTagSet(PadRecord(oldRec, newRec), newRec, 0, RowNums(newRec)))
        = Merge(oldRec, newRec)

\* the bitmap of a column whose first row is bit offset of 16
Bitmap(col, offset) ==
    [k \in 1..16 |->
        IF k - offset \in 1..Len(col) THEN (IF col[k - offset] = Nil THEN 0 ELSE 1)
        ELSE k % 2]

BitOffsets == {0, 7}

(***************************************************************************)
(* ReverseBitMap turns the bitmap of a column of a whole merge into the    *)
(* bitmap of the column read backwards and touches no bit before the       *)
(* offset or after the last row, also where the rows straddle two bytes.   *)
(***************************************************************************)
ReverseBitMapMirrorsRows ==
    call = "MergeRecord" =>
        \A c \in rec.schema, offset \in BitOffsets :
            ReverseBitMap(Bitmap(rec.cols[c], offset), offset, Len(rec.cols[c]))
                = Bitmap(Reverse(rec.cols[c]), offset)

(***************************************************************************)
(* valueIndexRange of rows start..end-1 of a column of a whole merge names *)
(* the values of exactly those rows among the values of the column, which  *)
(* are stored without the nulls; and the bytes subBitmapBytes cuts out for *)
(* the rows, read from the offset it returns, hold the same bits.          *)
(***************************************************************************)
ValueIndexRangeNamesTheValues ==
    call = "MergeRecord" =>
        \A c \in rec.schema, offset \in BitOffsets :
            LET col     == rec.cols[c]
                bitMap  == Bitmap(col, offset)
                Vals(s) == SelectSeq(s, LAMBDA v : v # Nil)
                vals    == Vals(col)
            IN  \A start \in 0..Len(col), end \in 0..Len(col) :
                    start <= end =>
                        LET range == valueIndexRange(bitMap, offset, start, end)
                            sub   == subBitmapBytes(bitMap, offset + start, end - start)
                        IN  /\ Slice(vals, range[1], range[2]) = Vals(Slice(col, start, end))
                            /\ \A i \in 0..end - start - 1 :
                                    At(sub[1], sub[2] + i) = At(bitMap, offset + start + i)

(***************************************************************************)
(* A page goes through an interval record and comes back with the rows     *)
(* that have a value, in their order: BuildEmptyIntervalRec makes a window *)
(* at the time of every row in either direction, UpdateIntervalRecRow      *)
(* fills the window of each row, and TransIntervalRec2Rec drops the        *)
(* windows that stayed empty and the rows that are null in every field.    *)
(* Appending the rows with AppendRecRow2IntervalRec comes to the same.     *)
(***************************************************************************)
IntervalFillKeepsValuedRows ==
    call # "none" =>
        LET min    == Min({rec.times[i] : i \in 1..RowNums(rec)})
            max    == Max({rec.times[i] : i \in 1..RowNums(rec)}) + 1
            rows   == [k \in 1..RowNums(rec) |-> k - 1]
            Window(row) == IF ascending THEN At(rec.times, row) - min
                           ELSE max - 1 - At(rec.times, row)
            empty  == BuildEmptyIntervalRec(NewRecordBuilder(rec.schema), min, max, 1,
                                            TRUE, ascending)
            filled == FoldLeft(LAMBDA iRec, row : UpdateIntervalRecRow(iRec, rec, row, Window(row)),
                               empty, rows)
            copied == FoldLeft(LAMBDA iRec, row : AppendRecRow2IntervalRec(iRec, rec, row),
                               NewRecordBuilder(rec.schema), rows)
            Back(iRec) == TransIntervalRec2Rec(iRec, NewRecordBuilder(rec.schema), 0, RowNums(iRec))
        IN  /\ RowNums(empty) = max - min
            /\ \A row \in 0..RowNums(rec) - 1 : At(empty.times, Window(row)) = At(rec.times, row)
            /\ Rows(Back(filled)) = SelectSeq(Rows(rec), Valued)
            /\ Back(copied) = Back(filled)
===============================================================================
