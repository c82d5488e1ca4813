-------------------------------- MODULE Record --------------------------------
(***************************************************************************)
(* The row-merging algorithms of lib/record/record.go as operators.        *)
(*                                                                         *)
(* A Record is abstracted to                                               *)
(*   schema : the set of its field names, the time field left out          *)
(*            (Schema is kept sorted by name with time last, so the        *)
(*            two-pointer walks over two schemas are walks over sets),     *)
(*   times  : the time column, one entry per row,                          *)
(*   cols   : for every field the column, one cell per row, Nil for null.  *)
(* Field types, bitmaps, offsets and RecMeta are left out.                 *)
(*                                                                         *)
(* Row positions are the 0-based positions of the Go code.  A method with  *)
(* receiver rec is an operator whose first parameter is rec and whose      *)
(* value is the receiver afterwards, with the returned positions where the *)
(* method returns some.                                                    *)
(***************************************************************************)
EXTENDS Integers, Sequences, FiniteSets, SequencesExt

CONSTANT Nil        \* the null cell

\* s[start:end] and s[i] of Go
Slice(s, start, end) == SubSeq(s, start + 1, end)
At(s, i) == s[i + 1]

RowNums(rec) == Len(rec.times)

NewRecordBuilder(schema) ==
    [schema |-> schema, times |-> <<>>, cols |-> [c \in schema |-> <<>>]]

---------------------------------------------------------------------------
(* Column helpers and the binary searches over a time column.  Their code  *)
(* is outside this repository's sources; they are modelled by contract.    *)

PadColVal(col, n) == col \o [i \in 1..n |-> Nil]

AppendColVal(col, src, start, end) == col \o Slice(src, start, end)

IsNil(col, row) == At(col, row) = Nil

\* the position of targetTime at or after startPos, where it is absent the
\* position of the first later time (ascending column)
GetTimeRangeStartIndex(times, startPos, targetTime) ==
    Min({i \in startPos..Len(times) - 1 : At(times, i) >= targetTime}
            \cup {Max({startPos, Len(times)})})

\* the position of the last time not after targetTime, startPos - 1 if none
GetTimeRangeEndIndex(times, startPos, targetTime) ==
    Max({i \in startPos..Len(times) - 1 : At(times, i) <= targetTime}
            \cup {startPos - 1})

GetTimeRangeStartIndexDescend(times, startPos, targetTime) ==
    Min({i \in startPos..Len(times) - 1 : At(times, i) <= targetTime}
            \cup {Max({startPos, Len(times)})})

GetTimeRangeEndIndexDescend(times, startPos, targetTime) ==
    Max({i \in startPos..Len(times) - 1 : At(times, i) >= targetTime}
            \cup {startPos - 1})

\* ColVal.Split: consecutive pieces of maxRows cells, the last one shorter
ColSplit(col, maxRows) ==
    [j \in 1..((Len(col) + maxRows - 1) \div maxRows) |->
        Slice(col, (j - 1) * maxRows, Min({j * maxRows, Len(col)}))]

---------------------------------------------------------------------------
(* Appending rows of one record to another                                 *)

\* mutant: the columns srcRec lacks are never padded
appendRecImpl_NoPad(rec, srcRec, start, end, pad) ==
    IF start = end THEN rec
    ELSE [rec EXCEPT
            !.times = AppendColVal(@, srcRec.times, start, end),
            !.cols  = [c \in rec.schema |->
                        IF c \in srcRec.schema
                        THEN AppendColVal(rec.cols[c], srcRec.cols[c], start, end)
                        ELSE rec.cols[c]]]

\* Rows start..end-1 of srcRec go to the end of rec.  A field of rec that
\* srcRec lacks is padded with nulls while the walk still has a field of
\* srcRec ahead of it, and after that only if pad.
appendRecImpl(rec, srcRec, start, end, pad) ==
    IF start = end THEN rec
    ELSE [rec EXCEPT
            !.times = AppendColVal(@, srcRec.times, start, end),
            !.cols  = [c \in rec.schema |->
                        IF c \in srcRec.schema
                        THEN AppendColVal(rec.cols[c], srcRec.cols[c], start, end)
                        ELSE IF pad \/ \E s \in srcRec.schema : s > c
                        THEN PadColVal(rec.cols[c], end - start)
                        ELSE rec.cols[c]]]

AppendRec(rec, srcRec, start, end) == appendRecImpl(rec, srcRec, start, end, TRUE)

---------------------------------------------------------------------------
(* The sorted merge of two records                                         *)

mergeRecordSchema(newRec, oldRec) == newRec.schema \cup oldRec.schema

\* mutant: at equal times the old record's value wins
mergeRecRow_OldWins(rec, newRec, oldRec, newRowIdx, oldRowIdx) ==
    LET Cell(c) ==
            IF c \in oldRec.schema /\ ~IsNil(oldRec.cols[c], oldRowIdx)
            THEN At(oldRec.cols[c], oldRowIdx)
            ELSE IF c \in newRec.schema THEN At(newRec.cols[c], newRowIdx)
            ELSE Nil
    IN  [rec EXCEPT !.times = Append(@, At(newRec.times, newRowIdx)),
                    !.cols  = [c \in rec.schema |-> Append(rec.cols[c], Cell(c))]]

\* One row for two rows of equal time: in a field of both records the new
\* value unless it is null, then the old one; the time is the new row's.
mergeRecRow(rec, newRec, oldRec, newRowIdx, oldRowIdx) ==
    LET Cell(c) ==
            CASE c \in newRec.schema /\ c \in oldRec.schema ->
                    IF ~IsNil(newRec.cols[c], newRowIdx)
                    THEN At(newRec.cols[c], newRowIdx)
                    ELSE IF ~IsNil(oldRec.cols[c], oldRowIdx)
                    THEN At(oldRec.cols[c], oldRowIdx)
                    ELSE Nil
              [] c \in newRec.schema -> At(newRec.cols[c], newRowIdx)
              [] OTHER               -> At(oldRec.cols[c], oldRowIdx)
    IN  [rec EXCEPT !.times = Append(@, At(newRec.times, newRowIdx)),
                    !.cols  = [c \in rec.schema |-> Append(rec.cols[c], Cell(c))]]

\* mutant: limitRows is forgotten for the rows of newRec
mergeRecordNonOverlap_SecondUncapped(newRec, oldRec, newPos, oldPos, newRows, oldRows, limitRows) ==
    LET oldFits == oldRows - oldPos < limitRows
        oldEnd  == IF oldFits THEN oldRows ELSE oldPos + limitRows
        newEnd  == IF oldFits THEN newRows ELSE newPos
    IN  [rec    |-> AppendRec(AppendRec(NewRecordBuilder(mergeRecordSchema(newRec, oldRec)),
                                        oldRec, oldPos, oldEnd),
                              newRec, newPos, newEnd),
         newEnd |-> newEnd,
         oldEnd |-> oldEnd]

\* The rows oldPos.. of oldRec, all of them before the rows newPos.. of
\* newRec, and then those, limitRows rows at most.  The receiver is a reset
\* record and gets the union of the two schemas; a field one record lacks
\* is padded over that record's rows.
mergeRecordNonOverlap(newRec, oldRec, newPos, oldPos, newRows, oldRows, limitRows) ==
    LET oldFits == oldRows - oldPos < limitRows
        left    == limitRows - (oldRows - oldPos)
        oldEnd  == IF oldFits THEN oldRows ELSE oldPos + limitRows
        newEnd  == IF ~oldFits THEN newPos
                   ELSE IF newRows - newPos <= left THEN newRows
                   ELSE newPos + left
        Part(r, c, start, end) ==
            IF c \in r.schema THEN AppendColVal(<<>>, r.cols[c], start, end)
            ELSE PadColVal(<<>>, end - start)
        schema  == mergeRecordSchema(newRec, oldRec)
    IN  [rec    |-> [schema |-> schema,
                     times  |-> Slice(oldRec.times, oldPos, oldEnd)
                                    \o Slice(newRec.times, newPos, newEnd),
                     cols   |-> [c \in schema |->
                                    Part(oldRec, c, oldPos, oldEnd)
                                        \o Part(newRec, c, newPos, newEnd)]],
         newEnd |-> newEnd,
         oldEnd |-> oldEnd]

\* The loop of appendRecs: s holds the receiver, the two positions and what
\* is left of limitRows.  The row that comes first in the direction goes
\* out, or one merged row for two of equal time, until one range is
\* exhausted or the limit is used up.
RECURSIVE mergeRows(_, _, _, _, _, _, _, _)
mergeRows(ascending, s, newRec, oldRec, newEnd, oldEnd, newTimeVals, oldTimeVals) ==
    IF ~(s.n < newEnd /\ s.o < oldEnd) THEN s
    ELSE LET tn == At(newTimeVals, s.n)
             to == At(oldTimeVals, s.o)
             next ==
                CASE (IF ascending THEN to < tn ELSE tn < to) ->
                        [s EXCEPT !.rec = AppendRec(@, oldRec, s.o, s.o + 1),
                                  !.o = @ + 1, !.limit = @ - 1]
                  [] (IF ascending THEN tn < to ELSE to < tn) ->
                        [s EXCEPT !.rec = AppendRec(@, newRec, s.n, s.n + 1),
                                  !.n = @ + 1, !.limit = @ - 1]
                  [] OTHER ->
                        [s EXCEPT !.rec = mergeRecRow(@, newRec, oldRec, s.n, s.o),
                                  !.n = @ + 1, !.o = @ + 1, !.limit = @ - 1]
         IN  IF next.limit = 0 THEN next
             ELSE mergeRows(ascending, next, newRec, oldRec, newEnd, oldEnd,
                            newTimeVals, oldTimeVals)

\* The end of appendRecs after its loop left s: nothing more where the
\* limit is used up, else what one range has left, cut at the limit.
appendTail(s, newRec, oldRec, newEnd, oldEnd) ==
    CASE s.limit = 0 ->
            [rec |-> s.rec, limitRows |-> 0, newEnd |-> s.n, oldEnd |-> s.o]
      [] s.n < newEnd /\ newEnd - s.n >= s.limit ->
            [rec |-> AppendRec(s.rec, newRec, s.n, s.n + s.limit),
             limitRows |-> 0, newEnd |-> s.n + s.limit, oldEnd |-> s.o]
      [] s.n < newEnd ->
            [rec |-> AppendRec(s.rec, newRec, s.n, newEnd),
             limitRows |-> s.limit - (newEnd - s.n), newEnd |-> newEnd, oldEnd |-> oldEnd]
      [] s.o < oldEnd /\ oldEnd - s.o >= s.limit ->
            [rec |-> AppendRec(s.rec, oldRec, s.o, s.o + s.limit),
             limitRows |-> 0, newEnd |-> s.n, oldEnd |-> s.o + s.limit]
      [] s.o < oldEnd ->
            [rec |-> AppendRec(s.rec, oldRec, s.o, oldEnd),
             limitRows |-> s.limit - (oldEnd - s.o), newEnd |-> newEnd, oldEnd |-> oldEnd]
      [] OTHER ->
            [rec |-> s.rec, limitRows |-> s.limit, newEnd |-> newEnd, oldEnd |-> oldEnd]

\* The two-pointer merge of rows newStart..newEnd-1 and oldStart..oldEnd-1
\* and what one of them has left, limitRows rows at most; the value has the
\* receiver, what is left of limitRows and the positions reached.
appendRecs(ascending, rec, newRec, oldRec, newStart, newEnd, oldStart, oldEnd, newTimeVals, oldTimeVals, limitRows) ==
    appendTail(mergeRows(ascending,
                         [rec |-> rec, n |-> newStart, o |-> oldStart, limit |-> limitRows],
                         newRec, oldRec, newEnd, oldEnd, newTimeVals, oldTimeVals),
               newRec, oldRec, newEnd, oldEnd)

\* The end of mergeRecordOverlapImpl after appendRecs returned r: the rows
\* after the overlap, of newRec where oldRec is exhausted and of oldRec
\* otherwise, cut at what the limit leaves.
overlapTail(r, newRec, oldRec, newRows, oldRows) ==
    CASE r.limitRows = 0 ->
            [rec |-> r.rec, newEnd |-> r.newEnd, oldEnd |-> r.oldEnd]
      [] r.oldEnd = oldRows /\ newRows - r.newEnd >= r.limitRows ->
            [rec    |-> AppendRec(r.rec, newRec, r.newEnd, r.newEnd + r.limitRows),
             newEnd |-> r.newEnd + r.limitRows, oldEnd |-> r.oldEnd]
      [] r.oldEnd = oldRows ->
            [rec    |-> AppendRec(r.rec, newRec, r.newEnd, newRows),
             newEnd |-> newRows, oldEnd |-> oldRows]
      [] oldRows - r.oldEnd >= r.limitRows ->
            [rec    |-> AppendRec(r.rec, oldRec, r.oldEnd, r.oldEnd + r.limitRows),
             newEnd |-> r.newEnd, oldEnd |-> r.oldEnd + r.limitRows]
      [] OTHER ->
            [rec    |-> AppendRec(r.rec, oldRec, r.oldEnd, oldRows),
             newEnd |-> newRows, oldEnd |-> oldRows]

\* The rows before the overlap, which all belong to one record, then the
\* overlap by appendRecs, then what one record has left after it; every
\* part is cut at what limitRows leaves.
mergeRecordOverlapImpl(rec, newRec, oldRec, newOpStart, newOpEnd, oldOpStart, oldOpEnd, newTimeVals, oldTimeVals, newPos, oldPos, newRows, oldRows, limitRows, ascending) ==
    LET newLeads == oldOpStart = oldPos
        lead     == IF newLeads THEN newOpStart - newPos ELSE oldOpStart - oldPos
        Lead(n)  == IF newLeads THEN AppendRec(rec, newRec, newPos, newPos + n)
                    ELSE AppendRec(rec, oldRec, oldPos, oldPos + n)
    IN  IF lead >= limitRows
        THEN [rec    |-> Lead(limitRows),
              newEnd |-> IF newLeads THEN newPos + limitRows ELSE newPos,
              oldEnd |-> IF newLeads THEN oldPos ELSE oldPos + limitRows]
        ELSE overlapTail(appendRecs(ascending, Lead(lead), newRec, oldRec,
                                    newOpStart, Min({newOpEnd, newRows}),
                                    oldOpStart, Min({oldOpEnd, oldRows}),
                                    newTimeVals, oldTimeVals, limitRows - lead),
                         newRec, oldRec, newRows, oldRows)

\* Ascending records whose time ranges overlap: which record leads and
\* which one ends first decide the bounds of the overlap.
mergeRecordOverlap(newRec, oldRec, newTimeVals, oldTimeVals, newPos, oldPos, newRows, oldRows, limitRows) ==
    LET Start(times, pos, t) == GetTimeRangeStartIndex(times, pos, t)
        newFirst == At(newTimeVals, newPos)
        oldFirst == At(oldTimeVals, oldPos)
        newLast  == At(newTimeVals, newRows - 1)
        oldLast  == At(oldTimeVals, oldRows - 1)
        Impl(op) ==
            mergeRecordOverlapImpl(NewRecordBuilder(mergeRecordSchema(newRec, oldRec)),
                                   newRec, oldRec, op[1], op[2], op[3], op[4],
                                   newTimeVals, oldTimeVals, newPos, oldPos,
                                   newRows, oldRows, limitRows, TRUE)
    IN  Impl(CASE newFirst < oldFirst /\ newLast <= oldLast ->
              <<Start(newTimeVals, newPos, oldFirst), newRows,
                oldPos, Start(oldTimeVals, oldPos, newLast) + 1>>
          [] newFirst < oldFirst ->
              <<Start(newTimeVals, newPos, oldFirst),
                Start(newTimeVals, newPos, oldLast) + 1,
                oldPos, oldRows>>
          [] newLast <= oldLast ->
              <<newPos, newRows,
                Start(oldTimeVals, oldPos, newFirst),
                Start(oldTimeVals, oldPos, newLast + 1)>>
          [] OTHER ->
              <<newPos, Start(newTimeVals, newPos, oldLast) + 1,
                Start(oldTimeVals, oldPos, newFirst), oldRows>>)

\* The same for descending records.
mergeRecordOverlapDescend(newRec, oldRec, newTimeVals, oldTimeVals, newPos, oldPos, newRows, oldRows, limitRows) ==
    LET Start(times, pos, t) == GetTimeRangeStartIndexDescend(times, pos, t)
        newFirst == At(newTimeVals, newPos)
        oldFirst == At(oldTimeVals, oldPos)
        newLast  == At(newTimeVals, newRows - 1)
        oldLast  == At(oldTimeVals, oldRows - 1)
        Impl(op) ==
            mergeRecordOverlapImpl(NewRecordBuilder(mergeRecordSchema(newRec, oldRec)),
                                   newRec, oldRec, op[1], op[2], op[3], op[4],
                                   newTimeVals, oldTimeVals, newPos, oldPos,
                                   newRows, oldRows, limitRows, FALSE)
    IN  Impl(CASE newLast < oldLast /\ newFirst <= oldFirst ->
              <<newPos, Start(newTimeVals, newPos, oldLast) + 1,
                Start(oldTimeVals, oldPos, newFirst), oldRows>>
          [] newLast < oldLast ->
              <<Start(newTimeVals, newPos, oldFirst),
                Start(newTimeVals, newPos, oldLast) + 1,
                oldPos, oldRows>>
          [] newFirst >= oldFirst ->
              <<Start(newTimeVals, newPos, oldFirst), newRows,
                oldPos, Start(oldTimeVals, oldPos, newLast) + 1>>
          [] OTHER ->
              <<newPos, newRows,
                Start(oldTimeVals, oldPos, newFirst),
                Start(oldTimeVals, oldPos, newLast) + 1>>)

\* mergeRecordNonOverlap called with the two records in the other order
Swapped(r) == [rec |-> r.rec, newEnd |-> r.oldEnd, oldEnd |-> r.newEnd]

\* One page of the ascending merge of newRec from newPos and oldRec from
\* oldPos into a reset receiver: the rows it holds and how far either
\* record was consumed.
MergeRecordLimitRows(newRec, oldRec, newPos, oldPos, limitRows) ==
    LET newTimeVals == newRec.times
        oldTimeVals == oldRec.times
    IN  CASE At(newTimeVals, newPos) > At(oldTimeVals, Len(oldTimeVals) - 1) ->
                mergeRecordNonOverlap(newRec, oldRec, newPos, oldPos,
                                      Len(newTimeVals), Len(oldTimeVals), limitRows)
          [] At(newTimeVals, Len(newTimeVals) - 1) < At(oldTimeVals, oldPos) ->
                Swapped(mergeRecordNonOverlap(oldRec, newRec, oldPos, newPos,
                                              Len(oldTimeVals), Len(newTimeVals), limitRows))
          [] OTHER ->
                mergeRecordOverlap(newRec, oldRec, newTimeVals, oldTimeVals, newPos, oldPos,
                                   Len(newTimeVals), Len(oldTimeVals), limitRows)

MergeRecordLimitRowsDescend(newRec, oldRec, newPos, oldPos, limitRows) ==
    LET newTimeVals == newRec.times
        oldTimeVals == oldRec.times
    IN  CASE At(newTimeVals, newPos) < At(oldTimeVals, Len(oldTimeVals) - 1) ->
                mergeRecordNonOverlap(newRec, oldRec, newPos, oldPos,
                                      Len(newTimeVals), Len(oldTimeVals), limitRows)
          [] At(newTimeVals, Len(newTimeVals) - 1) > At(oldTimeVals, oldPos) ->
                Swapped(mergeRecordNonOverlap(oldRec, newRec, oldPos, newPos,
                                              Len(oldTimeVals), Len(newTimeVals), limitRows))
          [] OTHER ->
                mergeRecordOverlapDescend(newRec, oldRec, newTimeVals, oldTimeVals, newPos, oldPos,
                                          Len(newTimeVals), Len(oldTimeVals), limitRows)

MergeRecord(newRec, oldRec) ==
    MergeRecordLimitRows(newRec, oldRec, 0, 0, RowNums(newRec) + RowNums(oldRec))

MergeRecordDescend(newRec, oldRec) ==
    MergeRecordLimitRowsDescend(newRec, oldRec, 0, 0, RowNums(newRec) + RowNums(oldRec))

\* A page that takes from newRec only the rows up to the last time of
\* oldRec.  Where every row of newRec is beyond oldRec, the receiver gets
\* the schema of oldRec and all the rows oldRec has left.
MergeRecordByMaxTimeOfOldRec(newRec, oldRec, newPos, oldPos, limitRows, ascending) ==
    LET newTimeVals == newRec.times
        oldTimeVals == oldRec.times
        newFirst == At(newTimeVals, newPos)
        newLast  == At(newTimeVals, Len(newTimeVals) - 1)
        oldFirst == At(oldTimeVals, oldPos)
        oldLast  == At(oldTimeVals, Len(oldTimeVals) - 1)
        newEndIndex == IF ascending
                       THEN GetTimeRangeEndIndex(newTimeVals, newPos, oldLast)
                       ELSE GetTimeRangeEndIndexDescend(newTimeVals, newPos, oldLast)
        cut == Slice(newTimeVals, 0, newEndIndex + 1)
        OnlyOld ==
            [rec    |-> AppendRec(NewRecordBuilder(oldRec.schema), oldRec, oldPos, Len(oldTimeVals)),
             newEnd |-> newPos, oldEnd |-> Len(oldTimeVals)]
        NewThenOld ==
            Swapped(mergeRecordNonOverlap(oldRec, newRec, oldPos, newPos,
                                          Len(oldTimeVals), Len(newTimeVals), limitRows))
    IN  IF ascending
        THEN CASE newFirst > oldLast -> OnlyOld
               [] newLast < oldFirst -> NewThenOld
               [] OTHER -> mergeRecordOverlap(newRec, oldRec, cut, oldTimeVals, newPos, oldPos,
                                              newEndIndex + 1, Len(oldTimeVals), limitRows)
        ELSE CASE newLast > oldFirst -> NewThenOld
               [] newFirst < oldLast -> OnlyOld
               [] OTHER -> mergeRecordOverlapDescend(newRec, oldRec, cut, oldTimeVals, newPos, oldPos,
                                                     newEndIndex + 1, Len(oldTimeVals), limitRows)

---------------------------------------------------------------------------
(* Level compaction's append, null rows, splitting                         *)

\* addColumn for every field of other that rec lacks, a column of nulls as
\* long as rec, and the schema sorted again
PadRecord(rec, other) ==
    [rec EXCEPT !.schema = @ \cup other.schema,
                !.cols   = [c \in rec.schema \cup other.schema |->
                                IF c \in rec.schema THEN rec.cols[c]
                                ELSE PadColVal(<<>>, RowNums(rec))]]

\* mutant: the fields only newRec has are not added first
Merge_NoPadRecord(rec, newRec) ==
    [rec EXCEPT !.times = AppendColVal(@, newRec.times, 0, RowNums(newRec)),
                !.cols  = [c \in rec.schema |->
                              IF c \in newRec.schema
                              THEN AppendColVal(rec.cols[c], newRec.cols[c], 0, RowNums(newRec))
                              ELSE PadColVal(rec.cols[c], RowNums(newRec))]]

\* All rows of newRec after the rows of rec, under the union of the schemas
Merge(rec, newRec) ==
    LET padded     == PadRecord(rec, newRec)
        newRecRows == RowNums(newRec)
    IN  [padded EXCEPT
            !.times = AppendColVal(@, newRec.times, 0, newRecRows),
            !.cols  = [c \in padded.schema |->
                          IF c \in newRec.schema
                          THEN AppendColVal(padded.cols[c], newRec.cols[c], 0, newRecRows)
                          ELSE PadColVal(padded.cols[c], newRecRows)]]

IsNilRow(rec, row) == \A c \in rec.schema : IsNil(rec.cols[c], row)

\* the longest run of rows from position from on that are not null rows
RunEnd(rec, from) ==
    Min({e \in from..RowNums(rec) : e = RowNums(rec) \/ IsNilRow(rec, e)})

\* mutant: the fast path takes a column with some value for one without nulls
KickNilRow_AnyValue(rec) ==
    IF \E c \in rec.schema : \E row \in 0..RowNums(rec) - 1 : ~IsNil(rec.cols[c], row)
    THEN rec
    ELSE NewRecordBuilder(rec.schema)

\* The slow path of KickNilRow from row rowIdx on: every run of rows that
\* are not null rows is appended to newRec; a run over all rows returns rec.
RECURSIVE kickRows(_, _, _)
kickRows(rec, newRec, rowIdx) ==
    IF rowIdx >= RowNums(rec) THEN newRec
    ELSE LET endRow == RunEnd(rec, rowIdx)
         IN  CASE endRow = rowIdx -> kickRows(rec, newRec, rowIdx + 1)
               [] endRow - rowIdx = RowNums(rec) -> rec
               [] OTHER -> kickRows(rec, AppendRec(newRec, rec, rowIdx, endRow), endRow)

\* The record without its null rows.  Fast path: a column that is not
\* empty and has no null leaves no null row, and rec itself is returned.
KickNilRow(rec) ==
    IF \E c \in rec.schema :
          /\ Len(rec.cols[c]) # 0
          /\ \A row \in 0..Len(rec.cols[c]) - 1 : ~IsNil(rec.cols[c], row)
    THEN rec
    ELSE kickRows(rec, NewRecordBuilder(rec.schema), 0)

\* mutant: the number of segments is rounded down
Split_RoundedDown(rec, maxRows) ==
    IF RowNums(rec) <= maxRows THEN <<rec>>
    ELSE [j \in 1..(RowNums(rec) \div maxRows) |->
            [schema |-> rec.schema,
             times  |-> ColSplit(rec.times, maxRows)[j],
             cols   |-> [c \in rec.schema |-> ColSplit(rec.cols[c], maxRows)[j]]]]

\* rec cut into records of maxRows rows, the last one shorter; rec itself
\* where it has no more rows than that
Split(rec, maxRows) ==
    LET rows == RowNums(rec)
        segs == (rows + maxRows - 1) \div maxRows
    IN  IF rows <= maxRows \/ segs = 1 THEN <<rec>>
        ELSE [j \in 1..segs |->
                [schema |-> rec.schema,
                 times  |-> ColSplit(rec.times, maxRows)[j],
                 cols   |-> [c \in rec.schema |-> ColSplit(rec.cols[c], maxRows)[j]]]]

---------------------------------------------------------------------------
(* Copies and slices                                                       *)

\* mutant: the row at endIndex is left out of an ascending copy
CopyWithCondition_EndExclusive(rec, ascending, tr, schema) ==
    LET startIndex == GetTimeRangeStartIndex(rec.times, 0, tr.Min)
        endIndex   == GetTimeRangeEndIndex(rec.times, 0, tr.Max)
        Taken(col) == IF ascending THEN AppendColVal(<<>>, col, startIndex, endIndex)
                      ELSE [k \in 1..endIndex - startIndex + 1 |-> At(col, endIndex - (k - 1))]
    IN  IF startIndex <= endIndex /\ schema \cap rec.schema # {}
        THEN [schema |-> schema,
              times  |-> Taken(rec.times),
              cols   |-> [c \in schema |->
                            IF c \in rec.schema THEN Taken(rec.cols[c])
                            ELSE PadColVal(<<>>, endIndex - startIndex + 1)]]
        ELSE Nil

\* The rows of rec, which is ascending, with a time in tr under another
\* schema, in their order or from the last to the first; a field rec lacks
\* is a column of nulls.  Nil where no row is in tr or rec has no field of
\* the schema.
CopyWithCondition(rec, ascending, tr, schema) ==
    LET startIndex == GetTimeRangeStartIndex(rec.times, 0, tr.Min)
        endIndex   == GetTimeRangeEndIndex(rec.times, 0, tr.Max)
        Taken(col) == IF ascending THEN AppendColVal(<<>>, col, startIndex, endIndex + 1)
                      ELSE [k \in 1..endIndex - startIndex + 1 |-> At(col, endIndex - (k - 1))]
    IN  IF startIndex <= endIndex /\ schema \cap rec.schema # {}
        THEN [schema |-> schema,
              times  |-> Taken(rec.times),
              cols   |-> [c \in schema |->
                            IF c \in rec.schema THEN Taken(rec.cols[c])
                            ELSE PadColVal(<<>>, endIndex - startIndex + 1)]]
        ELSE Nil

\* Copy, which is CopyImpl into a new record with setSchema and
\* reserveColVal: a record without rows is copied to a record without
\* schema, and the time column is copied only after a field was.
Copy(rec) ==
    IF RowNums(rec) = 0 THEN NewRecordBuilder({})
    ELSE [schema |-> rec.schema,
          times  |-> IF rec.schema # {} THEN AppendColVal(<<>>, rec.times, 0, RowNums(rec))
                     ELSE <<>>,
          cols   |-> [c \in rec.schema |-> AppendColVal(<<>>, rec.cols[c], 0, RowNums(rec))]]

\* Clone: the loop ends before the last column, so the clone has the fields
\* of rec and an empty time column
Clone(rec) ==
    [NewRecordBuilder(rec.schema) EXCEPT !.cols = [c \in rec.schema |-> rec.cols[c]]]

\* CopyColVals: the columns alone, Nil for a record without rows or fields
CopyColVals(rec) ==
    IF RowNums(rec) > 0 /\ rec.schema # {}
    THEN [times |-> AppendColVal(<<>>, rec.times, 0, RowNums(rec)),
          cols  |-> [c \in rec.schema |-> AppendColVal(<<>>, rec.cols[c], 0, RowNums(rec))]]
    ELSE Nil

\* rows start..end-1 of srcRec under its schema; a column of nulls only is
\* padded instead of sliced
SliceFromRecord(srcRec, start, end) ==
    [schema |-> srcRec.schema,
     times  |-> Slice(srcRec.times, start, end),
     cols   |-> [c \in srcRec.schema |->
                    IF \A row \in 0..Len(srcRec.cols[c]) - 1 : IsNil(srcRec.cols[c], row)
                    THEN PadColVal(<<>>, end - start)
                    ELSE Slice(srcRec.cols[c], start, end)]]

AppendRecForTagSet(rec, srcRec, start, end) == appendRecImpl(rec, srcRec, start, end, FALSE)

\* mutant: every short column is padded by the number of rows
TryPadColumn_ByRows(rec) ==
    [rec EXCEPT !.cols = [c \in rec.schema |->
                            IF Len(rec.cols[c]) # RowNums(rec)
                            THEN PadColVal(rec.cols[c], RowNums(rec))
                            ELSE rec.cols[c]]]

\* every column shorter than the time column is padded up to it
TryPadColumn(rec) ==
    [rec EXCEPT !.cols = [c \in rec.schema |->
                            IF Len(rec.cols[c]) # RowNums(rec)
                            THEN PadColVal(rec.cols[c], RowNums(rec) - Len(rec.cols[c]))
                            ELSE rec.cols[c]]]

---------------------------------------------------------------------------
(* Bitmaps.  A bitmap is the sequence of its bits: bit k is bit k & 0x07   *)
(* of byte k >> 3, and a bit is 1 where the row has a value.               *)

RECURSIVE reverseBits(_, _, _)
reverseBits(bitmap, left, right) ==
    IF ~(left < right) THEN bitmap
    ELSE reverseBits([bitmap EXCEPT ![left + 1]  = At(bitmap, right),
                                    ![right + 1] = At(bitmap, left)],
                     left + 1, right - 1)

\* mutant: the offset of the first row is forgotten on the left
ReverseBitMap_LeftAtZero(bitmap, bitmapOffset, count) ==
    IF Len(bitmap) = 0 THEN bitmap
    ELSE reverseBits(bitmap, 0, count - 1 + bitmapOffset)

\* the count bits from bitmapOffset on in the opposite order, by swapping
\* the outermost two and going inwards
ReverseBitMap(bitmap, bitmapOffset, count) ==
    IF Len(bitmap) = 0 THEN bitmap
    ELSE reverseBits(bitmap, bitmapOffset, count - 1 + bitmapOffset)

\* the bytes that hold length bits from bitMapOffset on, and the position
\* of the first of them in the first byte
subBitmapBytes(bitmap, bitMapOffset, length) ==
    LET last == (bitMapOffset + length) \div 8 + (IF (bitMapOffset + length) % 8 # 0 THEN 1 ELSE 0)
    IN  <<Slice(bitmap, 8 * (bitMapOffset \div 8), 8 * last), bitMapOffset % 8>>

\* mutant: the row at bmStart counts as one before it
valueIndexRange_StartInclusive(bitMap, bitOffset, bmStart, bmEnd) ==
    LET Set(i) == At(bitMap, bitOffset + i) # 0
    IN  <<Cardinality({i \in 0..bmEnd - 1 : i <= bmStart /\ Set(i)}),
          Cardinality({i \in 0..bmEnd - 1 : Set(i)})>>

\* how many values the rows before bmStart have, and the rows before bmEnd:
\* the positions of the values of rows bmStart..bmEnd-1 among the values
valueIndexRange(bitMap, bitOffset, bmStart, bmEnd) ==
    LET Set(i) == At(bitMap, bitOffset + i) # 0
    IN  <<Cardinality({i \in 0..bmEnd - 1 : i < bmStart /\ Set(i)}),
          Cardinality({i \in 0..bmEnd - 1 : Set(i)})>>

---------------------------------------------------------------------------
(* Interval records: one row per window of a GROUP BY time, built empty,   *)
(* filled row by row and turned back into a record without the windows     *)
(* that stayed empty.  The four field types behave alike and are one.      *)

\* Go's /, which rounds towards zero
GoDiv(a, b) == IF a >= 0 THEN a \div b ELSE -((-a) \div b)

\* ColVal.Update<Type>Value: the cell of a row gets a value; a null leaves
\* the cell as it is.  Its code is outside this repository's sources.
UpdateValue(col, v, row) == IF v = Nil THEN col ELSE [col EXCEPT ![row + 1] = v]

AppendIntervalEmptyRow(rec, rowTime) ==
    [rec EXCEPT !.times = Append(@, rowTime),
                !.cols  = [c \in rec.schema |-> Append(rec.cols[c], Nil)]]

AppendIntervalEmptyRows(rec, start, step, num) ==
    FoldLeft(LAMBDA r, i : AppendIntervalEmptyRow(r, start + step * i), rec,
             [k \in 1..num |-> k - 1])

\* an empty row for every window of min..max-1, the first window first or
\* the last window first; one row where there are no windows
BuildEmptyIntervalRec(rec, min, max, interval, hasInterval, ascending) ==
    CASE ~hasInterval -> AppendIntervalEmptyRows(rec, 0, interval, 1)
      [] ascending    -> AppendIntervalEmptyRows(rec, min, interval, GoDiv(max - min, interval))
      [] OTHER        -> AppendIntervalEmptyRows(rec, max - interval, -interval,
                                                 GoDiv(max - min, interval))

\* intervalRecAppendFunctions: the cell of a row of rec goes to the end of
\* the column of iRec
appendFunction(rec, iRec, index, row) == Append(iRec.cols[index], At(rec.cols[index], row))

\* intervalRecUpdateFunctions: the cell of row recRow of rec goes to row
\* row of iRec
updateFunction(rec, iRec, index, row, recRow) ==
    UpdateValue(iRec.cols[index], At(rec.cols[index], recRow), row)

\* recTransAppendFunctions: the cell of a row of iRec goes to the end of the
\* column of rec
recAppendFunction(rec, iRec, index, row) == Append(rec.cols[index], At(iRec.cols[index], row))

\* row row of re goes to the end of the interval record rec
AppendRecRow2IntervalRec(rec, re, row) ==
    [rec EXCEPT !.times = Append(@, At(re.times, row)),
                !.cols  = [c \in re.schema |-> appendFunction(re, rec, c, row)]]

\* mutant: a row with a null in some field counts as empty
IsIntervalRecRowNull_AnyField(rec, row) ==
    \E c \in rec.schema : IsNil(rec.cols[c], row)

IsIntervalRecRowNull(rec, row) ==
    \A c \in rec.schema : IsNil(rec.cols[c], row)

\* row recRow of re is written over window row of the interval record rec,
\* its time included
UpdateIntervalRecRow(rec, re, recRow, row) ==
    [rec EXCEPT !.times = UpdateValue(@, At(re.times, recRow), row),
                !.cols  = [c \in re.schema |-> updateFunction(re, rec, c, row, recRow)]]

\* the windows start..end-1 of the interval record rec that are not empty
\* go to the end of re
TransIntervalRec2Rec(rec, re, start, end) ==
    FoldLeft(LAMBDA r, i :
                IF IsIntervalRecRowNull(rec, i) THEN r
                ELSE [r EXCEPT !.times = Append(@, At(rec.times, i)),
                               !.cols  = [c \in rec.schema |-> recAppendFunction(r, rec, c, i)]],
             re, [k \in 1..end - start |-> start + k - 1])
===============================================================================
