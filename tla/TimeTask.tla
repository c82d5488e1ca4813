------------------------------ MODULE TimeTask ------------------------------
(***************************************************************************)
(* The stream time task of app/ts-store/stream/time_task.go: a ring of     *)
(* WindowNum time windows, each holding one aggregate per field call.      *)
(*                                                                         *)
(* Two goroutines share the ring.  consumeData takes caches of rows from   *)
(* the task's channel and folds every row into the window its timestamp    *)
(* falls in; cycleFlush, on every tick, reads the oldest window, writes    *)
(* it to its shard and then offers one message on the unbuffered channel   *)
(* updateWindow, on which consumeData advances the ring by one window and  *)
(* wipes the slot that was written.  Closing abort stops both.             *)
(*                                                                         *)
(* Data is abstracted to what the properties tell apart: an aggregate is   *)
(* the set of rows folded into it (so every SingleThreadFunc is set        *)
(* insertion and every initValue the empty set), a row is its timestamp    *)
(* and the set of field calls that find their field in it, and the pair    *)
(* (ptId, shardId) of a cache is one destination id.  Every read and write *)
(* of memory that both goroutines touch is a step of its own, except that  *)
(* calculateRow's two writes of a cell and buildRow's two reads of a cell  *)
(* are one step each: with walkUpdate's writes apart, every pair of values *)
(* buildRow can read of a cell is still read.  Nothing but the hand-over   *)
(* on updateWindow orders the goroutines: a flush may start while          *)
(* consumeData is still inside the window update of the flush before.      *)
(***************************************************************************)
EXTENDS Integers, Sequences, FiniteSets, SequencesExt

CONSTANTS
    WindowNum,      \* s.windowNum: windows kept in the ring
    Window,         \* s.window.Nanoseconds(): width of a window
    FieldCallsLen,  \* len(s.fieldCalls)
    Dests,          \* the (ptId, shardId) pairs caches arrive with
    UintMax,        \* stands for 2^32-1 and 2^64-1 in uint32(x), uint64(x)
    CacheCap,       \* capacity of the TaskDataPool channel
    Times,          \* bound: the timestamps rows are put with
    FieldSets,      \* bound: the sets of calls whose field a row may carry
    MaxBatch,       \* bound: rows in one cache
    MaxRows,        \* bound: rows (and nil data) ever put
    MaxTicks        \* bound: ticks the ticker ever delivers

ASSUME /\ WindowNum \in Nat \ {0} /\ Window \in Nat \ {0}
       /\ FieldCallsLen \in Nat \ {0}
       /\ Dests \subseteq 0 .. UintMax - 1
       /\ CacheCap \in Nat \ {0} /\ MaxBatch \in Nat \ {0}
       /\ MaxRows \in Nat /\ MaxTicks \in Nat
       /\ Times \subseteq Nat
       /\ FieldSets \subseteq SUBSET (0 .. FieldCallsLen - 1)

VARIABLES
    \* the task's memory, shared by the two goroutines
    startTimeStamp, \* s.startTimeStamp: start of the oldest window
    startWindowID,  \* s.startWindowID: slot of the oldest window
    values,         \* s.values: cell -> rows folded into the aggregate
    validValues,    \* s.validValues: cell -> has the aggregate a value
    shardIds,       \* s.shardIds: slot -> destination, -1 when unset
    ptIds,          \* s.ptIds: slot -> destination, -1 when unset
    \* channels
    cache,          \* s.cache: the data put and not yet received
    abort,          \* s.abort is closed
    tick,           \* ticker.C holds a tick
    \* goroutine consumeData
    cpc,            \* where it is
    cur,            \* the cache it is calculating
    rowIdx,         \* i of calculateRow
    callIdx,        \* c of calculateRow
    lastWindowId,   \* lastWindowId of the window update
    walkIdx,        \* j of walkUpdate
    \* goroutine cycleFlush
    fpc,            \* where it is
    reset,          \* reset of cycleFlush
    offset,         \* s.offset
    rd,             \* i of buildRow
    fields,         \* s.row.Fields, the valid fields collected so far
    rowTs,          \* s.row.Timestamp
    flushWindowId,  \* windowId of WriteRowsToShard
    flushPtId,      \* ptId of WriteRowsToShard
    \* history
    raced,          \* the flush took its slot from under a window update
    unread,         \* the window update wipes a slot no flush has read
    written,        \* the calls of store.WriteRows that succeeded
    excused,        \* contributions known to miss their window's write
    nextId,         \* id of the next row put
    ticks           \* ticks delivered so far

taskVars  == <<startTimeStamp, startWindowID, values, validValues, shardIds, ptIds>>
chanVars  == <<cache, abort, tick>>
consVars  == <<cpc, cur, rowIdx, callIdx, lastWindowId, walkIdx>>
flushVars == <<fpc, reset, offset, rd, fields, rowTs, flushWindowId,
              flushPtId>>
histVars  == <<raced, unread, written, excused, nextId, ticks>>
vars      == <<taskVars, chanVars, consVars, flushVars, histVars>>

-----------------------------------------------------------------------------
Slots == 0 .. WindowNum - 1
Calls == 0 .. FieldCallsLen - 1
Cells == 0 .. WindowNum * FieldCallsLen - 1
Unset == -1

Row   == [id : 1 .. MaxRows, ts : Times, has : FieldSets]
\* What a ChanData is: a *TaskCache with its rows, or nil / another type.
Data  == [kind : {"rows"}, rows : Seq(Row), dest : Dests]
             \cup {[kind |-> "none", rows |-> <<>>, dest |-> Unset]}
NoData == [kind |-> "none", rows |-> <<>>, dest |-> Unset]

UpdateBody == {"updTime", "updId", "walk", "walkValid", "walkShard"}
FlushBody  == {"build", "write", "readPt", "readShard", "handoff"}

maxDuration  == WindowNum * Window
endTimeStamp == startTimeStamp + Window
maxTimeStamp == startTimeStamp + maxDuration

windowOffset(i) == i * FieldCallsLen

windowId_NoRotation(t) == ((t - startTimeStamp) \div Window) % WindowNum
windowId(t) ==
    (((t - startTimeStamp) \div Window) + startWindowID) % WindowNum

skipRow_Inclusive(row) == row.ts < startTimeStamp \/ row.ts > maxTimeStamp
skipRow(row) == row.ts < startTimeStamp \/ row.ts >= maxTimeStamp

getFieldValue(row, c) == c \in row.has

\* The rows calculate hands to calculateRow: those of a *TaskCache; nil and
\* data of another type are an error and carry none.
calculate(data) == IF data.kind = "rows" THEN data.rows ELSE <<>>

\* uint32(x), uint64(x) of a signed x.
Unsigned(x) == x % (UintMax + 1)

-----------------------------------------------------------------------------
\* run and initVar: every aggregate at its initial value, no destination,
\* the ring at slot 0, both goroutines started.
Init ==
    /\ startTimeStamp = 0
    /\ startWindowID = 0
    /\ values = [i \in Cells |-> {}]
    /\ validValues = [i \in Cells |-> FALSE]
    /\ shardIds = [w \in Slots |-> Unset]
    /\ ptIds = [w \in Slots |-> Unset]
    /\ cache = <<>> /\ abort = FALSE /\ tick = FALSE
    /\ cpc = "select" /\ cur = NoData /\ rowIdx = 0 /\ callIdx = 0
    /\ lastWindowId = 0 /\ walkIdx = 0
    /\ fpc = "wait" /\ reset = FALSE /\ offset = 0 /\ rd = 0
    /\ fields = <<>> /\ rowTs = 0 /\ flushWindowId = 0 /\ flushPtId = 0
    /\ raced = FALSE /\ unread = FALSE
    /\ written = <<>> /\ excused = {} /\ nextId = 1 /\ ticks = 0

-----------------------------------------------------------------------------
consLocals  == <<cur, rowIdx, callIdx, lastWindowId, walkIdx>>
flushLocals == <<reset, offset, rd, fields, rowTs, flushWindowId, flushPtId>>

(* The callers of the task and the ticker.                                 *)

\* A writer puts a cache of rows; the send blocks while the channel is full.
Put ==
    /\ Len(cache) < CacheCap
    /\ \E n \in 1 .. MaxBatch, dest \in Dests :
         /\ nextId + n - 1 <= MaxRows
         /\ \E shape \in [1 .. n -> [ts : Times, has : FieldSets]] :
              cache' = Append(cache,
                  [kind |-> "rows", dest |-> dest,
                   rows |-> [i \in 1 .. n |->
                               [id |-> nextId + i - 1, ts |-> shape[i].ts,
                                has |-> shape[i].has]]])
         /\ nextId' = nextId + n
    /\ UNCHANGED <<taskVars, abort, tick, consVars, flushVars, raced, unread,
                   written, excused, ticks>>

\* A writer puts nil, or data that is neither a TaskCache nor a CacheRecord.
PutNone ==
    /\ Len(cache) < CacheCap
    /\ nextId <= MaxRows
    /\ cache' = Append(cache, NoData)
    /\ nextId' = nextId + 1
    /\ UNCHANGED <<taskVars, abort, tick, consVars, flushVars, raced, unread,
                   written, excused, ticks>>

stop ==
    /\ ~abort
    /\ abort' = TRUE
    /\ UNCHANGED <<taskVars, cache, tick, consVars, flushVars, histVars>>

\* The ticker fires; ticker.C keeps one tick and drops the others.
Tick ==
    /\ fpc # "exited"
    /\ ~tick
    /\ ticks < MaxTicks
    /\ tick' = TRUE
    /\ ticks' = ticks + 1
    /\ UNCHANGED <<taskVars, cache, abort, consVars, flushVars, raced, unread,
                   written, excused, nextId>>

-----------------------------------------------------------------------------
(* consumeData                                                             *)

RecvUpdateWindow_Inverted ==
    /\ cpc = "select" /\ fpc = "handoff"
    /\ cpc' = "exited"
    /\ fpc' = "wait"
    /\ unread' = raced /\ raced' = FALSE
    /\ UNCHANGED <<taskVars, chanVars, consLocals, flushLocals, written,
                   excused, nextId, ticks>>

\* The two sides of the unbuffered channel meet: flush's deferred send and
\* consumeData's receive are one step, after which flush has returned and
\* cycleFlush is free to take its next tick.
RecvUpdateWindow ==
    /\ cpc = "select" /\ fpc = "handoff"
    /\ cpc' = "updTime"
    /\ fpc' = "wait"
    /\ unread' = raced /\ raced' = FALSE
    /\ UNCHANGED <<taskVars, chanVars, consLocals, flushLocals, written,
                   excused, nextId, ticks>>

UpdateTime ==
    /\ cpc = "updTime"
    /\ startTimeStamp' = endTimeStamp
    /\ cpc' = "updId"
    /\ UNCHANGED <<startWindowID, values, validValues, shardIds, ptIds,
                   chanVars, consLocals, flushVars, histVars>>

UpdateWindowID_NoMod ==
    /\ cpc = "updId"
    /\ lastWindowId' = startWindowID
    /\ startWindowID' = startWindowID + 1
    /\ cpc' = "walk"
    /\ UNCHANGED <<startTimeStamp, values, validValues, shardIds, ptIds,
                   chanVars, cur, rowIdx, callIdx, walkIdx, flushVars,
                   histVars>>

UpdateWindowID_ReadAfterAdd ==
    /\ cpc = "updId"
    /\ lastWindowId' = (startWindowID + 1) % WindowNum
    /\ startWindowID' = (startWindowID + 1) % WindowNum
    /\ cpc' = "walk"
    /\ UNCHANGED <<startTimeStamp, values, validValues, shardIds, ptIds,
                   chanVars, cur, rowIdx, callIdx, walkIdx, flushVars,
                   histVars>>

\* lastWindowId := s.startWindowID, then the atomic add modulo windowNum.
UpdateWindowID ==
    /\ cpc = "updId"
    /\ lastWindowId' = startWindowID
    /\ startWindowID' = (startWindowID + 1) % WindowNum
    /\ cpc' = "walk"
    /\ UNCHANGED <<startTimeStamp, values, validValues, shardIds, ptIds,
                   chanVars, cur, rowIdx, callIdx, walkIdx, flushVars,
                   histVars>>

\* The cells of slot w, and the contributions (row, call) held in them.
CellsOf(w) == windowOffset(w) .. windowOffset(w) + FieldCallsLen - 1
HeldIn(cells) ==
    UNION {{<<r.id, i % FieldCallsLen>> : r \in values[i]} : i \in cells}

\* The cell walkUpdate is at: offset + j.
walkCell == windowOffset(lastWindowId) + walkIdx

\* walkUpdate's loop, first half of a pass: initValue(vs, j, ...).
walkInitValue ==
    /\ cpc = "walk" /\ walkIdx < FieldCallsLen
    /\ values' = [values EXCEPT ![walkCell] = {}]
    /\ excused' = excused \ HeldIn({walkCell})
    /\ cpc' = "walkValid"
    /\ UNCHANGED <<startTimeStamp, startWindowID, validValues, shardIds,
                   ptIds, chanVars, consLocals, flushVars, raced, unread,
                   written, nextId, ticks>>

\* Second half: s.validValues[offset+j] = false.
walkInvalidate ==
    /\ cpc = "walkValid"
    /\ validValues' = [validValues EXCEPT ![walkCell] = FALSE]
    /\ walkIdx' = walkIdx + 1
    /\ cpc' = "walk"
    /\ UNCHANGED <<startTimeStamp, startWindowID, values, shardIds, ptIds,
                   chanVars, cur, rowIdx, callIdx, lastWindowId, flushVars,
                   histVars>>

\* s.ptIds[lastWindowId] = -1
walkPtId ==
    /\ cpc = "walk" /\ walkIdx = FieldCallsLen
    /\ ptIds' = [ptIds EXCEPT ![lastWindowId] = Unset]
    /\ cpc' = "walkShard"
    /\ UNCHANGED <<startTimeStamp, startWindowID, values, validValues,
                   shardIds, chanVars, consLocals, flushVars, histVars>>

\* s.shardIds[lastWindowId] = -1, and consumeData selects again.
walkShardId ==
    /\ cpc = "walkShard"
    /\ shardIds' = [shardIds EXCEPT ![lastWindowId] = Unset]
    /\ walkIdx' = 0
    /\ unread' = FALSE
    /\ cpc' = "select"
    /\ UNCHANGED <<startTimeStamp, startWindowID, values, validValues, ptIds,
                   chanVars, cur, rowIdx, callIdx, lastWindowId, flushVars,
                   raced, written, excused, nextId, ticks>>

walkUpdate == walkInitValue \/ walkInvalidate \/ walkPtId \/ walkShardId

RecvCache_ReturnOnError ==
    /\ cpc = "select" /\ cache # <<>>
    /\ cache' = Tail(cache)
    /\ IF calculate(Head(cache)) # <<>>
       THEN /\ cur' = Head(cache)
            /\ rowIdx' = 1 /\ callIdx' = 0
            /\ cpc' = "calc"
       ELSE /\ cpc' = "exited"
            /\ UNCHANGED <<cur, rowIdx, callIdx>>
    /\ UNCHANGED <<taskVars, abort, tick, lastWindowId, walkIdx, flushVars,
                   histVars>>

\* case cache := <-s.cache.  Nil or unsupported data is an error that is
\* logged; either way IncreaseChan follows calculate.
RecvCache ==
    /\ cpc = "select" /\ cache # <<>>
    /\ cache' = Tail(cache)
    /\ IF calculate(Head(cache)) # <<>>
       THEN /\ cur' = Head(cache)
            /\ rowIdx' = 1 /\ callIdx' = 0
            /\ cpc' = "calc"
       ELSE UNCHANGED <<cpc, cur, rowIdx, callIdx>>
    /\ UNCHANGED <<taskVars, abort, tick, lastWindowId, walkIdx, flushVars,
                   histVars>>

curRow == cur.rows[rowIdx]

\* The loop of calculateRow moves to its next row, or calculate returns,
\* the cache is released and consumeData selects again.
NextRow ==
    IF rowIdx < Len(cur.rows)
    THEN /\ rowIdx' = rowIdx + 1 /\ callIdx' = 0
         /\ cpc' = "calc"
         /\ UNCHANGED cur
    ELSE /\ rowIdx' = 0 /\ callIdx' = 0
         /\ cpc' = "select"
         /\ cur' = NoData

CalcSkipRow ==
    /\ cpc = "calc" /\ callIdx = 0
    /\ skipRow(curRow)
    /\ NextRow
    /\ UNCHANGED <<taskVars, chanVars, lastWindowId, walkIdx, flushVars,
                   histVars>>

\* cycleFlush has read cell id for the flush it is in.
FlushHasRead(id) ==
    \/ fpc = "build" /\ id \in offset .. offset + rd - 1
    \/ /\ fpc \in FlushBody \ {"build"}
       /\ id \in offset .. offset + FieldCallsLen - 1

\* One pass of the loop over s.fieldCalls: fold the row into cell base + c
\* when the row carries the call's field.
CalcCall ==
    /\ cpc = "calc"
    /\ ~skipRow(curRow)
    /\ LET id == windowOffset(windowId(curRow.ts)) + callIdx IN
         IF getFieldValue(curRow, callIdx)
         THEN /\ values' = [values EXCEPT ![id] = @ \cup {curRow}]
              /\ validValues' = [validValues EXCEPT ![id] = TRUE]
              /\ excused' = IF FlushHasRead(id)
                            THEN excused \cup {<<curRow.id, callIdx>>}
                            ELSE excused
         ELSE UNCHANGED <<values, validValues, excused>>
    /\ callIdx' = callIdx + 1
    /\ cpc' = IF callIdx + 1 < FieldCallsLen THEN "calc" ELSE "shard"
    /\ UNCHANGED <<startTimeStamp, startWindowID, shardIds, ptIds, chanVars,
                   cur, rowIdx, lastWindowId, walkIdx, flushVars, raced,
                   unread, written, nextId, ticks>>

\* if s.shardIds[windowId] < 0 { s.shardIds[windowId] = ...
CalcShard ==
    /\ cpc = "shard"
    /\ LET w == windowId(curRow.ts) IN
         IF shardIds[w] < 0
         THEN /\ shardIds' = [shardIds EXCEPT ![w] = cur.dest]
              /\ cpc' = "pt"
              /\ UNCHANGED <<cur, rowIdx, callIdx>>
         ELSE /\ NextRow
              /\ UNCHANGED shardIds
    /\ UNCHANGED <<startTimeStamp, startWindowID, values, validValues, ptIds,
                   chanVars, lastWindowId, walkIdx, flushVars, histVars>>

\* ... s.ptIds[windowId] = int32(cache.ptId) }
CalcPt ==
    /\ cpc = "pt"
    /\ ptIds' = [ptIds EXCEPT ![windowId(curRow.ts)] = cur.dest]
    /\ NextRow
    /\ UNCHANGED <<startTimeStamp, startWindowID, values, validValues,
                   shardIds, chanVars, lastWindowId, walkIdx, flushVars,
                   histVars>>

consumeDataAbort_BreakSelect ==
    /\ cpc = "select" /\ abort
    /\ UNCHANGED vars

\* case <-s.abort: return
consumeDataAbort ==
    /\ cpc = "select" /\ abort
    /\ cpc' = "exited"
    /\ UNCHANGED <<taskVars, chanVars, consLocals, flushVars, histVars>>

consumeData ==
    \/ RecvUpdateWindow \/ UpdateTime \/ UpdateWindowID \/ walkUpdate
    \/ RecvCache \/ CalcSkipRow \/ CalcCall \/ CalcShard \/ CalcPt
    \/ consumeDataAbort

-----------------------------------------------------------------------------
(* cycleFlush                                                              *)

\* The first tick only re-arms the ticker with the window's width.
FirstTick ==
    /\ fpc = "wait" /\ tick /\ ~reset
    /\ reset' = TRUE
    /\ tick' = FALSE
    /\ UNCHANGED <<taskVars, cache, abort, consVars, fpc, offset, rd, fields,
                   rowTs, flushWindowId, flushPtId, histVars>>

\* The window update that the flush before handed over has yet to advance
\* startWindowID: a flush that starts now takes the slot of the window
\* that was written last.
UpdatePending == cpc \in {"updTime", "updId"}

generateRows_StaleOffset ==
    /\ fpc = "wait" /\ tick /\ reset
    /\ tick' = FALSE
    /\ rd' = 0
    /\ fields' = <<>>
    /\ raced' = UpdatePending
    /\ fpc' = "build"
    /\ UNCHANGED <<taskVars, cache, abort, consVars, reset, offset, rowTs,
                   flushWindowId, flushPtId, unread, written, excused, nextId,
                   ticks>>

\* A later tick starts flush: generateRows takes the offset of the oldest
\* window and buildRow starts with an empty row.
generateRows ==
    /\ fpc = "wait" /\ tick /\ reset
    /\ tick' = FALSE
    /\ offset' = startWindowID * FieldCallsLen
    /\ rd' = 0
    /\ fields' = <<>>
    /\ raced' = UpdatePending
    /\ fpc' = "build"
    /\ UNCHANGED <<taskVars, cache, abort, consVars, reset, rowTs,
                   flushWindowId, flushPtId, unread, written, excused, nextId,
                   ticks>>

\* One pass of buildRow's loop: a valid aggregate becomes the next field of
\* the row.  The field's key is that of its position in the row; "call"
\* records which call the value came from.
buildRowField ==
    /\ fpc = "build" /\ rd < FieldCallsLen
    /\ fields' = IF validValues[offset + rd]
                 THEN Append(fields, [key  |-> Len(fields),
                                      call |-> rd,
                                      rows |-> values[offset + rd]])
                 ELSE fields
    /\ rd' = rd + 1
    /\ UNCHANGED <<taskVars, chanVars, consVars, fpc, reset, offset, rowTs,
                   flushWindowId, flushPtId, histVars>>

\* buildRow ends: nothing valid and flush returns through its deferred
\* function, or the row is stamped with the start of the window.
buildRowStamp ==
    /\ fpc = "build" /\ rd = FieldCallsLen
    /\ IF fields = <<>>
       THEN fpc' = "handoff" /\ UNCHANGED rowTs
       ELSE fpc' = "write" /\ rowTs' = startTimeStamp
    /\ UNCHANGED <<taskVars, chanVars, consVars, reset, offset, rd, fields,
                   flushWindowId, flushPtId, histVars>>

FieldContribs(fs) ==
    UNION {{<<r.id, fs[j].call>> : r \in fs[j].rows} : j \in DOMAIN fs}

\* WriteRowsToShard begins: windowId := atomic.LoadInt64(&s.startWindowID).
loadWindowId ==
    /\ fpc = "write"
    /\ flushWindowId' = startWindowID
    /\ fpc' = "readPt"
    /\ UNCHANGED <<taskVars, chanVars, consVars, reset, offset, rd, fields,
                   rowTs, flushPtId, histVars>>

\* ptId := uint32(s.ptIds[windowId])
readPtId ==
    /\ fpc = "readPt"
    /\ flushPtId' = Unsigned(ptIds[flushWindowId])
    /\ fpc' = "readShard"
    /\ UNCHANGED <<taskVars, chanVars, consVars, reset, offset, rd, fields,
                   rowTs, flushWindowId, histVars>>

\* shardId := uint64(s.shardIds[windowId]), and the row goes to the store.
\* A failure of the marshalling or of store.WriteRows is logged and flush
\* carries on as after a success.
WriteRowsToShard ==
    /\ fpc = "readShard"
    /\ \E ok \in BOOLEAN :
         IF ok
         THEN /\ written' = Append(written,
                     [ts    |-> rowTs, fields |-> fields, raced |-> raced,
                      ptId  |-> flushPtId,
                      shardId |-> Unsigned(shardIds[flushWindowId])])
              /\ UNCHANGED excused
         ELSE /\ excused' = excused \cup FieldContribs(fields)
              /\ UNCHANGED written
    /\ fields' = <<>>
    /\ flushWindowId' = 0 /\ flushPtId' = 0
    /\ fpc' = "handoff"
    /\ UNCHANGED <<taskVars, chanVars, consVars, reset, offset, rd, rowTs,
                   raced, unread, nextId, ticks>>

\* flush's deferred select takes case <-s.abort.
flushAbort_Default ==
    /\ fpc = "handoff"
    /\ fpc' = "wait"
    /\ raced' = FALSE
    /\ UNCHANGED <<taskVars, chanVars, consVars, flushLocals, unread, written,
                   excused, nextId, ticks>>

flushAbort ==
    /\ fpc = "handoff" /\ abort
    /\ fpc' = "wait"
    /\ raced' = FALSE
    /\ UNCHANGED <<taskVars, chanVars, consVars, flushLocals, unread, written,
                   excused, nextId, ticks>>

\* cycleFlush's select takes case <-s.abort.
cycleFlushAbort ==
    /\ fpc = "wait" /\ abort
    /\ fpc' = "exited"
    /\ UNCHANGED <<taskVars, chanVars, consVars, flushLocals, histVars>>

cycleFlush ==
    \/ FirstTick \/ generateRows \/ buildRowField \/ buildRowStamp
    \/ loadWindowId \/ readPtId \/ WriteRowsToShard
    \/ flushAbort \/ cycleFlushAbort

-----------------------------------------------------------------------------
\* Both goroutines have returned.
Terminated ==
    /\ cpc = "exited" /\ fpc = "exited"
    /\ UNCHANGED vars

Next ==
    \/ Put \/ PutNone \/ stop \/ Tick
    \/ consumeData
    \/ cycleFlush
    \/ Terminated

(***************************************************************************)
(* Fairness.  A goroutine that can run is scheduled: weak fairness on the  *)
(* steps between two selects.  A select with several ready cases picks one *)
(* at random, so a case that is ready again and again is taken: strong     *)
(* fairness on the cases of the selects.  Nothing is assumed of the        *)
(* writers, the ticker or stop.                                            *)
(***************************************************************************)
Fairness ==
    /\ WF_vars(UpdateTime \/ UpdateWindowID \/ walkUpdate)
    /\ WF_vars(CalcSkipRow \/ CalcCall \/ CalcShard \/ CalcPt)
    /\ WF_vars(buildRowField \/ buildRowStamp)
    /\ WF_vars(loadWindowId \/ readPtId \/ WriteRowsToShard)
    /\ SF_vars(RecvUpdateWindow) /\ SF_vars(RecvCache)
    /\ SF_vars(consumeDataAbort)
    /\ SF_vars(FirstTick) /\ SF_vars(generateRows)
    /\ SF_vars(flushAbort) /\ SF_vars(cycleFlushAbort)

Spec == Init /\ [][Next]_vars /\ Fairness

-----------------------------------------------------------------------------
TypeOK ==
    /\ startTimeStamp \in {k * Window : k \in 0 .. MaxTicks}
    /\ startWindowID \in Slots
    /\ values \in [Cells -> SUBSET Row]
    /\ validValues \in [Cells -> BOOLEAN]
    /\ shardIds \in [Slots -> Dests \cup {Unset}]
    /\ ptIds \in [Slots -> Dests \cup {Unset}]
    /\ cache \in Seq(Data) /\ Len(cache) <= CacheCap
    /\ abort \in BOOLEAN /\ tick \in BOOLEAN
    /\ cpc \in {"select", "calc", "shard", "pt", "exited"} \cup UpdateBody
    /\ cur \in Data
    /\ rowIdx \in 0 .. MaxBatch /\ callIdx \in 0 .. FieldCallsLen
    /\ lastWindowId \in Slots /\ walkIdx \in 0 .. FieldCallsLen
    /\ fpc \in {"wait", "exited"} \cup FlushBody
    /\ reset \in BOOLEAN
    /\ offset \in Cells /\ rd \in 0 .. FieldCallsLen
    /\ fields \in Seq([key : Calls, call : Calls, rows : SUBSET Row])
    /\ rowTs \in Nat
    /\ flushWindowId \in Slots /\ flushPtId \in 0 .. UintMax
    /\ raced \in BOOLEAN /\ unread \in BOOLEAN
    /\ written \in Seq([ts : Nat, ptId : 0 .. UintMax, shardId : 0 .. UintMax,
                        raced : BOOLEAN,
                        fields : Seq([key : Calls, call : Calls,
                                      rows : SUBSET Row])])
    /\ excused \subseteq (1 .. MaxRows) \X Calls
    /\ nextId \in 1 .. MaxRows + 1
    /\ ticks \in 0 .. MaxTicks

-----------------------------------------------------------------------------
(* What the properties speak of.                                           *)

\* A contribution is a row together with a call that finds its field in it.
Contribs(row) == {<<row.id, c>> : c \in row.has}

\* Contributions still to be folded: of the rows in the channel and of the
\* rows consumeData has not reached in the cache it is calculating.
Pending ==
    LET queued == UNION {ToSet(cache[i].rows) : i \in DOMAIN cache}
        later  == {cur.rows[i] : i \in (rowIdx + 1) .. Len(cur.rows)}
        now    == IF cpc = "calc"
                  THEN {x \in Contribs(curRow) : x[2] >= callIdx}
                  ELSE {}
    IN  UNION {Contribs(r) : r \in queued \cup later} \cup now

\* Contributions held in the ring, and those that reached a shard.
Live == HeldIn(Cells)
Written == UNION {FieldContribs(written[i].fields) : i \in DOMAIN written}

\* The window slot w holds: the k-th after the oldest.
WindowStart(w) ==
    startTimeStamp + ((w - startWindowID) % WindowNum) * Window

-----------------------------------------------------------------------------
(* Safety.                                                                 *)

\* The ring and the clock agree.  Whenever consumeData is not inside a
\* window update, every row folded into a slot has its timestamp in the
\* window that slot stands for, counted from startTimeStamp and
\* startWindowID: windowId, skipRow, the advance of startWindowID and
\* walkUpdate's choice of the slot to wipe all have to fit together, over
\* any number of advances and wrap-arounds of the ring.
SlotHoldsItsWindow ==
    cpc \notin UpdateBody =>
        \A w \in Slots : \A i \in CellsOf(w) : \A r \in values[i] :
            /\ WindowStart(w) <= r.ts
            /\ r.ts < WindowStart(w) + Window

\* A flush that takes its slot when no window update is pending writes
\* one window: every row aggregated into a written field has its timestamp
\* in the window the written row is stamped with (buildRow's
\* s.row.Timestamp = s.startTimeStamp against the cells that generateRows
\* chose by startWindowID), read while consumeData keeps folding rows into
\* the same cells and while walkUpdate may still be wiping the slot of the
\* window before.
QuietFlushWritesOneWindow ==
    \A i \in DOMAIN written : ~written[i].raced =>
        \A j \in DOMAIN written[i].fields :
            \A r \in written[i].fields[j].rows :
                /\ written[i].ts <= r.ts
                /\ r.ts < written[i].ts + Window

\* A flush that takes its slot when no window update is pending writes a
\* window that no flush wrote before, until the task is stopped: the
\* hand-over on updateWindow has advanced the ring past everything written,
\* by flushes that raced included.  (Once abort is closed flush returns
\* without the hand-over, and a tick that is still pending makes cycleFlush
\* write the same window again.)
QuietFlushWritesANewWindow ==
    [][\A i \in DOMAIN written' \ DOMAIN written :
          ~written'[i].raced /\ ~abort =>
              \A j \in DOMAIN written : written[j].ts < written'[i].ts]_vars

\* No contribution vanishes unnoticed while the window update wipes the
\* slot flush has read.  A step takes a contribution out of the channel
\* and the ring only if it is in a row that reached the shard, or its row
\* is skipped as outside the ring in this very step, or it is excused: it
\* was folded into a cell after flush had read that cell, or the write of
\* its row failed, or the update follows a flush that took its slot from
\* under the update before (unread).  lastWindowId, the advance of
\* startWindowID and the cells walkUpdate walks decide which slot is lost.
NoSilentLoss ==
    [][\A x \in (Pending \cup Live) \ (Pending' \cup Live') :
          \/ x \in Written'
          \/ x \in excused
          \/ unread
          \/ cpc = "calc" /\ skipRow(curRow) /\ x[1] = curRow.id]_vars

-----------------------------------------------------------------------------
(* What the code says of itself and does not keep.                         *)

\* initVar: "chan len zero, make updateWindow cannot parallel execute with
\* flush".  No flush reads the ring or writes while consumeData is inside
\* the window update.
UpdateExcludesFlush ==
    ~(cpc \in UpdateBody /\ fpc \in FlushBody \ {"handoff"})

\* What flush writes is one window, whenever it starts: every row
\* aggregated into a written field has its timestamp in the window the
\* written row is stamped with.
WrittenRowsBelongToWindow ==
    \A i \in DOMAIN written : \A j \in DOMAIN written[i].fields :
        \A r \in written[i].fields[j].rows :
            /\ written[i].ts <= r.ts
            /\ r.ts < written[i].ts + Window

\* A written field is an aggregate of rows: buildRow takes the cells whose
\* validValues is set, and calculateRow sets it only with a value folded in.
WrittenFieldsHoldRows ==
    \A i \in DOMAIN written : \A j \in DOMAIN written[i].fields :
        written[i].fields[j].rows # {}

\* What consumeData folds into the ring reaches the shard: a step takes a
\* contribution out of the channel and the ring only into a written row,
\* or because skipRow finds its row outside the ring (walkUpdate wipes
\* what WriteRowsToShard has written).
FoldedRowsAreWritten ==
    [][\A x \in (Pending \cup Live) \ (Pending' \cup Live') :
          \/ x \in Written'
          \/ cpc = "calc" /\ skipRow(curRow) /\ x[1] = curRow.id]_vars

\* A row is written to the partition and the shard some cache arrived
\* with: -1 in s.ptIds and s.shardIds means "not set yet" (it is what
\* calculateRow tests before it sets them) and is never a destination.
WrittenToCacheDestination ==
    \A i \in DOMAIN written :
        written[i].ptId \in Dests /\ written[i].shardId \in Dests

\* buildRow gives field i of the row the key s.fieldCalls[i].Alias: the
\* value written under the key of a call is the aggregate of that call.
FieldsCarryTheirCall ==
    \A i \in DOMAIN written : \A j \in DOMAIN written[i].fields :
        written[i].fields[j].key = written[i].fields[j].call

-----------------------------------------------------------------------------
(* Liveness.                                                               *)

\* flush always returns: its deferred send on updateWindow is taken by
\* consumeData, which comes back to its select after every cache, or the
\* task is stopped.
FlushReturns == (fpc = "handoff") ~> (fpc # "handoff")

\* Every cache put is received by consumeData, unless the task is stopped:
\* nothing consumeData meets in the data or on updateWindow ends it.
CacheIsDrained == (cache # <<>>) ~> (cache = <<>> \/ abort)

\* After stop both goroutines return, wherever they were.
StopTerminates == abort ~> (cpc = "exited" /\ fpc = "exited")

=============================================================================
