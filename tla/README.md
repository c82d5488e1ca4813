# TLA+ specifications for GeminiTS

This directory holds the TLA+ modules that model the GeminiTS sources of this
repository, the TLC configurations that check them, and `PROJECT.json`, which
lists the components, the runs, the mutants that show each property can fail,
the map from every definition to the source lines it models, the findings and
the hazards.

Run a configuration with

    tlc -workers 2 -config MCTimeTask.cfg TimeTask

(the module to give for each configuration is in the table of section 4).

## 1. Inventory of the system

`spec.md` describes the immutable TSSP storage engine. The implementation of
that engine is not part of this repository's `src/` tree (only its tests are);
what `src/` holds are the neighbouring parts of the database. Both are listed.

| Component | Source | State | Operations | Talks to |
|---|---|---|---|---|
| Stream time task | `app/ts-store/stream/time_task.go` | ring of `windowNum` windows (`values`, `validValues`, `ptIds`, `shardIds`), `startWindowID`, `startTimeStamp`/`endTimeStamp`/`maxTimeStamp`, channels `cache`, `updateWindow`, `abort` | `run`, `Put`, `stop`, `consumeData` (window update, `calculate`), `cycleFlush` (`flush`, `generateRows`, `buildRow`, `WriteRowsToShard`), `Drain` | writers (Put), the store (`WriteRows`), the ticker |
| Meta RPC handlers | `app/ts-meta/meta/handlers_process.go` | per request: `tries`, the `checkRaft` timer; the store's raft index, role and closing flag | `Process` of Ping, Peers, CreateNode, Snapshot, Update, Execute, Report, GetShardInfo, GetDownSampleInfo, GetRpMstInfos, GetUserInfo, GetStreamInfo, GetMeasurementInfo, RegisterQueryIDOffset; `createDatabase` | the raft store, the balance manager |
| Record | `lib/record/record.go` | columns (values, offsets, bitmap, nil count), schema, time column; behind a pointer, `RecMeta`: a `ColMeta` of pre-aggregates per column and `Times`, a slice of slices of times | merge of two time-ordered records (ascending, descending, row limit), append, slice, `KickNilRow`, `Split`, `PadRecord`, `ReverseBitMap`, sort helper | readers, compaction |
| Record pools | `lib/record/record.go` | `RecordPool` (a buffered channel in front of a `sync.Pool`, hit/miss counters), `CircularRecordPool` (ring of records and an index) | `Get`, `Put`, `GetIndex`, `PutRecordInCircularPool` | query cursors |
| Detached meta index | `engine/immutable/detached_meta_index.go` | none of its own (reads a file of CRC-framed items) | `ReadMetaIndex`, `GetMetaIndexAndBlockId`, `GetPKItems`, `GetMetaIndexOffsetAndLengthByChunkId`, `GetMetaIndexChunkCount` | object store reader |
| Aggregate comparators | `engine/executor/agg_func.go` | none | top/bottom comparators, difference functions | executor |
| CLV index node | `lib/clvIndex/clvIndexNode.go` | `dataBuf`, `dataLen`, `dataLock`, `dataSignal`, the index roots, the global `LogIndex` | `NewCLVIndexNode`, `CreateCLVIndexIfNotExists`, `updateClvIndexRoutine`, `updateClvIndex`, `flushClvIndexRoutine`, `serializeIndex`, `Close` | log writers, dictionary |
| CLV search | `lib/clvIndex/clvSearch.go` | none | `CLVSearchIndex` and the dispatch by query kind, index kind and dictionary kind | index node |
| Token match search | `lib/vToken/tokenTextSearch/tokenMatchQuery/matchSearch.go` | none | `MatchSearch`, inverted-list collection and merge | token index tree |
| Query compiler | `lib/util/lifted/influx/query/compile.go` | the compiler's flags and counters gathered while walking a statement | `Compile`, `preprocess`, `compileFields`, `compileExpr`, the per-function checks, `validateFields`, `validateCondition`, `subquery` | parser, planner |
| TSSP file lifecycle | described in `spec.md` 4.3-4.4, tested in `engine/immutable/tssp_file_reader_test.go` | reference count, closed flag, the release owed by a close that found the file referenced, cached blocks | `Ref`, `Unref`, `Close`, the accessors (`ReadAt`, `ReadData`, ...), `LoadIntoMemory`, `Free` | compactions, queries |
| Compaction planner | `spec.md` 4.2 and 4.5, tested in `tssp_file_reader_test.go` | the in-compaction set | `mmsPlan`, `LevelCompact`, `CompactDone`, the full-compaction check | TSSP file names, MmsTables |
| MmsTables | `spec.md` 4.6, tested in `tssp_file_reader_test.go` | ordered and out-of-order file sets per measurement, the groups in compaction, the sequencer | `AddTable` / `AddTSSPFiles`, `ReplaceFiles`, `ReplaceDownSampleFiles`, `DropMeasurement`, `Close`, `tableFiles`, `File`, `loadIdTimesInLock` | everything above |
| Process entry | `app/ts-data/main.go` | - | `main` | - |
| Backup log | `lib/backup/backuplog.go` | - | JSON-tagged structs | - |
| Wire messages | `lib/netstorage/data/data.pb.go` | - | generated protobuf code | - |
| Tests of other packages | `engine/executor/sort_transform_test.go`, `engine/immutable/show_tag_values_test.go`, `lib/util/lifted/promql2influxql/aggregate_expr_test.go`, `lib/util/lifted/influx/httpd/response_writer_test.go` | - | - | - |

### What is hard in each and what should hold

**Stream time task.** Two goroutines share the ring without a lock. Only the
advance of the ring is handed over on the unbuffered channel `updateWindow`;
every read of `flush` races with the writes of `calculate`, and, when a
tick is waiting at the hand-over, with the window update itself.

* the ring and the clock must agree across wrap-arounds: a row is folded into
  the slot of its own window and into no other;
* what a flush writes must be one window, stamped with that window's start,
  written to the shard the data came from, each value under its own key;
* a flush that starts outside a window update writes a window that was not
  written before;
* nothing leaves the ring unwritten except in the ways that are known;
* a flush returns, a cache is consumed, `stop` ends both goroutines.

**Meta RPC handlers.** `Snapshot` and `GetUserInfo` wait for the raft index
with a timer that re-arms and a retry count; `createDatabase` fans out one
goroutine per partition and collects the errors. What should hold: a reply
carries data or an error; a handler returns once the server closes or the
index is reached; one failed partition fails the command.

**Record.** Merging is a two-pointer walk with special cases for disjoint
ranges, for equal times (the newer record wins per column unless it is nil),
for row limits and for descending order. What should hold: the result is
ordered, has every time of both inputs once, and each cell is the newer
non-nil value.

**RecMeta.** The functions that move rows between records move the
times and the pre-aggregates too, and decide what to allocate from whether
the destination has a `RecMeta`, not from what is in it; `CopyColMetaTo`
hands the destination of a slice the source's own `Times`; the pools reset
a record by cutting slices to length 0, which leaves what is behind them.
What should hold: no sequence of calls indexes out of range, a slice reads
the times of its rows, and a call writes the record it is called on and no
other.

**Record pools.** `CircularRecordPool.Get` hands out `records[index]` and
advances modulo `recordNum`: a cursor that holds more than `recordNum` records
gets one back that it still uses.

**Detached meta index.** Items arrive from the stream reader in any order and
are sorted by offset so that position i is chunk i; a short read leaves nil
entries.

**CLV index node.** A producer appends to `dataBuf` without the lock the
update routine takes, and blocks on an unbuffered channel once the global
`LogIndex` reaches the buffer size; `updateClvIndex` returns early on
`dataLen == 0`; the timers fire once.

**CLV search and token match search.** `CLVSearchIndex` picks one of six
searches and one of two pairs of roots; the token match search then looks up
every gram of the search string in the index tree, in the order of Go's map
iteration, sorts the lists by size and filters the candidates gram by gram,
comparing differences of `uint16` positions and deleting from three parallel
slices inside the loop that walks them. What should hold: a series that
holds the search string is returned, whatever the order; a series that lacks
a gram is not; the search runs on the tree of the dictionary that cut the
search string.

**Query compiler.** One statement is walked once, and what is valid is
decided afterwards from flags set on the way; a subquery is compiled under
what its parent hands down. What should hold: a statement that is accepted
mixes no plain field with an aggregate, a statement that is valid alone is
valid as a subquery, the shards are mapped for every time the statement
reads, and every error return of `Prepare` gives back what it took.

**TSSP file lifecycle, planner, MmsTables.** The count and the closed flag
of a file are the only state shared without a lock: `Close` and the last
`Unref` race for the release, a reader may take its reference after the file
was closed or released, and a compaction works for many steps on files that
a drop or the close of the store takes away under it. What should hold
(`spec.md` 4.4, 4.5, 7 and 8): the handle is released exactly once, when the
file is closed and unreferenced, and nothing is read after the release or
evicted under a reader; a file is in one compaction at a time; the marks of
a group are cleared after success and after failure; planning gives the
groups of the examples; a dropped measurement is absent.

## 2. Plan

Order of work, most important behaviour first.

1. **`TimeTask`** (done): the two goroutines of the stream time task on rows
   (`*TaskCache`), safety and liveness, the places where the code does not do
   what it says.
2. **`TimeTaskCalc`, `TimeTaskRec`** (done): `calculateRec` and the three
   column walkers as operators over a column with nils, checked against "fold
   every non-nil value of an in-window row into its window"; a panic in them
   ends `consumeData`. Left: records in `TimeTask` itself, racing with flush.
3. **`MetaHandlers`** (done): the wait loop of `Snapshot` / `GetUserInfo`
   against a store whose index, role and closing flag change underneath it;
   `Execute` with `createDatabase`'s fan-out; the plain handlers as single
   actions.
4. **`Record`, `RecordMerge`** (done for the merge family, the appends,
   `PadRecord`, `Merge`, `KickNilRow`, `Split`, the copies and slices, the
   bitmap functions and the interval records): the algorithms as operators,
   driven as a paged merge and checked against reference definitions. Left:
   the sort helpers.
5. **`RecordPool`** (done): the two pools with concurrent cursors, shown to
   implement the abstract specification **`RecordOwnership`**.
6. **`ClvIndexNode`** (done): callers, the update routine, the flush routine
   and `Close`, for nodes that share the package's counter.
7. **`DetachedMetaIndex`** (done): out-of-order arrival, CRC failure, the
   offset arithmetic over whole and torn files.
8. **`TsspFile`**, **`CompactionPlan`**, **`MmsTables`** (done): modelled
   from `spec.md` (their code is not in `src/`); the planner is checked
   against the cases of the tests, and the store with its files is shown to
   implement the abstract specification **`FileLease`**. Left: the scan of
   `loadIdTimesInLock`, the full-compaction check, the out-of-order tree.
9. **`QueryCompile`** (done): `Compile` and everything under it as operators
   over the syntax tree of a statement, `Prepare` as the step after it.
   Left: the bucket limit of `Prepare`.

10. **`TokenMatchSearch`, `ClvSearch`** (done): the match search of the
   token index step by step, called through the dispatch of
   `CLVSearchIndex`, checked against what the index tree says of the grams.

11. **`RecMeta`** (done): the `RecMeta` of a record through every function
   of `record.go` that makes, resets, fills or moves it, with `Times` as Go
   slices over arrays that records share. Left: `ResizeBySchema`, tags.

A module whose constants can be written in a configuration is checked as it
is; the others get an `MC` module. One configuration per question. Twelve
configurations are the listed runs of `PROJECT.json`; a configuration whose
question a listed run already answers in part is kept beside them and
described in section 4.

## 3. Modules

### `TimeTask` (`app/ts-store/stream/time_task.go`)

State. The variables carry the names of the fields: `startTimeStamp`,
`startWindowID`, `values`, `validValues`, `shardIds`, `ptIds` are the task's
memory; `cache`, `abort` and `tick` are the channel of `TaskDataPool`, the
closed state of `s.abort` and the one-tick buffer of `ticker.C`. `cpc`, `cur`,
`rowIdx`, `callIdx`, `lastWindowId`, `walkIdx` are the position and locals of
`consumeData` (`walkIdx` is `j` of `walkUpdate`); `fpc`, `reset`, `offset`,
`rd`, `fields`, `rowTs`, `flushWindowId`, `flushPtId` those of `cycleFlush`
(the last two are `windowId` and `ptId` of `WriteRowsToShard`). The history
variables are `written` (the successful `store.WriteRows` calls), `excused`
(the contributions known to have missed their window's write), `raced` (the
flush in progress took its slot while a window update was pending), `unread`
(the window update in progress follows such a flush), and the counters
`nextId` and `ticks` that bound the model.

Abstraction. An aggregate is the set of rows folded into it, so that a
property can say which rows a value stands for; `SingleThreadFunc` is set
insertion and `initValue` the empty set. A row is an id, a timestamp and the
set of calls that find their field in it (what `getFieldValue` returns). The
partition and shard of a cache are one destination id; `uint32(x)` and
`uint64(x)` are `x % (UintMax + 1)`. `endTimeStamp` and `maxTimeStamp` are
always `startTimeStamp` plus the window and plus `maxDuration` and are
operators. The statistics are left out.

Granularity. The two goroutines share memory without a lock, so every access
to shared memory is a step:

| Code | Module |
|---|---|
| `consumeData`, `case <-s.updateWindow` (136-151) | `RecvUpdateWindow` (the receive, which is also the end of flush's send), `UpdateTime` (140-144), `UpdateWindowID` (145-146), `walkUpdate` |
| `walkUpdate` (197-207) | `walkInitValue` and `walkInvalidate` for each cell, then `walkPtId`, `walkShardId` |
| `calculateRow` (440-471) | `NextRow`, `CalcSkipRow`, one `CalcCall` per call, `CalcShard`, `CalcPt` |
| `cycleFlush` (165-195) | `Tick`, `FirstTick`, `cycleFlushAbort`, and the steps of `flush` |
| `flush`, `generateRows`, `buildRow` (510-577) | `generateRows` (the load of `startWindowID`), one `buildRowField` per call, `buildRowStamp` (the read of `startTimeStamp`), `flushAbort` |
| `WriteRowsToShard` (579-616) | `loadWindowId`, `readPtId`, `WriteRowsToShard` (the read of `shardIds` and the write, which may fail) |

`CalcCall` writes the value and the valid flag of a cell in one step and
`buildRowField` reads the two in one step: `walkUpdate`'s two writes of a
cell are apart, so a reader still sees every pair of values the code can
show it.

Nothing but the hand-over orders the goroutines. The deferred send of `flush`
returns when `consumeData` receives, `cycleFlush` is back at its select, and
a tick that came during the flush is waiting in `ticker.C`: the next flush
then runs beside lines 140 to 151 of the window update before it. The module
allows this, as the code does, and records it in `raced` and `unread`; the
properties of the passing run say what still holds, and section 5 what does
not.

Fairness. Weak fairness on the steps inside a goroutine (a runnable goroutine
is scheduled), strong fairness on the cases of the selects (Go picks among
ready cases at random, so a case that is ready again and again is taken).
Nothing is assumed of the writers, the ticker or `stop`.

Termination. When both goroutines have returned the model stutters
(`Terminated`); deadlock checking stays on.

### `TimeTaskCalc` and `TimeTaskRec` (records in `time_task.go`)

`TimeTaskCalc` has no variables. It holds the geometry of the ring
(`RingSlot` is `windowId`, `OutOfRing` the test of `calculateRec`'s first
loop) and the column walkers as operators from a ring and a column to a
*walk*: the ring after the loop, the loop's locals (`lastWindowID`,
`lastIndex`, `colIndex`) and a flag `panic` that is set when the Go code would
index out of range. The loops are folds over the rows (`FoldLeftDomain`); the
three branches of a loop body are `FoldLast` (a row of the window of the row
before), `EnterWindow` (the first row of a run) and "pass over". The three Go
functions share two of their loops: without nils all three are `WalkNoNil`;
with nils the float and the integer walker are `WalkNilValue` and the count
walker is `WalkNilCount`.

A column is `[type, nils, cells]`: the type of the field the call finds
(`"none"` when it finds none or the field is neither float nor integer), which
rows are nil, and for every row the value it would fold. `PackedValues` is
what `FloatValues()` and `IntegerValues()` return: the values of the non-nil
rows only (`valueIndexRange` in `lib/record/record.go` counts the same way).
As in `TimeTask` an aggregate is the set of values folded into it.

`TimeTaskRec` is `consumeData` alone, fed with records: `RecvRecord` is
`calculate` of a `*CacheRecord` (one step, there is no other goroutine in this
module), `RecvUpdateWindow` the window update, `consumeDataAbort` the abort
case. When `calculateRec` panics, `consumeData`'s deferred `recover` logs the
panic and the goroutine has returned: `state` becomes `"exited"`. The history
variable `put` keeps the records calculated; `RecordFoldedAsBelongs` computes
from it, by membership and without any loop, what every cell should hold, and
compares.

### `MetaHandlers` (`app/ts-meta/meta/handlers_process.go`)

Every request is served by a goroutine that runs one `Process` method; the
module has one handler per element of `Requests`, with `pc[h]` its place in
the method, `req[h]` the request and `rsp[h]` the response it builds. The raft
store and the server are the environment: `index` only grows
(`IndexAdvances`, and the commands the handlers apply themselves), `role`
changes at any time (`RoleChanges`), `Close` closes `h.closing` once. Of the
store's calls the module assumes only what the handlers rely on:
`afterIndex(i)` is ready once the index has reached `i`, a command is applied
only by a leader and moves the index by one, `raft.ErrNotLeader` is returned
only by a store that is not the leader. Data read from the store is
abstracted to the index the store had when it was read, which is what the
properties compare.

| Code | Module |
|---|---|
| `Ping`, `Peers`, `CreateNode`, `Update`, `Report`, `GetShardInfo`, `GetDownSampleInfo`, `GetRpMstInfos`, `GetStreamInfo`, `GetMeasurementInfo`, `RegisterQueryIDOffset` | one action each, named as the handler; which of them ask `isClosed()` and which set both data and error is kept |
| `Snapshot`, `GetUserInfo` | `StartWait` (closed check, `time.After`, `tries := 0`), then the select: `RecvAfterIndex` (the receive; the read of the snapshot or the user info is the step after it, `ReadStore`), `RecvClosing`, `RecvCheckRaft`; `TimerFires` is the two seconds passing |
| `Execute` | `StartExecute`, `Apply`, `ReadIndex` (two calls into the store, two steps) |
| `createDatabase` | `CreateDbPtView`, `GetDbPts` (starts the goroutines), `AssignDbPt(h, p)` (a goroutine sends its result), `RecvErr` (one pass of the receiving loop), `ReturnErr` (close and return) |

`sentToClosed`, `assigned` and `appliedAt` are history variables: a send on
the closed `errChan` (a panic in Go), the partitions whose `assignDbPt`
succeeded, and the index a request's command was applied at.

Fairness: weak fairness on the steps of each handler, on each handler's timer
and on the goroutines of `createDatabase`. The Go scheduler runs a runnable
goroutine and a timer that is armed fires. The cases of the select stay ready
once they are (the index does not go back, a closed channel stays closed, a
fired timer stays fired until it is received), so weak fairness on the
handler's step is enough and nothing is assumed of raft: the index may never
advance and the role may change for ever.

### `ClvIndexNode` (`lib/clvIndex/clvIndexNode.go`)

Every node of `Nodes` has its buffer (`dataBuf`, `dataLen`, `dataLock`), its
index (`indexed`, the set of logs in the tree of the node's type), what has
been written out (`persisted`), the update routine (`updater`, with
`updateTimer`) and the flush routine (`flushTimer`). `LogIndex` is one
variable for all nodes, as in the package, and `loaded[n]` is the value of it
that the caller of node `n` has read and not yet written back. A log is the
number of the call that brought it.

| Code | Module |
|---|---|
| `NewCLVIndexNode`, `Open`, `Flush` | `Init`: both routines started, both timers armed |
| `CreateCLVIndexIfNotExists` | `AppendLog` (the test of line 126 and the append, or the log left out), `ReadLogIndex` and `WriteLogIndex` (`LogIndex += 1`), `Full` (second `if`), and the blocking send, which is one step with the receive |
| `Close` | `Close` (the call) and `RecvClose` (send and receive) |
| `updateClvIndexRoutine` | `TimerFires`, `RecvTimer`, `RecvUpdate`, `RecvClose` |
| `updateClvIndex`, `CreateCLVVGramIndexIfNotExists`, `CreateCLVVTokenIndexIfNotExists` | `updateClvIndex` |
| `flushClvIndexRoutine`, `serializeIndex` | `serializeIndex`: the timer fires, the routine receives and writes the index out |

`LogIndex` is written by the callers of all nodes without a lock, so its
increment is two steps: two callers that pass the test together both
append, and a caller that writes back what it read undoes the increment of
another. The counter can therefore pass `SHARDBUFFER`, by at most the number
of callers less one, which is the bound `TypeOK` gives it.

The timer of the update routine is `"armed"`, then `"fired"`, then
`"spent"`: it is made by `time.NewTimer` and the code never resets it. The
timer of the flush routine, which nothing else waits for, is `"armed"` or
`"spent"`. `updateClvIndex` is one action. Its second branch
(take the buffer, build, reset the counter) is part of it but is not reached
from `Init`: `dataLen` is 0 and nothing writes it. Since only this function
takes `dataLock`, the lock is taken and released inside the action; it is a
variable so that "returned without unlocking" can be told from "returned".
Each node has one caller, so calls on a node do not overlap; calls on
different nodes interleave at every access to the counter. `Closed` bounds
the nodes that `Close` is called on.

Fairness: weak fairness on the timers and on the steps of a goroutine that
stay enabled; strong fairness on the three cases of the update routine's
select, which are ready only while the routine is in the select and among
which Go chooses at random. The callers are not assumed to call.
The runs do not check for deadlock: a node whose callers are idle and whose
timers have fired has both routines waiting, and that is its normal state.

### `TokenMatchSearch` and `ClvSearch` (`matchSearch.go`, `lib/clvIndex/clvSearch.go`)

`ClvSearch` extends `TokenMatchSearch`: a call of `CLVSearchIndex` that ends
in `tokenMatchQuery.MatchSearch` starts the steps of `TokenMatchSearch` on
the token tree it hands over; any other call is one step that returns the
answer of a search whose code is not in the repository (`Answers`), or the
nil result where no search is chosen.

| code | `ClvSearch` |
|---|---|
| `QuerySearch` and its constants | `MATCHSEARCH`, `FUZZYSEARCH`, `REGEXSEARCH`, `QuerySearches` (with a value that is none of the three) |
| `CLVSearchIndex` | operator `CLVSearchIndex`: the call made, as `[fn, dic, index]`, or `NoCall`; actions `CallTokenMatch` and `CallOther` |
| the six `...Search...Index` functions | operators of the same names over `Search`, the body they share: the roots of `CLVC`, those of `CLVL`, or no call |

| code | `TokenMatchSearch` |
|---|---|
| `MatchSearch` up to the first loop | action `MatchSearch(vg, t)`: `vg` is what `DataProcess` and `VGCons` make of the search string |
| one round of the first loop | `Lookup`, with `SearchInvertedListFromCurrentNode`, `SearchInvertedListFromChildrensOfCurrentNode`, `TurnAddr2InvertLists` (`moved`), `sumInvertList`, `NewSortKey`; an offset whose gram is nil (`grams`) has no round |
| `MergeMapsInvertLists`, `MergeMapsTwoInvertLists`, `UniqueArr`, `DeepCopy` | `MergeMapsInvertLists`, `MergeMapsTwoInvertLists` |
| the first `sort.SliceStable` | `SortBySize` with `lessBySize` |
| the second loop, `m == 0` | `FirstList`: the candidates in any order of the map |
| the second loop, `m > 0` | `NextList` with `candidates` (the loop over `resArr`), `findFlag` (the two inner loops) and `dropCandidate` (the three appends and `j--`) |
| the second `sort.SliceStable` and the return | `Return` with `lessByIdAndTime` |

Data. An index tree is `[root, children, invertedIndex, addrOffset]` over
`Nodes`; a token is known to the tree by `Hash`, which need not be
injective. An inverted list is a function from the series to the set of the
positions: a series the code's map lacks has the empty set, and the slices
of positions, which the code sorts and frees of duplicates, are only ever
asked whether they hold a position. Positions, offsets and their sums and
differences are `PosBits` wide where the code has `uint16`. `sort.SliceStable`
is the insertion sort Go uses for up to twenty elements, with `less` as given,
so a `less` that is no ordering gives what the code gives. The steps of one
call are separate actions so that the order of the map iteration is a choice
at each round; calls do not overlap. The code appends to slices it took from
the index tree (`map2[sid1] = list1`, then `append(list2, list1...)`); whether
that writes into the tree depends on the capacity of slices built outside
the repository, and is not modelled.

Properties. `MatchesOfTheDictionaryAreReturned` relates three things: the
dictionary `CLVSearchIndex` handed over (the grams are cut by it), the tree
the search ran on, and the result. `AlignedIn` says what a match is without
the walk of the code: the node a gram's hash codes lead to, the nodes below
it and the lists their `addrOffset` names give the positions of the gram in
a series (`GramPositions`), and the series holds the search string if from
some position on every gram stands at its offset. `ReturnedSeriesHoldTheGrams`
is the converse as far as it holds: every returned series has every gram,
and with up to two grams it is a match. `TypeOK` has the equal length of
`resArr` and the two slices of positions, which the code indexes together.
Both sides count positions modulo `2^PosBits`.

### `Record` and `RecordMerge` (`lib/record/record.go`)

`Record` has no state: it holds the row algorithms of `record.go` as
operators. A record is `[schema, times, cols]`: the set of its field names
(the time field left out), the time column, and for every field a column with
one cell per row, `Nil` for null. The code keeps `Schema` sorted by name with
the time field last and walks two schemas with two indexes; over a set that
walk is a union and a case distinction on membership, which is what the
operators say. Field types, bitmaps and offsets are left out, and so is `RecMeta`, which
has a module of its own. Row
positions are the 0-based positions of the code (`Slice`, `At`). A method
with receiver `rec` is an operator whose value is the receiver after the
call, together with the positions the method returns.

| code | `Record` |
|---|---|
| `mergeRecordSchema`, `mergeRecRow`, `mergeRecordNonOverlap` | operators of the same name; the top-level merges start from a reset receiver, as their callers pass one |
| `appendRecs` | `mergeRows` (the loop, recursive), `appendTail` (the rows one range has left), `appendRecs` |
| `mergeRecordOverlapImpl` | `mergeRecordOverlapImpl` (leading rows), `overlapTail` (trailing rows) |
| `mergeRecordOverlap`, `mergeRecordOverlapDescend` | the four cases each, as the bounds handed to `mergeRecordOverlapImpl` |
| `MergeRecordLimitRows`, `MergeRecordLimitRowsDescend`, `MergeRecord`, `MergeRecordDescend`, `MergeRecordByMaxTimeOfOldRec` | operators of the same name; `Swapped` is the call with the records in the other order |
| `appendRecImpl`, `AppendRec` | operators of the same name |
| `addColumn`, `PadRecord`, `Merge` | `PadRecord`, `Merge` |
| `IsNilRow`, `KickNilRow` | `IsNilRow`, `RunEnd` (the inner loop), `kickRows` (the slow path), `KickNilRow` |
| `Split` | `Split` |
| `CopyWithCondition`, `Copy` with `CopyImpl`, `Clone`, `CopyColVals`, `SliceFromRecord` | operators of the same name, whose value is the new record (`Nil` where the code returns nil) |
| `AppendRecForTagSet`, `TryPadColumn` | operators of the same name |
| `ReverseBitMap`, `valueIndexRange`, `subBitmapBytes` | `reverseBits` (the loop), and operators of the same name over a bitmap as the sequence of its bits |
| `BuildEmptyIntervalRec`, `AppendIntervalEmptyRows`, `AppendIntervalEmptyRow`, `AppendRecRow2IntervalRec`, `UpdateIntervalRecRow`, `TransIntervalRec2Rec`, `IsIntervalRecRowNull` | operators of the same name |
| the twelve functions behind `intervalRecAppendFunctions`, `intervalRecUpdateFunctions` and `recTransAppendFunctions` | `appendFunction`, `updateFunction`, `recAppendFunction`: the four field types behave alike |

`PadColVal`, `AppendColVal`, `IsNil`, `ColVal.Split` and the four binary
searches `GetTimeRange...Index` are called by this code but defined outside
the repository's sources. They are modelled by contract: a search returns the
position of the time it looks for at or after the start position and, where
the time is absent, the position where it would be inserted (the start
variants) or the one before (the end variants).

`RecordMerge` drives the operators the way the storage engine does. `Init`
chooses a direction and two records sorted in it. Every step is one call on a
reset receiver: `MergeRecordWhole` (only as the first call),
`MergeRecordLimitRowsPage`, `MergeRecordLimitRowsDescendPage`,
`MergeRecordByMaxTimeOfOldRecPage`, each with any limit, from the positions
the last call returned; `AppendRest` is the caller appending what one record
has left once the other is exhausted. Calls of different methods may follow
each other. `merged` is a history variable with the rows of all pages.

A bitmap is the sequence of its bits: bit k of the sequence is bit `k & 0x07`
of byte `k >> 3`, so the masks and shifts of the code become positions, and a
byte boundary is a position that is a multiple of 8. `UpdateValue`
(`ColVal.Update<Type>Value`, not in the repository) sets the cell of a row and
leaves it alone for a null. `Clone` is modelled as the code is: its loop ends
before the last column, so the clone has no time column (see section 5).

`PagesAreTheMerge` compares `merged` with `Reference`, which is written from
the times as a set and knows nothing of positions, overlap cases or limits.
`KickNilRowKeepsValuedRows` and `MergeAppendsAllRows`
compare an operator with its definition on every page and input record the
run reaches. So do the properties of the other operators
(`MergeAppendsAllRows`, `CopyWithConditionIsTheRange`, `SplitIsPartition`,
`TagSetAppendPaddedIsMerge` and `ReverseBitMapMirrorsRows` under
`MCRecordMergeParts.cfg`, the others in the run `recordmerge`):

* `CopyWithConditionIsTheRange`: over every time range, also an empty one and
  one between two rows, and in both directions, the copy of an ascending page
  under the schema of the new record is the rows whose time is in the range;
  over the whole page it is what `Copy` and `SliceFromRecord` give.
* `TagSetAppendPaddedIsMerge`: `AppendRecForTagSet` leaves the columns behind
  the source's last field short; with `TryPadColumn` after it the result is
  the record `Merge` builds.
* `ReverseBitMapMirrorsRows` and `ValueIndexRangeNamesTheValues`: on the
  columns of every whole merge (up to six rows, nulls from the inputs and from
  padding), placed at bit offsets 0 and 7 of a bitmap of two bytes, so that
  the rows begin at a byte boundary or straddle one.
* `IntervalFillKeepsValuedRows`: a page is filed row by row into an interval
  record with a window at every time unit, in the direction of the page, and
  read back; what comes back is the page without its null rows, which is also
  what appending the rows with `AppendRecRow2IntervalRec` gives.

 The run does not check for deadlock: a merge ends when both
records are consumed.

### `RecordOwnership` and `RecordPool` (`lib/record/record.go`, the pools)

`RecordOwnership` is the abstract specification: what a pool of records
promises to those who share it. Its state is `lease` (who holds a record) and
`data` (the record has rows). A holder is handed only a record that nobody
holds and that has no rows (`Acquire`); only the holder fills (`Write`) or
empties (`Clear`) it; a record handed back has no rows (`Release`). It has no
run of its own.

`RecordPool` is the code. A `RecordPool` is the buffered channel `cache` in
front of the `sync.Pool` `pool`; a `CircularRecordPool` belongs to one cursor.

| code | `RecordPool` |
|---|---|
| `NewRecordPool`: the size of the channel | `CacheSize`, `CpuNum * 2` clamped to `MinCacheSize`..`MaxCacheSize` (4 and 256 in the code) |
| `RecordPool.Get`: the `select` on the cache, `pool.Get()`, `&Record{}` | `Get(r)`, three alternatives; a new record is any record that is nowhere (`Unallocated`) |
| `RecordPool.Put`: the abort of a large record, `ResetDeep`, the `select` | `Put(r)` |
| the garbage collector emptying a `sync.Pool` | `PoolGC` |
| `NewCircularRecordPool` | `NewCircularRecordPool` (the fields) and `NewCircularRecordPoolStep`, one iteration of the loop: `Get`, `Sized` (the growth and the cut of `Schema` and `ColVals`), `Copied` (`copy(record.Schema, schema)`) |
| `CircularRecordPool.Get`, `GetBySchema`, `PutRecordInCircularPool` | `CircularGet`, `GetBySchema`, `PutRecordInCircularPool`, with `NextIndex` and `PrevIndex` |
| `CircularRecordPool.Put` | `CircularPut` and `CircularPutStep`, one iteration of the loop; the last one clears `records` and `recordNum` |
| `Reset`, `ResetDeep`, `ResetForReuse`, `Len`, `RowNums` | operators of the same name on the state of a record |

A record is `[len, cap, alias, colLen, colCap, rows]`: the length and
capacity of `Schema`, the caller's slice `Schema` points into (`Nil` when the
array is the record's own), the length and capacity of `ColVals`, and the
rows in the columns. `arr` is the content of every caller's schema slice, so
that a `copy` into a record whose `Schema` aliases a caller's slice is
visible. `Emit` is the cursor filling the record of its last `Get` and
handing it to its caller, who reads the last `Lookback` records; it stands
for the callers, whose code is not in the repository. The two loops are one
step per iteration because that is where cursors interleave: each iteration
is one `Get` or `Put` on the shared pool. The two limits of `Put` and the
clamp of the cache are constants so that a run can reach them with small
records. Not modelled: the statistics callbacks; `RecMeta`, which is
reset with the rows, is in module `RecMeta`.

The refinement mapping is `lease[r]` = the cursors that have `r` in their
ring and have not put it back, `data[r]` = `rec[r].rows > 0`.
`ImplementsOwnership` is `RecordOwnership`'s specification under that
mapping: every step of `RecordPool` is a step of `RecordOwnership` or leaves
`lease` and `data` unchanged. A `Get` that returned a record with rows, a
`Put` that kept rows, a record in the cache and in the `sync.Pool` at once
or a collected record that is still in the cache would each be a step the
abstract specification does not have. `GetLeavesHeldRecords` is an action
property about the ring, under the assumption `Lookback < RecordNum` that
the callers make; `TypeOK` has the two conditions Go panics on (the index
inside the ring, one `ColVal` per field).

Assumptions: `GetBySchema` is called with a schema as long as the one the
ring was made for (otherwise `Schema` and `ColVals` differ in length, which
nothing in the pools repairs); a cursor calls nothing between `Put` and the
next `NewCircularRecordPool` (`Get` would index a nil slice).

### `RecMeta` (`lib/record/record.go`, the pre-aggregates and the times)

`Record` leaves `RecMeta` out; this module is about nothing else. Of a
record it keeps the length of `Schema`, the number of rows and `meta`, which
is `Nil` or `[ColMeta, Times]`. A `ColMeta` is `[isSetFlag, val]`, `val`
standing for the ten aggregates, which the code always moves together.

`Times` is a `[][]int64`, and what goes wrong with it goes wrong because
it is a Go slice, so the model has slices:

| Go | `RecMeta` |
|---|---|
| the array behind an outer slice | `heap[a]`, a sequence of cells; its length is the capacity |
| `Times`, a slice header | `[arr, len]`; two records with the same `arr` read and write the same cells |
| `Times[i]`, an inner slice with its array | a cell `[buf, len]`: `buf` is the array, of which `len` times are read |
| `t[:0]`, `t[start:end]`, `append(t, ...)` | `Truncate`, `Reslice` (up to the capacity, as in Go), `AppendTimes` (in place, over what lies behind the length) |
| `make([][]int64, n)` | `MadeTimes`, `Made`: an array no record reads |
| the garbage collector | `Collect`, at the end of every call |
| index out of range, slice bounds out of range, nil dereference | `Panics(fn)`: `panic` names the function, and nothing follows |

A time is the number of its row in the record it was loaded into, so that a
window of rows can be told from any other.

| code | `RecMeta` |
|---|---|
| `NewRecord(schema, initColMeta)` | `NewRecord` |
| `RecordPool.Get`, `Put` with `ResetDeep` | `PoolGet` (a pooled record as it is, or `&Record{}`), `Put` |
| `NewCircularRecordPool`, the block under `initColMeta` | `NewCircularRecordPool`, for one record of the ring, with `Grows` |
| `CircularRecordPool.Get`, `GetBySchema` with `ResetForReuse` | `Get`, `GetBySchema`, with `ResetForReuse` and `Emptied` |
| `AssignRecMetaTimes` by a reader that has loaded rows | `Load`: `k` rows, times for a set of field columns |
| `SetMin` ... `SetCount` | `SetColMeta`, `SetAgg` |
| the end of `appendRecImpl` | `AppendRec` |
| `SliceFromRecord`: the choice of the `RecMeta`, `CopyColMetaTo`, the loop over `Times` | `SliceFromRecord` with `SliceMeta` and `CopyColMetaTo` |
| `Copy`, `CopyImpl`, `RecMeta.Copy`, `ColMeta.Clone` | `Copy`, `CopyMeta`, `Clone` |
| `AppendIntervalEmptyRow` | `AppendIntervalEmptyRow` |
| `AppendRecRow2IntervalRec` and `appendRecMeta2iRec` | `AppendRecRow2IntervalRec`, with `Moved` |
| `UpdateIntervalRecRow` and `updateRecMeta` | `UpdateIntervalRecRow` |
| `TransIntervalRec2Rec` and `appendRecMeta2Rec`, for one row that is not null | `TransIntervalRec2Rec` |

Every call is one action: nothing in these functions runs concurrently,
and what is hard is the order of calls. `where` tells the records of the
pool, of a caller, of a ring and those a ring has handed out; a ring hands
out a record again whether or not its last holder is done with it, as
`CircularRecordPool` does. The calls on columns that `Record` models (the
values, the bitmaps) are left out, with their guards kept: a range of rows
lies within the source, the destination's schema is at least as long as the
source's. `fwd` is a history variable: the columns a source was loaded with
and how far it has been sliced, front to back.

`TypeOK` has what Go keeps of slices and the model must keep with it: the
length of `Times` and of every cell is within its capacity, also after
`NewCircularRecordPool` has resliced the `Times` of a pooled record to a
longer schema, and no array is left that no record reads.
`ForwardSlicesReadTheirRows` is the property the cursors depend on: a
source that is sliced window after window, front to back, gives every
window the times of its rows. It is not obvious, since the destination
reads and writes the source's own cells (below): each slice moves its window
to the front of the cell, over rows that were read before, and leaves the
rows behind the window as they were.

Four properties state what the code's names and comments say, and TLC
refutes each (section 5): `SliceFromRecordReturns`, `AppendRecReturns`,
`SliceLeavesTheSource`, `IsEmptyTellsAggregates`.

### `DetachedMetaIndex` (`engine/immutable/detached_meta_index.go`)

The meta index of a detached file is a header of 16 bytes and one item of
36 bytes behind a CRC of 4 bytes for every chunk. The module follows one
caller from the size of the file to the items of its time range.

| code | `DetachedMetaIndex` |
|---|---|
| the constants | `crcSize`, `MetaIndexItemSize`, `MetaIndexHeaderSize` |
| `GetMetaIndexChunkCount` | `GetMetaIndexChunkCount`: no such file (0 chunks), an error of open or `Stat`, or `ChunkCount` of the size, in Go's division |
| `GetMetaIndexOffsetAndLengthByChunkId` | operator of the same name |
| `GetMetaIndexAndBlockId` up to `StreamReadBatch`, `NewDetachedMetaIndexReader` | `GetMetaIndexAndBlockId`: the open fails, or every chunk is asked for |
| the loop of `ReadMetaIndex` | `Receive`: an error, a short or damaged item fails the call, else the item is stored at `i` |
| `sort.Slice` and the return; the filter of `GetMetaIndexAndBlockId` | `Sorted`, `Return` |
| `GetPKItems` | `GetPKItems`: its reads fail, or there is an item for every chunk id |

The file is `[size, items]`; an item is `[offset, exist, intact]`: the offset
of its chunk's metadata (growing with the chunk), whether it lies in the time
range, and whether its CRC matches. `Files` has whole files, files with a
torn tail and the file of no bytes, which also stands for no file. The stream
reader is the environment: `StreamSend` answers any pending request, in any
order, with the content at the offset or an error (always an error where the
request reaches past the end of the file), and `StreamClose` closes the
channel after the last answer; the channel has capacity 1 as in the code.

`ChunkIdsNameTheirItems` says what the callers rely on: chunk id `k` in the
result is the position of the item in the file, whatever the order of
arrival. `TypeOK` carries the arithmetic: the chunk count is not negative and
names no item outside the file, also for a file shorter than its header. The
configuration does not check for deadlock: the caller ends with the result or
an error.

### `QueryCompile` (`lib/util/lifted/influx/query/compile.go`)

The compiler is sequential: `Compile` walks one statement and returns the
compiled statement or the first error, and `Prepare` maps the shards for it.
The module has the walk as operators over the syntax tree and the two calls
as the two steps of a statement.

| code | `QueryCompile` |
|---|---|
| the nodes of package `influxql` | records with a field `type`: `VarRef`, `Wildcard`, `RegexLiteral`, the literals, `Call`, `Distinct`, `BinaryExpr`, `ParenExpr`; sources `Measurement`, `SubQuery`, `Join`, `BinOp`; a statement is `Select(fields, dimensions)` with the fields the compiler reads |
| `compiledStatement` | the record `newCompiler` with the same fields and `err`, the error the method returns (`Ok` is nil) |
| `compiledField` | `[global, AllowWildcard]`; `Fail`, `Failed` |
| `Compile` | `Compile`, `preprocessed`, `inCondition`; action `CompileStatement` |
| `preprocess` | `preprocess`, `conditionError`, `withCondition`, `withTimeRange`, `resolveTimeRange` |
| `compileDimensions` | `compileDimensions`, `compileDimensionsTo` (the loop), `compileDimension`, `intervalOffset` with `GoRem` (Go's `%`) and `SinceTruncated` (`t.Sub(t.Truncate(d))`) |
| `compile` | `compile`, `validated`, `overSources`, `compileSources` (the loop), `compileSource`, `side`, `taken` with `TakeLast`, `TakeIfUnset`, `TakeNone` (what each assignment of `SubQueryHasDifferentAscending` keeps) |
| `compileFields` | `compileFields`, `compileFieldsTo`, `compileField` |
| `compileExpr`, `compileNestedExpr`, `compileSymbol`, `compileCall`, `compileDistinct`, `compileProjectOp`, `compileAggregateOp`, `validateSelector`, `normalizedExpr`, `compileHoltWinters` | operators of the same names |
| `compileExponentialMovingAverage`, `compileKaufmans`, `compileChandeMomentumOscillator` | the same names over `movingAverage`, which has what the three share: `periodArgs`, `warmupArg`, `overWindow` |
| `validateFields`, `validateCondition`, `validateUnnestFunc`, `validateUnnestSource` | operators of the same names |
| `subquery` | `subquery`, `handDown`, `inherit`, `Intersect` |
| `Prepare` | action `Prepare` with `shardTimeRange` and `DurationMul` (the product wraps at `DurationBits` bits) |

Data is abstracted to what the compiler tells apart. An error is its
message, shortened. Times are integers of `MinTime..MaxTime` and `ZeroTime`,
the zero `time.Time`, is a value outside them. `st.Condition` is what
`influxql.ConditionExpr` makes of the condition: an error, or the condition
without its times and the range of the times. The rewrites that package
`influxql` does to a statement (`Reduce`, `RewriteDistinct` and the others
at the end of `Compile`) are not in the repository and are left out;
the statements stand for reduced ones. A string that is a time literal is
`TimeString(t)`, with `Nil` where `ToTimeLiteral` fails; the pattern of an
unnest function is `Pattern(n)` by the number of its subexpressions, with
`Nil` where `regexp.MustCompile` panics. A panic (the division by zero of
`time(0s, 1s)`, the pattern that does not compile) is an error of its own
name. The registries of package `op` are constants: `ProjectOps`,
`AggregateOps`, `MathFunctions` and `CompileOp`. `TopBottomFunction` and
`PercentileOGSketchFunction` are set by code outside the repository and stay
empty.

An operator that hands the result of one phase to the next takes it as a
parameter (`withCondition`, `withTimeRange`, `validated`, `overSources`,
`handDown`, `preprocessed`): the phases of the code are the operators, in
the code's order, and each early return is the first alternative of its
operator.

`Prepare` computes the time range of the shards and then ends in one of four
ways: `MapShards` fails and nothing is open; the statement has two sources
and they are of more than one storage engine, where the code returns with
the shards open; one of the later steps fails and the shards are closed; or
the statement is prepared and the shards belong to it. `Prepare` is taken
without a bucket limit (`SelectOptions.MaxBucketsN` is 0), so the time range
of the shards is not narrowed at its start.

Properties. `FieldsStandBesideOneSelector` is stated on the syntax tree of
the statement and not on the flags: it says what the flags are for.
`InheritedIntervalNeverRejects` compiles the statement a second time as the
only source of every statement of `Parents`. `ShardsCoverTheTimeRange`
relates the range `Prepare` maps to the range and the order of the compiled
statement; it fails where the product of the period and the interval wraps
(section 5) and is no property of the run. `TypeOK` has what `Prepare` relies on: no zero time, an offset
inside the interval (negative for a negative offset, which is where Go's `%`
differs from the modulus), extra intervals that are not negative.

### `FileLease`, `TsspFile`, `CompactionPlan` and `MmsTables` (`spec.md` 4.2-4.6)

The code of the TSSP engine is not in `src/`; these four modules are
modelled from `spec.md`, and from what the tests of
`engine/immutable/tssp_file_reader_test.go` expect of it. Every definition
of them is marked `spec_modelled` in `PROJECT.json`.

`FileLease` is the abstract specification: what a sealed file promises its
owners. It has no counter and no flag. `holders[f]` is the set of threads
that hold a reference to `f`, `users[f]` those that are reading it,
`closing` the files a close was requested for, `freed[f]` how often the
handle was released (0 or 1), `inMemory` the files with cached blocks. Only
a holder reads, and only what is not released (`BeginUse`); a close is
requested once and releases at once when nobody holds the file
(`RequestClose`); the last holder out of a closing file releases it in the
same step (`Release`); cached blocks go only while nobody holds the file
(`Evict`). A thread may take a reference late, after the close or the
release (`Acquire`); it then reads nothing. It has no run of its own.

`TsspFile` is the file of `spec.md` 4.3 and 4.4.

| `spec.md` | `TsspFile` |
|---|---|
| the atomic counter, the closed flag | `ref`, `closed` |
| "a close was requested while referenced" (4.4), the deferred-release flag of the first design note | `deferred` |
| the release: unmap, close the descriptor, release the caches | `release(f)`; `released[f]` counts it so that a second release is visible |
| `Ref()` | `Ref(f)` |
| `Unref()`: decrement, and the deferred release at zero | `Unref(f)`; the release consumes `deferred` |
| `Close()`: mark, release at once at zero, defer otherwise | `Close(f)` |
| `LoadIntoMemory()`, an accessor that fails fast on a closed file | `LoadIntoMemory(f)` |
| `Free(force)`: nothing is freed while a reference is held, forced or not (`TestFreeMemory`, the open question of section 9) | `Free(f, force)` |

`Ref`, `Unref`, `Close` and `Free` are single steps because the count and
the flag are atomics (`spec.md` 5). The count counts the readers and the
compactions; the store holds no reference of its own
(`TestFileHandlesRef_EnableMmap` finds the count at 0 with the file in the
store). `Close` is as 4.3 says, not idempotent when it comes twice to a
file; the store closes each file once, which `ImplementsFileLease` checks.

`CompactionPlan` is the planner of 4.5 as operators over the sorted list of
file names; a name is `[seq, level, extent, order]`.

| `spec.md` 4.5 | `CompactionPlan` |
|---|---|
| the order of names: sequence, then extent (4.2) | `Before`, `InOrder` |
| step 2: "sequence-adjacent", with no file of another level in between | `Span`, `Run` |
| step 2 and 6: a file in compaction anywhere in the span excludes the span | `Poolable` |
| step 5: an extent of a file split into several breaks adjacency | `Split` |
| step 3 and 4: groups of the minimum size, all of them, the rest discarded | `Starts`, `mmsPlan` |

`MCCompactionPlan.cfg` checks `mmsPlan` at level 2 with a minimum of 4
against the groups expected by the eight cases of `TestCompactionPlan` and
the ten of `TestCompactionPlanWithAbnormal` (`PlanIsTheExpectedGroups`); the
cases, not the prose, decide that a group is cut at exactly the minimum
size and that a split file breaks a run in two.

`MmsTables` composes the two with the store of 4.6. `tables[m]` is the file
set of a measurement (`Nil` when there is none), `inCompact` the names
marked, `plans` the groups planned and not yet started, `created` the names
given out, `stopped` the closed flag of the store, `th[w]` the place of a
worker and what it has in hand.

| `spec.md` | `MmsTables` |
|---|---|
| `AddTable` / `AddTSSPFiles`: a newly sealed file, under the lock of the set | `AddTable(m, f)`: level 0, the next sequence number |
| `LevelCompact`: plan and mark under the in-compaction lock, released before the merge (5) | `LevelPlan(m, level)`, one step; the groups are queued in `plans` |
| a compaction as a unit of work of its own | `StartCompact`, then per file `RefFile`, `CheckClosed`, `ReadAt`, then `MergeOk` or `MergeFail`, `ReplaceFiles`, `CloseOld`, `UnrefFile`, `CompactDone` |
| `ReplaceFiles`: the atomic swap, the old files retired and deleted once unreferenced | `ReplaceFiles(c)` and `CloseOld`, one `Close` per step |
| `CompactDone`, after success and failure (4.5, 7) | `CompactDone(c)`, reached from every end of a compaction through `afterRelease` |
| `tableFiles` / `File` and a read under a reference, with the closed check of every accessor | `StartRead`, `RefFile`, `CheckClosed` (`afterCheck`), `ReadAt`, `UnrefFile` |
| `DropMeasurement`: the file sets go, a second drop finds nothing | `DropMeasurement(t, m)` (`taken`), then `CloseOld` per file |
| the close of the store | `CloseStore(t)` |
| `LoadIntoMemory`, `Free` from the cache control | `LoadFile`, `FreeFile` |

A step is what happens under one lock or in one atomic operation; between
two steps every other thread may run. That is where the hazards are: a
reader has picked a file and not yet referenced it when the file is closed
and released; a compaction holds half of its group when the measurement is
dropped; `Close` and the last `Unref` meet.

Readings of `spec.md` where it leaves a choice, each taken from a test:

* **The release is owed once.** 4.4 lets `Unref` release when the count
  reaches zero "and a close was requested while referenced". Read as "and
  the file is closed", a reader that takes its reference after the release
  releases the handle a second time on its way out (the mutant
  `Unref_WheneverClosed`, refuted by `ImplementsFileLease`).
  `TsspFile` keeps the flag of the design note and clears it at the release.
* **`ReplaceFiles` after a drop.** 4.6 does not say what `ReplaceFiles` does
  when its old files are no longer registered. `TestDropMeasurement` drops
  while a compaction runs and expects the measurement gone: `ReplaceFiles`
  swaps only if every old file is still in the set (`Registered`), and
  retires the files it has written otherwise.
* **Two counters in the code.** The tests show a count of the file
  (`genTsspFile` starts it at 1) beside the count of its reader
  (`RefFileReader`); `spec.md` describes one, and so does `TsspFile`.

The refinement mapping of `ImplementsFileLease`: `holders[f]` = the workers
with `f` in `held`, `users[f]` = the workers at `"read"` on `f`, `closing`
= the closed files, `freed` = `released`, `inMemory` = the cached files.
Every step of `MmsTables` is then a step of `FileLease` or leaves the five
unchanged: a read of a released file, a second release, a release with a
holder left, a second close, an eviction under a holder or a load of a closed file
is a step `FileLease` does not have.

Fairness: `WF` on the steps of every worker that has begun and on the start
of a planned group. `spec.md` 5 makes reads and compactions independent
units of work on threads of their own, whose steps (atomics, short critical
sections, I/O that returns) do not wait for each other; nothing obliges a
caller to come, a file to be sealed or a planning pass to run, and these
have no fairness.

## 4. Runs

| Run | Configuration | Result | What it shows |
|---|---|---|---|
| `timetask_safety` | `MCTimeTask.cfg` | pass | `TypeOK`, `SlotHoldsItsWindow`, `QuietFlushWritesOneWindow`, `QuietFlushWritesANewWindow`, `NoSilentLoss` |
| `timetask_liveness` | `MCTimeTaskLive.cfg` | pass | `FlushReturns`, `CacheIsDrained`, `StopTerminates` |
| `timetask_destination` | `MCTimeTaskDest.cfg` | violation | `WrittenToCacheDestination`: a flush between "valid" and "shard set" writes to destination -1 |
| `timetask_overlap` | `MCTimeTaskOverlap.cfg` | violation | `UpdateExcludesFlush`: a pending tick lets the next flush run beside the window update |
| `mmstables` | `MCMmsTables.cfg` (module `MCMmsTables`) | pass | `ImplementsFileLease` (the refinement), `CompactionsShareNoFile`, `DroppedMeasurementStaysAbsent`, `CompactMarksAreCleared`, `ClosedFilesAreReleased` |
| `metahandlers` | `MCMetaHandlers.cfg` (module `MetaHandlers`) | pass | `TypeOK`, `ExecuteIndexCoversCommand`, `CreatedMeansAllAssigned`, `NoSendOnClosedErrChan`, `EveryRequestIsAnswered` |
| `clvindex` | `MCClvIndexNode.cfg` (module `ClvIndexNode`) | pass | `TypeOK`, `CloseStopsUpdater`, `CallerReturns` |
| `recordmerge` | `MCRecordMerge.cfg` (module `RecordMerge`) | pass | `PagesAreTheMerge`, `PageFillsTheLimit`, `KickNilRowKeepsValuedRows`, `ValueIndexRangeNamesTheValues`, `IntervalFillKeepsValuedRows` |
| `recordpool` | `MCRecordPool.cfg` (module `MCRecordPool`) | pass | `TypeOK`, `ImplementsOwnership` (the refinement), `GetLeavesHeldRecords` |
| `clvsearch` | `MCClvSearch.cfg` (module `MCClvSearch`) | pass | `TypeOK`, `MatchesOfTheDictionaryAreReturned`, `ReturnedSeriesHoldTheGrams` |
| `recmeta` | `RecMeta.cfg` (module `RecMeta`) | pass | `TypeOK`, `ForwardSlicesReadTheirRows` |
| `querycompile` | `MCQueryCompile.cfg` (module `MCQueryCompile`) | pass | `TypeOK`, `FieldsStandBesideOneSelector`, `InheritedIntervalNeverRejects` |

The first four runs use module `TimeTask`.

Four configurations are kept beside the runs and pass:

| Configuration | Properties | What it adds |
|---|---|---|
| `MCDetachedMetaIndex.cfg` (module `DetachedMetaIndex`) | `TypeOK`, `ChunkIdsNameTheirItems` | the detached meta index: the chunk count names only items inside the file, and every chunk id of the result is paired with the item of that chunk (5,748 states) |
| `MCRecordMergeParts.cfg` (module `RecordMerge`) | `TypeOK`, `MergeAppendsAllRows`, `CopyWithConditionIsTheRange`, `SplitIsPartition`, `TagSetAppendPaddedIsMerge`, `ReverseBitMapMirrorsRows` | the type invariant of `Record` and the functions beside the paged merge, over the states of `recordmerge` |
| `MCTimeTaskRec.cfg` (module `MCTimeTaskRec`) | `TypeOK`, `RecordFoldedAsBelongs` | `calculateRec` over two records, with nil rows only in counted columns |
| `MCCompactionPlan.cfg` (module `MCCompactionPlan`) | `PlanIsTheExpectedGroups` | `mmsPlan` gives the groups of the eighteen cases of the two planner tests |

Eighteen further configurations are kept beside the runs; each states as a
property one sentence of the code's comments or of `spec.md`, or what a
function is named for, and TLC refutes it:

| Configuration | Property | What TLC shows |
|---|---|---|
| `MCTimeTaskWindow.cfg` (module `TimeTask`) | `WrittenRowsBelongToWindow` | a flush beside the window update writes the cells of one window under the timestamp of the next (24 states); with `WrittenFieldsHoldRows` as the invariant, a cell that `walkUpdate` has reset and not yet marked invalid is written (26 states); with `FoldedRowsAreWritten` as the property, a row folded in after the flush has read its cell is wiped unwritten (18 states) |
| `MCTimeTaskKeys.cfg` (module `TimeTask`) | `FieldsCarryTheirCall` | `buildRow` compacts the values and not the keys: a value is written under another call's key |
| `MCClvIndexNodeCount.cfg` (module `ClvIndexNode`) | `SignalMeansFullBuffer` | the counter is shared by all nodes: a node signals for a buffer that is not full |
| `MCClvIndexNodeIndexed.cfg` (module `ClvIndexNode`) | `BufferedLogsAreIndexed` | `dataLen` is never set, no update takes the buffer |
| `MCClvIndexNodePeriodic.cfg` (module `ClvIndexNode`) | `UpdatesPeriodically` | the timer of the update routine fires once |
| `MCTimeTaskRecNil.cfg` (module `MCTimeTaskRec`) | `RecordFoldedAsBelongs` | with nils in a float or integer column that is not counted the walker folds the wrong values |
| `MCTimeTaskRecPanic.cfg` (module `MCTimeTaskRec`) | `RowsOutsideRingAreSkipped` | a row outside the ring in a column without nils ends `consumeData` |
| `MCRecordMergeLimit.cfg` (module `RecordMerge`) | `EveryPageWithinLimit` | one branch of `MergeRecordByMaxTimeOfOldRec` ignores `limitRows` |
| `RecMetaSlicePanics.cfg` (module `RecMeta`) | `SliceFromRecordReturns` | a destination with fewer `ColMeta` than the source, but not none, gets too few new ones: index out of range |
| `RecMetaAppendPanics.cfg` (module `RecMeta`) | `AppendRecReturns` | a destination with a `RecMeta` and no `Times` gets none: index out of range |
| `RecMetaSharedTimes.cfg` (module `RecMeta`) | `SliceLeavesTheSource` | the destination of a slice is given the source's `Times`, and the slice rewrites them |
| `RecMetaIsEmpty.cfg` (module `RecMeta`) | `IsEmptyTellsAggregates` | `CopyColMetaTo` copies the aggregates and not `isSetFlag` |
| `MCRecordPoolAlias.cfg` (module `MCRecordPool`) | `CallerSchemaIsNotWritten` | a record that went through `GetBySchema` carries the caller's slice into the pool, and the next ring copies its schema into it |
| `MCClvSearchAligned.cfg` (module `MCClvSearch`) | `ReturnedSeriesAreAligned` | with three grams a series is returned in which each gram stands beside the next but no occurrence holds all three |
| `MCClvSearchSorted.cfg` (module `MCClvSearch`) | `ResultIsSorted` | the `less` of the last sort is no ordering: (2,2), (0,5), (1,1) stays as it is |
| `MCQueryCompileLeak.cfg` (module `MCQueryCompile`) | `ShardsClosedOnError` | `Prepare` returns the error of several storage engines with the shards open |
| `MCQueryCompileOrder.cfg` (module `MCQueryCompile`) | `DifferentOrderIsReported` | the flag of a subquery sorted in the other order is overwritten by the flag of the subquery under it |
| `MCQueryCompileOverflow.cfg` (module `MCQueryCompile`) | `ShardsCoverTheTimeRange` | with a product of 3 bits, a period of 3 over an interval of 2 wraps and the range of the shards begins after the range of the statement |

Bounds of `timetask_safety`: two windows of width 2 (so that the division in
`windowId` matters and the ring wraps after two updates), two calls (so that
`walkUpdate` is between two cells when a flush reads them), one row at any
of the times 1 to 6 (every window the ring holds over three updates, and the
times at and beyond `maxTimeStamp`, the boundary `skipRow` must exclude),
with both fields or only the second, and five ticks: the first re-arms the
ticker and four flushes follow, so that a flush can overlap the update of
the flush before it, and two more flushes come after the overlap, the second
of them on the slot the overlapping flush read. One row is enough for the
properties, which speak of one contribution at a time; with two rows the
graph of the unordered goroutines has more than eight million states.
`timetask_overlap` and the other refuting configurations of `TimeTask` keep
two rows and three ticks, or the constants of `timetask_safety`.
`timetask_liveness` uses one call, one timestamp, two rows and three ticks:
the liveness properties do not depend on the data, and the smaller state
graph keeps the check of the fairness constraints short.

Bounds of `MCTimeTaskRec.cfg`: two windows of width 2, two calls of which
call 0 is a count, rows at times 1, 3 and 4 (with the ring at 0 these are the
first window, the second window and the first time outside; after one update
time 1 is late and 4 is inside), records of zero to two rows with times that
do not decrease, two records, two window updates (the ring wraps), two
destinations (so that "the first record's destination stays" can fail).
Columns are float or absent; the integer walker is the same operator and
`MCTimeTaskRecNil.cfg` and `MCTimeTaskRecPanic.cfg` run with all three types.
The nil configuration needs three rows: with two, a float column with a nil has one packed
value and the walker always reads past it.

Bounds of `mmstables`: one measurement, two sealed files of level 0 and the
two extents of the level-1 file a merge of them may write (a merge writes
one file or a file split in two), a minimum group of two files at level 0,
two callers and one compaction worker, one file that may be loaded into
memory. Two callers give a reader against a drop or the close, two drops at
once, and two readers of one file, of which one is late; the compaction
worker adds the holder that works for many steps. Every race on one file
is there: `Close` against `Ref`, the check, the read and `Unref`, of a
caller and of the compaction, and `Free` against each. The run does not
check for deadlock: a store that is closed, with every worker back, has
nothing left to do.

Bounds of `metahandlers`: one request of any of the fourteen kinds. Handlers
share nothing but the store, and the store's changes are actions of the
environment: `IndexAdvances` is also the command another request applies
between `apply` and `h.store.index()` of this one, `RoleChanges` and `Close`
happen at any step. Two partitions (so that an error can be followed by a nil
result, and a goroutine can be left behind by an early close), a raft index
up to 3 (a request can ask for an index the store has not reached, reach it,
and pass it), `HaEnable` true.

Bounds of the `ClvIndexNode` configurations: `clvindex` has two nodes, a
batch (`SHARDBUFFER`) of one log and three calls, and `Close` is called on
one of the nodes. Both callers can pass the test before either has counted,
which takes the counter to 2; a third call that passed a test it should not
have passed would take it to 3, and that is what the bound of `TypeOK`
excludes. The callers compete with the timers and, at one node, with `Close`
for the selects of the two update routines; the other node shows a routine
that is never closed. `MCClvIndexNodeIndexed.cfg` has one node, a batch of
two and three calls.

Bounds of `recordmerge`: two fields, timestamps 1 to 3, records of one to
three rows with any non-empty schema and at most one null cell, in both
directions, limits 1 to 3. Three timestamps give every order of two records:
disjoint either way, and the four overlap cases (which record starts first,
which ends first), with equal times at the start, in the middle and at the
end. One null per record gives a merged row that is null in the field both
have, a row that is null in all fields (one null from either record, in
different fields of the same time), and a page whose only row is a null row.
A limit of 1 puts a page boundary at every row; 3 is a whole record. All
4761 pairs of inputs, in either direction, are initial states.

Bounds of `recordpool`: two cursors, rings of two records, four records in
all (both rings full at once, and a ring made of the records the other ring
put back), a cache of two (`CpuNum` 1 clamped up to `MinCacheSize` 2, so that
the third and fourth record put back go to the `sync.Pool` and the collector
has something to empty), a schema of two and one of three fields (a ring for
the longer schema finds the capacity of a pooled record too small and grows
it), the limits of `Put` scaled to two fields and one row (a record made for
three fields is aborted, and so is one given back with two rows),
`Lookback` 1. Cursors and records are symmetric.
`MCRecordPoolAlias.cfg` has two schemas of equal length, which `GetBySchema`
needs, and is otherwise the same.

Bounds of `clvsearch`: positions of 2 bits; tokens "a", "b" and "c", of
which "b" and "c" share a hash code; a tree of a root, the nodes of "a", of
"b" and of "a b" under "a", where the node of "b" names the node of "a b"
with offset 1 in its `addrOffset`; two series, and for every node and series
one of three lists (none, position 0, positions 1 and 3), which gives 729
trees and the tree without a root. An index node has such a tree for `CLVC`
and, for `CLVL`, the same with the lists of the two series swapped, so that
a search on the tree of the other kind has another answer. Eight outcomes
of `VGCons`: no gram, one, two side by side, three (of which the longest
list comes last in the sort), two grams three apart (the distance wraps
either way round), a gram without a path, a gram of the token that shares a
hash code, and an offset with a nil gram. All 3 x 3 x 4 kinds of call,
repeated without bound. `MCClvSearchSorted.cfg` has three series and eight
trees, since two elements cannot be left unsorted.

Bounds of `recmeta`: two records (a source and a destination, in either
role), schemas of one and two columns (a schema of one column has the time
column only; two lengths give a ring made for a longer schema than the
record had, and a destination with fewer `ColMeta` than its source), up to
two rows (two windows of one row, which is what reading front to back needs,
and a window of two), cells of at most two times (`MaxTimes`), one value for
the pre-aggregates, and behaviours of seven calls (`MaxCalls`): the state
of two records with shared arrays and stale cells does not close under the
calls in any number of states that can be searched. Within seven calls a
source is made, loaded and sliced twice into a destination that was made,
pooled and put into a ring of a longer schema before. `Stopped` is the end of a behaviour,
by a panic or by the last call. 100,499 states.

Bounds of `MCDetachedMetaIndex.cfg`: files of zero to three chunks with a tail of 0 or
30 bytes after the last whole item (a torn item), any subset of the items
damaged and any subset in the time range, and the file of no bytes. Three
chunks give the stream six orders of arrival; a file of 0 bytes and one of
16 + 30 bytes put the division at and below zero chunks.

Bounds of `querycompile`: 6143 statements, each with the time filter
protection on and off. Over a measurement: every one of 53 fields (26 that
compile and 27 that each fail one check of one function compiler) and every
two of the 26, with and without `GROUP BY time(2)` and `fill(none)`; two
fields are what `validateFields` needs to see a mix. Varied: ten conditions
(an error of `ConditionExpr`, an open start or end, calls that are and are
not math functions, a statement in the condition that compiles and one that
does not), nineteen dimension lists (every alternative of
`compileDimensions`, offsets of either sign and of every kind, an interval
of zero with an offset), eight unnest sources. Over subqueries: one and two
subqueries, a join and a binary operation with a subquery on either side,
and a subquery of a subquery, each subquery ascending, sorted descending or
descending without a sort field, under an outer statement with and without
an interval. Times are -8 to 8 and now is 6; periods are 1 to 3 and
intervals 2 or 3, so the extension of the shards' range by up to 9 reaches
the clamp at either end from some ranges and not from others. The product
has 3 bits, so that it wraps for a period of 3 over an interval of 2, as the
product of int64 does for a period of a few million over an interval of an
hour. The run does not check for
deadlock: a statement ends rejected, failed or prepared.

What the passing runs show and do not show. `mmstables` checks a design:
the model is `spec.md` with the readings listed in section 3, not the code,
and what holds of it holds of the engine only as far as the engine is what
`spec.md` says. Its liveness properties hold under fair workers; a caller
that keeps its reference for ever keeps a closed file from being released,
and nothing in the design prevents that. `clvsearch` shows that the
token match search loses no match and, for two grams, returns only
matches; for more grams it returns a superset (see section 5), and the run
says nothing of the five searches whose code is elsewhere. The properties of
`querycompile` hold of the statements listed, which name three aggregate
operators and one project operator; the functions that compile themselves
in the registries of package `op` are not in the repository.
`FieldsStandBesideOneSelector` holds with `TopBottomFunction` empty. The refinement of `recordpool`
is a safety refinement: it says nothing about a cursor ever getting a
record, and none of the pool's operations blocks. `recmeta` leaves the
calls free to panic: `TypeOK` and `ForwardSlicesReadTheirRows` hold of the
calls that return, and section 5 has the calls that do not; it says nothing
of behaviours of more than seven calls. `ChunkIdsNameTheirItems`
relies on the offsets in the items growing with the chunk id, which is what
the writer of the file (not in the repository) is taken to do. The properties of `MetaHandlers`
hold under the assumptions on the store listed above, which are not checked
against the store's code (it is not in the repository). The wait loop can
return a response with neither data nor error (timer fired, store not a
candidate, index not reached); nothing in the code says what the client is
owed then, and no property speaks of it. `RecordFoldedAsBelongs` is
conditional on there having been no panic, and `MCTimeTaskRec.cfg` leaves
out the columns that `MCTimeTaskRecNil.cfg` shows to be folded wrongly: what it
establishes is that `calculateRec`'s window ids, the dispatch, the loops
without nils on rows inside the ring, the count loop with nils, and
`walkUpdate` agree with the definition by membership. `QuietFlushWritesOneWindow` and
`QuietFlushWritesANewWindow` speak of the flushes that take their slot while
no window update is pending (`raced` is false): a flush that starts while
`walkUpdate` is still wiping the slot before is among them, and so is every
flush after one that overlapped. Of the overlapping flush itself they say
nothing, and section 5 has what it writes. `QuietFlushWritesANewWindow` is
strict only until `stop`: after it the same window can be written twice.
`NoSilentLoss` names the ways in which the code loses data and shows that
there is no other: a row folded into a window after flush has read the cell
(`FlushHasRead`), a write that fails, and a slot that a flush took from
under the window update, which the update then wipes (`unread`). All three
happen, and `FoldedRowsAreWritten`, which allows none of them, is refuted.

## 5. Findings

`findings` in `PROJECT.json` has those that a listed run shows and those
of `TimeTask`, `ClvIndexNode`, `QueryCompile` and `RecMeta` that a
configuration beside the runs shows. In short, with the configuration where it is not a listed
run:

* `time_task.go:96`: the comment promises that the window update does not run
  in parallel with flush; the channel orders only the hand-over, and with a
  tick pending the next flush runs beside lines 140 to 151 (run
  `timetask_overlap`).
* `time_task.go:545`: such a flush reads `startWindowID` before the update
  has advanced it and `startTimeStamp` after the update has moved it: the
  window just written is written again under the timestamp of the next
  (`MCTimeTaskWindow.cfg`). It can also read a cell between `initValue` and
  `validValues = false` of `walkUpdate` and write the initial value as an
  aggregate (`WrittenFieldsHoldRows`).
* `time_task.go:201`: a row folded into the oldest window after flush has
  read its cell, and a window whose `store.WriteRows` failed, are wiped
  unwritten and uncounted (`FoldedRowsAreWritten`).
* `time_task.go:585`: a row can be written to partition and shard -1
  (converted to unsigned).
* `time_task.go:538`: a value can be written under another call's key
  (`MCTimeTaskKeys.cfg`).
* `time_task.go:330`: in a float or integer column with nils the walker's
  index into the packed values is one ahead at the first row of every window:
  the first value is never folded, another is folded twice, and the last
  access can be out of range (`MCTimeTaskRecNil.cfg`).
* `time_task.go:300`: a row outside the ring in a column without nils is used
  as index -1; the panic ends `consumeData` for good
  (`MCTimeTaskRecPanic.cfg`).
* `clvIndexNode.go:75`: `LogIndex` is shared by all index nodes, so a node
  signals an update for a buffer that is not full and logs of one node are
  left out because another node's buffer filled the counter
  (`MCClvIndexNodeCount.cfg`).
* `clvIndexNode.go:108`: `dataLen` is never set, so `updateClvIndex` always
  returns early: nothing is indexed, and after `SHARDBUFFER` logs every log
  is left out (`MCClvIndexNodeIndexed.cfg`).
* `clvIndexNode.go:86`: the "periodic" update and flush timers fire once
  (`MCClvIndexNodePeriodic.cfg`).
* `record.go:1068`: `MergeRecordByMaxTimeOfOldRec` takes `limitRows` but,
  where every row left of the new record is beyond the old record, appends
  all rows the old record has left, however many (`MCRecordMergeLimit.cfg`).
* `record.go:1793`: `GetBySchema` makes the record's `Schema` the caller's
  slice. The record keeps it through `Put` (`Schema[:0]` keeps the array), and
  the next `NewCircularRecordPool` that gets the record copies its schema
  into that array: the first caller's schema now has the fields of another
  query (`MCRecordPoolAlias.cfg`).
* `record.go:1116`: when the destination of `SliceFromRecord` has a
  `RecMeta` with fewer `ColMeta` than the source, but not none, the function
  makes `len(Schema) - recColMetaLen` new ones in place of `len(Schema)`,
  and `CopyColMetaTo` indexes past them: a record made by `NewRecord` for
  one column and sliced from a record of two panics
  (`RecMetaSlicePanics.cfg`).
* `record.go:799`: `appendRecImpl` makes `Times` for a destination that has
  no `RecMeta`. One that has a `RecMeta` without `Times` (from `NewRecord`
  with `initColMeta`, or from the pool after `ResetDeep`) gets none, and
  rows of a source with times are appended at an index out of range
  (`RecMetaAppendPanics.cfg`).
* `record.go:1152`: `CopyColMetaTo` gives a destination without `Times` the
  source's own slice, and the loop of `SliceFromRecord` then truncates and
  appends to the cells both records read. After a slice the source reads
  the window, or nothing, where it read its rows; a slice of rows in front
  of an earlier one reads what that one wrote; and `ResetForReuse` of one
  of the two records (the next `Get` of its ring) empties the times of the
  other (`RecMetaSharedTimes.cfg`). Reading front to back is the one order
  that works (`ForwardSlicesReadTheirRows`).
* `record.go:1155`: `isSetFlag` is there to "check whether ColMeta has been
  set value"; `CopyColMetaTo` copies the aggregates and not the flag, so
  `IsEmpty` says of the `ColMeta` of a slice that nothing was set
  (`RecMetaIsEmpty.cfg`).
* `matchSearch.go:74`: a candidate is kept if the gram at hand stands at the
  right distance from some position of the gram before it in the sorted
  order; no position is carried from one gram to the next. With three grams
  or more, a series is returned that holds every pair of neighbouring grams
  somewhere but the search string nowhere (`MCClvSearchAligned.cfg`).
* `matchSearch.go:97`: the last sort calls a series smaller when both its
  `Id` and its `Time` are smaller. That is no ordering of series of which
  one has the smaller `Id` and the other the smaller `Time`, and the stable
  sort leaves a result unsorted (`MCClvSearchSorted.cfg`).

* `compile.go:1111`: `Prepare` returns "query across multiple storage
  engines is not supported" after `MapShards` has succeeded and without
  `shards.Close()`, which every later error return calls
  (`MCQueryCompileLeak.cfg`).
* `compile.go:230`: `subquery` sets `SubQueryHasDifferentAscending` on the
  statement of a subquery that is sorted in the other order and then compiles
  it; `compile` assigns the flag of every subquery source to the statement,
  so in `SELECT max(x) FROM (SELECT x FROM (SELECT x FROM m) ORDER BY time
  DESC)` the flag of the middle statement is cleared again and the outer
  statement never learns of the order. The flag of the last of several
  subqueries wins, and the sides of a binary operation hand up nothing
  (`MCQueryCompileOrder.cfg`).
* `compile.go:1081`: `time.Duration(ExtraIntervals) * Interval.Duration`
  wraps for a long period over a long interval, and the range of the shards
  then begins after, or ends before, the range of the statement
  (`MCQueryCompileOverflow.cfg`, at a width of 3 bits).

Seen while modelling and not stated as a property, because nothing in the
repository says what is meant:

* `record.go:1139`: `SliceFromRecord` from a source without `RecMeta`
  leaves the destination the `ColMeta` and `Times` it had: a reused
  destination keeps the times of its last content beside the new rows.
* `record.go:512`: `Clone` copies every column but the last, the time column,
  so the clone has columns of different lengths and no rows; `spec.md` asks
  equal lengths of all columns of a record.
* `record.go:1527`: when `max - min` is not a multiple of the interval the
  descending windows of `BuildEmptyIntervalRec` (from `max - interval` down)
  are not the ascending ones (from `min` up) in reverse.
* `compile.go:780`: `GROUP BY time(0s, 1s)` divides by the interval, which is
  zero, and panics; `time(0s)` alone is taken as no interval.
* `matchSearch.go:55`: the return of nil for a nil inverted list is never
  taken: both merges return a map, at least an empty one.
* `compile.go:1035`: `RewriteBinOpSourceDFS` calls itself with a nil slice
  for the two sides of a binary operation and appends through it when a side
  is a binary operation itself.
* `spec.md` 4.4: "if the result is zero and a close was requested while
  referenced" can be read as "and the file is closed"; under that reading a
  reader that comes after the release releases the handle again. The
  readers of the design take their reference after they have looked the
  file up, so such a reader exists.
* `spec.md` 4.6: what `ReplaceFiles` does when the measurement was dropped
  during the merge is not said; a swap would bring the measurement back
  with the merged file in it.

## 6. Not modelled

* `Drain` and `TaskDataPool.Len`: the pool's code is not in the repository.
* Of `record.go`: the sort helpers (`SortAux` is sorted by `sort.Stable` and
  the typed sorts of code outside the repository), the typed value accessors
  (single assignments), the string functions, `AppendRecForSeries`, which
  works by column position, and `ResizeBySchema`, whose growth depends on
  the capacity Go's `append` gives `ColVals`, which the language leaves
  open. Of `RecMeta`: `tags`, `tagIndex` and `IntervalIndex`, which
  `AddTagIndexAndKey` appends to, `GetTagIndexAndKey` returns, the resets
  cut and `Copy` copies;
  what a call has written before it panics; behaviours of more than
  `MaxCalls` calls.
* Of `compile.go`: the two blocks of `Prepare` for a bucket limit
  (`ProcessorOptions.Window` is not in the repository), `RewriteJoinSource`
  and `RewriteBinOpSource` (they fill `JoinSource` and `BinOpSource` of the
  statement, which only the executor reads), and the rewrites of package
  `influxql` at the end of `Compile`.
* Of the CLV search: `NewQueryOption` (a constructor) and the five searches
  other than the token match, whose code is not in the repository.
* Of the token match search: `DataProcess`, `VGCons` and the building of the
  index tree (not in the repository; the grams and the trees are inputs),
  and the sharing of slices between the result of a merge and the tree.
* The aggregate comparators: comparisons of two values, without state or
  iteration.
* The statistics of the time task: they do not influence control.
* `app/ts-data/main.go`: process start-up only.
* `lib/backup/backuplog.go`: type declarations.
* `lib/netstorage/data/data.pb.go`: generated code.
* Of the TSSP engine (modelled from `spec.md`): the contents of a file and
  the accessors that decode them (trailer, meta index, chunk metadata,
  blocks, CRC), which the lifecycle does not look at; the parsing and
  formatting of file names; the full-compaction check, `FullCompact` and
  `MergeOutOfOrder` (`spec.md` names them and says nothing of their steps);
  `ReplaceDownSampleFiles`; the sequencer and the scan of
  `loadIdTimesInLock`; the out-of-order file set, to which the model adds
  no file; `SetTier` and the switches of compaction and merge.
* The test files of packages whose code is not in `src/` other than the TSSP
  engine's.
