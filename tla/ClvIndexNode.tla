---------------------------- MODULE ClvIndexNode ----------------------------
(***************************************************************************)
(* The index nodes of the log-text index (lib/clvIndex/clvIndexNode.go).   *)
(* A node buffers the logs its caller hands it and has two goroutines: the *)
(* update routine, which waits for its timer and for signals on the        *)
(* unbuffered channel dataSignal and then builds the index from the        *)
(* buffer, and the flush routine, which waits for its timer and then       *)
(* writes the index out.                                                   *)
(*                                                                         *)
(* LogIndex is a variable of the package: all nodes count in it, and       *)
(* nothing synchronises the callers of different nodes, so the test of     *)
(* the counter, its read and its write in LogIndex += 1 are steps of       *)
(* their own.  Each node has one caller; its append meets no other access  *)
(* to dataBuf and is one step with the test.  A log is its number in the   *)
(* order of the calls; an index is the set of logs in it, a file the set   *)
(* of logs written to it.                                                  *)
(***************************************************************************)
EXTENDS Integers, Sequences, FiniteSets, SequencesExt

CONSTANTS
    Nodes,          \* the index nodes
    SHARDBUFFER,    \* the logs of a batch
    MaxLogs,        \* bound: the calls of CreateCLVIndexIfNotExists
    Closed          \* bound: the nodes Close is called on

ASSUME SHARDBUFFER \in Nat \ {0} /\ MaxLogs \in Nat /\ Closed \subseteq Nodes

VARIABLES
    LogIndex,       \* the package's counter
    dataBuf,        \* dataBuf of each node
    dataLen,        \* dataLen of each node
    dataLock,       \* dataLock of each node is held
    indexed,        \* VgramIndexRoot or VtokenIndexRoot of each node
    persisted,      \* what serializeIndex has written of each node
    updater,        \* updateClvIndexRoutine: "select", "update", "exited"
    updateTimer,    \* its timer: "armed", "fired" or "spent"
    flushTimer,     \* the timer of flushClvIndexRoutine
    caller,         \* the caller of CreateCLVIndexIfNotExists: "idle",
                    \* "read", "write", "appended" or "send"
    loaded,         \* the value of LogIndex the caller read for += 1
    closer,         \* the caller of Close: "idle", "send" or "done"
    made            \* the calls of CreateCLVIndexIfNotExists so far

vars == <<LogIndex, dataBuf, dataLen, dataLock, indexed, persisted, updater,
          updateTimer, flushTimer, caller, loaded, closer, made>>

bufVars   == <<dataBuf, dataLen, dataLock, indexed>>
timerVars == <<updateTimer, flushTimer>>

Logs == 1 .. MaxLogs

-----------------------------------------------------------------------------
\* NewCLVIndexNode for every node: Open and Flush start the goroutines, and
\* each creates its timer.
Init ==
    /\ LogIndex = 0
    /\ dataBuf = [n \in Nodes |-> <<>>]
    /\ dataLen = [n \in Nodes |-> 0]
    /\ dataLock = [n \in Nodes |-> FALSE]
    /\ indexed = [n \in Nodes |-> {}]
    /\ persisted = [n \in Nodes |-> {}]
    /\ updater = [n \in Nodes |-> "select"]
    /\ updateTimer = [n \in Nodes |-> "armed"]
    /\ flushTimer = [n \in Nodes |-> "armed"]
    /\ caller = [n \in Nodes |-> "idle"]
    /\ loaded = [n \in Nodes |-> 0]
    /\ closer = [n \in Nodes |-> "idle"]
    /\ made = 0

-----------------------------------------------------------------------------
(* CreateCLVIndexIfNotExists and Close.                                    *)

HasRoom_Inclusive == LogIndex <= SHARDBUFFER
HasRoom == LogIndex < SHARDBUFFER

\* The first if: the log is appended while the counter is below
\* SHARDBUFFER, and left out otherwise.
AppendLog(n) ==
    /\ caller[n] = "idle"
    /\ made < MaxLogs
    /\ made' = made + 1
    /\ IF HasRoom
       THEN /\ dataBuf' = [dataBuf EXCEPT ![n] = Append(@, made + 1)]
            /\ caller' = [caller EXCEPT ![n] = "read"]
       ELSE /\ caller' = [caller EXCEPT ![n] = "appended"]
            /\ UNCHANGED dataBuf
    /\ UNCHANGED <<LogIndex, dataLen, dataLock, indexed, persisted, updater,
                   timerVars, loaded, closer>>

\* LogIndex += 1, the read.
ReadLogIndex(n) ==
    /\ caller[n] = "read"
    /\ loaded' = [loaded EXCEPT ![n] = LogIndex]
    /\ caller' = [caller EXCEPT ![n] = "write"]
    /\ UNCHANGED <<LogIndex, bufVars, persisted, updater, timerVars, closer,
                   made>>

\* LogIndex += 1, the write of what was read plus one.
WriteLogIndex(n) ==
    /\ caller[n] = "write"
    /\ LogIndex' = loaded[n] + 1
    /\ loaded' = [loaded EXCEPT ![n] = 0]
    /\ caller' = [caller EXCEPT ![n] = "appended"]
    /\ UNCHANGED <<bufVars, persisted, updater, timerVars, closer, made>>

\* The second if: with the counter at SHARDBUFFER the caller goes on to
\* signal the update routine, else it returns.
Full(n) ==
    /\ caller[n] = "appended"
    /\ caller' = [caller EXCEPT ![n] =
                    IF LogIndex >= SHARDBUFFER THEN "send" ELSE "idle"]
    /\ UNCHANGED <<LogIndex, bufVars, persisted, updater, timerVars, loaded,
                   closer, made>>

\* Close is called: the caller goes on to send close on dataSignal.
Close(n) ==
    /\ n \in Closed
    /\ closer[n] = "idle"
    /\ closer' = [closer EXCEPT ![n] = "send"]
    /\ UNCHANGED <<LogIndex, bufVars, persisted, updater, timerVars, caller,
                   loaded, made>>

-----------------------------------------------------------------------------
(* updateClvIndexRoutine.                                                  *)

TimerFires(n) ==
    /\ updateTimer[n] = "armed"
    /\ updateTimer' = [updateTimer EXCEPT ![n] = "fired"]
    /\ UNCHANGED <<LogIndex, bufVars, persisted, updater, flushTimer, caller,
                   loaded, closer, made>>

\* case <-timer.C
RecvTimer(n) ==
    /\ updater[n] = "select"
    /\ updateTimer[n] = "fired"
    /\ updateTimer' = [updateTimer EXCEPT ![n] = "spent"]
    /\ updater' = [updater EXCEPT ![n] = "update"]
    /\ UNCHANGED <<LogIndex, bufVars, persisted, flushTimer, caller, loaded,
                   closer, made>>

\* case signal := <-clvIndex.dataSignal, with update sent by the caller:
\* the caller returns.
RecvUpdate(n) ==
    /\ updater[n] = "select"
    /\ caller[n] = "send"
    /\ caller' = [caller EXCEPT ![n] = "idle"]
    /\ updater' = [updater EXCEPT ![n] = "update"]
    /\ UNCHANGED <<LogIndex, bufVars, persisted, timerVars, loaded, closer,
                   made>>

RecvClose_NoReturn(n) ==
    /\ updater[n] = "select"
    /\ closer[n] = "send"
    /\ closer' = [closer EXCEPT ![n] = "done"]
    /\ updater' = [updater EXCEPT ![n] = "update"]
    /\ UNCHANGED <<LogIndex, bufVars, persisted, timerVars, caller, loaded,
                   made>>

\* The same case with close sent by Close: the routine returns.
RecvClose(n) ==
    /\ updater[n] = "select"
    /\ closer[n] = "send"
    /\ closer' = [closer EXCEPT ![n] = "done"]
    /\ updater' = [updater EXCEPT ![n] = "exited"]
    /\ UNCHANGED <<LogIndex, bufVars, persisted, timerVars, caller, loaded,
                   made>>

updateClvIndex_NoUnlock(n) ==
    /\ updater[n] = "update"
    /\ ~dataLock[n]
    /\ dataLen[n] = 0
    /\ dataLock' = [dataLock EXCEPT ![n] = TRUE]
    /\ updater' = [updater EXCEPT ![n] = "select"]
    /\ UNCHANGED <<LogIndex, dataBuf, dataLen, indexed, persisted, timerVars,
                   caller, loaded, closer, made>>

\* updateClvIndex: under the lock, nothing to do when dataLen is 0; else
\* the buffer is taken and replaced by an empty one, the index is built from
\* what was taken and the counter starts again.  Nothing but this function
\* takes the lock, so it is taken and released within the step.
updateClvIndex(n) ==
    /\ updater[n] = "update"
    /\ ~dataLock[n]
    /\ IF dataLen[n] = 0
       THEN UNCHANGED <<LogIndex, dataBuf, dataLen, indexed>>
       ELSE /\ dataBuf' = [dataBuf EXCEPT ![n] = <<>>]
            /\ dataLen' = [dataLen EXCEPT ![n] = 0]
            /\ indexed' = [indexed EXCEPT ![n] = @ \cup ToSet(dataBuf[n])]
            /\ LogIndex' = 0
    /\ updater' = [updater EXCEPT ![n] = "select"]
    /\ UNCHANGED <<dataLock, persisted, timerVars, caller, loaded, closer,
                   made>>

-----------------------------------------------------------------------------
(* flushClvIndexRoutine.                                                   *)

\* case <-timer.C: serializeIndex writes the index out and starts an empty
\* one.  The routine has no other case and never returns, so the timer's
\* firing and the receive are one step.
serializeIndex(n) ==
    /\ flushTimer[n] = "armed"
    /\ flushTimer' = [flushTimer EXCEPT ![n] = "spent"]
    /\ persisted' = [persisted EXCEPT ![n] = @ \cup indexed[n]]
    /\ indexed' = [indexed EXCEPT ![n] = {}]
    /\ UNCHANGED <<LogIndex, dataBuf, dataLen, dataLock, updater, updateTimer,
                   caller, loaded, closer, made>>

-----------------------------------------------------------------------------
Updater(n) ==
    RecvTimer(n) \/ RecvUpdate(n) \/ RecvClose(n) \/ updateClvIndex(n)

Next ==
    \E n \in Nodes :
        \/ AppendLog(n) \/ ReadLogIndex(n) \/ WriteLogIndex(n)
        \/ Full(n) \/ Close(n)
        \/ TimerFires(n) \/ Updater(n)
        \/ serializeIndex(n)

(***************************************************************************)
(* Fairness.  The goroutines run and the timers fire: weak fairness on the *)
(* steps that stay enabled.  A case of the update routine's select is      *)
(* ready only while the routine is in the select, which it leaves for      *)
(* every update; Go chooses among the ready cases at random, so a case     *)
(* that is ready again and again is taken: strong fairness on each.        *)
(* Nothing is assumed of the callers: no log need arrive and Close need    *)
(* not be called.                                                          *)
(***************************************************************************)
Fairness ==
    \A n \in Nodes :
        /\ WF_vars(TimerFires(n))
        /\ WF_vars(ReadLogIndex(n)) /\ WF_vars(WriteLogIndex(n))
        /\ WF_vars(Full(n)) /\ WF_vars(updateClvIndex(n))
        /\ WF_vars(serializeIndex(n))
        /\ SF_vars(RecvTimer(n)) /\ SF_vars(RecvUpdate(n))
        /\ SF_vars(RecvClose(n))

Spec == Init /\ [][Next]_vars /\ Fairness

-----------------------------------------------------------------------------
Timer == {"armed", "fired", "spent"}

\* The counter overshoots SHARDBUFFER by less than the number of callers:
\* every caller that finds the counter below SHARDBUFFER counts once, and
\* callers of other nodes may have counted between its test and its write.
TypeOK ==
    /\ LogIndex \in 0 .. SHARDBUFFER + Cardinality(Nodes) - 1
    /\ dataBuf \in [Nodes -> Seq(Logs)]
    /\ dataLen \in [Nodes -> Nat]
    /\ dataLock \in [Nodes -> BOOLEAN]
    /\ indexed \in [Nodes -> SUBSET Logs]
    /\ persisted \in [Nodes -> SUBSET Logs]
    /\ updater \in [Nodes -> {"select", "update", "exited"}]
    /\ updateTimer \in [Nodes -> Timer]
    /\ flushTimer \in [Nodes -> {"armed", "spent"}]
    /\ caller \in [Nodes -> {"idle", "read", "write", "appended", "send"}]
    /\ loaded \in [Nodes -> 0 .. SHARDBUFFER + Cardinality(Nodes) - 2]
    /\ closer \in [Nodes -> {"idle", "send", "done"}]
    /\ made \in 0 .. MaxLogs

\* Close ends the update routine: its signal is taken although update
\* signals and the timer compete for the same select.
CloseStopsUpdater ==
    \A n \in Nodes : (closer[n] = "send") ~> (updater[n] = "exited")

\* A caller that signals a full buffer returns: the update routine comes
\* back to its select after every update.  Once the routine has been closed
\* nobody receives, and the caller stays in the send.
CallerReturns ==
    \A n \in Nodes :
        (caller[n] = "send") ~> (caller[n] = "idle" \/ updater[n] = "exited")

\* SHARDBUFFER is "the number of data of a SHARD" and the buffer "is used
\* to build indexes in batches": a caller signals the update routine of its
\* node when the node's buffer holds a batch.
SignalMeansFullBuffer ==
    \A n \in Nodes : caller[n] = "send" => Len(dataBuf[n]) = SHARDBUFFER

\* The buffer "is used to build indexes in batches": a log that is buffered
\* gets into the index, by the update the full buffer signals or by the one
\* of the timer.
BufferedLogsAreIndexed ==
    \A n \in Nodes, l \in Logs :
        (l \in ToSet(dataBuf[n]) /\ updater[n] # "exited")
            ~> (l \in indexed[n] \cup persisted[n] \/ updater[n] = "exited")

\* The timer case is there to "update the index tree periodically": while
\* the routine runs its timer is armed again and again.
UpdatesPeriodically ==
    \A n \in Nodes :
        []<>(updateTimer[n] = "armed" \/ updater[n] = "exited")

=============================================================================
