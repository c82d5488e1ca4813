---------------------------- MODULE MetaHandlers ----------------------------
(***************************************************************************)
(* The request handlers of the meta server                                 *)
(* (app/ts-meta/meta/handlers_process.go).  Every request is served by a   *)
(* goroutine of its own that calls into the raft store; the store's index  *)
(* and role change and the server closes underneath the handlers.          *)
(*                                                                         *)
(* The store is the environment.  Of it the module assumes what the        *)
(* handlers rely on: the index never goes back, afterIndex(i) is ready     *)
(* once the index has reached i, a command is applied only by the leader   *)
(* and moves the index on, raft.ErrNotLeader is returned only by a store   *)
(* that is not the leader.  What a call returns beyond that is chosen      *)
(* freely.  Data read from the store is abstracted to the index the store  *)
(* had when it was read.                                                   *)
(***************************************************************************)
EXTENDS Integers, Sequences, FiniteSets

CONSTANTS
    Requests,       \* the requests, each served by one handler
    Kinds,          \* bound: the kinds of request that arrive
    Partitions,     \* the partitions getDbPtsByDbname returns
    HaEnable,       \* config.GetHaEnable()
    MaxIndex        \* bound: the raft index

ASSUME /\ HaEnable \in BOOLEAN /\ MaxIndex \in Nat

VARIABLES
    \* the store and the server
    index,          \* the raft index of the store
    role,           \* "leader", "follower" or "candidate"
    closed,         \* h.closing is closed
    \* the handlers
    pc,             \* where the handler of a request is
    req,            \* its request
    rsp,            \* its response
    tries,          \* tries of a waiting handler
    timer,          \* checkRaft: "off", "armed" or "fired"
    \* createDatabase
    running,        \* the partitions whose goroutine has not sent yet
    errChan,        \* errChan: the results sent and not received
    got,            \* i of the loop that receives
    cdbErr,         \* err of createDatabase
    chanClosed,     \* errChan is closed
    sentToClosed,   \* a goroutine sent on the closed errChan
    \* history
    assigned,       \* the partitions whose assignDbPt succeeded
    appliedAt       \* the index a request's command was applied at

storeVars == <<index, role, closed>>
waitVars  == <<tries, timer>>
cdbVars   == <<running, errChan, got, cdbErr, chanClosed, sentToClosed,
               assigned>>
vars      == <<storeVars, pc, req, rsp, waitVars, cdbVars, appliedAt>>

-----------------------------------------------------------------------------
Roles == {"leader", "follower", "candidate"}

Waiting  == {"Snapshot", "GetUserInfo"}
Commands == {"Execute", "Report", "GetShardInfo", "Update"}
NoIndex  == -1

\* The third check of the raft state that finds a candidate ends the wait.
MaxTries == 3

Request ==
    [kind : Kinds \ (Waiting \cup Commands), index : {0}, cmd : {"none"}]
    \cup [kind : Kinds \cap Waiting, index : 0 .. MaxIndex, cmd : {"none"}]
    \cup [kind : Kinds \cap {"Execute"}, index : {0},
          cmd : {"invalid", "createDatabase", "other"}]
    \cup [kind : Kinds \cap {"Report", "GetShardInfo", "Update"}, index : {0},
          cmd : {"invalid", "other"}]
NoRequest == [kind |-> "none", index |-> 0, cmd |-> "none"]

\* A response: the fields the handlers set, each empty to begin with.
NoResponse ==
    [err |-> "", errCommand |-> FALSE, errCode |-> FALSE, data |-> NoIndex,
     index |-> NoIndex, goErr |-> FALSE]
Errored(e)  == [NoResponse EXCEPT !.err = e]
ServerClosed == Errored("server closed")
NotLeader    == Errored("node is not the leader")
WithData     == [NoResponse EXCEPT !.data = index]

\* What a call into the store may return.  ErrNotLeader comes only from a
\* store that is not the leader.
Outcomes == {"ok", "error"} \cup
            (IF role # "leader" THEN {"notLeader"} ELSE {})

isCandidate == role = "candidate"
afterIndex(i) == index >= i

-----------------------------------------------------------------------------
Init ==
    /\ index = 0 /\ role \in Roles /\ closed = FALSE
    /\ pc = [h \in Requests |-> "idle"]
    /\ req = [h \in Requests |-> NoRequest]
    /\ rsp = [h \in Requests |-> NoResponse]
    /\ tries = [h \in Requests |-> 0]
    /\ timer = [h \in Requests |-> "off"]
    /\ running = [h \in Requests |-> {}]
    /\ errChan = [h \in Requests |-> <<>>]
    /\ got = [h \in Requests |-> 0]
    /\ cdbErr = [h \in Requests |-> FALSE]
    /\ chanClosed = [h \in Requests |-> FALSE]
    /\ sentToClosed = FALSE
    /\ assigned = [h \in Requests |-> {}]
    /\ appliedAt = [h \in Requests |-> NoIndex]

-----------------------------------------------------------------------------
(* The environment: clients, raft, time and whoever closes the server.     *)

Arrive(h) ==
    /\ pc[h] = "idle"
    /\ \E r \in Request : req' = [req EXCEPT ![h] = r]
    /\ pc' = [pc EXCEPT ![h] = "start"]
    /\ UNCHANGED <<storeVars, rsp, waitVars, cdbVars, appliedAt>>

\* Another node's command is committed.
IndexAdvances ==
    /\ index < MaxIndex
    /\ index' = index + 1
    /\ UNCHANGED <<role, closed, pc, req, rsp, waitVars, cdbVars, appliedAt>>

RoleChanges ==
    /\ role' \in Roles \ {role}
    /\ UNCHANGED <<index, closed, pc, req, rsp, waitVars, cdbVars, appliedAt>>

Close ==
    /\ ~closed
    /\ closed' = TRUE
    /\ UNCHANGED <<index, role, pc, req, rsp, waitVars, cdbVars, appliedAt>>

\* Two seconds have passed since the handler armed checkRaft.
TimerFires(h) ==
    /\ timer[h] = "armed"
    /\ timer' = [timer EXCEPT ![h] = "fired"]
    /\ UNCHANGED <<storeVars, pc, req, rsp, tries, cdbVars, appliedAt>>

-----------------------------------------------------------------------------
(* The handlers that make one call.                                        *)

Answer(h, r) ==
    /\ rsp' = [rsp EXCEPT ![h] = r]
    /\ pc' = [pc EXCEPT ![h] = "done"]

Serving(h, kind) == pc[h] = "start" /\ req[h].kind = kind

Quiet == UNCHANGED <<storeVars, req, waitVars, cdbVars, appliedAt>>

\* Both branches of Ping answer with the leader the store knows.
Ping(h) == Serving(h, "Ping") /\ Answer(h, WithData) /\ Quiet

Peers(h) == Serving(h, "Peers") /\ Answer(h, WithData) /\ Quiet

\* A call that gives data or an error, by handlers that do not ask
\* whether the server is closed.
DataOrError(h) ==
    \E out \in {"ok", "error"} :
        Answer(h, IF out = "ok" THEN WithData ELSE Errored("error"))

CreateNode(h) == Serving(h, "CreateNode") /\ DataOrError(h) /\ Quiet

GetMeasurementInfo(h) ==
    Serving(h, "GetMeasurementInfo") /\ DataOrError(h) /\ Quiet

\* The offset is the data of this response.
RegisterQueryIDOffset(h) ==
    Serving(h, "RegisterQueryIDOffset") /\ DataOrError(h) /\ Quiet

GetStreamInfo(h) ==
    /\ Serving(h, "GetStreamInfo")
    /\ \E out \in Outcomes :
         Answer(h, CASE out = "notLeader" -> NotLeader
                     [] out = "error" -> Errored("error")
                     [] OTHER -> WithData)
    /\ Quiet

\* An error of the store is reported and the data, whatever it is, is
\* returned with it.
DataAndError(h) ==
    IF closed THEN Answer(h, ServerClosed)
    ELSE \E out \in {"ok", "error"} :
            Answer(h, [WithData EXCEPT
                         !.err = IF out = "ok" THEN "" ELSE "error"])

GetDownSampleInfo(h) ==
    Serving(h, "GetDownSampleInfo") /\ DataAndError(h) /\ Quiet

GetRpMstInfos(h) == Serving(h, "GetRpMstInfos") /\ DataAndError(h) /\ Quiet

\* The body is unmarshalled, the node joins, the node is marshalled.
Update(h) ==
    /\ Serving(h, "Update")
    /\ IF closed THEN Answer(h, ServerClosed)
       ELSE IF req[h].cmd = "invalid" THEN Answer(h, Errored("error"))
       ELSE \E out \in Outcomes :
               Answer(h, CASE out = "notLeader" -> NotLeader
                           [] out = "error" -> Errored("error")
                           [] OTHER -> WithData)
    /\ Quiet

GetShardInfo(h) ==
    /\ Serving(h, "GetShardInfo")
    /\ IF req[h].cmd = "invalid" THEN Answer(h, Errored("error"))
       ELSE \E out \in Outcomes, coded \in BOOLEAN :
               Answer(h, CASE out = "notLeader" -> NotLeader
                           [] out = "error" ->
                                [Errored("error") EXCEPT !.errCode = coded]
                           [] OTHER -> WithData)
    /\ Quiet

\* UpdateLoad and then, had it no error, the index of the store.
Report(h) ==
    /\ Serving(h, "Report")
    /\ IF closed THEN Answer(h, ServerClosed)
       ELSE IF req[h].cmd = "invalid" THEN Answer(h, Errored("error"))
       ELSE \E out \in Outcomes :
               Answer(h, CASE out = "notLeader" -> NotLeader
                           [] out = "error" ->
                                [NoResponse EXCEPT !.errCommand = TRUE]
                           [] OTHER -> [NoResponse EXCEPT !.index = index])
    /\ Quiet

-----------------------------------------------------------------------------
(* Snapshot and GetUserInfo wait for the index of the request.             *)

\* A closed server is answered at once; else checkRaft is armed.
StartWait(h) ==
    /\ pc[h] = "start" /\ req[h].kind \in Waiting
    /\ IF closed
       THEN Answer(h, ServerClosed) /\ UNCHANGED waitVars
       ELSE /\ pc' = [pc EXCEPT ![h] = "wait"]
            /\ timer' = [timer EXCEPT ![h] = "armed"]
            /\ tries' = [tries EXCEPT ![h] = 0]
            /\ UNCHANGED rsp
    /\ UNCHANGED <<storeVars, req, cdbVars, appliedAt>>

\* case <-h.store.afterIndex(index): the channel is ready once the store
\* has reached the index; what the handler returns it reads afterwards.
RecvAfterIndex(h) ==
    /\ pc[h] = "wait"
    /\ afterIndex(req[h].index)
    /\ pc' = [pc EXCEPT ![h] = "read"]
    /\ timer' = [timer EXCEPT ![h] = "off"]
    /\ UNCHANGED <<storeVars, req, rsp, tries, cdbVars, appliedAt>>

\* h.store.getSnapshot, or h.store.GetUserInfo, which can fail and then is
\* the error Process itself returns.
ReadStore(h) ==
    /\ pc[h] = "read"
    /\ \E out \in {"ok"} \cup (IF req[h].kind = "GetUserInfo"
                               THEN {"error"} ELSE {}) :
         Answer(h, IF out = "ok" THEN WithData
                   ELSE [NoResponse EXCEPT !.goErr = TRUE])
    /\ Quiet

\* case <-h.closing
RecvClosing(h) ==
    /\ pc[h] = "wait"
    /\ closed
    /\ Answer(h, ServerClosed)
    /\ timer' = [timer EXCEPT ![h] = "off"]
    /\ UNCHANGED <<storeVars, req, tries, cdbVars, appliedAt>>

RecvCheckRaft_NotRearmed(h) ==
    /\ pc[h] = "wait"
    /\ timer[h] = "fired"
    /\ IF isCandidate
       THEN /\ tries' = [tries EXCEPT ![h] = @ + 1]
            /\ IF tries[h] + 1 >= MaxTries
               THEN Answer(h, ServerClosed)
                    /\ timer' = [timer EXCEPT ![h] = "off"]
               ELSE UNCHANGED <<pc, rsp>>
                    /\ timer' = [timer EXCEPT ![h] = "off"]
       ELSE /\ Answer(h, NoResponse)
            /\ timer' = [timer EXCEPT ![h] = "off"]
            /\ UNCHANGED tries
    /\ UNCHANGED <<storeVars, req, cdbVars, appliedAt>>

RecvCheckRaft_FourTries(h) ==
    /\ pc[h] = "wait"
    /\ timer[h] = "fired"
    /\ IF isCandidate
       THEN /\ tries' = [tries EXCEPT ![h] = @ + 1]
            /\ IF tries[h] + 1 > MaxTries
               THEN Answer(h, ServerClosed)
                    /\ timer' = [timer EXCEPT ![h] = "off"]
               ELSE UNCHANGED <<pc, rsp>>
                    /\ timer' = [timer EXCEPT ![h] = "armed"]
       ELSE /\ Answer(h, NoResponse)
            /\ timer' = [timer EXCEPT ![h] = "off"]
            /\ UNCHANGED tries
    /\ UNCHANGED <<storeVars, req, cdbVars, appliedAt>>

\* case <-checkRaft: the timer is armed again; a candidate is given up to
\* MaxTries looks, and a store that is no candidate ends the wait with
\* the response as it is.
RecvCheckRaft(h) ==
    /\ pc[h] = "wait"
    /\ timer[h] = "fired"
    /\ IF isCandidate
       THEN /\ tries' = [tries EXCEPT ![h] = @ + 1]
            /\ IF tries[h] + 1 >= MaxTries
               THEN Answer(h, ServerClosed)
                    /\ timer' = [timer EXCEPT ![h] = "off"]
               ELSE UNCHANGED <<pc, rsp>>
                    /\ timer' = [timer EXCEPT ![h] = "armed"]
       ELSE /\ Answer(h, NoResponse)
            /\ timer' = [timer EXCEPT ![h] = "off"]
            /\ UNCHANGED tries
    /\ UNCHANGED <<storeVars, req, cdbVars, appliedAt>>

-----------------------------------------------------------------------------
(* Execute, with createDatabase when the cluster is highly available.      *)

\* The server is closed, the command is not valid, or Execute goes on: to
\* createDatabase for such a command under HA, to the store otherwise.
StartExecute(h) ==
    /\ Serving(h, "Execute")
    /\ IF closed THEN Answer(h, ServerClosed)
       ELSE IF req[h].cmd = "invalid" THEN Answer(h, Errored("error"))
       ELSE /\ pc' = [pc EXCEPT ![h] =
                        IF HaEnable /\ req[h].cmd = "createDatabase"
                        THEN "createView" ELSE "apply"]
            /\ UNCHANGED rsp
    /\ Quiet

\* 1. create db pt view: the command is applied to the store.
CreateDbPtView(h) ==
    /\ pc[h] = "createView"
    /\ \E out \in {"ok", "error"} :
         IF out = "ok" /\ role = "leader" /\ index < MaxIndex
         THEN /\ index' = index + 1
              /\ pc' = [pc EXCEPT ![h] = "getDbPts"]
              /\ UNCHANGED rsp
         ELSE /\ Answer(h, Errored("error"))
              /\ UNCHANGED index
    /\ UNCHANGED <<role, closed, req, waitVars, cdbVars, appliedAt>>

\* 2. assign db pt: the partitions are read and one goroutine is started
\* for each.
GetDbPts(h) ==
    /\ pc[h] = "getDbPts"
    /\ \E out \in {"ok", "error"} :
         IF out = "ok"
         THEN /\ running' = [running EXCEPT ![h] = Partitions]
              /\ pc' = [pc EXCEPT ![h] = "collect"]
              /\ UNCHANGED rsp
         ELSE /\ Answer(h, Errored("error"))
              /\ UNCHANGED running
    /\ UNCHANGED <<storeVars, req, waitVars, errChan, got, cdbErr, chanClosed,
                   sentToClosed, assigned, appliedAt>>

\* The goroutine of partition p: assignDbPt, and its result is sent.  The
\* channel has room for every result; a send on a closed channel panics.
AssignDbPt(h, p) ==
    /\ p \in running[h]
    /\ running' = [running EXCEPT ![h] = @ \ {p}]
    /\ \E ok \in BOOLEAN :
         /\ errChan' = [errChan EXCEPT ![h] = Append(@, ~ok)]
         /\ assigned' = [assigned EXCEPT ![h] = IF ok THEN @ \cup {p} ELSE @]
    /\ sentToClosed' = (sentToClosed \/ chanClosed[h])
    /\ UNCHANGED <<storeVars, pc, req, rsp, waitVars, got, cdbErr, chanClosed,
                   appliedAt>>

RecvErr_LastWins(h) ==
    /\ pc[h] = "collect"
    /\ got[h] < Cardinality(Partitions)
    /\ errChan[h] # <<>>
    /\ errChan' = [errChan EXCEPT ![h] = Tail(@)]
    /\ cdbErr' = [cdbErr EXCEPT ![h] = Head(errChan[h])]
    /\ got' = [got EXCEPT ![h] = @ + 1]
    /\ UNCHANGED <<storeVars, pc, req, rsp, waitVars, running, chanClosed,
                   sentToClosed, assigned, appliedAt>>

\* errC := <-errChan: an error replaces the one kept, nil does not.
RecvErr(h) ==
    /\ pc[h] = "collect"
    /\ got[h] < Cardinality(Partitions)
    /\ errChan[h] # <<>>
    /\ errChan' = [errChan EXCEPT ![h] = Tail(@)]
    /\ cdbErr' = [cdbErr EXCEPT ![h] = @ \/ Head(errChan[h])]
    /\ got' = [got EXCEPT ![h] = @ + 1]
    /\ UNCHANGED <<storeVars, pc, req, rsp, waitVars, running, chanClosed,
                   sentToClosed, assigned, appliedAt>>

ReturnErr_AtFirstError(h) ==
    /\ pc[h] = "collect"
    /\ got[h] = Cardinality(Partitions) \/ cdbErr[h]
    /\ chanClosed' = [chanClosed EXCEPT ![h] = TRUE]
    /\ IF cdbErr[h]
       THEN Answer(h, Errored("error"))
       ELSE pc' = [pc EXCEPT ![h] = "apply"] /\ UNCHANGED rsp
    /\ UNCHANGED <<storeVars, req, waitVars, running, errChan, got, cdbErr,
                   sentToClosed, assigned, appliedAt>>

\* Every result is in: the channel is closed and createDatabase returns
\* the error it kept, which ends Execute, or nil.
ReturnErr(h) ==
    /\ pc[h] = "collect"
    /\ got[h] = Cardinality(Partitions)
    /\ chanClosed' = [chanClosed EXCEPT ![h] = TRUE]
    /\ IF cdbErr[h]
       THEN Answer(h, Errored("error"))
       ELSE pc' = [pc EXCEPT ![h] = "apply"] /\ UNCHANGED rsp
    /\ UNCHANGED <<storeVars, req, waitVars, running, errChan, got, cdbErr,
                   sentToClosed, assigned, appliedAt>>

\* isRetryError: the errors that tell the client to try another node go
\* to Err, all others to ErrCommand.
isRetryError(out) == out \in {"notLeader", "raftNotOpen", "conflict"}

\* h.store.apply(body)
Apply(h) ==
    /\ pc[h] = "apply"
    /\ \E out \in {"ok", "notLeader", "raftNotOpen", "conflict", "error"} :
         /\ out = "ok" => role = "leader" /\ index < MaxIndex
         /\ out = "notLeader" => role # "leader"
         /\ IF out = "ok"
            THEN /\ index' = index + 1
                 /\ appliedAt' = [appliedAt EXCEPT ![h] = index + 1]
                 /\ pc' = [pc EXCEPT ![h] = "readIndex"]
                 /\ UNCHANGED rsp
            ELSE /\ Answer(h, IF isRetryError(out) THEN Errored("retry")
                              ELSE [NoResponse EXCEPT !.errCommand = TRUE])
                 /\ UNCHANGED <<index, appliedAt>>
    /\ UNCHANGED <<role, closed, req, waitVars, cdbVars>>

ReadIndex_Stale(h) ==
    /\ pc[h] = "readIndex"
    /\ \E i \in 0 .. index : Answer(h, [NoResponse EXCEPT !.index = i])
    /\ Quiet

\* rsp.Index = h.store.index()
ReadIndex(h) ==
    /\ pc[h] = "readIndex"
    /\ Answer(h, [NoResponse EXCEPT !.index = index])
    /\ Quiet

-----------------------------------------------------------------------------
Process(h) ==
    \/ Ping(h) \/ Peers(h) \/ CreateNode(h) \/ Update(h) \/ Report(h)
    \/ GetShardInfo(h) \/ GetDownSampleInfo(h) \/ GetRpMstInfos(h)
    \/ GetStreamInfo(h) \/ GetMeasurementInfo(h) \/ RegisterQueryIDOffset(h)
    \/ StartWait(h) \/ RecvAfterIndex(h) \/ ReadStore(h) \/ RecvClosing(h)
    \/ RecvCheckRaft(h)
    \/ StartExecute(h) \/ CreateDbPtView(h) \/ GetDbPts(h)
    \/ RecvErr(h) \/ ReturnErr(h) \/ Apply(h) \/ ReadIndex(h)

Next ==
    \/ IndexAdvances \/ RoleChanges \/ Close
    \/ \E h \in Requests :
         \/ Arrive(h) \/ TimerFires(h) \/ Process(h)
         \/ \E p \in Partitions : AssignDbPt(h, p)

(***************************************************************************)
(* Fairness.  A handler that can take a step takes it, a goroutine that    *)
(* assigns a partition finishes, and two seconds pass: weak fairness on    *)
(* each.  The select of a waiting handler picks among its ready cases; the *)
(* cases stay ready once they are (the index does not go back, a closed    *)
(* server stays closed, a fired timer stays fired), so weak fairness on    *)
(* the handler's step is enough.  Nothing is assumed of raft or clients.   *)
(***************************************************************************)
Fairness ==
    \A h \in Requests :
        /\ WF_vars(Process(h))
        /\ WF_vars(TimerFires(h))
        /\ WF_vars(\E p \in Partitions : AssignDbPt(h, p))

Spec == Init /\ [][Next]_vars /\ Fairness

-----------------------------------------------------------------------------
Response ==
    [err : {"", "server closed", "node is not the leader", "error", "retry"},
     errCommand : BOOLEAN, errCode : BOOLEAN, goErr : BOOLEAN,
     data : {NoIndex} \cup 0 .. MaxIndex, index : {NoIndex} \cup 0 .. MaxIndex]

TypeOK ==
    /\ index \in 0 .. MaxIndex /\ role \in Roles /\ closed \in BOOLEAN
    /\ pc \in [Requests -> {"idle", "start", "wait", "read", "createView",
                            "getDbPts", "collect", "apply", "readIndex",
                            "done"}]
    /\ req \in [Requests -> Request \cup {NoRequest}]
    /\ rsp \in [Requests -> Response]
    /\ tries \in [Requests -> 0 .. MaxTries]
    /\ timer \in [Requests -> {"off", "armed", "fired"}]
    /\ running \in [Requests -> SUBSET Partitions]
    /\ errChan \in [Requests -> Seq(BOOLEAN)]
    /\ \A h \in Requests : Len(errChan[h]) <= Cardinality(Partitions)
    /\ got \in [Requests -> 0 .. Cardinality(Partitions)]
    /\ cdbErr \in [Requests -> BOOLEAN]
    /\ chanClosed \in [Requests -> BOOLEAN]
    /\ sentToClosed \in BOOLEAN
    /\ assigned \in [Requests -> SUBSET Partitions]
    /\ appliedAt \in [Requests -> {NoIndex} \cup 1 .. MaxIndex]

-----------------------------------------------------------------------------
Answered(h) == pc[h] = "done"

\* The index Execute returns is one the client can wait for to see its own
\* command: it is not below the index the command was applied at, however
\* many other commands the store takes between apply and h.store.index().
ExecuteIndexCoversCommand ==
    \A h \in Requests :
        Answered(h) /\ req[h].kind = "Execute" /\ rsp[h].index # NoIndex
            => /\ appliedAt[h] # NoIndex
               /\ rsp[h].index >= appliedAt[h]

\* Execute reports success for a createDatabase under HA only if every
\* partition was assigned: of the results that arrive on errChan in the
\* order the goroutines finish, one error is enough to fail the command,
\* whichever results come after it.
CreatedMeansAllAssigned ==
    \A h \in Requests :
        /\ HaEnable
        /\ req[h].kind = "Execute" /\ req[h].cmd = "createDatabase"
        /\ pc[h] \in {"apply", "readIndex"} \/ (Answered(h) /\ rsp[h].index # NoIndex)
        => assigned[h] = Partitions

\* createDatabase closes errChan only after every goroutine has sent: no
\* goroutine is left that would send on the closed channel and panic.
NoSendOnClosedErrChan == ~sentToClosed

\* A request is answered: no handler waits for ever, whatever the store
\* does.  A waiting handler is released by the index, by the closing of
\* the server, or by its timer: at the first check that finds no candidate,
\* at the third that finds one.
EveryRequestIsAnswered ==
    \A h \in Requests : (pc[h] = "start") ~> Answered(h)

=============================================================================
