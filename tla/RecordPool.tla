------------------------------ MODULE RecordPool ------------------------------
(***************************************************************************)
(* The record pools of lib/record/record.go.                               *)
(*                                                                         *)
(* A RecordPool is a buffered channel, cache, in front of a sync.Pool;     *)
(* Get and Put are one select each and are called by any goroutine.  A     *)
(* CircularRecordPool is a ring of recordNum records taken from a          *)
(* RecordPool and an index into it; it belongs to one cursor.  A cursor    *)
(* creates its ring, takes records from it with Get or GetBySchema, fills  *)
(* them and hands them to its caller or takes the last one back with       *)
(* PutRecordInCircularPool, and returns the ring with Put.  The two loops, *)
(* of NewCircularRecordPool and of Put, are one step per iteration: that   *)
(* is where the cursors interleave.                                        *)
(*                                                                         *)
(* A record is what the pools look at: the length and capacity of Schema   *)
(* and ColVals, the array Schema points into, and the rows its columns     *)
(* hold (RecMeta is part of those).                                        *)
(***************************************************************************)
EXTENDS Integers, Sequences, FiniteSets, Functions

CONSTANTS Cursors,              \* the goroutines that own a CircularRecordPool
          Records,              \* the records that can be allocated at a time
          Schemas,              \* the callers' schema slices: name |-> fields
          Nil,
          CpuNum,               \* cpu.GetCpuNum()
          MinCacheSize,         \* 4 in the code
          MaxCacheSize,         \* 256 in the code
          RecordNum,            \* recordNum of every ring
          RecMaxLenForRuse,     \* 512 in the code
          RecMaxRowNumForRuse,  \* 2024 in the code
          MaxRows,              \* the most rows a cursor writes into a record
          Lookback              \* records a cursor's caller still reads

ASSUME /\ CpuNum \in Nat /\ MinCacheSize \in Nat /\ MaxCacheSize \in Nat /\ RecordNum \in Nat \ {0} /\ MaxRows \in Nat \ {0}
       /\ RecMaxLenForRuse \in Nat /\ RecMaxRowNumForRuse \in Nat /\ Lookback \in Nat
       /\ \A s \in DOMAIN Schemas : Schemas[s] \in Seq(Nat)

VARIABLES cache,        \* RecordPool.cache, the buffered channel
          pool,         \* RecordPool.pool, the sync.Pool
          rec,          \* the state of every record
          arr,          \* the fields in every caller's schema slice
          pc,           \* where every cursor is
          records,      \* CircularRecordPool.records
          index,        \* CircularRecordPool.index
          recordNum,    \* CircularRecordPool.recordNum
          schema,       \* the schema NewCircularRecordPool was called with
          i,            \* the loop variable of NewCircularRecordPool and Put
          got,          \* the record of the last Get, until it is handed on
          held          \* the records the cursor's caller still reads

poolVars   == <<cache, pool>>
cursorVars == <<pc, records, index, recordNum, schema, i, got, held>>
vars       == <<cache, pool, rec, arr, pc, records, index, recordNum, schema, i, got, held>>

SchemaNames == DOMAIN Schemas

\* &Record{}
ZeroRecord == [len |-> 0, cap |-> 0, alias |-> Nil, colLen |-> 0, colCap |-> 0, rows |-> 0]

\* n of NewRecordPool, the capacity of cache
CacheSize ==
    LET n == CpuNum * 2
    IN  IF n < MinCacheSize THEN MinCacheSize ELSE IF n > MaxCacheSize THEN MaxCacheSize ELSE n

\* Go's %, whose sign is the sign of the dividend
GoRem(a, b) == IF a >= 0 THEN a % b ELSE -((-a) % b)

---------------------------------------------------------------------------
(* Record                                                                  *)

Len_(x) == x.len

RowNums(x) == IF x.colLen = 0 THEN 0 ELSE x.rows

\* rec.Schema[:0] and rec.ColVals[:0]: the arrays, and what they hold, stay
Reset(x) == [x EXCEPT !.len = 0, !.colLen = 0]

\* a ResetDeep that is a Reset
ResetDeep_KeepsRows(x) == Reset(x)

\* every column is Init-ed before the slices are cut
ResetDeep(x) == [Reset(x) EXCEPT !.rows = 0]

ResetForReuse(x) == [x EXCEPT !.rows = 0]

---------------------------------------------------------------------------
(* RecordPool                                                              *)

\* the records of a cursor that it has not handed back
Owned(c) ==
    {records[c][j] : j \in (IF pc[c] = "put" THEN i[c] + 1 ELSE 1)..Len(records[c])}

Unallocated == Records \ (Range(cache) \cup pool \cup UNION {Owned(c) : c \in Cursors})

\* p.Get() returns r: from cache, else from the sync.Pool, else a new one
Get(r) ==
    \/ /\ cache # <<>>
       /\ r = Head(cache)
       /\ cache' = Tail(cache)
       /\ UNCHANGED pool
    \/ /\ cache = <<>>
       /\ r \in pool
       /\ pool' = pool \ {r}
       /\ UNCHANGED cache
    \/ /\ cache = <<>>
       /\ r \in Unallocated
       /\ UNCHANGED poolVars

\* p.Put(r): a record too large is left to the garbage collector, any
\* other is reset and goes to cache, or to the sync.Pool when cache is full
Put(r) ==
    \/ /\ \/ Len_(rec[r]) > 0 /\ RowNums(rec[r]) > RecMaxRowNumForRuse
          \/ rec[r].cap > RecMaxLenForRuse
       /\ rec' = [rec EXCEPT ![r] = ZeroRecord]
       /\ UNCHANGED poolVars
    \/ /\ ~(Len_(rec[r]) > 0 /\ RowNums(rec[r]) > RecMaxRowNumForRuse)
       /\ rec[r].cap <= RecMaxLenForRuse
       /\ rec' = [rec EXCEPT ![r] = ResetDeep(@)]
       /\ \/ Len(cache) < CacheSize /\ cache' = Append(cache, r) /\ UNCHANGED pool
          \/ Len(cache) = CacheSize /\ pool' = pool \cup {r} /\ UNCHANGED cache

\* the garbage collector empties the sync.Pool
PoolGC ==
    /\ pool # {}
    /\ pool' = {}
    /\ rec' = [r \in Records |-> IF r \in pool THEN ZeroRecord ELSE rec[r]]
    /\ UNCHANGED <<cache, arr, cursorVars>>

---------------------------------------------------------------------------
(* CircularRecordPool                                                      *)

NewCircularRecordPool(c, s) ==
    /\ pc[c] = "closed"
    /\ pc' = [pc EXCEPT ![c] = "new"]
    /\ index' = [index EXCEPT ![c] = 0]
    /\ recordNum' = [recordNum EXCEPT ![c] = RecordNum]
    /\ schema' = [schema EXCEPT ![c] = s]
    /\ records' = [records EXCEPT ![c] = <<>>]
    /\ i' = [i EXCEPT ![c] = 0]
    /\ UNCHANGED <<poolVars, rec, arr, got, held>>

\* an index that stays
NextIndex_Stays(c) == index[c]

\* the index after a Get
NextIndex(c) == GoRem(index[c] + 1, recordNum[c])

\* a step back that does not add recordNum
PrevIndex_NoWrap(c) == GoRem(index[c] - 1, recordNum[c])

\* the index before the last Get
PrevIndex(c) == GoRem(index[c] - 1 + recordNum[c], recordNum[c])

\* the k newest of h
Newest(h, k) == SubSeq(h, IF Len(h) > k THEN Len(h) - k + 1 ELSE 1, Len(h))

\* the record of one iteration: Schema and ColVals are grown if their
\* arrays are too small and cut to the schema's length
Sized(x, schemaLen) ==
    [x EXCEPT !.len    = schemaLen,
              !.cap    = IF @ < schemaLen THEN schemaLen ELSE @,
              !.alias  = IF x.cap < schemaLen THEN Nil ELSE @,
              !.colLen = schemaLen,
              !.colCap = IF @ < schemaLen THEN schemaLen ELSE @,
              !.rows   = IF x.colCap < schemaLen THEN 0 ELSE @]

\* copy(record.Schema, schema) writes the array record.Schema points into
Copied(x, s) ==
    IF x.alias = Nil THEN arr
    ELSE [arr EXCEPT ![x.alias] =
            [k \in DOMAIN @ |-> IF k <= Len(arr[s]) THEN arr[s][k] ELSE @[k]]]

\* one iteration of the loop of NewCircularRecordPool
NewCircularRecordPoolStep(c) ==
    /\ pc[c] = "new"
    /\ \E r \in Records :
        /\ Get(r)
        /\ LET sized == Sized(rec[r], Len(arr[schema[c]]))
           IN  /\ rec' = [rec EXCEPT ![r] = sized]
               /\ arr' = Copied(sized, schema[c])
        /\ records' = [records EXCEPT ![c] = Append(@, r)]
    /\ i' = [i EXCEPT ![c] = @ + 1]
    /\ pc' = [pc EXCEPT ![c] = IF i[c] + 1 < recordNum[c] THEN "new" ELSE "open"]
    /\ UNCHANGED <<index, recordNum, schema, got, held>>

\* p.Get()
CircularGet(c) ==
    /\ pc[c] = "open"
    /\ got[c] = Nil
    /\ LET r == records[c][index[c] + 1]
       IN  /\ rec' = [rec EXCEPT ![r] = ResetForReuse(@)]
           /\ got' = [got EXCEPT ![c] = r]
    /\ index' = [index EXCEPT ![c] = NextIndex(c)]
    /\ UNCHANGED <<poolVars, arr, pc, records, recordNum, schema, i, held>>

\* p.GetBySchema(s): the record's Schema is the caller's slice from now on
GetBySchema(c, s) ==
    /\ pc[c] = "open"
    /\ got[c] = Nil
    /\ Len(arr[s]) = Len(arr[schema[c]])
    /\ LET r == records[c][index[c] + 1]
       IN  /\ rec' = [rec EXCEPT ![r] =
                        ResetForReuse([@ EXCEPT !.len = Len(arr[s]), !.cap = Len(arr[s]),
                                                !.alias = s])]
           /\ got' = [got EXCEPT ![c] = r]
    /\ index' = [index EXCEPT ![c] = NextIndex(c)]
    /\ UNCHANGED <<poolVars, arr, pc, records, recordNum, schema, i, held>>

\* p.PutRecordInCircularPool(): the record of the last Get is not used
PutRecordInCircularPool(c) ==
    /\ pc[c] = "open"
    /\ got[c] # Nil
    /\ index' = [index EXCEPT ![c] = PrevIndex(c)]
    /\ got' = [got EXCEPT ![c] = Nil]
    /\ UNCHANGED <<poolVars, rec, arr, pc, records, recordNum, schema, i, held>>

\* the cursor writes rows into the record of the last Get and hands it to
\* its caller, who reads it and the Lookback - 1 records before it
Emit(c, rows) ==
    /\ pc[c] = "open"
    /\ got[c] # Nil
    /\ rec' = [rec EXCEPT ![got[c]].rows = rows]
    /\ held' = [held EXCEPT ![c] = Newest(Append(@, got[c]), Lookback)]
    /\ got' = [got EXCEPT ![c] = Nil]
    /\ UNCHANGED <<poolVars, arr, pc, records, index, recordNum, schema, i>>

\* p.Put() begins: the caller is done with the records
CircularPut(c) ==
    /\ pc[c] = "open"
    /\ pc' = [pc EXCEPT ![c] = "put"]
    /\ i' = [i EXCEPT ![c] = 0]
    /\ got' = [got EXCEPT ![c] = Nil]
    /\ held' = [held EXCEPT ![c] = <<>>]
    /\ UNCHANGED <<poolVars, rec, arr, records, index, recordNum, schema>>

\* one iteration of the loop of p.Put(), and what follows the last one
CircularPutStep(c) ==
    /\ pc[c] = "put"
    /\ Put(records[c][i[c] + 1])
    /\ i' = [i EXCEPT ![c] = @ + 1]
    /\ IF i[c] + 1 < recordNum[c]
       THEN UNCHANGED <<pc, records, recordNum>>
       ELSE /\ pc' = [pc EXCEPT ![c] = "closed"]
            /\ records' = [records EXCEPT ![c] = <<>>]
            /\ recordNum' = [recordNum EXCEPT ![c] = 0]
    /\ UNCHANGED <<arr, index, schema, got, held>>

---------------------------------------------------------------------------

Init ==
    /\ cache = <<>>
    /\ pool = {}
    /\ rec = [r \in Records |-> ZeroRecord]
    /\ arr = Schemas
    /\ pc = [c \in Cursors |-> "closed"]
    /\ records = [c \in Cursors |-> <<>>]
    /\ index = [c \in Cursors |-> 0]
    /\ recordNum = [c \in Cursors |-> 0]
    /\ schema = [c \in Cursors |-> Nil]
    /\ i = [c \in Cursors |-> 0]
    /\ got = [c \in Cursors |-> Nil]
    /\ held = [c \in Cursors |-> <<>>]

Next ==
    \/ PoolGC
    \/ \E c \in Cursors :
        \/ \E s \in SchemaNames : NewCircularRecordPool(c, s) \/ GetBySchema(c, s)
        \/ NewCircularRecordPoolStep(c)
        \/ CircularGet(c)
        \/ PutRecordInCircularPool(c)
        \/ \E rows \in 1..MaxRows : Emit(c, rows)
        \/ CircularPut(c)
        \/ CircularPutStep(c)

Spec == Init /\ [][Next]_vars

---------------------------------------------------------------------------

RecordStates ==
    [len : Nat, cap : Nat, alias : SchemaNames \cup {Nil}, colLen : Nat, colCap : Nat,
     rows : 0..MaxRows]

(***************************************************************************)
(* The types, and what Go would panic on: the index of a ring is inside    *)
(* the ring (records[p.index] in Get and GetBySchema), and a record in a   *)
(* ring has one ColVal for every field of its Schema.                      *)
(***************************************************************************)
TypeOK ==
    /\ cache \in Seq(Records) /\ Len(cache) <= CacheSize
    /\ pool \subseteq Records
    /\ rec \in [Records -> RecordStates]
    /\ arr \in [SchemaNames -> Seq(Nat)]
    /\ pc \in [Cursors -> {"closed", "new", "open", "put"}]
    /\ records \in [Cursors -> Seq(Records)]
    /\ recordNum \in [Cursors -> {0, RecordNum}]
    /\ schema \in [Cursors -> SchemaNames \cup {Nil}]
    /\ i \in [Cursors -> 0..RecordNum]
    /\ got \in [Cursors -> Records \cup {Nil}]
    /\ held \in [Cursors -> Seq(Records)]
    /\ \A c \in Cursors :
        /\ pc[c] = "open" => index[c] \in 0..recordNum[c] - 1 /\ Len(records[c]) = recordNum[c]
        /\ \A r \in Owned(c) : rec[r].len = rec[r].colLen /\ rec[r].len <= rec[r].cap

(***************************************************************************)
(* The pools implement RecordOwnership: a record is held by the cursors    *)
(* that have it in their ring and have not put it back, and it has data    *)
(* when its columns hold rows.  So no interleaving of the Gets and Puts of *)
(* the cursors, over the channel, the sync.Pool and the allocator, hands   *)
(* one record to two cursors or hands out a record with the rows of an     *)
(* earlier holder, and every record put back was reset by RecordPool.Put.  *)
(***************************************************************************)
Ownership ==
    INSTANCE RecordOwnership
        WITH Holders <- Cursors,
             lease   <- [r \in Records |-> {c \in Cursors : r \in Owned(c)}],
             data    <- [r \in Records |-> rec[r].rows > 0]

ImplementsOwnership == Ownership!Spec

(***************************************************************************)
(* CircularRecordPool.Get and GetBySchema reset the record they return.    *)
(* It is never one of the Lookback records the cursor handed to its caller *)
(* last, as long as Lookback is less than recordNum: the index goes once   *)
(* around the ring before it comes back to a record, also when             *)
(* PutRecordInCircularPool takes it a step back in between.                *)
(***************************************************************************)
GetLeavesHeldRecords ==
    [][\A c \in Cursors : got'[c] # Nil => got'[c] \notin Range(held[c])]_vars

(***************************************************************************)
(* The slices callers pass as schema are theirs: the pools read them and   *)
(* never write them.  GetBySchema makes a record's Schema the caller's     *)
(* slice; ResetDeep cuts it to length 0 and keeps the array, and the next  *)
(* NewCircularRecordPool that is given the record copies its own schema    *)
(* into that array.                                                        *)
(***************************************************************************)
CallerSchemaIsNotWritten ==
    arr = Schemas
===============================================================================
