--------------------------- MODULE DetachedMetaIndex ---------------------------
(***************************************************************************)
(* Reading the meta index of a detached file,                              *)
(* engine/immutable/detached_meta_index.go.  The file is a header and one  *)
(* item per chunk, each behind its CRC.  A caller takes the number of      *)
(* chunks from the size of the file, asks for every item by offset and     *)
(* length, and is sent the items over a channel by the reader's stream, in *)
(* the order the reads finish.  ReadMetaIndex checks and decodes each and  *)
(* sorts them by the offset they carry; GetMetaIndexAndBlockId then takes  *)
(* the position of an item for its chunk id.                               *)
(***************************************************************************)
EXTENDS Integers, Sequences, FiniteSets, TLC

CONSTANTS MaxChunks,    \* the most chunks a file has
          TailSizes,    \* bytes a file can have after its last whole item
          Nil

ASSUME MaxChunks \in Nat /\ TailSizes \subseteq 0..39

crcSize             == 4
MetaIndexItemSize   == 8 * 3 + 8 + 4
MetaIndexHeaderSize == 16

VARIABLES file,         \* the file: its size and its items
          pc,           \* where the caller is
          chunkCount,   \* what GetMetaIndexChunkCount returned
          pending,      \* the chunk ids the stream has still to read
          c,            \* the channel of ReadMetaIndex, of capacity 1
          closed,       \* c is closed
          metaIndexs,   \* the slice ReadMetaIndex fills
          i,            \* its index
          result        \* what the caller has in the end

vars == <<file, pc, chunkCount, pending, c, closed, metaIndexs, i, result>>

\* Go's /, which rounds towards zero
GoDiv(a, b) == IF a >= 0 THEN a \div b ELSE -((-a) \div b)

\* the files a writer leaves, whole or torn, and the file of no bytes, which
\* also stands for no file: chunk k's item carries the offset of chunk k's
\* metadata, and the offsets grow with k
Files ==
    {[size |-> 0, items |-> <<>>]} \cup
    UNION {{[size  |-> MetaIndexHeaderSize + n * (crcSize + MetaIndexItemSize) + tail,
             items |-> [k \in 1..n |-> [offset |-> 100 * k, exist |-> exist[k],
                                        intact |-> intact[k]]]] :
                tail \in TailSizes, exist \in [1..n -> BOOLEAN], intact \in [1..n -> BOOLEAN]} :
           n \in 0..MaxChunks}

---------------------------------------------------------------------------

\* a chunk count that forgets the header
ChunkCount_WithHeader(size) == GoDiv(size, crcSize + MetaIndexItemSize)

\* the return value of GetMetaIndexChunkCount for a file of this size
ChunkCount(size) == GoDiv(size - MetaIndexHeaderSize, crcSize + MetaIndexItemSize)

GetMetaIndexOffsetAndLengthByChunkId(chunkId) ==
    [offset |-> chunkId * (crcSize + MetaIndexItemSize) + MetaIndexHeaderSize,
     length |-> crcSize + MetaIndexItemSize]

\* there is no such file, which counts as no chunks; or the file cannot be
\* opened or Stat fails; or the size gives the count
GetMetaIndexChunkCount ==
    /\ pc = "start"
    /\ \/ /\ file.size = 0
          /\ pc' = "open" /\ chunkCount' = 0
       \/ /\ pc' = "failed" /\ UNCHANGED chunkCount
       \/ /\ pc' = "open" /\ chunkCount' = ChunkCount(file.size)
    /\ UNCHANGED <<file, pending, c, closed, metaIndexs, i, result>>

\* GetMetaIndexAndBlockId up to the call of StreamReadBatch in
\* ReadMetaIndex: the reader is opened and every chunk is asked for
GetMetaIndexAndBlockId ==
    /\ pc = "open"
    /\ \/ /\ pc' = "failed"
          /\ UNCHANGED <<pending, metaIndexs>>
       \/ /\ pc' = "read"
          /\ pending' = 0..chunkCount - 1
          /\ metaIndexs' = [k \in 1..chunkCount |-> Nil]
    /\ i' = 0
    /\ UNCHANGED <<file, chunkCount, c, closed, result>>

\* what the stream reads at a request
Content(chunkId) ==
    LET req == GetMetaIndexOffsetAndLengthByChunkId(chunkId)
    IN  IF req.offset + req.length > file.size
        THEN [err |-> TRUE]
        ELSE [err |-> FALSE, item |-> file.items[chunkId + 1]]

\* the stream sends what it read for one request, or the error of the read
StreamSend(chunkId) ==
    /\ pc = "read"
    /\ chunkId \in pending
    /\ c = <<>>
    /\ pending' = pending \ {chunkId}
    /\ c' \in {<<Content(chunkId)>>, <<[err |-> TRUE]>>}
    /\ UNCHANGED <<file, pc, chunkCount, closed, metaIndexs, i, result>>

StreamClose ==
    /\ pc = "read"
    /\ pending = {}
    /\ ~closed
    /\ closed' = TRUE
    /\ UNCHANGED <<file, pc, chunkCount, pending, c, metaIndexs, i, result>>

\* one iteration of the loop of ReadMetaIndex
Receive ==
    /\ pc = "read"
    /\ c # <<>>
    /\ c' = <<>>
    /\ LET r == Head(c)
       IN  IF r.err \/ ~r.item.intact
           THEN pc' = "failed" /\ UNCHANGED <<metaIndexs, i>>
           ELSE /\ metaIndexs' = [metaIndexs EXCEPT ![i + 1] = r.item]
                /\ i' = i + 1
                /\ UNCHANGED pc
    /\ UNCHANGED <<file, chunkCount, pending, closed, result>>

\* the items as they came
Sorted_AsReceived(s) == s

\* sort.Slice by the offset the items carry
Sorted(s) == SortSeq(s, LAMBDA a, b : a.offset < b.offset)

\* the channel is closed and empty: ReadMetaIndex sorts and returns, and
\* GetMetaIndexAndBlockId keeps the items of the time range with their
\* positions as chunk ids
Return ==
    /\ pc = "read"
    /\ c = <<>> /\ closed
    /\ pc' = "done"
    /\ LET metaIndexes == Sorted(metaIndexs)
           kept == SelectSeq([k \in 1..Len(metaIndexes) |-> k - 1],
                             LAMBDA k : metaIndexes[k + 1].exist)
       IN  result' = [miChunkIds |-> kept,
                      miFiltered |-> [j \in 1..Len(kept) |-> metaIndexes[kept[j] + 1]],
                      pkItems    |-> <<>>]
    /\ UNCHANGED <<file, chunkCount, pending, c, closed, metaIndexs, i>>

\* GetPKItems: the primary-key meta info, the metas and the data of the
\* chunks found are read one after the other; any of the reads can fail
GetPKItems ==
    /\ pc = "done"
    /\ \/ pc' = "failed" /\ UNCHANGED result
       \/ /\ pc' = "pk"
          /\ result' = [result EXCEPT !.pkItems = result.miChunkIds]
    /\ UNCHANGED <<file, chunkCount, pending, c, closed, metaIndexs, i>>

Init ==
    /\ file \in Files
    /\ pc = "start"
    /\ chunkCount = 0
    /\ pending = {}
    /\ c = <<>>
    /\ closed = FALSE
    /\ metaIndexs = <<>>
    /\ i = 0
    /\ result = Nil

Next ==
    \/ GetMetaIndexChunkCount
    \/ GetMetaIndexAndBlockId
    \/ \E chunkId \in 0..MaxChunks : StreamSend(chunkId)
    \/ StreamClose
    \/ Receive
    \/ Return
    \/ GetPKItems

Spec == Init /\ [][Next]_vars

---------------------------------------------------------------------------

(***************************************************************************)
(* The types, and what the reads rely on: the chunk count that             *)
(* GetMetaIndexChunkCount takes from the size of the file is not negative  *)
(* and names only items that lie in the file, also for a file shorter than *)
(* its header or with a torn last item, and ReadMetaIndex never writes     *)
(* past the slice it made.                                                 *)
(***************************************************************************)
TypeOK ==
    /\ file \in Files
    /\ pc \in {"start", "open", "read", "done", "pk", "failed"}
    /\ chunkCount \in 0..MaxChunks
    /\ \A k \in 0..chunkCount - 1 :
        LET req == GetMetaIndexOffsetAndLengthByChunkId(k)
        IN  req.offset + req.length <= file.size
    /\ pending \subseteq 0..chunkCount - 1
    /\ Len(c) <= 1
    /\ closed \in BOOLEAN
    /\ i \in 0..Len(metaIndexs)

(***************************************************************************)
(* GetMetaIndexAndBlockId returns exactly the chunks of the time range,    *)
(* each chunk id with the item of that chunk, in whatever order the stream *)
(* delivered the items, and only when every item of the file passed its    *)
(* CRC: the sort by offset in ReadMetaIndex puts the item of chunk k at    *)
(* position k.                                                             *)
(***************************************************************************)
ChunkIdsNameTheirItems ==
    pc = "done" =>
        /\ \A k \in 1..Len(file.items) : file.items[k].intact
        /\ result.miChunkIds =
                SelectSeq([k \in 1..Len(file.items) |-> k - 1],
                          LAMBDA k : file.items[k + 1].exist)
        /\ \A j \in 1..Len(result.miChunkIds) :
                result.miFiltered[j] = file.items[result.miChunkIds[j] + 1]
===============================================================================
