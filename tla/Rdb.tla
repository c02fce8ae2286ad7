--------------------------------- MODULE Rdb ---------------------------------
(***************************************************************************)
(* The Redis database all services share (rdb/rdb.go).  A Redis command,   *)
(* and the Lua script of GetBlocksBatch, is atomic and durable: the        *)
(* commands are the points at which the services interleave.               *)
(*                                                                         *)
(*   queue        the sorted set PriorityQueue; member and score are both  *)
(*                the block number, so it is a set of block numbers        *)
(*   indexed      the fields of the hash BlocksMap                         *)
(*   savedCursor  the string BackfillCursor, NoCursor while it is not set  *)
(***************************************************************************)
EXTENDS Integers, FiniteSets

NoCursor == -1

VARIABLES queue, indexed, savedCursor

RdbVars == <<queue, indexed, savedCursor>>

RdbInit == queue = {} /\ indexed = {} /\ savedCursor = NoCursor

RdbTypeOK ==
  /\ queue \in SUBSET Nat
  /\ indexed \in SUBSET Nat
  /\ savedCursor \in Nat \cup {NoCursor}

\* The Lua loop runs from startKey to endKey inclusive, one block more than
\* size.  The Go map that is returned reads FALSE for every other block, so
\* it is the set of the indexed blocks among those it asked for.
GetBlocksBatch(cursor, size) == indexed \cap (cursor .. (cursor + size))

\* ZADD: a block that is queued already stays queued once.
EnqueueBlock(block) ==
  /\ queue' = queue \cup {block}
  /\ UNCHANGED <<indexed, savedCursor>>

\* BZPOPMAX: the highest block leaves the queue as it is handed out.  On an
\* empty queue the call times out and the caller asks again.
PopBlock(block) ==
  /\ block \in queue
  /\ \A other \in queue : other <= block
  /\ queue' = queue \ {block}
  /\ UNCHANGED <<indexed, savedCursor>>

\* ZCARD
QueueLength == Cardinality(queue)

\* SET BackfillCursor
SetCursor(cursor) ==
  /\ savedCursor' = cursor
  /\ UNCHANGED <<queue, indexed>>

\* HSET BlocksMap
MarkIndexed(block) ==
  /\ indexed' = indexed \cup {block}
  /\ UNCHANGED <<queue, savedCursor>>

\* Mutant: DEL for HDEL, all blocks are forgotten.
UnmarkAll(blocks) ==
  /\ indexed' = {}
  /\ UNCHANGED <<queue, savedCursor>>

\* HDEL BlocksMap
UnmarkIndexed(blocks) ==
  /\ indexed' = indexed \ blocks
  /\ UNCHANGED <<queue, savedCursor>>
==============================================================================
