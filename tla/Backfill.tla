------------------------------- MODULE Backfill -------------------------------
(***************************************************************************)
(* The backfill publisher (publisher/backfill.go): one goroutine that      *)
(* moves a cursor over the blocks already indexed and queues the lowest    *)
(* blocks that are not.  Its main loop is cut at the Redis and node calls, *)
(* bpc names the call that comes next:                                     *)
(*                                                                         *)
(*   check    QueueLength, at the top of start's loop                      *)
(*   advance  GetBlocksBatch in updateCursor, and the loop over the batch  *)
(*   save     Set BackfillCursor at the end of updateCursor                *)
(*   header   HeaderByNumber at the top of queueBatch                      *)
(*   window   the head of queueBatch's outer loop, and its GetBlocksBatch  *)
(*   scan     queueBatch's inner loop, one EnqueueBlock at a time          *)
(*   off      the publisher is not enabled                                 *)
(*                                                                         *)
(* The gauges set at the end of the main loop are left out.                *)
(***************************************************************************)
EXTENDS Rdb, Environment

CONSTANTS StartBlock,   \* publisher.backfill.startBlock
          BatchSize,    \* publisher.backfill.batchSize
          TipBuffer,    \* publisher.backfill.tipBuffer
          TwoTo64       \* 2^64, the number of values of a uint64

ASSUME BackfillAssumption ==
  /\ StartBlock \in Nat
  /\ BatchSize \in Nat \ {0}
  /\ TipBuffer \in Nat
  /\ TwoTo64 \in Nat
  /\ MaxHead < TwoTo64
  /\ TipBuffer < TwoTo64

VARIABLES bpc,          \* next call of the publisher
          cursor,       \* svc.cursor
          maxBlock,     \* the locals of queueBatch: blocks from maxBlock on
          queued,       \* are left alone, queued blocks were queued so far,
          searchStart,  \* the current window starts at searchStart and the
          todo          \* blocks of todo are its blocks still to be queued

BackfillLocals == <<maxBlock, queued, searchStart, todo>>
BackfillVars == <<bpc, cursor, maxBlock, queued, searchStart, todo>>

BackfillPcs == {"off", "check", "advance", "save", "header", "window", "scan"}

BackfillTypeOK ==
  /\ bpc \in BackfillPcs
  /\ cursor \in Nat
  /\ maxBlock \in Nat
  /\ queued \in Nat
  /\ searchStart \in Nat
  /\ todo \in SUBSET Nat

\* uint64 subtraction wraps around.
Uint64Minus(a, b) == IF a >= b THEN a - b ELSE a - b + TwoTo64

SearchWindow == 2 * BatchSize

\* The locals of queueBatch while no call of it is running.
LocalsReset == maxBlock' = 0 /\ queued' = 0 /\ searchStart' = 0 /\ todo' = {}
-----------------------------------------------------------------------------
\* Mutant: the error redis.Nil of a cursor that is not set goes unnoticed.
CursorUnchecked == savedCursor

\* newBackfillPublisher: the cursor is the saved one, else startBlock.
CursorAtStart == IF savedCursor = NoCursor THEN StartBlock ELSE savedCursor

\* Mutant: a restarted publisher begins at startBlock again.
RestartAtStartBlock(enabled) ==
  /\ bpc' = IF enabled THEN "check" ELSE "off"
  /\ cursor' = StartBlock
  /\ LocalsReset

BackfillInit(enabled) ==
  /\ bpc = IF enabled THEN "check" ELSE "off"
  /\ cursor = StartBlock
  /\ maxBlock = 0 /\ queued = 0 /\ searchStart = 0 /\ todo = {}

BackfillRestart(enabled) ==
  /\ bpc' = IF enabled THEN "check" ELSE "off"
  /\ cursor' = CursorAtStart
  /\ LocalsReset

\* Mutant: <= for <.
CheckQueueInclusive ==
  /\ bpc = "check"
  /\ QueueLength <= BatchSize
  /\ bpc' = "advance"
  /\ NoFault
  /\ UNCHANGED <<cursor, BackfillLocals, RdbVars>>

\* start: nothing is done while BatchSize blocks or more are queued.
CheckQueue ==
  /\ bpc = "check"
  /\ QueueLength < BatchSize
  /\ bpc' = "advance"
  /\ NoFault
  /\ UNCHANGED <<cursor, BackfillLocals, RdbVars>>

\* Mutant: the loop goes on past a gap.
AdvancePastGap ==
  /\ bpc = "advance"
  /\ LET batch == GetBlocksBatch(cursor, 2 * BatchSize)
     IN  \E next \in cursor .. (cursor + 2 * BatchSize + 1) :
           /\ next \notin batch
           /\ next = cursor \/ next - 1 \in batch
           /\ cursor' = next
  /\ bpc' = "save"
  /\ NoFault
  /\ UNCHANGED <<BackfillLocals, RdbVars>>

\* updateCursor: the loop moves svc.cursor past every block of the batch up
\* to the first that is not indexed.  Its bound svc.cursor+batchSize moves
\* along with the cursor and so never ends the loop.
CursorAfterBatch ==
  LET batch == GetBlocksBatch(cursor, 2 * BatchSize)
  IN  {next \in cursor .. (cursor + 2 * BatchSize + 1) :
         next \notin batch /\ cursor .. (next - 1) \subseteq batch}

AdvanceCursor ==
  /\ bpc = "advance"
  /\ cursor' \in CursorAfterBatch
  /\ bpc' = "save"
  /\ NoFault
  /\ UNCHANGED <<BackfillLocals, RdbVars>>

\* updateCursor: the cursor is stored.
SaveCursor ==
  /\ bpc = "save"
  /\ SetCursor(cursor)
  /\ bpc' = "header"
  /\ NoFault
  /\ UNCHANGED <<cursor, BackfillLocals>>

\* Mutant: the buffer from the tip is forgotten.
ReadHeaderAtTip ==
  /\ bpc = "header"
  /\ maxBlock' = head
  /\ queued' = 0
  /\ searchStart' = cursor
  /\ bpc' = "window"
  /\ NoFault
  /\ UNCHANGED <<cursor, todo, RdbVars>>

\* queueBatch: the latest header bounds the search.
ReadHeader ==
  /\ bpc = "header"
  /\ maxBlock' = Uint64Minus(head, TipBuffer)
  /\ queued' = 0
  /\ searchStart' = cursor
  /\ bpc' = "window"
  /\ NoFault
  /\ UNCHANGED <<cursor, todo, RdbVars>>

\* queueBatch: an error of HeaderByNumber is swallowed, the loop goes on.
HeaderError ==
  /\ bpc = "header"
  /\ bpc' = "check"
  /\ Fault
  /\ UNCHANGED <<cursor, BackfillLocals, RdbVars>>

\* queueBatch: the state of the next window is read, and with it the blocks
\* of searchStart .. searchEnd-1 that the inner loop will find not indexed.
ReadWindow ==
  /\ bpc = "window"
  /\ searchStart < maxBlock
  /\ queued < BatchSize
  /\ LET batch == GetBlocksBatch(searchStart, SearchWindow)
         searchEnd == IF searchStart + SearchWindow > maxBlock
                      THEN maxBlock ELSE searchStart + SearchWindow
     IN  todo' = (searchStart .. (searchEnd - 1)) \ batch
  /\ bpc' = "scan"
  /\ NoFault
  /\ UNCHANGED <<cursor, maxBlock, queued, searchStart, RdbVars>>

\* queueBatch: where the loop over the window is.
NextInWindow == {block \in todo : \A other \in todo : block <= other}

\* queueBatch: the next block of the window that was not indexed is queued.
QueueNext ==
  /\ bpc = "scan"
  /\ queued < BatchSize
  /\ \E block \in NextInWindow :
       /\ EnqueueBlock(block)
       /\ todo' = todo \ {block}
  /\ queued' = queued + 1
  /\ NoFault
  /\ UNCHANGED <<bpc, cursor, maxBlock, searchStart>>

\* queueBatch: the window is done, or the batch is full.
NextWindow ==
  /\ bpc = "scan"
  /\ todo = {} \/ queued >= BatchSize
  /\ searchStart' = searchStart + SearchWindow
  /\ todo' = {}
  /\ bpc' = "window"
  /\ NoFault
  /\ UNCHANGED <<cursor, maxBlock, queued, RdbVars>>

\* queueBatch returns; start sleeps and begins its next round.
BatchDone ==
  /\ bpc = "window"
  /\ searchStart >= maxBlock \/ queued >= BatchSize
  /\ bpc' = "check"
  /\ LocalsReset
  /\ NoFault
  /\ UNCHANGED <<cursor, RdbVars>>

BackfillNext ==
  \/ CheckQueue
  \/ AdvanceCursor
  \/ SaveCursor
  \/ ReadHeader
  \/ HeaderError
  \/ ReadWindow
  \/ QueueNext
  \/ NextWindow
  \/ BatchDone
==============================================================================
