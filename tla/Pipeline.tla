------------------------------- MODULE Pipeline -------------------------------
(***************************************************************************)
(* The indexing pipeline: the publisher service, one process that runs the *)
(* publishers enabled in its configuration, and the indexer service, one   *)
(* process per worker, joined by nothing but the Redis database.           *)
(***************************************************************************)
EXTENDS Backfill, ChainTip, Manual, Worker

CONSTANT Publishers     \* the publishers that are enabled

ASSUME PipelineAssumption ==
  Publishers \in SUBSET {"backfill", "chainTip", "manual"}

vars == <<EnvironmentVars, RdbVars, BackfillVars, ChainTipVars, ManualVars,
          WorkerVars>>

Init ==
  /\ EnvironmentInit
  /\ RdbInit
  /\ BackfillInit("backfill" \in Publishers)
  /\ ChainTipInit("chainTip" \in Publishers)
  /\ ManualInit("manual" \in Publishers)
  /\ WorkerInit
-----------------------------------------------------------------------------
\* Mutant: a start of the publisher initialises the cursor in Redis.
PublisherRestartResetsCursor ==
  /\ Fault
  /\ BackfillRestart("backfill" \in Publishers)
  /\ ChainTipRestart("chainTip" \in Publishers)
  /\ ManualRestart("manual" \in Publishers)
  /\ SetCursor(StartBlock)
  /\ UNCHANGED WorkerVars

\* publisher.Start runs all publishers in one errgroup: when one of them
\* returns an error, on any failing call, the whole process exits and is
\* started again, as it is when it is killed.  Every factory runs anew: the
\* cursor is read back from Redis, the tip is followed from the latest
\* header on, and the manual publisher begins from scratch.
PublisherRestart ==
  /\ \/ mpc = "failed" /\ NoFault
     \/ Fault
  /\ BackfillRestart("backfill" \in Publishers)
  /\ ChainTipRestart("chainTip" \in Publishers)
  /\ ManualRestart("manual" \in Publishers)
  /\ UNCHANGED <<RdbVars, WorkerVars>>

BackfillStep ==
  BackfillNext /\ UNCHANGED <<ChainTipVars, ManualVars, WorkerVars>>

ChainTipStep ==
  ChainTipNext /\ UNCHANGED <<BackfillVars, ManualVars, WorkerVars>>

ManualStep ==
  ManualNext /\ UNCHANGED <<BackfillVars, ChainTipVars, WorkerVars>>

WorkerStep(w) ==
  WorkerNext(w) /\ UNCHANGED <<BackfillVars, ChainTipVars, ManualVars>>

ChainStep ==
  /\ MineBlock
  /\ UNCHANGED <<RdbVars, BackfillVars, ChainTipVars, ManualVars, WorkerVars>>

Next ==
  \/ ChainStep
  \/ BackfillStep
  \/ ChainTipStep
  \/ ManualStep
  \/ PublisherRestart
  \/ \E w \in Workers : WorkerStep(w)

Spec == Init /\ [][Next]_vars

\* Every goroutine and process that can go on does so in the end: the Go and
\* OS schedulers are fair, the deployment restarts what exits, and the chain
\* grows up to the bound.  Nothing is assumed of a single call: that it
\* succeeds in the end follows from the budget of faults.
Fairness ==
  /\ WF_vars(ChainStep)
  /\ WF_vars(BackfillStep)
  /\ WF_vars(ChainTipStep)
  /\ WF_vars(ManualStep)
  /\ WF_vars(mpc = "failed" /\ PublisherRestart)
  /\ \A w \in Workers : WF_vars(WorkerStep(w))

FairSpec == Spec /\ Fairness
-----------------------------------------------------------------------------
\* Every variable has its type.
TypeOK ==
  /\ head \in Nat
  /\ faults \in Nat
  /\ RdbTypeOK
  /\ BackfillTypeOK
  /\ ChainTipTypeOK
  /\ ManualTypeOK
  /\ WorkerTypeOK

\* What the cursor stands for (updateCursor): every block between startBlock
\* and the cursor is indexed, so that leaving those blocks out of every
\* later search loses none of them.  The only blocks that may be missing are
\* the ones the manual publisher was configured to have indexed again.
CursorCovered ==
  \A block \in StartBlock .. (cursor - 1) :
    block \in indexed \/ ("manual" \in Publishers /\ IsForced(block))

\* The cursor in Redis is one a restart may go back to: never ahead of the
\* cursor in memory, and never short of startBlock.
SavedCursorBehind ==
  savedCursor # NoCursor => savedCursor \in StartBlock .. cursor

\* A restart of the publisher may throw its cursor in memory back, yet the
\* cursor in Redis never moves backwards (updateCursor stores it).
SavedCursorNeverRetreats == [][savedCursor' >= savedCursor]_savedCursor

\* The backfill never overfills the queue: its check of the length bounds
\* it, whatever happens between the check and the last block it queues and
\* however often it is restarted in between.
QueueBounded ==
  Publishers = {"backfill"} => QueueLength <= 2 * BatchSize - 1

\* A block the backfill is about to queue is at least tipBuffer blocks behind
\* the tip (queueBatch), so in particular it exists, once the chain has more
\* than tipBuffer blocks: before, the subtraction in uint64 wraps around.
BackfillBehindTip == \A block \in todo : block + TipBuffer < head

\* A block marked as indexed has all its rows in the destination, whichever
\* processes died between the write and the mark (Worker.start).
IndexedAreWritten == indexed \subseteq written

\* The blocks that the manual publisher is there to have indexed again.
Revocable == {block \in Nat : "manual" \in Publishers /\ IsForced(block)}

\* In spite of the faults every block the backfill has to index is indexed in
\* the end, one that is forced at least if the cursor has not passed it, for
\* nothing queues it again below.  A block that always fails is in the way of
\* the blocks below, as the queue hands out the highest first, and of those
\* above when all that lie up to it fill a batch.
Backfilled ==
  \A block \in StartBlock .. (MaxHead - TipBuffer - 1) :
    (\A bad \in Poison : bad < block /\ bad - StartBlock + 1 < BatchSize) =>
      <>[](block \in indexed \/ (block \in Revocable /\ block < cursor))

\* "It will continuously attempt to enqueue blocks that fail for whatever
\* reason" (readme): a block that always fails is queued again and again.
FailingBlocksRequeued ==
  \A block \in Poison \cap (StartBlock .. (MaxHead - TipBuffer - 1)) :
    []<>(block \in queue)

\* "It will also ensure that blocks are retried when errors occur"
\* (cmd/publisher.go): a block of the chain that the manual publisher has
\* indexed again is indexed in the end, when its processing fails as well.
ForcedBlocksIndexed ==
  \A block \in Range(ManualBlocks) \cap (0 .. InitHead) :
    []<>(block \in indexed)

\* What is left of the pipeline when the queue, the workers, the publishers
\* and their faults are taken away: the destination, the marks and the
\* cursor in Redis, which are all that a restart of everything keeps.
Log ==
  INSTANCE IndexLog WITH First <- StartBlock, marked <- indexed,
                         checkpoint <- savedCursor

\* The pipeline implements the log: however its processes interleave and
\* die, they mark only what is written, one block at a time, take only
\* forced blocks back, and store a cursor only to move it up over blocks
\* that need no further look (updateCursor, manual.start, Worker.start).
ImplementsLog == Log!Spec
==============================================================================
