-------------------------------- MODULE Manual --------------------------------
(***************************************************************************)
(* The manual publisher (publisher/manual.go): queues the blocks of a list *)
(* or the last block of every epoch, once, and if asked to makes the       *)
(* database forget before that they were indexed.                          *)
(*                                                                         *)
(* The configured blocks are strings; an entry stands here for the number  *)
(* ParseUint reads from it, a negative one for a string it refuses.  HDEL  *)
(* is given the strings, and the fields of the hash are numbers as printed *)
(* by Sprintf("%d"): the model takes entries to be written that way.  One  *)
(* like "007" would be queued as 7 without being forgotten.                *)
(***************************************************************************)
EXTENDS Rdb, Environment, Sequences, Functions

CONSTANTS Mode,           \* publisher.manual.mode
          ManualBlocks,   \* publisher.manual.blocks
          ForceReindex,   \* publisher.manual.forceReindex
          EpochSize       \* indexer.EpochSize (17280 in the code)

EpochBlocks == "epoch-blocks"
BlocksList == "blocks-list"

ASSUME ManualAssumption ==
  /\ Mode \in {EpochBlocks, BlocksList}
  /\ ManualBlocks \in Seq(Int)
  /\ ForceReindex \in BOOLEAN
  /\ EpochSize \in Nat \ {0}

VARIABLES mpc,            \* next call: "getBlocks", "hdel" or "enqueue";
                          \* "done", "failed" once start returned; "off"
          mblocks         \* the blocks still to be dealt with

ManualVars == <<mpc, mblocks>>

ManualTypeOK ==
  /\ mpc \in {"off", "getBlocks", "hdel", "enqueue", "done", "failed"}
  /\ mblocks \in Seq(Int)

ManualInit(enabled) ==
  /\ mpc = IF enabled THEN "getBlocks" ELSE "off"
  /\ mblocks = <<>>

ManualRestart(enabled) ==
  /\ mpc' = IF enabled THEN "getBlocks" ELSE "off"
  /\ mblocks' = <<>>
-----------------------------------------------------------------------------
\* getBlocks: the last blocks of the epochs that are complete at head.
EpochBoundaries == [i \in 1 .. (head \div EpochSize) |-> i * EpochSize]

GetBlocks ==
  /\ mpc = "getBlocks"
  /\ mblocks' = IF Mode = BlocksList THEN ManualBlocks ELSE EpochBoundaries
  /\ mpc' = IF ForceReindex THEN "hdel" ELSE "enqueue"
  /\ NoFault
  /\ UNCHANGED RdbVars

\* start: HDEL of all blocks at once.
ForgetBlocks ==
  /\ mpc = "hdel"
  /\ mblocks # <<>>
  /\ UnmarkIndexed(Range(mblocks))
  /\ mpc' = "enqueue"
  /\ NoFault
  /\ UNCHANGED mblocks

\* start: HDEL without a field is an error, and start returns it.
ForgetNothing ==
  /\ mpc = "hdel"
  /\ mblocks = <<>>
  /\ mpc' = "failed"
  /\ NoFault
  /\ UNCHANGED <<mblocks, RdbVars>>

\* start: the next block is parsed and queued.
QueueManual ==
  /\ mpc = "enqueue"
  /\ mblocks # <<>>
  /\ Head(mblocks) >= 0
  /\ EnqueueBlock(Head(mblocks))
  /\ mblocks' = Tail(mblocks)
  /\ NoFault
  /\ UNCHANGED mpc

\* start: an entry that ParseUint refuses ends it with an error.
RefuseBlock ==
  /\ mpc = "enqueue"
  /\ mblocks # <<>>
  /\ Head(mblocks) < 0
  /\ mpc' = "failed"
  /\ mblocks' = <<>>
  /\ NoFault
  /\ UNCHANGED RdbVars

\* start returns; the publisher process goes on without it.
ManualDone ==
  /\ mpc = "enqueue"
  /\ mblocks = <<>>
  /\ mpc' = "done"
  /\ NoFault
  /\ UNCHANGED <<mblocks, RdbVars>>

ManualNext ==
  \/ GetBlocks
  \/ ForgetBlocks
  \/ ForgetNothing
  \/ QueueManual
  \/ RefuseBlock
  \/ ManualDone

\* The blocks the publisher is configured to have indexed again.
IsForced(block) ==
  /\ ForceReindex
  /\ IF Mode = BlocksList
     THEN block \in Range(ManualBlocks)
     ELSE \E i \in 1 .. block : block = i * EpochSize
==============================================================================
