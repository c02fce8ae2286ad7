-------------------------------- MODULE Worker --------------------------------
(***************************************************************************)
(* The indexer service (indexer/worker.go): every worker is a process of   *)
(* its own that takes a block off the queue, skips it if it is indexed,    *)
(* processes it with retries, and marks it.  wpc[w] names what w does      *)
(* next:                                                                   *)
(*                                                                         *)
(*   pop    PopBlock            index  an attempt of indexBlockWithRetry   *)
(*   hget   HGet BlocksMap      mark   HSet BlocksMap                      *)
(*   dead, panicked   the process is gone and waits for its restart        *)
(*                                                                         *)
(* An attempt is NewBlockHandler followed by Run.  Here it is one step     *)
(* that writes all rows of the block or fails; module BlockHandler has     *)
(* the steps inside Run.  written is the destination: the blocks of which  *)
(* all rows were put there at least once.                                  *)
(***************************************************************************)
EXTENDS Rdb, Environment

CONSTANTS Workers,
          RetryAttempts,   \* indexer.blockRetryAttempts
          MaxRetries,      \* try.MaxRetries (10 in the library)
          CollectData,     \* indexer.mode is data or both
          Poison           \* blocks whose processing never succeeds

ASSUME WorkerAssumption ==
  /\ RetryAttempts \in Nat
  /\ MaxRetries \in Nat \ {0}
  /\ CollectData \in BOOLEAN
  /\ Poison \in SUBSET Nat

VARIABLES wpc, wblock, attempt, written

WorkerVars == <<wpc, wblock, attempt, written>>

NoBlock == -1

WorkerTypeOK ==
  /\ wpc \in [Workers -> {"pop", "hget", "index", "mark",
                       "dead", "panicked"}]
  /\ wblock \in [Workers -> Nat \cup {NoBlock}]
  /\ attempt \in [Workers -> Nat]
  /\ written \in SUBSET Nat
  /\ \A w \in Workers :
       wpc[w] \in {"hget", "index", "mark"} => wblock[w] # NoBlock

WorkerInit ==
  /\ wpc = [w \in Workers |-> "pop"]
  /\ wblock = [w \in Workers |-> NoBlock]
  /\ attempt = [w \in Workers |-> 0]
  /\ written = {}

Goto(w, pc) == wpc' = [wpc EXCEPT ![w] = pc]

\* The loop of start drops the block, pc is where it goes on.
DropBlock(w, pc) ==
  /\ Goto(w, pc)
  /\ wblock' = [wblock EXCEPT ![w] = NoBlock]
  /\ attempt' = [attempt EXCEPT ![w] = 0]
-----------------------------------------------------------------------------
\* start: the highest queued block is w's from here on; it is in no queue.
Dequeue(w) ==
  /\ wpc[w] = "pop"
  /\ \E block \in queue :
       /\ PopBlock(block)
       /\ wblock' = [wblock EXCEPT ![w] = block]
  /\ Goto(w, "hget")
  /\ NoFault
  /\ UNCHANGED <<attempt, written>>

\* start: a block that is indexed by now is skipped.
SkipIndexed(w) ==
  /\ wpc[w] = "hget"
  /\ wblock[w] \in indexed
  /\ DropBlock(w, "pop")
  /\ NoFault
  /\ UNCHANGED <<written, RdbVars>>

\* start: any other block is processed.
BeginIndexing(w) ==
  /\ wpc[w] = "hget"
  /\ wblock[w] \notin indexed
  /\ Goto(w, "index")
  /\ attempt' = [attempt EXCEPT ![w] = 1]
  /\ NoFault
  /\ UNCHANGED <<wblock, written, RdbVars>>

\* indexBlockWithRetry: Run returned nil, the rows are in the destination.
\* loadBlock finds only blocks of the chain.
IndexBlock(w) ==
  /\ wpc[w] = "index"
  /\ wblock[w] <= head
  /\ wblock[w] \notin Poison
  /\ IF CollectData
     THEN /\ written' = written \cup {wblock[w]}
          /\ Goto(w, "mark")
          /\ UNCHANGED <<wblock, attempt>>
     ELSE /\ DropBlock(w, "pop")
          /\ UNCHANGED written
  /\ NoFault
  /\ UNCHANGED RdbVars

\* Mutant: the error of the last attempt is ignored.
FailBlockUnchecked(w) ==
  /\ wpc[w] = "index"
  /\ IF wblock[w] > head \/ wblock[w] \in Poison THEN NoFault ELSE Fault
  /\ IF attempt[w] < RetryAttempts /\ attempt[w] < MaxRetries
     THEN /\ attempt' = [attempt EXCEPT ![w] = @ + 1]
          /\ UNCHANGED <<wpc, wblock>>
     ELSE /\ Goto(w, "mark")
          /\ UNCHANGED <<wblock, attempt>>
  /\ UNCHANGED <<written, RdbVars>>

\* Mutant: the attempts are not counted.
FailBlockUncounted(w) ==
  /\ wpc[w] = "index"
  /\ IF wblock[w] > head \/ wblock[w] \in Poison THEN NoFault ELSE Fault
  /\ UNCHANGED <<wpc, wblock, attempt, written, RdbVars>>

\* indexBlockWithRetry: Run failed.  The next attempt follows unless this
\* was the last one; then start counts the failure and forgets the block.
FailBlock(w) ==
  /\ wpc[w] = "index"
  /\ IF wblock[w] > head \/ wblock[w] \in Poison THEN NoFault ELSE Fault
  /\ IF attempt[w] < RetryAttempts /\ attempt[w] < MaxRetries
     THEN /\ attempt' = [attempt EXCEPT ![w] = @ + 1]
          /\ UNCHANGED <<wpc, wblock>>
     ELSE DropBlock(w, "pop")
  /\ UNCHANGED <<written, RdbVars>>

\* indexBlockWithRetry: NewBlockHandler failed.  It returned no handler, and
\* the log line of the retry, or else the one in start, dereferences it.
HandlerPanic(w) ==
  /\ wpc[w] = "index"
  /\ DropBlock(w, "panicked")
  /\ Fault
  /\ UNCHANGED <<written, RdbVars>>

\* start: the block is marked as indexed.
MarkDone(w) ==
  /\ wpc[w] = "mark"
  /\ MarkIndexed(wblock[w])
  /\ DropBlock(w, "pop")
  /\ NoFault
  /\ UNCHANGED written

\* start: an error of HSet goes unnoticed, the block counts as done.
MarkLost(w) ==
  /\ wpc[w] = "mark"
  /\ DropBlock(w, "pop")
  /\ Fault
  /\ UNCHANGED <<written, RdbVars>>

\* The process is killed, or start returns on an error of PopBlock or HGet.
\* The block in hand is lost with it.
WorkerExit(w) ==
  /\ wpc[w] \notin {"dead", "panicked"}
  /\ DropBlock(w, "dead")
  /\ Fault
  /\ UNCHANGED <<written, RdbVars>>

\* The deployment starts the process again (external).
WorkerRestart(w) ==
  /\ wpc[w] \in {"dead", "panicked"}
  /\ Goto(w, "pop")
  /\ NoFault
  /\ UNCHANGED <<wblock, attempt, written, RdbVars>>

WorkerNext(w) ==
  \/ Dequeue(w)
  \/ SkipIndexed(w)
  \/ BeginIndexing(w)
  \/ IndexBlock(w)
  \/ FailBlock(w)
  \/ HandlerPanic(w)
  \/ MarkDone(w)
  \/ MarkLost(w)
  \/ WorkerExit(w)
  \/ WorkerRestart(w)
==============================================================================
