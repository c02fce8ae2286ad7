----------------------------- MODULE BlockHandler -----------------------------
(***************************************************************************)
(* How a worker processes one block (indexer/handler.go): the goroutines   *)
(* of Run, the channel between them, and the retries around Run and the    *)
(* mark after it (indexer/worker.go).  A call of Run consists of           *)
(*                                                                         *)
(*   main       loads the block, starts the two others in an errgroup and  *)
(*              waits for them (rpc);                                      *)
(*   spawner    spawnProcessors: initialises the processors, hands their   *)
(*              tasks (CollectData, ObserveMetrics) to an errgroup of its  *)
(*              own, waits for them and closes the channel (spc);          *)
(*   tasks      send their rows into the channel (tpc, sent);              *)
(*   collector  gathers the rows and writes them all at once (cpc).        *)
(*                                                                         *)
(* There are three contexts: the worker's, done once the process is told   *)
(* to exit, Run's, done as well when spawner or collector fails, and the   *)
(* spawner's, done as well when a task fails.  The select and the calls of *)
(* a goroutine watch its context; a send into the channel watches none.    *)
(*                                                                         *)
(* Only the rows a task does send are modelled: processors left out at     *)
(* this height (ShouldCollect, checkError) are not among Tasks, and        *)
(* RowCount says how many rows each of the others has for the block.       *)
(***************************************************************************)
EXTENDS Integers, Sequences, FiniteSets, Functions

CONSTANTS Tasks,          \* functions the spawner hands to its errgroup
          RowCount,       \* number of rows each of them sends
          RowsCap,        \* capacity of rowsChan (1000 in the code)
          Concurrency,    \* indexer.concurrency
          GroupSize,      \* goroutines of an errgroup.WithContext (NumCPU)
          Attempts,       \* indexer.blockRetryAttempts, at most 10 (try.Do)
          CollectData,    \* indexer.mode is data or both
          MaxFailures     \* bound: failing calls in a behaviour

ASSUME BlockHandlerAssumption ==
  /\ IsFiniteSet(Tasks)
  /\ RowCount \in [Tasks -> Nat]
  /\ RowsCap \in Nat \ {0}
  /\ Concurrency \in Nat \ {0}
  /\ GroupSize \in Nat \ {0}
  /\ Attempts \in Nat
  /\ CollectData \in BOOLEAN
  /\ MaxFailures \in Nat

VARIABLES rpc,        \* main: "load", "wait", "mark", or how it ended
          spc,        \* spawner: "init", "wait", or "done", "failed"
          cpc,        \* collector: "collect", "write", or "done", "failed"
          tpc, sent,  \* tasks: where each is, how many rows it has sent
          rowsChan,   \* the channel
          closed,     \* rowsChan is closed
          rows,       \* what the collector has gathered
          exiting,    \* the worker's context is done
          runFailed,  \* Run's context is cancelled
          taskFailed, \* the spawner's context is cancelled
          attempt,    \* attempts so far, this one included
          failures,   \* failing calls so far
          dest,       \* rows of the block that are in the destination
          marked      \* the block is marked as indexed

mainVars == <<rpc, attempt, marked>>
taskVars == <<tpc, sent>>
chanVars == <<rowsChan, closed>>
ctxVars == <<exiting, runFailed, taskFailed>>
vars ==
  <<mainVars, spc, cpc, taskVars, chanVars, rows, ctxVars, failures, dest>>

Row == Tasks \X Nat
AllRows == UNION {{t} \X (1 .. RowCount[t]) : t \in Tasks}
Ended == rpc \in {"marked", "unmarked", "gaveUp"}

TypeOK ==
  /\ rpc \in {"load", "wait", "mark", "marked", "unmarked", "gaveUp"}
  /\ spc \in {"init", "wait", "done", "failed"}
  /\ cpc \in {"collect", "write", "done", "failed"}
  /\ tpc \in [Tasks -> {"new", "waiting", "running", "sending", "done"}]
  /\ sent \in [Tasks -> Nat]
  /\ rowsChan \in Seq(Row)
  /\ rows \in SUBSET Row
  /\ dest \in SUBSET Row
  /\ {closed, exiting, runFailed, taskFailed, marked} \subseteq BOOLEAN
  /\ attempt \in Nat
  /\ failures \in Nat

\* ctx.Done() of Run's context, and of the one the tasks are given.
RunDone == exiting \/ runFailed
TaskDone == RunDone \/ taskFailed

\* A call fails out of the budget, or because its context is done.
CallFails(ctxDone) ==
  \/ ctxDone /\ UNCHANGED failures
  \/ failures < MaxFailures /\ failures' = failures + 1

Init ==
  /\ rpc = "load" /\ attempt = 1 /\ marked = FALSE
  /\ spc = "init" /\ cpc = "collect"
  /\ tpc = [t \in Tasks |-> "new"] /\ sent = [t \in Tasks |-> 0]
  /\ rowsChan = <<>> /\ closed = FALSE /\ rows = {}
  /\ exiting = FALSE /\ runFailed = FALSE /\ taskFailed = FALSE
  /\ failures = 0
  /\ dest = {}
-----------------------------------------------------------------------------
\* The process is told to exit (external): the worker's context is done.
Exit ==
  /\ ~exiting
  /\ exiting' = TRUE
  /\ UNCHANGED <<mainVars, spc, cpc, taskVars, chanVars, rows, runFailed,
                 taskFailed, failures, dest>>

\* Run: caching is enabled and the block loaded, both goroutines start.
LoadBlock ==
  /\ rpc = "load"
  /\ rpc' = "wait"
  /\ UNCHANGED <<attempt, marked, spc, cpc, taskVars, chanVars, rows, ctxVars,
                 failures, dest>>

\* Mutant: the attempts are not counted.
RetryForever ==
  /\ rpc' = "load"
  /\ spc' = "init" /\ cpc' = "collect"
  /\ tpc' = [t \in Tasks |-> "new"] /\ sent' = [t \in Tasks |-> 0]
  /\ rowsChan' = <<>> /\ closed' = FALSE /\ rows' = {}
  /\ runFailed' = FALSE /\ taskFailed' = FALSE
  /\ UNCHANGED attempt

\* indexBlockWithRetry: an attempt failed.  The next one has a new handler,
\* a new channel and new contexts; after the last one the worker gives up.
AttemptFailed ==
  IF attempt < Attempts
  THEN /\ rpc' = "load"
       /\ attempt' = attempt + 1
       /\ spc' = "init" /\ cpc' = "collect"
       /\ tpc' = [t \in Tasks |-> "new"] /\ sent' = [t \in Tasks |-> 0]
       /\ rowsChan' = <<>> /\ closed' = FALSE /\ rows' = {}
       /\ runFailed' = FALSE /\ taskFailed' = FALSE
  ELSE /\ rpc' = "gaveUp"
       /\ UNCHANGED <<attempt, spc, cpc, taskVars, chanVars, rows, runFailed,
                      taskFailed>>

\* Run: EnableCaching or loadBlock returns an error, and Run returns it.
LoadFails ==
  /\ rpc = "load"
  /\ CallFails(exiting)
  /\ AttemptFailed
  /\ UNCHANGED <<marked, exiting, dest>>

\* spawnProcessors: the processors are there, their tasks go to the group.
InitProcessors ==
  /\ rpc = "wait" /\ spc = "init"
  /\ spc' = "wait"
  /\ tpc' = [t \in Tasks |-> "waiting"]
  /\ UNCHANGED <<mainVars, cpc, sent, chanVars, rows, ctxVars, failures, dest>>

\* Mutant: the error of a factory does not cancel Run's context.
InitFailsAlone ==
  /\ rpc = "wait" /\ spc = "init"
  /\ CallFails(RunDone)
  /\ spc' = "failed"
  /\ UNCHANGED <<mainVars, cpc, taskVars, chanVars, rows, ctxVars, dest>>

\* spawnProcessors: a factory failed.  The spawner returns, which cancels
\* Run's context, and leaves the channel open.
InitFails ==
  /\ rpc = "wait" /\ spc = "init"
  /\ CallFails(RunDone)
  /\ spc' = "failed"
  /\ runFailed' = TRUE
  /\ UNCHANGED <<mainVars, cpc, taskVars, chanVars, rows, exiting, taskFailed,
                 dest>>

Active(t) == tpc[t] \in {"running", "sending"}

\* The spawner's errgroup (external) runs at most Concurrency tasks at once.
GroupHasRoom == Cardinality({u \in Tasks : Active(u)}) < Concurrency

StartTask(t) ==
  /\ spc = "wait"
  /\ tpc[t] = "waiting"
  /\ GroupHasRoom
  /\ tpc' = [tpc EXCEPT ![t] = "running"]
  /\ UNCHANGED <<mainVars, spc, cpc, sent, chanVars, rows, ctxVars, failures,
                 dest>>

\* CollectData: the calls for the next row succeed, and it is to be sent.
PrepareRow(t) ==
  /\ tpc[t] = "running"
  /\ sent[t] < RowCount[t]
  /\ tpc' = [tpc EXCEPT ![t] = "sending"]
  /\ UNCHANGED <<mainVars, spc, cpc, sent, chanVars, rows, ctxVars, failures,
                 dest>>

\* CollectData: the row is sent as soon as the channel has room.
SendRow(t) ==
  /\ tpc[t] = "sending"
  /\ Len(rowsChan) < RowsCap
  /\ rowsChan' = Append(rowsChan, <<t, sent[t] + 1>>)
  /\ sent' = [sent EXCEPT ![t] = @ + 1]
  /\ tpc' = [tpc EXCEPT ![t] = "running"]
  /\ UNCHANGED <<mainVars, spc, cpc, closed, rows, ctxVars, failures, dest>>

\* CollectData or ObserveMetrics: a call between two sends fails, and the
\* error cancels the context of the other tasks.
FailTask(t) ==
  /\ tpc[t] = "running"
  /\ CallFails(TaskDone)
  /\ tpc' = [tpc EXCEPT ![t] = "done"]
  /\ taskFailed' = TRUE
  /\ UNCHANGED <<mainVars, spc, cpc, sent, chanVars, rows, exiting, runFailed,
                 dest>>

\* CollectData or ObserveMetrics returns nil.
FinishTask(t) ==
  /\ tpc[t] = "running"
  /\ sent[t] = RowCount[t]
  /\ tpc' = [tpc EXCEPT ![t] = "done"]
  /\ UNCHANGED <<mainVars, spc, cpc, sent, chanVars, rows, ctxVars, failures,
                 dest>>

\* Mutant: the channel is closed before Wait returns.
CloseBeforeWait ==
  /\ spc = "wait"
  /\ closed' = TRUE
  /\ spc' = IF taskFailed THEN "failed" ELSE "done"
  /\ runFailed' = (runFailed \/ taskFailed)
  /\ UNCHANGED <<mainVars, cpc, taskVars, rowsChan, rows, exiting, taskFailed,
                 failures, dest>>

\* Wait of the spawner's group: no task runs and none is left, or the rest is
\* given up because of an error.
TasksOver ==
  \A t \in Tasks : tpc[t] = "done" \/ (taskFailed /\ tpc[t] = "waiting")

\* spawnProcessors: Wait returns, the channel is closed, and the error, if
\* there is one, returned, which cancels Run's context.
CloseRows ==
  /\ spc = "wait"
  /\ TasksOver
  /\ closed' = TRUE
  /\ spc' = IF taskFailed THEN "failed" ELSE "done"
  /\ runFailed' = (runFailed \/ taskFailed)
  /\ UNCHANGED <<mainVars, cpc, taskVars, rowsChan, rows, exiting, taskFailed,
                 failures, dest>>

\* Run's errgroup (external) has GroupSize goroutines: with a single one the
\* collector has to wait for the spawner to return.
Collecting ==
  /\ rpc = "wait" /\ cpc = "collect"
  /\ GroupSize > 1 \/ spc \in {"done", "failed"}

\* Mutant: only the end of the channel is waited for.
Drained == closed /\ rowsChan = <<>>

\* What ends the collector's loop: the channel is closed and drained, or the
\* context done.
NoMoreRows == (closed /\ rowsChan = <<>>) \/ RunDone

\* Run, collector: a row is received.
ReceiveRow ==
  /\ Collecting
  /\ rowsChan # <<>>
  /\ rows' = rows \cup {Head(rowsChan)}
  /\ rowsChan' = Tail(rowsChan)
  /\ UNCHANGED <<mainVars, spc, cpc, taskVars, closed, ctxVars, failures, dest>>

\* Mutants: the collector ranges over the channel and watches no context, or
\* takes the zero value a closed channel delivers for a row.
StopWhenClosed ==
  /\ Collecting
  /\ Drained
  /\ cpc' = "write"
  /\ UNCHANGED <<mainVars, spc, taskVars, chanVars, rows, ctxVars, failures,
                 dest>>

StopWithNilRow ==
  /\ Collecting
  /\ NoMoreRows
  /\ rows' = rows \cup {<<"nil", 0>>}
  /\ cpc' = "write"
  /\ UNCHANGED <<mainVars, spc, taskVars, chanVars, ctxVars, failures, dest>>

\* Run, collector: the loop ends; select is free to see that the context is
\* done while there are rows in the channel.
StopCollecting ==
  /\ Collecting
  /\ NoMoreRows
  /\ cpc' = "write"
  /\ UNCHANGED <<mainVars, spc, taskVars, chanVars, rows, ctxVars, failures,
                 dest>>

\* Run, collector: the rows are written, under a context never cancelled.
WriteRows ==
  /\ cpc = "write"
  /\ dest' = dest \cup rows
  /\ cpc' = "done"
  /\ UNCHANGED <<mainVars, spc, taskVars, chanVars, rows, ctxVars, failures>>

\* Run, collector: the destination takes some rows and returns an error.
WriteFails ==
  /\ cpc = "write"
  /\ CallFails(FALSE)
  /\ \E some \in SUBSET rows : dest' = dest \cup some
  /\ cpc' = "failed"
  /\ runFailed' = TRUE
  /\ UNCHANGED <<mainVars, spc, taskVars, chanVars, rows, exiting, taskFailed>>

\* Run: Wait returns nil, and so does Run.
RunSucceeds ==
  /\ rpc = "wait" /\ spc = "done" /\ cpc = "done"
  /\ rpc' = IF CollectData THEN "mark" ELSE "unmarked"
  /\ UNCHANGED <<attempt, marked, spc, cpc, taskVars, chanVars, rows, ctxVars,
                 failures, dest>>

\* Mutant: Run returns on the first error and waits for nothing.
RunFailsAtOnce ==
  /\ rpc = "wait"
  /\ "failed" \in {spc, cpc}
  /\ AttemptFailed
  /\ UNCHANGED <<marked, exiting, failures, dest>>

\* Run: Wait returns the error of the spawner or of the collector.
RunFails ==
  /\ rpc = "wait"
  /\ {spc, cpc} \subseteq {"done", "failed"}
  /\ "failed" \in {spc, cpc}
  /\ AttemptFailed
  /\ UNCHANGED <<marked, exiting, failures, dest>>

\* Mutant: the block is marked under a context that is never done.
MarkInBackground ==
  /\ rpc = "mark"
  /\ marked' = TRUE
  /\ rpc' = "marked"
  /\ UNCHANGED <<attempt, spc, cpc, taskVars, chanVars, rows, ctxVars, failures,
                 dest>>

\* start: the block is marked under the worker's context.
MarkBlock ==
  /\ rpc = "mark"
  /\ ~exiting
  /\ marked' = TRUE
  /\ rpc' = "marked"
  /\ UNCHANGED <<attempt, spc, cpc, taskVars, chanVars, rows, ctxVars, failures,
                 dest>>

\* start: HSet fails, in any case when the context is done; nobody notices.
MarkFails ==
  /\ rpc = "mark"
  /\ CallFails(exiting)
  /\ rpc' = "unmarked"
  /\ UNCHANGED <<attempt, marked, spc, cpc, taskVars, chanVars, rows, ctxVars,
                 dest>>
-----------------------------------------------------------------------------
Main ==
  LoadBlock \/ LoadFails \/ RunSucceeds \/ RunFails \/ MarkBlock \/ MarkFails

Spawner == InitProcessors \/ InitFails \/ CloseRows

Task(t) ==
  \/ StartTask(t)
  \/ PrepareRow(t)
  \/ SendRow(t)
  \/ FailTask(t)
  \/ FinishTask(t)

Collector == ReceiveRow \/ StopCollecting \/ WriteRows \/ WriteFails

Next ==
  \/ Exit
  \/ Main
  \/ Spawner
  \/ \E t \in Tasks : Task(t)
  \/ Collector

Spec == Init /\ [][Next]_vars

\* Go's scheduler lets every goroutine that is not blocked go on; whether
\* the process is ever told to exit is left open.
FairSpec ==
  /\ Spec
  /\ WF_vars(Main)
  /\ WF_vars(Spawner)
  /\ \A t \in Tasks : WF_vars(Task(t))
  /\ WF_vars(Collector)
-----------------------------------------------------------------------------
\* A block is marked as indexed only when every row of it is in the
\* destination: an exit or an error in the middle of Run may leave some of
\* the rows behind, even where Run returns nil, but never with the mark set.
MarkedComplete == marked => AllRows \subseteq dest

\* The channel is closed after the last send: a later one would panic.
NoSendAfterClose == closed => \A t \in Tasks : ~Active(t)

RowsFit == Cardinality(AllRows) <= RowsCap

\* Where a goroutine is not blocked: a step of it is possible.
MainReady ==
  \/ rpc \in {"load", "mark"}
  \/ rpc = "wait" /\ {spc, cpc} \subseteq {"done", "failed"}

SpawnerReady ==
  \/ rpc = "wait" /\ spc = "init"
  \/ spc = "wait" /\ TasksOver

TaskReady(t) ==
  \/ spc = "wait" /\ tpc[t] = "waiting" /\ GroupHasRoom
  \/ tpc[t] = "running" /\ sent[t] <= RowCount[t]
  \/ tpc[t] = "sending" /\ Len(rowsChan) < RowsCap

CollectorReady ==
  \/ Collecting /\ (rowsChan # <<>> \/ NoMoreRows)
  \/ cpc = "write"

\* Main, spawner, tasks and collector never all wait for each other: not the
\* tasks for room in the channel, the spawner for the tasks, the collector
\* for rows or the end of them, and main for both.  They may when the rows do
\* not fit into the channel and the collector has left it, the process being
\* told to exit, or has no goroutine to run on.
NotStuck ==
  RowsFit \/ (GroupSize > 1 /\ ~exiting) =>
    \/ Ended \/ MainReady \/ SpawnerReady \/ CollectorReady
    \/ \E t \in Tasks : TaskReady(t)

\* Run and its retries end, whichever calls fail and although neither a send
\* nor the write watches a context: for certain when all rows fit into the
\* channel, and else when the process is not told to exit and there are
\* goroutines for both the spawner and the collector.
BlockEnds == RowsFit \/ (GroupSize > 1 /\ []~exiting) => <>Ended

\* The goroutines of Run and the retries around it, seen from outside.
Outcome ==
  INSTANCE BlockOutcome WITH BlockRows <- AllRows, stored <- dest,
                             over <- Ended

\* The block handler implements the single step that module Worker makes of
\* it: rows of this block only are written, the mark is set on a complete
\* block only, and no goroutine of an attempt writes once the worker has
\* gone on (Run waits for both of its goroutines, whichever fails first).
ImplementsOutcome == Outcome!Spec
==============================================================================
