-------------------------- MODULE BlockHandlerProofs --------------------------
(***************************************************************************)
(* Proofs about the processing of a block, for any processors, any number  *)
(* of rows, any capacity of the channel and any number of failing calls.   *)
(***************************************************************************)
EXTENDS BlockHandler, FiniteSetTheorems, TLAPS

USE DEF mainVars, taskVars, chanVars, ctxVars, TasksOver, GroupHasRoom,
        NoMoreRows
-----------------------------------------------------------------------------
(***************************************************************************)
(* The channel                                                             *)
(***************************************************************************)

\* A send adds a row to what is in the channel.
LEMMA RangeAppend ==
  ASSUME NEW S, NEW s \in Seq(S), NEW x \in S
  PROVE  /\ Range(s) \subseteq Range(Append(s, x))
         /\ x \in Range(Append(s, x))
<1>. DEFINE a == Append(s, x)
<1>1. /\ Len(s) \in Nat
      /\ DOMAIN s = 1 .. Len(s)
      /\ DOMAIN a = 1 .. (Len(s) + 1)
      /\ \A i \in 1 .. Len(s) : a[i] = s[i]
      /\ a[Len(s) + 1] = x
  OBVIOUS
<1>. HIDE DEF a
<1>2. x \in Range(a)
  BY <1>1 DEF Range
<1>3. Range(s) \subseteq Range(a)
  BY <1>1 DEF Range
<1>. QED BY <1>2, <1>3 DEF a

\* A receive takes one row, the others stay in the channel.
LEMMA RangeTail ==
  ASSUME NEW S, NEW s \in Seq(S), s # <<>>
  PROVE  Range(s) \subseteq {Head(s)} \cup Range(Tail(s))
<1>. DEFINE r == Tail(s)
<1>1. /\ Len(s) \in Nat /\ Len(s) # 0
      /\ DOMAIN s = 1 .. Len(s)
      /\ DOMAIN r = 1 .. (Len(s) - 1)
      /\ \A i \in 1 .. (Len(s) - 1) : r[i] = s[i + 1]
      /\ Head(s) = s[1]
  OBVIOUS
<1>. HIDE DEF r
<1>2. ASSUME NEW i \in 1 .. Len(s), i # 1
      PROVE  s[i] \in Range(r)
  <2>1. i - 1 \in 1 .. (Len(s) - 1) /\ s[(i - 1) + 1] = s[i]
    BY <1>1, <1>2
  <2>2. r[i - 1] = s[i]
    BY <1>1, <2>1
  <2>. QED BY <1>1, <2>1, <2>2 DEF Range
<1>3. Range(s) \subseteq {Head(s)} \cup Range(r)
  BY <1>1, <1>2 DEF Range
<1>. QED BY <1>3 DEF r
-----------------------------------------------------------------------------
(***************************************************************************)
(* Types                                                                   *)
(***************************************************************************)

\* The main goroutine keeps every variable in its type.
LEMMA MainType == TypeOK /\ Main => TypeOK'
<1>. SUFFICES ASSUME TypeOK, Main PROVE TypeOK'
  OBVIOUS
<1>. USE DEF TypeOK
<1>1. ASSUME AttemptFailed, failures' \in Nat,
             UNCHANGED <<marked, exiting, dest>>
      PROVE  TypeOK'
  <2>1. CASE attempt < Attempts
    <3>1. /\ tpc' = [t \in Tasks |-> "new"]
          /\ sent' = [t \in Tasks |-> 0]
          /\ rowsChan' = <<>>
          /\ closed' = FALSE /\ runFailed' = FALSE /\ taskFailed' = FALSE
      BY <1>1, <2>1 DEF AttemptFailed
    <3>2. {closed, exiting, runFailed, taskFailed, marked}' \subseteq BOOLEAN
      BY <1>1, <3>1
    <3>3. /\ rowsChan' \in Seq(Row)
          /\ tpc' \in [Tasks ->
                         {"new", "waiting", "running", "sending", "done"}]
          /\ sent' \in [Tasks -> Nat]
      BY <3>1
    <3>. QED BY <1>1, <2>1, <3>2, <3>3 DEF AttemptFailed
  <2>2. CASE ~(attempt < Attempts)
    BY <1>1, <2>2 DEF AttemptFailed
  <2>. QED BY <2>1, <2>2
<1>2. CASE LoadBlock
  BY <1>2 DEF LoadBlock
<1>3. CASE LoadFails
  BY <1>1, <1>3 DEF LoadFails, CallFails
<1>4. CASE RunSucceeds
  BY <1>4 DEF RunSucceeds
<1>5. CASE RunFails
  BY <1>1, <1>5 DEF RunFails
<1>6. CASE MarkBlock
  BY <1>6 DEF MarkBlock
<1>7. CASE MarkFails
  BY <1>7 DEF MarkFails, CallFails
<1>. QED BY <1>2, <1>3, <1>4, <1>5, <1>6, <1>7 DEF Main

\* The spawner keeps every variable in its type.
LEMMA SpawnerType == TypeOK /\ Spawner => TypeOK'
<1>. SUFFICES ASSUME TypeOK, Spawner PROVE TypeOK'
  OBVIOUS
<1>. USE DEF TypeOK
<1>1. CASE InitProcessors
  BY <1>1 DEF InitProcessors
<1>2. CASE InitFails
  BY <1>2 DEF InitFails, CallFails
<1>3. CASE CloseRows
  BY <1>3 DEF CloseRows
<1>. QED BY <1>1, <1>2, <1>3 DEF Spawner

\* A task keeps every variable in its type.
LEMMA TaskType ==
  ASSUME NEW t \in Tasks, TypeOK, Task(t)
  PROVE  TypeOK'
<1>. USE DEF TypeOK
<1>1. CASE StartTask(t)
  BY <1>1 DEF StartTask
<1>2. CASE PrepareRow(t)
  BY <1>2 DEF PrepareRow
<1>3. CASE SendRow(t)
  <2>1. <<t, sent[t] + 1>> \in Row
    BY DEF Row
  <2>2. rowsChan' \in Seq(Row)
    BY <1>3, <2>1 DEF SendRow
  <2>. QED BY <1>3, <2>2 DEF SendRow
<1>4. CASE FailTask(t)
  BY <1>4 DEF FailTask, CallFails
<1>5. CASE FinishTask(t)
  BY <1>5 DEF FinishTask
<1>. QED BY <1>1, <1>2, <1>3, <1>4, <1>5 DEF Task

\* The collector keeps every variable in its type.
LEMMA CollectorType == TypeOK /\ Collector => TypeOK'
<1>. SUFFICES ASSUME TypeOK, Collector PROVE TypeOK'
  OBVIOUS
<1>. USE DEF TypeOK
<1>1. CASE ReceiveRow
  <2>1. Head(rowsChan) \in Row /\ Tail(rowsChan) \in Seq(Row)
    BY <1>1 DEF ReceiveRow
  <2>. QED BY <1>1, <2>1 DEF ReceiveRow
<1>2. CASE StopCollecting
  BY <1>2 DEF StopCollecting
<1>3. CASE WriteRows
  BY <1>3 DEF WriteRows
<1>4. CASE WriteFails
  BY <1>4 DEF WriteFails, CallFails
<1>. QED BY <1>1, <1>2, <1>3, <1>4 DEF Collector

\* Every variable of the block handler always has its type (TypeOK).
THEOREM HandlerTypeCorrect == Spec => []TypeOK
<1>1. Init => TypeOK
  <2>. SUFFICES ASSUME Init PROVE TypeOK
    OBVIOUS
  <2>1. {closed, exiting, runFailed, taskFailed, marked} \subseteq BOOLEAN
    BY DEF Init
  <2>2. rowsChan \in Seq(Row)
    BY DEF Init
  <2>3. tpc \in [Tasks -> {"new", "waiting", "running", "sending", "done"}]
    BY DEF Init
  <2>4. sent \in [Tasks -> Nat]
    BY DEF Init
  <2>. QED BY <2>1, <2>2, <2>3, <2>4 DEF Init, TypeOK
<1>2. TypeOK /\ [Next]_vars => TypeOK'
  <2>1. TypeOK /\ Exit => TypeOK'
    BY DEF Exit, TypeOK
  <2>2. TypeOK /\ UNCHANGED vars => TypeOK'
    BY DEF vars, TypeOK
  <2>. QED
    BY <2>1, <2>2, MainType, SpawnerType, TaskType, CollectorType DEF Next
<1>. QED BY <1>1, <1>2, PTL DEF Spec
-----------------------------------------------------------------------------
(***************************************************************************)
(* A marked block is complete                                              *)
(***************************************************************************)

\* Tasks count the rows they send; one that ended without any error among
\* the tasks has sent all of its rows.
TasksCount ==
  \A t \in Tasks :
    /\ sent[t] <= RowCount[t]
    /\ tpc[t] = "sending" => sent[t] < RowCount[t]
    /\ tpc[t] = "done" /\ ~taskFailed => sent[t] = RowCount[t]

\* No row is lost between a task and the collector.
RowsConserved ==
  \A t \in Tasks : \A i \in 1 .. sent[t] :
    <<t, i>> \in rows \cup Range(rowsChan)

\* The spawner returns nil only if all tasks did, and closes the channel
\* when none is active.
SpawnerReturns ==
  /\ spc = "done" => ~taskFailed /\ \A t \in Tasks : tpc[t] = "done"
  /\ closed => spc \in {"done", "failed"}
  /\ NoSendAfterClose

\* Unless Run's context is done, the collector leaves an empty and closed
\* channel, and only a failed spawner or collector cancels that context.
CollectorDrains ==
  /\ cpc \in {"write", "done"} /\ ~exiting /\ ~runFailed
       => closed /\ rowsChan = <<>>
  /\ runFailed => "failed" \in {spc, cpc}
  /\ cpc = "done" => rows \subseteq dest

\* The mark is tried after a Run that returned nil.
MarkFollowsRun ==
  /\ rpc = "mark" => spc = "done" /\ cpc = "done"
  /\ MarkedComplete

HandlerInv ==
  /\ TasksCount
  /\ RowsConserved
  /\ SpawnerReturns
  /\ CollectorDrains
  /\ MarkFollowsRun

\* When spawner and collector returned nil and the worker's context is not
\* done, all rows of the block are in the destination.
LEMMA RunComplete ==
  ASSUME TypeOK, HandlerInv, spc = "done", cpc = "done", ~exiting
  PROVE  AllRows \subseteq dest
<1>1. ~runFailed
  BY DEF HandlerInv, CollectorDrains
<1>2. rowsChan = <<>> /\ rows \subseteq dest
  BY <1>1 DEF HandlerInv, CollectorDrains
<1>3. Range(rowsChan) = {}
  BY <1>2 DEF Range
<1>4. \A t \in Tasks : sent[t] = RowCount[t]
  BY DEF HandlerInv, SpawnerReturns, TasksCount
<1>5. ASSUME NEW t \in Tasks, NEW i \in 1 .. RowCount[t]
      PROVE  <<t, i>> \in dest
  BY <1>2, <1>3, <1>4, <1>5 DEF HandlerInv, RowsConserved
<1>. QED BY <1>5 DEF AllRows

\* A new attempt starts from an empty channel and rows that count nothing.
LEMMA AttemptInv ==
  ASSUME TypeOK, HandlerInv, AttemptFailed, UNCHANGED <<marked, exiting, dest>>
  PROVE  HandlerInv'
<1>1. MarkFollowsRun'
  BY DEF AttemptFailed, HandlerInv, MarkFollowsRun, MarkedComplete
<1>2. CASE attempt < Attempts
  <2>1. /\ spc' = "init" /\ cpc' = "collect"
        /\ tpc' = [t \in Tasks |-> "new"]
        /\ sent' = [t \in Tasks |-> 0]
        /\ closed' = FALSE /\ runFailed' = FALSE
    BY <1>2 DEF AttemptFailed
  <2>2. TasksCount'
    BY <2>1, BlockHandlerAssumption DEF TasksCount
  <2>3. RowsConserved'
    BY <2>1 DEF RowsConserved
  <2>4. SpawnerReturns' /\ CollectorDrains'
    BY <2>1 DEF SpawnerReturns, NoSendAfterClose, CollectorDrains
  <2>. QED BY <1>1, <2>2, <2>3, <2>4 DEF HandlerInv
<1>3. CASE ~(attempt < Attempts)
  <2>1. UNCHANGED <<spc, cpc, tpc, sent, rowsChan, closed, rows, runFailed,
                    taskFailed>>
    BY <1>3 DEF AttemptFailed
  <2>. QED BY <1>1, <2>1
           DEF HandlerInv, TasksCount, RowsConserved, SpawnerReturns,
               NoSendAfterClose, Active, CollectorDrains
<1>. QED BY <1>2, <1>3

\* The main goroutine marks a block only after a complete Run.
LEMMA MainInv ==
  ASSUME TypeOK, HandlerInv, Main
  PROVE  HandlerInv'
<1>1. CASE LoadFails
  BY <1>1, AttemptInv DEF LoadFails
<1>2. CASE RunFails
  BY <1>2, AttemptInv DEF RunFails
<1>3. CASE LoadBlock \/ RunSucceeds \/ MarkBlock \/ MarkFails
  <2>1. UNCHANGED <<spc, cpc, tpc, sent, rowsChan, closed, rows, exiting,
                    runFailed, taskFailed, dest>>
    BY <1>3 DEF LoadBlock, RunSucceeds, MarkBlock, MarkFails
  <2>2. MarkFollowsRun'
    <3>1. CASE LoadBlock
      BY <3>1 DEF LoadBlock, HandlerInv, MarkFollowsRun, MarkedComplete
    <3>2. CASE RunSucceeds
      BY <3>2 DEF RunSucceeds, HandlerInv, MarkFollowsRun, MarkedComplete
    <3>3. CASE MarkBlock
      <4>1. AllRows \subseteq dest
        BY <3>3, RunComplete DEF MarkBlock, HandlerInv, MarkFollowsRun
      <4>. QED BY <2>1, <3>3, <4>1 DEF MarkBlock, MarkFollowsRun, MarkedComplete
    <3>4. CASE MarkFails
      BY <3>4 DEF MarkFails, HandlerInv, MarkFollowsRun, MarkedComplete
    <3>. QED BY <1>3, <3>1, <3>2, <3>3, <3>4
  <2>. QED BY <2>1, <2>2
           DEF HandlerInv, TasksCount, RowsConserved, SpawnerReturns,
               NoSendAfterClose, Active, CollectorDrains
<1>. QED BY <1>1, <1>2, <1>3 DEF Main

\* The spawner closes the channel behind the last task and passes on errors.
LEMMA SpawnerInv ==
  ASSUME TypeOK, HandlerInv, Spawner
  PROVE  HandlerInv'
<1>. USE DEF HandlerInv
<1>1. UNCHANGED <<rpc, marked, cpc, sent, rowsChan, rows, exiting, taskFailed,
                  dest>>
  BY DEF Spawner, InitProcessors, InitFails, CloseRows
<1>2. RowsConserved'
  BY <1>1 DEF RowsConserved
<1>3. MarkFollowsRun'
  BY <1>1 DEF Spawner, InitProcessors, InitFails, CloseRows, MarkFollowsRun,
              MarkedComplete
<1>4. CASE InitProcessors
  <2>1. TasksCount'
    BY <1>1, <1>4 DEF InitProcessors, TasksCount
  <2>2. SpawnerReturns' /\ CollectorDrains'
    BY <1>1, <1>4 DEF InitProcessors, SpawnerReturns, NoSendAfterClose, Active,
                      CollectorDrains
  <2>. QED BY <1>2, <1>3, <2>1, <2>2
<1>5. CASE InitFails
  BY <1>1, <1>2, <1>3, <1>5
  DEF InitFails, TasksCount, SpawnerReturns, NoSendAfterClose, Active,
      CollectorDrains
<1>6. CASE CloseRows
  <2>1. TasksCount'
    BY <1>1, <1>6 DEF CloseRows, TasksCount
  <2>2. SpawnerReturns'
    BY <1>1, <1>6 DEF CloseRows, SpawnerReturns, NoSendAfterClose, Active
  <2>3. CollectorDrains'
    <3>1. runFailed' => "failed" \in {spc', cpc'}
      BY <1>1, <1>6 DEF CloseRows, CollectorDrains
    <3>2. cpc \in {"write", "done"} /\ ~exiting /\ ~runFailed => rowsChan = <<>>
      BY DEF CollectorDrains
    <3>3. closed' /\ (~runFailed' => ~runFailed)
      BY <1>6 DEF CloseRows
    <3>. QED BY <1>1, <3>1, <3>2, <3>3 DEF CollectorDrains
  <2>. QED BY <1>2, <1>3, <2>1, <2>2, <2>3
<1>. QED BY <1>4, <1>5, <1>6 DEF Spawner

\* A task counts the rows it sends, and sends into an open channel only.
LEMMA TaskInv ==
  ASSUME NEW t \in Tasks, TypeOK, HandlerInv, Task(t)
  PROVE  HandlerInv'
<1>. USE DEF HandlerInv
<1>1. UNCHANGED
        <<rpc, marked, spc, cpc, closed, rows, exiting, runFailed, dest>>
  BY DEF Task, StartTask, PrepareRow, SendRow, FailTask, FinishTask
<1>2. ~closed /\ spc \notin {"done"}
  <2>1. Active(t) \/ spc = "wait"
    BY DEF Task, StartTask, PrepareRow, SendRow, FailTask, FinishTask, Active
  <2>2. CASE spc = "wait"
    BY <2>2 DEF SpawnerReturns
  <2>3. CASE Active(t)
    BY <2>3 DEF SpawnerReturns, NoSendAfterClose, Active
  <2>. QED BY <2>1, <2>2, <2>3
<1>3. SpawnerReturns' /\ MarkFollowsRun'
  BY <1>1, <1>2 DEF SpawnerReturns, NoSendAfterClose, MarkFollowsRun,
                    MarkedComplete
<1>4. CollectorDrains'
  BY <1>1, <1>2 DEF CollectorDrains
<1>5. CASE SendRow(t)
  <2>1. TasksCount'
    <3>1. SUFFICES ASSUME NEW u \in Tasks
                   PROVE  (/\ sent[u] <= RowCount[u]
                           /\ tpc[u] = "sending" => sent[u] < RowCount[u]
                           /\ tpc[u] = "done" /\ ~taskFailed
                                => sent[u] = RowCount[u])'
      BY DEF TasksCount
    <3>2. CASE u = t
      <4>1. sent[t] \in Nat /\ RowCount[t] \in Nat /\ sent[t] < RowCount[t]
        BY <1>5, BlockHandlerAssumption DEF SendRow, TasksCount, TypeOK
      <4>2. sent'[t] = sent[t] + 1 /\ tpc'[t] = "running"
        BY <1>5 DEF SendRow, TypeOK
      <4>. QED BY <3>2, <4>1, <4>2
    <3>3. CASE u # t
      <4>1. sent'[u] = sent[u] /\ tpc'[u] = tpc[u] /\ taskFailed' = taskFailed
        BY <1>5, <3>3 DEF SendRow, TypeOK
      <4>. QED BY <4>1 DEF TasksCount
    <3>. QED BY <3>2, <3>3
  <2>2. RowsConserved'
    <3>1. <<t, sent[t] + 1>> \in Row
      BY DEF TypeOK, Row
    <3>2. /\ Range(rowsChan) \subseteq Range(rowsChan')
          /\ <<t, sent[t] + 1>> \in Range(rowsChan')
      BY <1>5, <3>1, RangeAppend DEF SendRow, TypeOK
    <3>3. SUFFICES ASSUME NEW u \in Tasks, NEW i \in 1 .. sent'[u]
                   PROVE  <<u, i>> \in rows' \cup Range(rowsChan')
      BY DEF RowsConserved
    <3>4. i \in 1 .. sent[u] \/ (u = t /\ i = sent[t] + 1)
      BY <1>5 DEF SendRow, TypeOK
    <3>. QED BY <1>1, <3>2, <3>4 DEF RowsConserved
  <2>. QED BY <1>3, <1>4, <2>1, <2>2
<1>6. CASE StartTask(t) \/ PrepareRow(t) \/ FailTask(t) \/ FinishTask(t)
  <2>1. UNCHANGED <<sent, rowsChan>>
    BY <1>6 DEF StartTask, PrepareRow, FailTask, FinishTask
  <2>2. RowsConserved'
    BY <1>1, <2>1 DEF RowsConserved
  <2>3. TasksCount'
    BY <1>6, <2>1
    DEF StartTask, PrepareRow, FailTask, FinishTask, TasksCount, TypeOK
  <2>. QED BY <1>3, <1>4, <2>2, <2>3
<1>. QED BY <1>5, <1>6 DEF Task

\* The collector loses no row it received.
LEMMA CollectorInv ==
  ASSUME TypeOK, HandlerInv, Collector
  PROVE  HandlerInv'
<1>. USE DEF HandlerInv
<1>1. UNCHANGED <<rpc, marked, spc, tpc, sent, closed, exiting, taskFailed>>
  BY DEF Collector, ReceiveRow, StopCollecting, WriteRows, WriteFails
<1>2. TasksCount' /\ SpawnerReturns'
  BY <1>1 DEF TasksCount, SpawnerReturns, NoSendAfterClose, Active
<1>3. MarkFollowsRun'
  <2>1. dest \subseteq dest'
    BY DEF Collector, ReceiveRow, StopCollecting, WriteRows, WriteFails
  <2>2. cpc # "done"
    BY DEF Collector, ReceiveRow, StopCollecting, WriteRows, WriteFails,
           Collecting
  <2>. QED BY <1>1, <2>1, <2>2 DEF MarkFollowsRun, MarkedComplete
<1>4. CASE ReceiveRow
  <2>1. Range(rowsChan) \subseteq {Head(rowsChan)} \cup Range(rowsChan')
    BY <1>4, RangeTail DEF ReceiveRow, TypeOK
  <2>2. RowsConserved'
    BY <1>1, <1>4, <2>1 DEF ReceiveRow, RowsConserved
  <2>3. CollectorDrains'
    BY <1>1, <1>4 DEF ReceiveRow, Collecting, CollectorDrains
  <2>. QED BY <1>2, <1>3, <2>2, <2>3
<1>5. CASE StopCollecting \/ WriteRows \/ WriteFails
  <2>1. UNCHANGED <<rows, rowsChan>>
    BY <1>5 DEF StopCollecting, WriteRows, WriteFails
  <2>2. RowsConserved'
    BY <1>1, <2>1 DEF RowsConserved
  <2>3. CASE StopCollecting
    <3>1. /\ cpc = "collect" /\ cpc' = "write" /\ runFailed' = runFailed
          /\ ~exiting /\ ~runFailed => closed /\ rowsChan = <<>>
      BY <2>3 DEF StopCollecting, Collecting, RunDone
    <3>. QED BY <1>1, <1>2, <1>3, <2>1, <2>2, <3>1 DEF CollectorDrains
  <2>4. CASE WriteRows
    <3>1. /\ cpc = "write" /\ cpc' = "done" /\ runFailed' = runFailed
          /\ rows \subseteq dest'
      BY <2>4 DEF WriteRows
    <3>. QED BY <1>1, <1>2, <1>3, <2>1, <2>2, <3>1 DEF CollectorDrains
  <2>5. CASE WriteFails
    <3>1. cpc' = "failed"
      BY <2>5 DEF WriteFails
    <3>. QED BY <1>2, <1>3, <2>2, <3>1 DEF CollectorDrains
  <2>. QED BY <1>5, <2>3, <2>4, <2>5
<1>. QED BY <1>4, <1>5 DEF Collector

\* HandlerInv is inductive.
LEMMA HandlerInvariant == Spec => []HandlerInv
<1>1. Init => HandlerInv
  <2>. SUFFICES ASSUME Init PROVE HandlerInv
    OBVIOUS
  <2>1. TasksCount /\ RowsConserved
    BY BlockHandlerAssumption DEF Init, TasksCount, RowsConserved
  <2>2. SpawnerReturns /\ CollectorDrains /\ MarkFollowsRun
    BY DEF Init, SpawnerReturns, NoSendAfterClose, CollectorDrains,
           MarkFollowsRun, MarkedComplete
  <2>. QED BY <2>1, <2>2 DEF HandlerInv
<1>2. TypeOK /\ HandlerInv /\ [Next]_vars => HandlerInv'
  <2>. SUFFICES ASSUME TypeOK, HandlerInv, [Next]_vars PROVE HandlerInv'
    OBVIOUS
  <2>1. CASE Exit \/ UNCHANGED vars
    <3>1. /\ UNCHANGED <<rpc, marked, spc, cpc, tpc, sent, rowsChan, closed,
                         rows, runFailed, taskFailed, dest>>
          /\ ~exiting' => ~exiting
      BY <2>1 DEF Exit, vars
    <3>. QED BY <3>1
             DEF HandlerInv, TasksCount, RowsConserved, SpawnerReturns,
                 NoSendAfterClose, Active, CollectorDrains, MarkFollowsRun,
                 MarkedComplete
  <2>. QED BY <2>1, MainInv, SpawnerInv, TaskInv, CollectorInv DEF Next
<1>. QED BY <1>1, <1>2, HandlerTypeCorrect, PTL DEF Spec

\* A block is marked as indexed only when all its rows are in the
\* destination (Run and start), whenever calls fail or the process exits.
THEOREM MarkedIsComplete == Spec => []MarkedComplete
<1>1. HandlerInv => MarkedComplete
  BY DEF HandlerInv, MarkFollowsRun
<1>. QED BY <1>1, HandlerInvariant, PTL

\* No task sends into the closed channel (spawnProcessors).
THEOREM ClosedAfterSends == Spec => []NoSendAfterClose
<1>1. HandlerInv => NoSendAfterClose
  BY DEF HandlerInv, SpawnerReturns
<1>. QED BY <1>1, HandlerInvariant, PTL
-----------------------------------------------------------------------------
(***************************************************************************)
(* The goroutines implement one step of the worker                         *)
(***************************************************************************)

\* Rows are of this block wherever they are, and an attempt that is over
\* has no collector left that could write.
OutcomeInv ==
  /\ cpc = "write" => rpc = "wait"
  /\ Range(rowsChan) \subseteq AllRows
  /\ rows \subseteq AllRows
  /\ dest \subseteq AllRows

\* The next row a task sends is one of the block's.
LEMMA NextRow ==
  ASSUME NEW t \in Tasks, TypeOK, HandlerInv, tpc[t] = "sending"
  PROVE  <<t, sent[t] + 1>> \in AllRows
<1>1. /\ sent[t] \in Nat /\ RowCount[t] \in Nat
      /\ sent[t] < RowCount[t]
  BY BlockHandlerAssumption DEF HandlerInv, TasksCount, TypeOK
<1>2. sent[t] + 1 \in 1 .. RowCount[t]
  BY <1>1
<1>. QED BY <1>2 DEF AllRows

\* A new attempt begins without rows.
LEMMA AttemptOutcome ==
  ASSUME OutcomeInv, AttemptFailed, cpc # "write", UNCHANGED dest
  PROVE  OutcomeInv'
<1>1. CASE attempt < Attempts
  <2>1. cpc' = "collect" /\ rowsChan' = <<>> /\ rows' = {}
    BY <1>1 DEF AttemptFailed
  <2>2. Range(rowsChan') = {}
    BY <2>1 DEF Range
  <2>. QED BY <2>1, <2>2 DEF OutcomeInv, AllRows
<1>2. CASE ~(attempt < Attempts)
  BY <1>2 DEF AttemptFailed, OutcomeInv, AllRows
<1>. QED BY <1>1, <1>2

\* The main goroutine leaves the rows where they are.
LEMMA MainOutcome ==
  ASSUME OutcomeInv, Main
  PROVE  OutcomeInv'
<1>1. CASE LoadFails
  BY <1>1, AttemptOutcome DEF LoadFails, OutcomeInv
<1>2. CASE RunFails
  <2>1. cpc # "write"
    BY <1>2 DEF RunFails
  <2>. QED BY <1>2, <2>1, AttemptOutcome DEF RunFails
<1>3. CASE LoadBlock \/ RunSucceeds \/ MarkBlock \/ MarkFails
  <2>1. /\ UNCHANGED <<cpc, rowsChan, rows, dest>>
        /\ rpc = "wait" => cpc # "write"
    BY <1>3 DEF LoadBlock, RunSucceeds, MarkBlock, MarkFails
  <2>. QED BY <1>3, <2>1
           DEF LoadBlock, RunSucceeds, MarkBlock, MarkFails, OutcomeInv, AllRows
<1>. QED BY <1>1, <1>2, <1>3 DEF Main

\* A task sends rows of the block only.
LEMMA TaskOutcome ==
  ASSUME NEW t \in Tasks, TypeOK, HandlerInv, OutcomeInv, Task(t)
  PROVE  OutcomeInv'
<1>1. UNCHANGED <<rpc, cpc, rows, dest>>
  BY DEF Task, StartTask, PrepareRow, SendRow, FailTask, FinishTask
<1>2. Range(rowsChan') \subseteq AllRows
  <2>1. CASE SendRow(t)
    <3>. DEFINE row == <<t, sent[t] + 1>>
    <3>1. row \in AllRows
      BY <2>1, NextRow DEF SendRow
    <3>2. /\ rowsChan \in Seq(Row)
          /\ rowsChan' = Append(rowsChan, row)
      BY <2>1 DEF SendRow, TypeOK
    <3>. HIDE DEF row
    <3>3. \A i \in DOMAIN Append(rowsChan, row) :
            \/ Append(rowsChan, row)[i] = row
            \/ i \in DOMAIN rowsChan /\ Append(rowsChan, row)[i] = rowsChan[i]
      BY <3>2
    <3>. QED BY <3>1, <3>2, <3>3 DEF OutcomeInv, Range
  <2>2. CASE ~SendRow(t)
    <3>1. rowsChan' = rowsChan
      BY <2>2 DEF Task, StartTask, PrepareRow, FailTask, FinishTask
    <3>. QED BY <3>1 DEF OutcomeInv
  <2>. QED BY <2>1, <2>2
<1>. QED BY <1>1, <1>2 DEF OutcomeInv, AllRows

\* The collector writes what it received, while Run waits for it.
LEMMA CollectorOutcome ==
  ASSUME TypeOK, OutcomeInv, Collector
  PROVE  OutcomeInv'
<1>1. CASE ReceiveRow
  <2>1. /\ Head(rowsChan) \in Range(rowsChan)
        /\ Range(Tail(rowsChan)) \subseteq Range(rowsChan)
    <3>1. rowsChan \in Seq(Row) /\ rowsChan # <<>>
      BY <1>1 DEF ReceiveRow, TypeOK
    <3>2. Head(rowsChan) = rowsChan[1] /\ 1 \in DOMAIN rowsChan
      BY <3>1
    <3>3. \A i \in DOMAIN Tail(rowsChan) :
            i + 1 \in DOMAIN rowsChan /\ Tail(rowsChan)[i] = rowsChan[i + 1]
      BY <3>1
    <3>. QED BY <3>2, <3>3 DEF Range
  <2>2. Head(rowsChan) \in AllRows /\ Range(Tail(rowsChan)) \subseteq AllRows
    BY <2>1 DEF OutcomeInv
  <2>. QED BY <1>1, <2>2 DEF ReceiveRow, OutcomeInv, AllRows
<1>2. CASE StopCollecting
  BY <1>2 DEF StopCollecting, Collecting, OutcomeInv, AllRows
<1>3. CASE WriteRows
  BY <1>3 DEF WriteRows, OutcomeInv, AllRows
<1>4. CASE WriteFails
  <2>1. dest' \subseteq dest \cup rows
    BY <1>4 DEF WriteFails
  <2>. QED BY <1>4, <2>1 DEF WriteFails, OutcomeInv, AllRows
<1>. QED BY <1>1, <1>2, <1>3, <1>4 DEF Collector

\* OutcomeInv is inductive.
LEMMA OutcomeInvariant == Spec => []OutcomeInv
<1>1. Init => OutcomeInv
  BY DEF Init, OutcomeInv, Range
<1>2. TypeOK /\ HandlerInv /\ OutcomeInv /\ [Next]_vars => OutcomeInv'
  <2>. SUFFICES ASSUME TypeOK, HandlerInv, OutcomeInv, [Next]_vars
                PROVE  OutcomeInv'
    OBVIOUS
  <2>1. CASE Exit \/ Spawner \/ UNCHANGED vars
    <3>1. UNCHANGED <<rpc, cpc, rowsChan, rows, dest>>
      BY <2>1 DEF Exit, Spawner, InitProcessors, InitFails, CloseRows, vars
    <3>. QED BY <3>1 DEF OutcomeInv, AllRows
  <2>. QED BY <2>1, MainOutcome, TaskOutcome, CollectorOutcome DEF Next
<1>. QED BY <1>1, <1>2, HandlerTypeCorrect, HandlerInvariant, PTL DEF Spec

OutcomeVars == <<dest, marked, Ended>>

\* The main goroutine marks a complete block, leaves it, or goes on.
LEMMA MainStep ==
  ASSUME TypeOK, HandlerInv, OutcomeInv, Main
  PROVE  [Outcome!Next]_OutcomeVars
<1>. USE DEF OutcomeVars, Ended
<1>1. CASE MarkBlock
  <2>1. AllRows \subseteq dest
    BY <1>1, RunComplete DEF MarkBlock, HandlerInv, MarkFollowsRun
  <2>2. dest = AllRows
    BY <2>1 DEF OutcomeInv
  <2>3. Outcome!Mark
    BY <1>1, <2>2 DEF MarkBlock, Outcome!Mark
  <2>. QED BY <2>3 DEF Outcome!Next
<1>2. CASE ~MarkBlock
  <2>1. ~Ended /\ UNCHANGED <<dest, marked>>
    BY <1>2 DEF Main, LoadBlock, LoadFails, RunSucceeds, RunFails, MarkFails
  <2>2. CASE Ended'
    <3>1. Outcome!Leave
      BY <2>1, <2>2 DEF Outcome!Leave
    <3>. QED BY <3>1 DEF Outcome!Next
  <2>3. CASE ~Ended'
    BY <2>1, <2>3
  <2>. QED BY <2>2, <2>3
<1>. QED BY <1>1, <1>2

\* The collector stores rows of the block, before the worker goes on.
LEMMA CollectorStep ==
  ASSUME OutcomeInv, OutcomeInv', Collector
  PROVE  [Outcome!Next]_OutcomeVars
<1>. USE DEF OutcomeVars, Ended
<1>1. UNCHANGED <<rpc, marked>>
  BY DEF Collector, ReceiveRow, StopCollecting, WriteRows, WriteFails
<1>2. CASE WriteRows \/ WriteFails
  <2>1. cpc = "write" /\ dest \subseteq dest'
    BY <1>2 DEF WriteRows, WriteFails
  <2>2. rpc = "wait" /\ dest' \subseteq AllRows
    BY <2>1 DEF OutcomeInv, AllRows
  <2>3. Outcome!Store
    BY <1>1, <2>1, <2>2 DEF Outcome!Store
  <2>. QED BY <2>3 DEF Outcome!Next
<1>3. CASE ReceiveRow \/ StopCollecting
  BY <1>1, <1>3 DEF ReceiveRow, StopCollecting
<1>. QED BY <1>2, <1>3 DEF Collector

\* The processing of a block implements the one step that the pipeline takes
\* it for (indexBlockWithRetry): what its goroutines do adds up to storing
\* rows of this block and then marking it, complete, or leaving it.
THEOREM HandlerImplementsOutcome == Spec => ImplementsOutcome
<1>1. Init => Outcome!Init
  BY DEF Init, Outcome!Init, Ended
<1>2. /\ TypeOK /\ HandlerInv /\ OutcomeInv /\ OutcomeInv' /\ [Next]_vars
      => [Outcome!Next]_OutcomeVars
  <2>. SUFFICES ASSUME TypeOK, HandlerInv, OutcomeInv, OutcomeInv', [Next]_vars
                PROVE  [Outcome!Next]_OutcomeVars
    OBVIOUS
  <2>1. CASE \/ Exit \/ Spawner \/ UNCHANGED vars
             \/ \E t \in Tasks : Task(t)
    <3>1. UNCHANGED <<rpc, marked, dest>>
      BY <2>1 DEF Exit, Spawner, InitProcessors, InitFails, CloseRows, vars,
                  Task, StartTask, PrepareRow, SendRow, FailTask, FinishTask
    <3>. QED BY <3>1 DEF OutcomeVars, Ended
  <2>. QED BY <2>1, MainStep, CollectorStep DEF Next
<1>. QED BY <1>1, <1>2, HandlerTypeCorrect, HandlerInvariant, OutcomeInvariant,
            PTL
         DEF Spec, ImplementsOutcome, Outcome!Spec, OutcomeVars
-----------------------------------------------------------------------------
(***************************************************************************)
(* The goroutines do not all wait for each other                           *)
(***************************************************************************)

\* What the others see once the spawner has returned, and that the collector
\* leaves before it only when the process is told to exit.
SpawnerSeen ==
  /\ spc = "wait" => \A t \in Tasks : tpc[t] # "new"
  /\ spc = "done" => closed
  /\ spc = "failed" => runFailed
  /\ ~exiting /\ cpc # "collect" => spc \in {"done", "failed"}

\* The channel holds no row twice, and none that is not yet sent.
RowsOnce ==
  /\ IsInjective(rowsChan)
  /\ \A i \in DOMAIN rowsChan :
       rowsChan[i][2] <= sent[rowsChan[i][1]]

ReadyInv == SpawnerSeen /\ RowsOnce

LEMMA AttemptReady ==
  ASSUME ReadyInv, AttemptFailed, UNCHANGED exiting
  PROVE  ReadyInv'
<1>1. CASE attempt < Attempts
  <2>1. spc' = "init" /\ cpc' = "collect" /\ rowsChan' = <<>>
    BY <1>1 DEF AttemptFailed
  <2>2. SpawnerSeen'
    BY <2>1 DEF SpawnerSeen
  <2>3. RowsOnce'
    BY <2>1 DEF RowsOnce, IsInjective
  <2>. QED BY <2>2, <2>3 DEF ReadyInv
<1>2. CASE ~(attempt < Attempts)
  BY <1>2 DEF AttemptFailed, ReadyInv, SpawnerSeen, RowsOnce, IsInjective
<1>. QED BY <1>1, <1>2

LEMMA MainReadyInv ==
  ASSUME ReadyInv, Main
  PROVE  ReadyInv'
<1>1. CASE LoadFails \/ RunFails
  BY <1>1, AttemptReady DEF LoadFails, RunFails
<1>2. CASE LoadBlock \/ RunSucceeds \/ MarkBlock \/ MarkFails
  <2>1. UNCHANGED <<spc, cpc, tpc, sent, rowsChan, closed, exiting, runFailed>>
    BY <1>2 DEF LoadBlock, RunSucceeds, MarkBlock, MarkFails
  <2>. QED BY <2>1 DEF ReadyInv, SpawnerSeen, RowsOnce, IsInjective
<1>. QED BY <1>1, <1>2 DEF Main

LEMMA SpawnerReadyInv ==
  ASSUME TypeOK, ReadyInv, Spawner
  PROVE  ReadyInv'
<1>1. UNCHANGED <<cpc, sent, rowsChan, exiting>>
  BY DEF Spawner, InitProcessors, InitFails, CloseRows
<1>2. RowsOnce'
  BY <1>1 DEF ReadyInv, RowsOnce, IsInjective
<1>3. SpawnerSeen'
  <2>1. CASE InitProcessors
    BY <1>1, <2>1 DEF InitProcessors, ReadyInv, SpawnerSeen
  <2>2. CASE InitFails
    BY <1>1, <2>2 DEF InitFails, ReadyInv, SpawnerSeen
  <2>3. CASE CloseRows
    BY <1>1, <2>3 DEF CloseRows, ReadyInv, SpawnerSeen
  <2>. QED BY <2>1, <2>2, <2>3 DEF Spawner
<1>. QED BY <1>2, <1>3 DEF ReadyInv

\* Sending the next row of a task puts a new one into the channel.
LEMMA SendReadyInv ==
  ASSUME NEW t \in Tasks, TypeOK, RowsOnce, SendRow(t)
  PROVE  RowsOnce'
<1>. DEFINE row == <<t, sent[t] + 1>>
            next == Append(rowsChan, row)
            n == Len(rowsChan)
<1>1. /\ rowsChan \in Seq(Row) /\ rowsChan' = next
      /\ sent[t] \in Nat /\ sent \in [Tasks -> Nat]
      /\ sent' = [sent EXCEPT ![t] = sent[t] + 1]
  BY DEF SendRow, TypeOK
<1>2. row \in Row /\ row[1] = t /\ row[2] = sent[t] + 1
  BY <1>1 DEF Row
<1>3. \A i \in DOMAIN rowsChan :
        /\ rowsChan[i][1] \in Tasks /\ rowsChan[i][2] \in Nat
        /\ rowsChan[i][2] <= sent[rowsChan[i][1]]
        /\ rowsChan[i] # row
  <2>. TAKE i \in DOMAIN rowsChan
  <2>1. rowsChan[i] \in Row
    BY <1>1
  <2>2. rowsChan[i][1] \in Tasks /\ rowsChan[i][2] \in Nat
    BY <2>1 DEF Row
  <2>3. rowsChan[i][2] <= sent[rowsChan[i][1]]
    BY DEF RowsOnce
  <2>. HIDE DEF row
  <2>4. rowsChan[i] # row
    <3>1. SUFFICES ASSUME rowsChan[i] = row PROVE FALSE
      OBVIOUS
    <3>2. sent[t] + 1 <= sent[t]
      BY <1>2, <2>3, <3>1
    <3>. QED BY <1>1, <3>2
  <2>. QED BY <2>2, <2>3, <2>4
<1>. HIDE DEF row
<1>4. /\ n \in Nat /\ DOMAIN rowsChan = 1 .. n /\ DOMAIN next = 1 .. (n + 1)
      /\ \A i \in 1 .. n : next[i] = rowsChan[i]
      /\ next[n + 1] = row
  BY <1>1, <1>2
<1>. HIDE DEF next, n
<1>5. IsInjective(next)
  <2>1. SUFFICES ASSUME NEW i \in 1 .. (n + 1), NEW j \in 1 .. (n + 1),
                        next[i] = next[j]
                 PROVE  i = j
    BY <1>4 DEF IsInjective
  <2>2. (i \in 1 .. n \/ i = n + 1) /\ (j \in 1 .. n \/ j = n + 1)
    BY <1>4
  <2>3. CASE i \in 1 .. n /\ j \in 1 .. n
    BY <1>4, <2>1, <2>3 DEF RowsOnce, IsInjective
  <2>. QED BY <1>3, <1>4, <2>1, <2>2, <2>3
<1>6. \A i \in DOMAIN next : next[i][2] <= sent'[next[i][1]]
  <2>. SUFFICES ASSUME NEW i \in 1 .. (n + 1)
                PROVE  next[i][2] <= sent'[next[i][1]]
    BY <1>4
  <2>1. CASE i \in 1 .. n
    <3>. DEFINE u == rowsChan[i][1]
                k == rowsChan[i][2]
    <3>1. next[i] = rowsChan[i] /\ u \in Tasks /\ k \in Nat /\ k <= sent[u]
      BY <1>3, <1>4, <2>1
    <3>. HIDE DEF u, k
    <3>2. sent[u] \in Nat /\ sent'[u] \in {sent[u], sent[u] + 1}
      BY <1>1, <3>1
    <3>3. k <= sent'[u]
      BY <3>1, <3>2
    <3>. QED BY <3>1, <3>3 DEF u, k
  <2>2. CASE i = n + 1
    <3>1. next[i] = row /\ sent'[t] = sent[t] + 1
      BY <1>1, <1>4, <2>2
    <3>. QED BY <1>1, <1>2, <3>1
  <2>. QED BY <1>4, <2>1, <2>2
<1>. QED BY <1>1, <1>5, <1>6 DEF RowsOnce

LEMMA TaskReadyInv ==
  ASSUME NEW t \in Tasks, TypeOK, ReadyInv, Task(t)
  PROVE  ReadyInv'
<1>1. UNCHANGED <<spc, cpc, closed, exiting, runFailed>>
  BY DEF Task, StartTask, PrepareRow, SendRow, FailTask, FinishTask
<1>2. \A u \in Tasks : tpc[u] # "new" => tpc'[u] # "new"
  BY DEF Task, StartTask, PrepareRow, SendRow, FailTask, FinishTask, TypeOK
<1>3. SpawnerSeen'
  BY <1>1, <1>2 DEF ReadyInv, SpawnerSeen
<1>4. RowsOnce'
  <2>1. CASE SendRow(t)
    BY <2>1, SendReadyInv DEF ReadyInv
  <2>2. CASE ~SendRow(t)
    <3>1. UNCHANGED <<sent, rowsChan>>
      BY <2>2 DEF Task, StartTask, PrepareRow, FailTask, FinishTask
    <3>. QED BY <3>1 DEF ReadyInv, RowsOnce, IsInjective
  <2>. QED BY <2>1, <2>2
<1>. QED BY <1>3, <1>4 DEF ReadyInv

LEMMA CollectorReadyInv ==
  ASSUME TypeOK, HandlerInv, ReadyInv, Collector
  PROVE  ReadyInv'
<1>1. UNCHANGED <<spc, tpc, sent, closed, exiting>>
  BY DEF Collector, ReceiveRow, StopCollecting, WriteRows, WriteFails
<1>2. SpawnerSeen'
  <2>1. runFailed => runFailed'
    BY DEF Collector, ReceiveRow, StopCollecting, WriteRows, WriteFails
  <2>2. ~exiting /\ cpc' # "collect" => spc \in {"done", "failed"}
    <3>1. CASE StopCollecting
      BY <3>1 DEF StopCollecting, Collecting, RunDone, HandlerInv,
                  SpawnerReturns, CollectorDrains
    <3>2. CASE ReceiveRow \/ WriteRows \/ WriteFails
      BY <3>2 DEF ReceiveRow, WriteRows, WriteFails, Collecting, ReadyInv,
                  SpawnerSeen
    <3>. QED BY <3>1, <3>2 DEF Collector
  <2>. QED BY <1>1, <2>1, <2>2 DEF ReadyInv, SpawnerSeen
<1>3. RowsOnce'
  <2>1. CASE ReceiveRow
    <3>1. /\ rowsChan \in Seq(Row) /\ rowsChan # <<>>
          /\ rowsChan' = Tail(rowsChan)
      BY <2>1 DEF ReceiveRow, TypeOK
    <3>2. \A i \in DOMAIN rowsChan' :
            /\ i \in Int /\ i + 1 \in DOMAIN rowsChan
            /\ rowsChan'[i] = rowsChan[i + 1]
      BY <3>1
    <3>3. IsInjective(rowsChan')
      <4>1. SUFFICES ASSUME NEW i \in DOMAIN rowsChan',
                            NEW j \in DOMAIN rowsChan',
                            rowsChan'[i] = rowsChan'[j]
                     PROVE  i = j
        BY DEF IsInjective
      <4>2. i + 1 = j + 1
        BY <3>2, <4>1 DEF ReadyInv, RowsOnce, IsInjective
      <4>. QED BY <3>2, <4>2
    <3>. QED BY <1>1, <3>2, <3>3 DEF ReadyInv, RowsOnce
  <2>2. CASE ~ReceiveRow
    <3>1. rowsChan' = rowsChan
      BY <2>2 DEF Collector, StopCollecting, WriteRows, WriteFails
    <3>. QED BY <1>1, <3>1 DEF ReadyInv, RowsOnce, IsInjective
  <2>. QED BY <2>1, <2>2
<1>. QED BY <1>2, <1>3 DEF ReadyInv

LEMMA ReadyInvariant == Spec => []ReadyInv
<1>1. Init => ReadyInv
  BY DEF Init, ReadyInv, SpawnerSeen, RowsOnce, IsInjective
<1>2. TypeOK /\ HandlerInv /\ ReadyInv /\ [Next]_vars => ReadyInv'
  <2>. SUFFICES ASSUME TypeOK, HandlerInv, ReadyInv, [Next]_vars
                PROVE  ReadyInv'
    OBVIOUS
  <2>1. CASE Exit \/ UNCHANGED vars
    <3>1. /\ UNCHANGED <<spc, cpc, tpc, sent, rowsChan, closed, runFailed>>
          /\ ~exiting' => ~exiting
      BY <2>1 DEF Exit, vars
    <3>. QED BY <3>1 DEF ReadyInv, SpawnerSeen, RowsOnce, IsInjective
  <2>. QED BY <2>1, MainReadyInv, SpawnerReadyInv, TaskReadyInv,
              CollectorReadyInv
           DEF Next
<1>. QED BY <1>1, <1>2, HandlerTypeCorrect, HandlerInvariant, PTL DEF Spec

LEMMA FiniteRows == IsFiniteSet(AllRows)
<1>. DEFINE f == [t \in Tasks |-> {t} \X (1 .. RowCount[t])]
            S == {{t} \X (1 .. RowCount[t]) : t \in Tasks}
<1>1. f \in Surjection(Tasks, S)
  BY DEF Surjection
<1>2. IsFiniteSet(S)
  BY <1>1, FS_Surjection, BlockHandlerAssumption
<1>3. ASSUME NEW t \in Tasks PROVE IsFiniteSet({t} \X (1 .. RowCount[t]))
  <2>1. RowCount[t] \in Int /\ 1 \in Int
    BY BlockHandlerAssumption
  <2>2. IsFiniteSet(1 .. RowCount[t]) /\ IsFiniteSet({t})
    BY <2>1, FS_Interval, FS_Singleton
  <2>. QED BY <2>2, FS_Product
<1>4. \A T \in S : IsFiniteSet(T)
  BY <1>3
<1>. HIDE DEF S
<1>5. IsFiniteSet(UNION S)
  BY <1>2, <1>4, FS_UNION
<1>. QED BY <1>5 DEF S, AllRows

\* When all rows fit, a task that is to send finds room in the channel: the
\* row it is about to send is not among those in there.
LEMMA RoomForRows ==
  ASSUME TypeOK, HandlerInv, OutcomeInv, ReadyInv, RowsFit,
         NEW t \in Tasks, tpc[t] = "sending"
  PROVE  Len(rowsChan) < RowsCap
<1>. DEFINE row == <<t, sent[t] + 1>>
            others == AllRows \ {row}
            n == Len(rowsChan)
<1>1. row \in AllRows
  BY NextRow
<1>2. /\ rowsChan \in Seq(Row) /\ n \in Nat /\ DOMAIN rowsChan = 1 .. n
      /\ sent[t] \in Nat
  BY DEF TypeOK
<1>3. \A i \in 1 .. n : rowsChan[i] \in others
  <2>. TAKE i \in 1 .. n
  <2>1. rowsChan[i] \in AllRows
    BY <1>2 DEF OutcomeInv, Range
  <2>2. rowsChan[i][2] <= sent[rowsChan[i][1]]
    BY <1>2 DEF ReadyInv, RowsOnce
  <2>3. rowsChan[i] # row
    <3>1. SUFFICES ASSUME rowsChan[i] = row PROVE FALSE
      OBVIOUS
    <3>2. row[1] = t /\ row[2] = sent[t] + 1
      OBVIOUS
    <3>. HIDE DEF row
    <3>3. sent[t] + 1 <= sent[t]
      BY <2>2, <3>1, <3>2
    <3>. QED BY <1>2, <3>3
  <2>. QED BY <2>1, <2>3
<1>. HIDE DEF row
<1>4. /\ IsFiniteSet(others)
      /\ Cardinality(others) = Cardinality(AllRows) - 1
      /\ Cardinality(AllRows) \in Nat
  BY <1>1, FiniteRows, FS_RemoveElement, FS_CardinalityType
<1>. HIDE DEF others
<1>5. rowsChan \in Injection(1 .. n, others)
  <2>1. rowsChan = [i \in 1 .. n |-> rowsChan[i]]
    BY <1>2
  <2>2. rowsChan \in [1 .. n -> others]
    BY <1>3, <2>1
  <2>. QED BY <2>2 DEF Injection, ReadyInv, RowsOnce
<1>. HIDE DEF n
<1>6. Cardinality(1 .. n) <= Cardinality(others)
  BY <1>4, <1>5, FS_Injection
<1>7. Cardinality(1 .. n) = n
  BY <1>2, FS_Interval
<1>8. n < RowsCap
  BY <1>2, <1>4, <1>6, <1>7, BlockHandlerAssumption DEF RowsFit
<1>. QED BY <1>8 DEF n

LEMMA SomeoneIsReady ==
  ASSUME TypeOK, HandlerInv, OutcomeInv, ReadyInv,
         RowsFit \/ (GroupSize > 1 /\ ~exiting)
  PROVE  \/ Ended \/ MainReady \/ SpawnerReady \/ CollectorReady
         \/ \E t \in Tasks : TaskReady(t)
<1>1. CASE rpc # "wait"
  BY <1>1 DEF TypeOK, Ended, MainReady
<1>2. CASE rpc = "wait" /\ spc = "init"
  BY <1>2 DEF SpawnerReady
<1>3. CASE rpc = "wait" /\ spc \in {"done", "failed"}
  <2>1. CASE cpc = "collect"
    <3>1. Collecting
      BY <1>3, <2>1 DEF Collecting
    <3>2. closed \/ RunDone
      BY <1>3 DEF ReadyInv, SpawnerSeen, RunDone
    <3>. QED BY <3>1, <3>2 DEF CollectorReady
  <2>2. CASE cpc # "collect"
    BY <1>3, <2>2 DEF TypeOK, CollectorReady, MainReady
  <2>. QED BY <2>1, <2>2
<1>4. CASE rpc = "wait" /\ spc = "wait"
  <2>1. CASE \E t \in Tasks : tpc[t] = "running"
    BY <2>1 DEF HandlerInv, TasksCount, TaskReady
  <2>2. CASE \E t \in Tasks : tpc[t] = "sending"
    <3>1. PICK t \in Tasks : tpc[t] = "sending"
      BY <2>2
    <3>2. CASE Len(rowsChan) < RowsCap
      BY <3>1, <3>2 DEF TaskReady
    <3>3. CASE ~(Len(rowsChan) < RowsCap)
      <4>1. GroupSize > 1 /\ ~exiting
        BY <3>1, <3>3, RoomForRows
      <4>2. cpc = "collect"
        BY <1>4, <4>1 DEF ReadyInv, SpawnerSeen
      <4>3. Collecting
        BY <1>4, <4>1, <4>2 DEF Collecting
      <4>4. rowsChan # <<>>
        <5>1. rowsChan \in Seq(Row) /\ RowsCap \in Nat \ {0}
          BY BlockHandlerAssumption DEF TypeOK
        <5>2. Len(<<>>) = 0
          OBVIOUS
        <5>. QED BY <3>3, <5>1, <5>2
      <4>. QED BY <4>3, <4>4 DEF CollectorReady
    <3>. QED BY <3>2, <3>3
  <2>3. CASE \A t \in Tasks : tpc[t] \notin {"running", "sending"}
    <3>1. \A t \in Tasks : tpc[t] \in {"waiting", "done"}
      BY <1>4, <2>3 DEF TypeOK, ReadyInv, SpawnerSeen
    <3>2. {u \in Tasks : Active(u)} = {}
      BY <2>3 DEF Active
    <3>3. Cardinality({}) = 0
      BY FS_EmptySet
    <3>4. GroupHasRoom
      BY <3>2, <3>3, BlockHandlerAssumption
    <3>5. CASE \E t \in Tasks : tpc[t] = "waiting"
      BY <1>4, <3>4, <3>5 DEF TaskReady
    <3>6. CASE \A t \in Tasks : tpc[t] = "done"
      BY <1>4, <3>6 DEF SpawnerReady
    <3>. QED BY <3>1, <3>5, <3>6
  <2>. QED BY <2>1, <2>2, <2>3
<1>. QED BY <1>1, <1>2, <1>3, <1>4 DEF TypeOK

\* The goroutines of Run never all wait for each other, whatever calls fail,
\* for any number of tasks, rows and goroutines and any channel: as long as
\* the rows fit into it, or the process is not told to exit and there is a
\* goroutine for the collector beside the one of the spawner.
THEOREM NeverStuck == Spec => []NotStuck
<1>1. TypeOK /\ HandlerInv /\ OutcomeInv /\ ReadyInv => NotStuck
  BY SomeoneIsReady DEF NotStuck
<1>. QED BY <1>1, HandlerTypeCorrect, HandlerInvariant, OutcomeInvariant,
            ReadyInvariant, PTL
==============================================================================
