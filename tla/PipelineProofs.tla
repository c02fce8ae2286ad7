---------------------------- MODULE PipelineProofs ----------------------------
(***************************************************************************)
(* Proofs about the pipeline, for every chain, every configuration and any *)
(* number of workers and faults.                                           *)
(***************************************************************************)
EXTENDS Pipeline, FiniteSetTheorems, TLAPS

USE DEF EnvironmentVars, RdbVars, BackfillVars, BackfillLocals, ChainTipVars,
        ManualVars, WorkerVars, NoFault, Fault, NoCursor, NoBlock
-----------------------------------------------------------------------------
(***************************************************************************)
(* Types                                                                   *)
(***************************************************************************)

\* The helpers of the model return values of the expected types: a uint64
\* subtraction that wraps is still a number, and the blocks of the manual
\* publisher are numbers in both of its modes (getBlocks).
LEMMA HelperTypes ==
  ASSUME TypeOK
  PROVE  /\ Uint64Minus(head, TipBuffer) \in Nat
         /\ CursorAtStart \in Nat
         /\ EpochBoundaries \in Seq(Int)
         /\ ManualBlocks \in Seq(Int)
<1>1. Uint64Minus(head, TipBuffer) \in Nat
  BY BackfillAssumption DEF TypeOK, Uint64Minus
<1>2. CursorAtStart \in Nat
  BY BackfillAssumption DEF TypeOK, RdbTypeOK, CursorAtStart
<1>3. EpochBoundaries \in Seq(Int)
  <2>1. head \div EpochSize \in Nat
    BY ManualAssumption DEF TypeOK
  <2>2. \A i \in 1 .. (head \div EpochSize) : i * EpochSize \in Int
    BY <2>1, ManualAssumption
  <2>. QED BY <2>1, <2>2 DEF EpochBoundaries
<1>. QED BY <1>1, <1>2, <1>3, ManualAssumption

\* The backfill publisher keeps every variable in its type.
LEMMA BackfillStepType == TypeOK /\ BackfillStep => TypeOK'
<1>. SUFFICES ASSUME TypeOK, BackfillStep PROVE TypeOK'
  OBVIOUS
<1>. USE DEF TypeOK, RdbTypeOK, BackfillTypeOK, ChainTipTypeOK, ManualTypeOK,
             WorkerTypeOK, BackfillPcs
<1>1. CASE CheckQueue
  BY <1>1 DEF BackfillStep, CheckQueue
<1>2. CASE AdvanceCursor
  <2>1. cursor' \in Nat
    BY <1>2, BackfillAssumption DEF AdvanceCursor, CursorAfterBatch
  <2>. QED BY <1>2, <2>1 DEF BackfillStep, AdvanceCursor
<1>3. CASE SaveCursor
  BY <1>3 DEF BackfillStep, SaveCursor, SetCursor
<1>4. CASE ReadHeader
  BY <1>4, HelperTypes DEF BackfillStep, ReadHeader
<1>5. CASE HeaderError
  BY <1>5 DEF BackfillStep, HeaderError
<1>6. CASE ReadWindow
  <2>1. todo' \in SUBSET Nat
    BY <1>6, BackfillAssumption DEF ReadWindow, SearchWindow
  <2>. QED BY <1>6, <2>1 DEF BackfillStep, ReadWindow
<1>7. CASE QueueNext
  BY <1>7 DEF BackfillStep, QueueNext, NextInWindow, EnqueueBlock
<1>8. CASE NextWindow
  BY <1>8, BackfillAssumption DEF BackfillStep, NextWindow, SearchWindow
<1>9. CASE BatchDone
  BY <1>9 DEF BackfillStep, BatchDone, LocalsReset
<1>. QED BY <1>1, <1>2, <1>3, <1>4, <1>5, <1>6, <1>7, <1>8, <1>9
         DEF BackfillStep, BackfillNext

\* The chain tip publisher keeps every variable in its type.
LEMMA ChainTipStepType == TypeOK /\ ChainTipStep => TypeOK'
<1>. SUFFICES ASSUME TypeOK, ChainTipStep PROVE TypeOK'
  OBVIOUS
<1>. USE DEF TypeOK, RdbTypeOK, BackfillTypeOK, ChainTipTypeOK, ManualTypeOK,
             WorkerTypeOK
<1>1. CASE StartListening
  BY <1>1 DEF ChainTipStep, StartListening
<1>2. CASE ListenHeader
  BY <1>2 DEF ChainTipStep, ListenHeader
<1>3. CASE QueueTip
  <2>1. Head(headers) \in Nat /\ Tail(headers) \in Seq(Nat)
    BY <1>3 DEF QueueTip
  <2>. QED BY <1>3, <2>1 DEF ChainTipStep, QueueTip, EnqueueBlock
<1>. QED BY <1>1, <1>2, <1>3 DEF ChainTipStep, ChainTipNext

\* The manual publisher keeps every variable in its type.
LEMMA ManualStepType == TypeOK /\ ManualStep => TypeOK'
<1>. SUFFICES ASSUME TypeOK, ManualStep PROVE TypeOK'
  OBVIOUS
<1>. USE DEF TypeOK, RdbTypeOK, BackfillTypeOK, ChainTipTypeOK, ManualTypeOK,
             WorkerTypeOK
<1>1. CASE GetBlocks
  BY <1>1, HelperTypes DEF ManualStep, GetBlocks
<1>2. CASE ForgetBlocks
  BY <1>2 DEF ManualStep, ForgetBlocks, UnmarkIndexed
<1>3. CASE ForgetNothing
  BY <1>3 DEF ManualStep, ForgetNothing
<1>4. CASE QueueManual
  <2>1. Head(mblocks) \in Nat /\ Tail(mblocks) \in Seq(Int)
    BY <1>4 DEF QueueManual
  <2>. QED BY <1>4, <2>1 DEF ManualStep, QueueManual, EnqueueBlock
<1>5. CASE RefuseBlock
  BY <1>5 DEF ManualStep, RefuseBlock
<1>6. CASE ManualDone
  BY <1>6 DEF ManualStep, ManualDone
<1>. QED BY <1>1, <1>2, <1>3, <1>4, <1>5, <1>6 DEF ManualStep, ManualNext

\* A worker that drops its block keeps its variables in their types.
LEMMA DropBlockType ==
  ASSUME NEW w \in Workers, NEW pc \in {"pop", "dead", "panicked"},
         WorkerTypeOK, DropBlock(w, pc), UNCHANGED written
  PROVE  WorkerTypeOK'
  BY DEF WorkerTypeOK, DropBlock, Goto

\* A worker keeps every variable in its type.
LEMMA WorkerStepType ==
  ASSUME NEW w \in Workers, TypeOK, WorkerStep(w)
  PROVE  TypeOK'
<1>. USE DEF TypeOK, RdbTypeOK, BackfillTypeOK, ChainTipTypeOK, ManualTypeOK,
             WorkerStep
<1>1. CASE Dequeue(w)
  BY <1>1 DEF Dequeue, PopBlock, Goto, WorkerTypeOK
<1>2. CASE SkipIndexed(w)
  BY <1>2, DropBlockType DEF SkipIndexed
<1>3. CASE BeginIndexing(w)
  BY <1>3 DEF BeginIndexing, Goto, WorkerTypeOK
<1>4. CASE IndexBlock(w)
  <2>1. CASE CollectData
    BY <1>4, <2>1 DEF IndexBlock, Goto, WorkerTypeOK
  <2>2. CASE ~CollectData
    <3>1. DropBlock(w, "pop") /\ UNCHANGED written
      BY <1>4, <2>2 DEF IndexBlock
    <3>. QED BY <1>4, <3>1, DropBlockType DEF IndexBlock
  <2>. QED BY <2>1, <2>2
<1>5. CASE FailBlock(w)
  <2>1. head' \in Nat /\ faults' \in Nat
    BY <1>5 DEF FailBlock
  <2>2. WorkerTypeOK'
    <3>1. CASE DropBlock(w, "pop")
      BY <1>5, <3>1, DropBlockType DEF FailBlock
    <3>2. CASE /\ attempt' = [attempt EXCEPT ![w] = @ + 1]
               /\ UNCHANGED <<wpc, wblock>>
      BY <1>5, <3>2 DEF FailBlock, WorkerTypeOK
    <3>. QED BY <1>5, <3>1, <3>2 DEF FailBlock
  <2>. QED BY <1>5, <2>1, <2>2 DEF FailBlock
<1>6. CASE HandlerPanic(w)
  BY <1>6, DropBlockType DEF HandlerPanic
<1>7. CASE MarkDone(w)
  <2>1. wblock[w] \in Nat
    BY <1>7 DEF MarkDone, WorkerTypeOK
  <2>. QED BY <1>7, <2>1, DropBlockType DEF MarkDone, MarkIndexed
<1>8. CASE MarkLost(w)
  BY <1>8, DropBlockType DEF MarkLost
<1>9. CASE WorkerExit(w)
  BY <1>9, DropBlockType DEF WorkerExit
<1>10. CASE WorkerRestart(w)
  BY <1>10 DEF WorkerRestart, Goto, WorkerTypeOK
<1>. QED BY <1>1, <1>2, <1>3, <1>4, <1>5, <1>6, <1>7, <1>8, <1>9, <1>10
         DEF WorkerNext

\* A new process of the publisher starts with variables of their types.
LEMMA RestartType == TypeOK /\ PublisherRestart => TypeOK'
<1>. SUFFICES ASSUME TypeOK, PublisherRestart PROVE TypeOK'
  OBVIOUS
<1>. USE DEF TypeOK, PublisherRestart
<1>1. head' \in Nat /\ faults' \in Nat
  OBVIOUS
<1>2. RdbTypeOK'
  BY DEF RdbTypeOK
<1>3. BackfillTypeOK'
  BY HelperTypes DEF BackfillTypeOK, BackfillPcs, BackfillRestart, LocalsReset
<1>4. ChainTipTypeOK'
  BY DEF ChainTipTypeOK, ChainTipRestart
<1>5. ManualTypeOK'
  BY DEF ManualTypeOK, ManualRestart
<1>6. WorkerTypeOK'
  BY DEF WorkerTypeOK
<1>. QED BY <1>1, <1>2, <1>3, <1>4, <1>5, <1>6

\* Every variable always has its type (TypeOK).
THEOREM TypeCorrect == Spec => []TypeOK
<1>1. Init => TypeOK
  BY EnvironmentAssumption, BackfillAssumption
  DEF Init, TypeOK, EnvironmentInit, RdbInit, RdbTypeOK, BackfillInit,
      BackfillTypeOK, BackfillPcs, ChainTipInit, ChainTipTypeOK, ManualInit,
      ManualTypeOK, WorkerInit, WorkerTypeOK
<1>2. TypeOK /\ [Next]_vars => TypeOK'
  <2>. SUFFICES ASSUME TypeOK, [Next]_vars PROVE TypeOK'
    OBVIOUS
  <2>1. CASE ChainStep
    BY <2>1 DEF ChainStep, MineBlock, TypeOK, RdbTypeOK, BackfillTypeOK,
                ChainTipTypeOK, ManualTypeOK, WorkerTypeOK
  <2>2. CASE UNCHANGED vars
    BY <2>2 DEF vars, TypeOK, RdbTypeOK, BackfillTypeOK, ChainTipTypeOK,
                ManualTypeOK, WorkerTypeOK
  <2>. QED BY <2>1, <2>2, BackfillStepType, ChainTipStepType, ManualStepType,
              WorkerStepType, RestartType DEF Next
<1>. QED BY <1>1, <1>2, PTL DEF Spec
-----------------------------------------------------------------------------
(***************************************************************************)
(* A block that is marked has been written                                 *)
(***************************************************************************)

\* The step from the invariant to an inductive one: a worker about to mark
\* its block has written it.
MarkersWrote ==
  \A w \in Workers : wpc[w] = "mark" => wblock[w] \in written

WrittenInv == IndexedAreWritten /\ MarkersWrote

\* No publisher, and no restart of one, marks a block or touches a worker;
\* only the manual publisher's HDEL changes the marks, and takes some away.
LEMMA OnlyWorkersMark ==
  ASSUME \/ ChainStep \/ BackfillStep \/ ChainTipStep \/ ManualStep
         \/ PublisherRestart
  PROVE  indexed' \subseteq indexed /\ UNCHANGED WorkerVars
<1>1. CASE ChainStep
  BY <1>1 DEF ChainStep
<1>2. CASE BackfillStep
  <2>1. UNCHANGED indexed
    BY <1>2 DEF BackfillStep, BackfillNext, CheckQueue, AdvanceCursor,
                SaveCursor, SetCursor, ReadHeader, HeaderError, ReadWindow,
                QueueNext, EnqueueBlock, NextWindow, BatchDone
  <2>. QED BY <1>2, <2>1 DEF BackfillStep
<1>3. CASE ChainTipStep
  BY <1>3 DEF ChainTipStep, ChainTipNext, StartListening, ListenHeader,
              QueueTip, EnqueueBlock
<1>4. CASE ManualStep
  <2>1. indexed' \subseteq indexed
    BY <1>4 DEF ManualStep, ManualNext, GetBlocks, ForgetBlocks,
                UnmarkIndexed, ForgetNothing, QueueManual, EnqueueBlock,
                RefuseBlock, ManualDone
  <2>. QED BY <1>4, <2>1 DEF ManualStep
<1>5. CASE PublisherRestart
  BY <1>5 DEF PublisherRestart
<1>. QED BY <1>1, <1>2, <1>3, <1>4, <1>5

\* A worker writes the rows of a block before it marks it.
LEMMA WorkerStepWritten ==
  ASSUME NEW w \in Workers, TypeOK, WrittenInv, WorkerStep(w)
  PROVE  WrittenInv'
<1>. USE DEF TypeOK, WorkerTypeOK, WrittenInv, IndexedAreWritten, MarkersWrote,
             Goto
<1>1. CASE Dequeue(w)
  BY <1>1 DEF Dequeue, PopBlock
<1>2. CASE BeginIndexing(w)
  BY <1>2 DEF BeginIndexing
<1>3. CASE WorkerRestart(w)
  BY <1>3 DEF WorkerRestart
<1>4. CASE MarkDone(w)
  BY <1>4 DEF MarkDone, MarkIndexed, DropBlock
<1>5. CASE SkipIndexed(w) \/ HandlerPanic(w) \/ MarkLost(w) \/ WorkerExit(w)
  <2>1. /\ \/ DropBlock(w, "pop") \/ DropBlock(w, "dead")
           \/ DropBlock(w, "panicked")
        /\ UNCHANGED <<written, indexed>>
    BY <1>5 DEF SkipIndexed, HandlerPanic, MarkLost, WorkerExit
  <2>. QED BY <2>1 DEF DropBlock
<1>6. CASE IndexBlock(w)
  <2>1. UNCHANGED indexed
    BY <1>6 DEF IndexBlock
  <2>2. CASE CollectData
    BY <1>6, <2>1, <2>2 DEF IndexBlock
  <2>3. CASE ~CollectData
    <3>1. DropBlock(w, "pop") /\ UNCHANGED written
      BY <1>6, <2>3 DEF IndexBlock
    <3>. QED BY <2>1, <3>1 DEF DropBlock
  <2>. QED BY <2>2, <2>3
<1>7. CASE FailBlock(w)
  <2>1. UNCHANGED <<written, indexed>>
    BY <1>7 DEF FailBlock
  <2>2. CASE DropBlock(w, "pop")
    BY <2>1, <2>2 DEF DropBlock
  <2>3. CASE UNCHANGED <<wpc, wblock>>
    BY <2>1, <2>3
  <2>. QED BY <1>7, <2>2, <2>3 DEF FailBlock
<1>. QED BY <1>1, <1>2, <1>3, <1>4, <1>5, <1>6, <1>7 DEF WorkerStep, WorkerNext

\* WrittenInv is inductive.
LEMMA WrittenInvariant == Spec => []WrittenInv
<1>1. Init => WrittenInv
  BY DEF Init, RdbInit, WorkerInit, WrittenInv, IndexedAreWritten, MarkersWrote
<1>2. TypeOK /\ WrittenInv /\ [Next]_vars => WrittenInv'
  <2>. SUFFICES ASSUME TypeOK, WrittenInv, [Next]_vars PROVE WrittenInv'
    OBVIOUS
  <2>1. CASE indexed' \subseteq indexed /\ UNCHANGED WorkerVars
    BY <2>1 DEF WrittenInv, IndexedAreWritten, MarkersWrote
  <2>2. CASE UNCHANGED vars
    BY <2>2 DEF vars, WrittenInv, IndexedAreWritten, MarkersWrote
  <2>. QED BY <2>1, <2>2, OnlyWorkersMark, WorkerStepWritten DEF Next
<1>. QED BY <1>1, <1>2, TypeCorrect, PTL DEF Spec

\* A block marked as indexed always has all its rows in the destination
\* (Worker.start), with any number of workers, restarts and lost calls.
THEOREM IndexedWritten == Spec => []IndexedAreWritten
<1>1. WrittenInv => IndexedAreWritten
  BY DEF WrittenInv
<1>. QED BY <1>1, WrittenInvariant, PTL
-----------------------------------------------------------------------------
(***************************************************************************)
(* Below the cursor nothing is missing                                     *)
(***************************************************************************)

\* What the cursor stands for, of any number in its place.
Covered(c) ==
  \A block \in StartBlock .. (c - 1) :
    block \in indexed \/ ("manual" \in Publishers /\ IsForced(block))

\* What the manual publisher is about to forget, it was told to force.
ForgetsForced ==
  /\ mpc # "off" => "manual" \in Publishers
  /\ mpc = "hdel" => \A block \in Range(mblocks) \cap Nat : IsForced(block)

\* The cursor in memory may be thrown back to the one in Redis, which must
\* therefore be covered as well: it is, being behind the one in memory.
CursorInv ==
  /\ StartBlock <= cursor
  /\ Covered(cursor)
  /\ SavedCursorBehind
  /\ ForgetsForced

\* A multiple of the epoch size is at least its factor.
LEMMA FactorBelow ==
  ASSUME NEW i \in Nat, NEW e \in Nat \ {0}
  PROVE  i <= i * e
<1>1. i * (e - 1) \in Nat
  OBVIOUS
<1>2. i * e = i * (e - 1) + i
  OBVIOUS
<1>. QED BY <1>1, <1>2

\* getBlocks: every block the manual publisher collects, it is to force.
LEMMA CollectedAreForced ==
  ASSUME TypeOK, ForceReindex
  PROVE  /\ Mode = BlocksList =>
              \A block \in Range(ManualBlocks) \cap Nat : IsForced(block)
         /\ Mode # BlocksList =>
              \A block \in Range(EpochBoundaries) \cap Nat : IsForced(block)
<1>1. ASSUME Mode # BlocksList, NEW block \in Range(EpochBoundaries) \cap Nat
      PROVE  IsForced(block)
  <2>1. head \div EpochSize \in Nat
    BY ManualAssumption DEF TypeOK
  <2>2. PICK i \in 1 .. (head \div EpochSize) : block = i * EpochSize
    BY DEF Range, EpochBoundaries
  <2>3. i \in Nat /\ 1 <= i
    BY <2>1
  <2>4. i <= block
    BY <2>2, <2>3, FactorBelow, ManualAssumption
  <2>5. i \in 1 .. block
    BY <2>3, <2>4
  <2>. QED BY <1>1, <2>2, <2>5 DEF IsForced
<1>. QED BY <1>1 DEF IsForced

\* updateCursor moves the cursor over indexed blocks only and stores it; the
\* rest of the backfill touches neither cursor.
LEMMA BackfillStepCursor ==
  ASSUME TypeOK, CursorInv, BackfillStep
  PROVE  CursorInv'
<1>. USE DEF CursorInv
<1>1. UNCHANGED <<indexed, mpc, mblocks>>
  BY DEF BackfillStep, BackfillNext, CheckQueue, AdvanceCursor,
         SaveCursor, SetCursor, ReadHeader, HeaderError, ReadWindow,
         QueueNext, EnqueueBlock, NextWindow, BatchDone
<1>2. ForgetsForced'
  BY <1>1 DEF ForgetsForced, IsForced
<1>3. CASE AdvanceCursor
  <2>1. PICK next \in cursor .. (cursor + 2 * BatchSize + 1) :
          /\ cursor .. (next - 1)
               \subseteq GetBlocksBatch(cursor, 2 * BatchSize)
          /\ cursor' = next
    <3>1. cursor' \in CursorAfterBatch
      BY <1>3 DEF AdvanceCursor
    <3>. QED BY <3>1 DEF CursorAfterBatch
  <2>2. cursor \in Nat /\ StartBlock \in Nat /\ BatchSize \in Nat
    BY BackfillAssumption DEF TypeOK, BackfillTypeOK
  <2>3. next \in Nat /\ cursor <= next
    BY <2>1, <2>2
  <2>4. cursor .. (next - 1) \subseteq indexed
    BY <2>1 DEF GetBlocksBatch
  <2>5. Covered(cursor)'
    <3>1. SUFFICES ASSUME NEW block \in StartBlock .. (next - 1)
                   PROVE  block \in indexed
                          \/ ("manual" \in Publishers /\ IsForced(block))
      BY <1>1, <2>1 DEF Covered, IsForced
    <3>2. block \in StartBlock .. (cursor - 1) \/ block \in cursor .. (next - 1)
      BY <2>2, <2>3
    <3>. QED BY <2>4, <3>2 DEF Covered
  <2>6. SavedCursorBehind'
    <3>1. UNCHANGED savedCursor
      BY <1>3 DEF AdvanceCursor
    <3>. QED BY <2>1, <2>2, <2>3, <3>1 DEF SavedCursorBehind, TypeOK, RdbTypeOK
  <2>. QED BY <1>2, <2>1, <2>2, <2>3, <2>5, <2>6
<1>4. CASE SaveCursor
  <2>1. cursor' = cursor /\ savedCursor' = cursor
    BY <1>4 DEF SaveCursor, SetCursor
  <2>2. SavedCursorBehind'
    BY <2>1, BackfillAssumption DEF SavedCursorBehind, TypeOK, BackfillTypeOK
  <2>. QED BY <1>1, <1>2, <2>1, <2>2 DEF Covered, IsForced
<1>5. CASE UNCHANGED <<cursor, savedCursor>>
  BY <1>1, <1>2, <1>5 DEF Covered, IsForced, SavedCursorBehind
<1>6. \/ AdvanceCursor
      \/ SaveCursor
      \/ UNCHANGED <<cursor, savedCursor>>
  BY DEF BackfillStep, BackfillNext, CheckQueue, ReadHeader, HeaderError,
         ReadWindow, QueueNext, EnqueueBlock, NextWindow, BatchDone
<1>. QED BY <1>3, <1>4, <1>5, <1>6

\* The manual publisher forgets forced blocks only.
LEMMA ManualStepCursor ==
  ASSUME TypeOK, CursorInv, ManualStep
  PROVE  CursorInv'
<1>. USE DEF CursorInv
<1>1. UNCHANGED <<cursor, savedCursor>>
  BY DEF ManualStep, ManualNext, GetBlocks, ForgetBlocks, UnmarkIndexed,
         ForgetNothing, QueueManual, EnqueueBlock, RefuseBlock, ManualDone
<1>2. SavedCursorBehind'
  BY <1>1 DEF SavedCursorBehind
<1>3. CASE GetBlocks
  <2>1. ForgetsForced'
    BY <1>3, CollectedAreForced DEF GetBlocks, ForgetsForced, IsForced
  <2>. QED BY <1>1, <1>2, <1>3, <2>1 DEF GetBlocks, Covered, IsForced
<1>4. CASE ForgetBlocks
  <2>1. ForgetsForced'
    BY <1>4 DEF ForgetBlocks, ForgetsForced, IsForced
  <2>2. /\ "manual" \in Publishers
        /\ \A block \in Range(mblocks) \cap Nat : IsForced(block)
        /\ indexed' = indexed \ Range(mblocks)
    BY <1>4 DEF ForgetBlocks, UnmarkIndexed, ForgetsForced
  <2>3. StartBlock .. (cursor - 1) \subseteq Nat
    BY BackfillAssumption DEF TypeOK, BackfillTypeOK
  <2>4. Covered(cursor)'
    BY <1>1, <2>2, <2>3 DEF Covered, IsForced
  <2>. QED BY <1>1, <1>2, <2>1, <2>4
<1>5. CASE UNCHANGED indexed /\ mpc' # "hdel" /\ mpc # "off"
  <2>1. ForgetsForced'
    BY <1>5 DEF ForgetsForced
  <2>. QED BY <1>1, <1>2, <1>5, <2>1 DEF Covered, IsForced
<1>. QED BY <1>3, <1>4, <1>5
         DEF ManualStep, ManualNext, ForgetNothing, QueueManual, EnqueueBlock,
             RefuseBlock, ManualDone

\* A restart takes up the cursor of Redis, which is covered too.
LEMMA RestartCursor ==
  ASSUME TypeOK, CursorInv, PublisherRestart
  PROVE  CursorInv'
<1>. USE DEF CursorInv
<1>1. UNCHANGED <<indexed, savedCursor>>
  BY DEF PublisherRestart
<1>2. cursor' = CursorAtStart
  BY DEF PublisherRestart, BackfillRestart
<1>3. CursorAtStart \in StartBlock .. cursor
  BY BackfillAssumption
  DEF CursorAtStart, SavedCursorBehind, TypeOK, BackfillTypeOK
<1>4. Covered(cursor)'
  <2>1. StartBlock .. (CursorAtStart - 1) \subseteq StartBlock .. (cursor - 1)
    BY <1>3, BackfillAssumption DEF TypeOK, BackfillTypeOK
  <2>. QED BY <1>1, <1>2, <2>1 DEF Covered, IsForced
<1>5. SavedCursorBehind'
  BY <1>1, <1>2, BackfillAssumption
  DEF CursorAtStart, SavedCursorBehind, TypeOK, RdbTypeOK
<1>6. ForgetsForced'
  BY DEF PublisherRestart, ManualRestart, ForgetsForced
<1>. QED BY <1>2, <1>3, <1>4, <1>5, <1>6, BackfillAssumption
         DEF TypeOK, BackfillTypeOK

\* A worker only adds marks.
LEMMA WorkerStepCursor ==
  ASSUME NEW w \in Workers, TypeOK, CursorInv, WorkerStep(w)
  PROVE  CursorInv'
<1>1. indexed \subseteq indexed' /\ UNCHANGED savedCursor
  BY DEF WorkerStep, WorkerNext, Dequeue, PopBlock, SkipIndexed,
         BeginIndexing, IndexBlock, FailBlock, HandlerPanic, MarkDone,
         MarkIndexed, MarkLost, WorkerExit, WorkerRestart
<1>2. UNCHANGED <<cursor, mpc, mblocks>>
  BY DEF WorkerStep
<1>. QED BY <1>1, <1>2
         DEF CursorInv, Covered, IsForced, SavedCursorBehind, ForgetsForced

\* CursorInv is inductive.
LEMMA CursorInvariant == Spec => []CursorInv
<1>1. Init => CursorInv
  BY BackfillAssumption
  DEF Init, RdbInit, BackfillInit, ManualInit, CursorInv, Covered,
      SavedCursorBehind, ForgetsForced
<1>2. TypeOK /\ CursorInv /\ [Next]_vars => CursorInv'
  <2>. SUFFICES ASSUME TypeOK, CursorInv, [Next]_vars PROVE CursorInv'
    OBVIOUS
  <2>1. CASE UNCHANGED <<cursor, indexed, savedCursor, mpc, mblocks>>
    BY <2>1 DEF CursorInv, Covered, IsForced, SavedCursorBehind, ForgetsForced
  <2>2. ChainStep \/ ChainTipStep \/ UNCHANGED vars
          => UNCHANGED <<cursor, indexed, savedCursor, mpc, mblocks>>
    BY DEF ChainStep, ChainTipStep, ChainTipNext, StartListening,
           ListenHeader, QueueTip, EnqueueBlock, vars
  <2>. QED BY <2>1, <2>2, BackfillStepCursor, ManualStepCursor, RestartCursor,
              WorkerStepCursor DEF Next
<1>. QED BY <1>1, <1>2, TypeCorrect, PTL DEF Spec

\* Every block between startBlock and the cursor is indexed, unless the
\* manual publisher was told to have it indexed again (updateCursor).
THEOREM CursorCorrect == Spec => []CursorCovered
<1>1. CursorInv => CursorCovered
  BY DEF CursorInv, Covered, CursorCovered
<1>. QED BY <1>1, CursorInvariant, PTL

\* The cursor in Redis is always behind the one in memory, and a restart
\* that goes back to it starts at startBlock or later (newBackfillPublisher).
THEOREM SavedCursorCorrect == Spec => []SavedCursorBehind
<1>1. CursorInv => SavedCursorBehind
  BY DEF CursorInv
<1>. QED BY <1>1, CursorInvariant, PTL

\* The cursor in Redis never moves backwards (updateCursor), however often
\* the publisher loses the one in memory.
THEOREM SavedCursorMonotone == Spec => SavedCursorNeverRetreats
<1>1. TypeOK /\ CursorInv /\ [Next]_vars
        => [savedCursor' >= savedCursor]_savedCursor
  <2>. SUFFICES ASSUME TypeOK, CursorInv, Next, savedCursor' # savedCursor
                PROVE  savedCursor' >= savedCursor
    BY DEF vars
  <2>1. savedCursor' = cursor
    BY DEF Next, ChainStep, BackfillStep, BackfillNext, CheckQueue,
           AdvanceCursor, SaveCursor, SetCursor, ReadHeader, HeaderError,
           ReadWindow, QueueNext, EnqueueBlock, NextWindow, BatchDone,
           ChainTipStep, ChainTipNext, StartListening, ListenHeader, QueueTip,
           ManualStep, ManualNext, GetBlocks, ForgetBlocks, UnmarkIndexed,
           ForgetNothing, QueueManual, RefuseBlock, ManualDone,
           PublisherRestart, WorkerStep, WorkerNext, Dequeue, PopBlock,
           SkipIndexed, BeginIndexing, IndexBlock, FailBlock, HandlerPanic,
           MarkDone, MarkIndexed, MarkLost, WorkerExit, WorkerRestart
  <2>. QED BY <2>1, BackfillAssumption
           DEF CursorInv, SavedCursorBehind, TypeOK, RdbTypeOK, BackfillTypeOK
<1>. QED BY <1>1, TypeCorrect, CursorInvariant, PTL
         DEF Spec, SavedCursorNeverRetreats
-----------------------------------------------------------------------------
(***************************************************************************)
(* The backfill keeps its distance from the tip                            *)
(***************************************************************************)

\* The bound of the search was tipBuffer behind the tip when it was read and
\* the chain has only grown since; the blocks to be queued lie below it.
TipInv ==
  /\ InitHead <= head
  /\ bpc \in {"window", "scan"} => maxBlock + TipBuffer <= head
  /\ bpc # "scan" => todo = {}
  /\ \A block \in todo : block < maxBlock

\* The backfill takes the bound of its search from the head of the chain and
\* the blocks to be queued from below the bound (queueBatch).
LEMMA BackfillStepTip ==
  ASSUME TipBuffer <= InitHead, TypeOK, TipInv, BackfillStep
  PROVE  TipInv'
<1>. USE EnvironmentAssumption, BackfillAssumption
     DEF TipInv, TypeOK, BackfillTypeOK
<1>1. UNCHANGED head
  BY DEF BackfillStep, BackfillNext, CheckQueue, AdvanceCursor, SaveCursor,
         ReadHeader, HeaderError, ReadWindow, QueueNext, NextWindow, BatchDone
<1>2. CASE ReadHeader
  <2>1. maxBlock' = head - TipBuffer
    BY <1>2 DEF ReadHeader, Uint64Minus
  <2>. QED BY <1>1, <1>2, <2>1 DEF ReadHeader
<1>3. CASE ReadWindow
  <2>1. \A block \in todo' : block < maxBlock
    BY <1>3 DEF ReadWindow, SearchWindow
  <2>. QED BY <1>1, <1>3, <2>1 DEF ReadWindow
<1>4. CASE QueueNext
  BY <1>1, <1>4 DEF QueueNext
<1>5. CASE NextWindow
  BY <1>1, <1>5 DEF NextWindow
<1>6. CASE BatchDone
  BY <1>1, <1>6 DEF BatchDone, LocalsReset
<1>7. CASE CheckQueue \/ AdvanceCursor \/ SaveCursor \/ HeaderError
  BY <1>1, <1>7 DEF CheckQueue, AdvanceCursor, SaveCursor, HeaderError
<1>. QED BY <1>2, <1>3, <1>4, <1>5, <1>6, <1>7 DEF BackfillStep, BackfillNext

\* On a chain of at least tipBuffer blocks the backfill never queues a block
\* that is less than tipBuffer behind the tip (queueBatch).  On a younger
\* chain it does: the subtraction wraps around.
THEOREM BehindTip ==
  TipBuffer <= InitHead => (Spec => []BackfillBehindTip)
<1>. SUFFICES ASSUME TipBuffer <= InitHead
              PROVE  Spec => []BackfillBehindTip
  OBVIOUS
<1>1. Init => TipInv
  BY EnvironmentAssumption DEF Init, EnvironmentInit, BackfillInit, TipInv
<1>2. TypeOK /\ TipInv /\ [Next]_vars => TipInv'
  <2>. SUFFICES ASSUME TypeOK, TipInv, [Next]_vars PROVE TipInv'
    OBVIOUS
  <2>1. CASE ChainStep
    BY <2>1, EnvironmentAssumption, BackfillAssumption
    DEF ChainStep, MineBlock, TipInv, TypeOK, BackfillTypeOK
  <2>2. CASE PublisherRestart
    BY <2>2 DEF PublisherRestart, BackfillRestart, LocalsReset, TipInv
  <2>3. CASE UNCHANGED <<head, BackfillVars>>
    BY <2>3 DEF TipInv
  <2>4. ASSUME \/ ChainTipStep
               \/ ManualStep
               \/ \E w \in Workers : WorkerStep(w)
               \/ UNCHANGED vars
        PROVE  UNCHANGED <<head, BackfillVars>>
    BY <2>4
    DEF ChainTipStep, ChainTipNext, StartListening, ListenHeader, QueueTip,
        ManualStep, ManualNext, GetBlocks, ForgetBlocks, ForgetNothing,
        QueueManual, RefuseBlock, ManualDone, WorkerStep, WorkerNext, Dequeue,
        SkipIndexed, BeginIndexing, IndexBlock, FailBlock, HandlerPanic,
        MarkDone, MarkLost, WorkerExit, WorkerRestart, vars
  <2>. QED BY <2>1, <2>2, <2>3, <2>4, BackfillStepTip DEF Next
<1>3. TypeOK /\ TipInv => BackfillBehindTip
  <2>. SUFFICES ASSUME TypeOK, TipInv, NEW block \in todo
                PROVE  block + TipBuffer < head
    BY DEF BackfillBehindTip
  <2>1. bpc = "scan" /\ block < maxBlock
    BY DEF TipInv
  <2>. QED BY <2>1, BackfillAssumption DEF TipInv, TypeOK, BackfillTypeOK
<1>. QED BY <1>1, <1>2, <1>3, TypeCorrect, PTL DEF Spec
-----------------------------------------------------------------------------
(***************************************************************************)
(* The backfill never overfills the queue                                  *)
(***************************************************************************)

\* A round begins with fewer than BatchSize blocks in the queue and adds no
\* more than BatchSize; in between the workers only take blocks away.
QueueInv ==
  /\ IsFiniteSet(queue)
  /\ Publishers = {"backfill"} =>
       /\ tpc = "off"
       /\ mpc = "off"
       /\ bpc \in {"advance", "save", "header"} => QueueLength < BatchSize
       /\ bpc \in {"window", "scan"} =>
            queued <= BatchSize /\ QueueLength <= BatchSize - 1 + queued
       /\ QueueLength <= 2 * BatchSize - 1

\* ZADD adds at most one block, BZPOPMAX takes one away.
LEMMA QueueLengths ==
  ASSUME IsFiniteSet(queue), NEW block
  PROVE  /\ EnqueueBlock(block) => /\ IsFiniteSet(queue')
                                   /\ QueueLength' <= QueueLength + 1
         /\ PopBlock(block) => /\ IsFiniteSet(queue')
                               /\ QueueLength' <= QueueLength
         /\ QueueLength \in Nat
<1>1. QueueLength \in Nat
  BY FS_CardinalityType DEF QueueLength
<1>2. EnqueueBlock(block) => /\ IsFiniteSet(queue')
                             /\ QueueLength' <= QueueLength + 1
  BY <1>1, FS_AddElement DEF EnqueueBlock, QueueLength
<1>3. PopBlock(block) => /\ IsFiniteSet(queue')
                         /\ QueueLength' <= QueueLength
  BY <1>1, FS_RemoveElement DEF PopBlock, QueueLength
<1>. QED BY <1>1, <1>2, <1>3

\* A round of the backfill counts what it queues.
LEMMA BackfillStepQueue ==
  ASSUME TypeOK, QueueInv, BackfillStep
  PROVE  QueueInv'
<1>. USE BackfillAssumption DEF QueueInv, BackfillStep
<1>1. QueueLength \in Nat
  BY QueueLengths
<1>2. queued \in Nat /\ BatchSize \in Nat
  BY DEF TypeOK, BackfillTypeOK
<1>3. CASE QueueNext
  <2>1. IsFiniteSet(queue') /\ QueueLength' <= QueueLength + 1
    BY <1>3, QueueLengths DEF QueueNext
  <2>2. QueueLength' \in Nat
    BY <2>1, FS_CardinalityType DEF QueueLength
  <2>. QED BY <1>1, <1>2, <1>3, <2>1, <2>2 DEF QueueNext
<1>4. CASE UNCHANGED queue
  <2>1. QueueLength' = QueueLength
    BY <1>4 DEF QueueLength
  <2>2. CASE CheckQueue \/ AdvanceCursor \/ SaveCursor \/ HeaderError
    BY <1>1, <1>2, <1>4, <2>1, <2>2
    DEF CheckQueue, AdvanceCursor, SaveCursor, HeaderError
  <2>3. CASE ReadHeader \/ ReadWindow \/ NextWindow \/ BatchDone
    BY <1>1, <1>2, <1>4, <2>1, <2>3
    DEF ReadHeader, ReadWindow, NextWindow, BatchDone, LocalsReset
  <2>4. CASE QueueNext
    BY <1>3, <2>4
  <2>. QED BY <2>2, <2>3, <2>4 DEF BackfillNext
<1>5. QueueNext \/ UNCHANGED queue
  BY DEF BackfillNext, CheckQueue, AdvanceCursor, SaveCursor, SetCursor,
         ReadHeader, HeaderError, ReadWindow, NextWindow, BatchDone
<1>. QED BY <1>3, <1>4, <1>5

\* The workers only shorten the queue.
LEMMA WorkerStepQueue ==
  ASSUME NEW w \in Workers, TypeOK, QueueInv, WorkerStep(w)
  PROVE  QueueInv'
<1>1. UNCHANGED <<tpc, mpc, bpc, queued>>
  BY DEF WorkerStep
<1>2. QueueLength \in Nat /\ queued \in Nat /\ BatchSize \in Nat
  BY QueueLengths, BackfillAssumption DEF QueueInv, TypeOK, BackfillTypeOK
<1>3. CASE Dequeue(w)
  <2>1. IsFiniteSet(queue') /\ QueueLength' <= QueueLength
    BY <1>3, QueueLengths DEF Dequeue, QueueInv
  <2>2. QueueLength' \in Nat
    BY <2>1, FS_CardinalityType DEF QueueLength
  <2>. QED BY <1>1, <1>2, <2>1, <2>2 DEF QueueInv
<1>4. CASE UNCHANGED queue
  BY <1>1, <1>4 DEF QueueInv, QueueLength
<1>5. Dequeue(w) \/ UNCHANGED queue
  BY DEF WorkerStep, WorkerNext, SkipIndexed, BeginIndexing, IndexBlock,
         FailBlock, HandlerPanic, MarkDone, MarkIndexed, MarkLost, WorkerExit,
         WorkerRestart
<1>. QED BY <1>3, <1>4, <1>5

\* A publisher that is not enabled queues nothing.
LEMMA OtherPublisherQueue ==
  ASSUME TypeOK, QueueInv, ChainTipStep \/ ManualStep
  PROVE  QueueInv'
<1>1. IsFiniteSet(queue')
  <2>1. UNCHANGED queue \/ \E block : EnqueueBlock(block)
    BY DEF ChainTipStep, ChainTipNext, StartListening, ListenHeader, QueueTip,
           ManualStep, ManualNext, GetBlocks, ForgetBlocks, UnmarkIndexed,
           ForgetNothing, QueueManual, RefuseBlock, ManualDone
  <2>. QED BY <2>1, QueueLengths DEF QueueInv
<1>2. Publishers # {"backfill"}
  BY DEF QueueInv, ChainTipStep, ChainTipNext, StartListening, ListenHeader,
         QueueTip, ManualStep, ManualNext, GetBlocks, ForgetBlocks,
         ForgetNothing, QueueManual, RefuseBlock, ManualDone
<1>. QED BY <1>1, <1>2 DEF QueueInv

\* With the backfill as the only publisher there are never more than
\* 2 * batchSize - 1 blocks in the queue (start).
THEOREM QueueStaysBounded == Spec => []QueueBounded
<1>1. Init => QueueInv
  <2>1. IsFiniteSet({}) /\ Cardinality({}) = 0
    BY FS_EmptySet
  <2>. QED BY <2>1, BackfillAssumption
           DEF Init, RdbInit, BackfillInit, ChainTipInit, ManualInit, QueueInv,
               QueueLength
<1>2. TypeOK /\ QueueInv /\ [Next]_vars => QueueInv'
  <2>. SUFFICES ASSUME TypeOK, QueueInv, [Next]_vars PROVE QueueInv'
    OBVIOUS
  <2>1. CASE ChainStep \/ UNCHANGED vars
    BY <2>1 DEF ChainStep, vars, QueueInv, QueueLength
  <2>2. CASE PublisherRestart
    BY <2>2 DEF PublisherRestart, BackfillRestart, LocalsReset,
                ChainTipRestart, ManualRestart, QueueInv, QueueLength
  <2>. QED BY <2>1, <2>2, BackfillStepQueue, OtherPublisherQueue,
              WorkerStepQueue DEF Next
<1>3. QueueInv => QueueBounded
  BY DEF QueueInv, QueueBounded
<1>. QED BY <1>1, <1>2, <1>3, TypeCorrect, PTL DEF Spec
-----------------------------------------------------------------------------
(***************************************************************************)
(* The pipeline implements the log                                         *)
(***************************************************************************)

LogVars == <<written, indexed, savedCursor>>

\* The backfill touches the log only to move the checkpoint up.
LEMMA BackfillStepLog ==
  ASSUME TypeOK, CursorInv, BackfillStep
  PROVE  [Log!Next]_LogVars
<1>. USE DEF LogVars
<1>1. UNCHANGED <<written, indexed>>
  BY DEF BackfillStep, BackfillNext, CheckQueue, AdvanceCursor,
         SaveCursor, SetCursor, ReadHeader, HeaderError, ReadWindow,
         QueueNext, EnqueueBlock, NextWindow, BatchDone
<1>2. CASE SaveCursor
  <2>1. savedCursor' = cursor
    BY <1>2 DEF SaveCursor, SetCursor
  <2>2. /\ cursor \in Nat /\ StartBlock \in Nat
        /\ StartBlock <= cursor
        /\ savedCursor <= cursor
        /\ savedCursor \in Int
    BY BackfillAssumption DEF CursorInv, SavedCursorBehind, TypeOK,
       BackfillTypeOK, RdbTypeOK
  <2>3. StartBlock .. (cursor - 1) \subseteq indexed \cup Revocable
    <3>1. StartBlock .. (cursor - 1) \subseteq Nat
      BY <2>2
    <3>. QED BY <3>1 DEF CursorInv, Covered, Revocable
  <2>4. CASE savedCursor # cursor
    <3>1. Log!Advance
      BY <1>1, <2>1, <2>2, <2>3, <2>4 DEF Log!Advance
    <3>. QED BY <3>1 DEF Log!Next
  <2>5. CASE savedCursor = cursor
    BY <1>1, <2>1, <2>5
  <2>. QED BY <2>4, <2>5
<1>3. CASE ~SaveCursor
  <2>1. UNCHANGED savedCursor
    BY <1>3
    DEF BackfillStep, BackfillNext, CheckQueue, AdvanceCursor, ReadHeader,
        HeaderError, ReadWindow, QueueNext, EnqueueBlock, NextWindow, BatchDone
  <2>. QED BY <1>1, <2>1
<1>. QED BY <1>2, <1>3

\* The manual publisher touches the log only to revoke forced blocks.
LEMMA ManualStepLog ==
  ASSUME TypeOK, CursorInv, ManualStep
  PROVE  [Log!Next]_LogVars
<1>. USE DEF LogVars
<1>1. CASE ForgetBlocks
  <2>1. /\ UNCHANGED <<written, savedCursor>>
        /\ indexed' = indexed \ Range(mblocks)
    BY <1>1 DEF ManualStep, ForgetBlocks, UnmarkIndexed
  <2>2. \A block \in Range(mblocks) \cap Nat : block \in Revocable
    BY <1>1 DEF ForgetBlocks, CursorInv, ForgetsForced, Revocable
  <2>3. indexed \subseteq Nat
    BY DEF TypeOK, RdbTypeOK
  <2>4. Log!Revoke
    BY <2>1, <2>2, <2>3 DEF Log!Revoke
  <2>. QED BY <2>4 DEF Log!Next
<1>2. CASE ~ForgetBlocks
  BY <1>2
  DEF ManualStep, ManualNext, GetBlocks, ForgetNothing, QueueManual,
      EnqueueBlock, RefuseBlock, ManualDone
<1>. QED BY <1>1, <1>2

\* A worker writes a block, or marks one that is written.
LEMMA WorkerStepLog ==
  ASSUME NEW w \in Workers, WrittenInv, WorkerStep(w)
  PROVE  [Log!Next]_LogVars
<1>. USE DEF LogVars
<1>1. CASE IndexBlock(w)
  <2>1. UNCHANGED <<indexed, savedCursor>>
    BY <1>1 DEF IndexBlock
  <2>2. CASE CollectData
    <3>1. written' = written \cup {wblock[w]} /\ wblock[w] \in written'
      BY <1>1, <2>2 DEF IndexBlock
    <3>2. Log!Write
      BY <2>1, <3>1 DEF Log!Write
    <3>. QED BY <3>2 DEF Log!Next
  <2>3. CASE ~CollectData
    BY <1>1, <2>1, <2>3 DEF IndexBlock
  <2>. QED BY <2>2, <2>3
<1>2. CASE MarkDone(w)
  <2>1. /\ indexed' = indexed \cup {wblock[w]}
        /\ UNCHANGED <<written, savedCursor>>
    BY <1>2 DEF MarkDone, MarkIndexed
  <2>2. wblock[w] \in written
    BY <1>2 DEF MarkDone, WrittenInv, MarkersWrote
  <2>3. Log!Mark
    BY <2>1, <2>2 DEF Log!Mark
  <2>. QED BY <2>3 DEF Log!Next
<1>3. CASE ~IndexBlock(w) /\ ~MarkDone(w)
  BY <1>3
  DEF WorkerStep, WorkerNext, Dequeue, PopBlock, SkipIndexed, BeginIndexing,
      FailBlock, HandlerPanic, MarkLost, WorkerExit, WorkerRestart
<1>. QED BY <1>1, <1>2, <1>3

\* The pipeline implements the log that its readers rely on: a step of any
\* of its processes is one of the log's, or leaves the log alone.
THEOREM PipelineImplementsLog == Spec => ImplementsLog
<1>1. Init => Log!Init
  BY DEF Init, RdbInit, WorkerInit, Log!Init, Log!NoCheckpoint
<1>2. TypeOK /\ WrittenInv /\ CursorInv /\ [Next]_vars => [Log!Next]_LogVars
  <2>. SUFFICES ASSUME TypeOK, WrittenInv, CursorInv, [Next]_vars
                PROVE  [Log!Next]_LogVars
    OBVIOUS
  <2>1. CASE ChainStep \/ ChainTipStep \/ PublisherRestart \/ UNCHANGED vars
    BY <2>1
    DEF ChainStep, ChainTipStep, ChainTipNext, StartListening, ListenHeader,
        QueueTip, EnqueueBlock, PublisherRestart, vars, LogVars
  <2>. QED BY <2>1, BackfillStepLog, ManualStepLog, WorkerStepLog DEF Next
<1>. QED BY <1>1, <1>2, TypeCorrect, WrittenInvariant, CursorInvariant, PTL
         DEF Spec, ImplementsLog, Log!Spec, LogVars
-----------------------------------------------------------------------------
(***************************************************************************)
(* The loops of the backfill                                               *)
(*                                                                         *)
(* AdvanceCursor and QueueNext state what a loop of the code ends with.    *)
(* It is met by exactly one block in every state.                          *)
(***************************************************************************)

LEMMA LeastNat ==
  ASSUME NEW T \in SUBSET Nat, T # {}
  PROVE  \E x \in T : \A y \in T : x <= y
<1> DEFINE R == OpToRel(<, Nat)
<1>1. IsWellFoundedOn(R, Nat)
  BY NatLessThanWellFounded
<1>2. \A x, y \in Nat : <<y, x>> \in R <=> y < x
  BY DEF OpToRel
<1> HIDE DEF R
<1>3. PICK x \in T : \A y \in T : ~(<<y, x>> \in R)
  BY <1>1, WFMin
<1>4. \A y \in T : x \in Nat /\ y \in Nat /\ ~(y < x)
  BY <1>2, <1>3
<1>5. \A y \in T : x <= y
  BY <1>4
<1>6. QED
  BY <1>5

\* In AdvanceCursor there is one block to leave the cursor at, and in
\* QueueNext one to queue, unless the window is done.
LoopsEnd ==
  /\ bpc = "advance" =>
       \E next : CursorAfterBatch = {next}
  /\ bpc = "scan" =>
       \/ todo = {}
       \/ \E block : NextInWindow = {block}

LEMMA CursorLoopEnds ==
  ASSUME TypeOK
  PROVE  \E next : CursorAfterBatch = {next}
<1> DEFINE size == 2 * BatchSize
           batch == GetBlocksBatch(cursor, size)
           gaps == {n \in Nat : n >= cursor /\ n \notin batch}
<1>1. cursor \in Nat /\ size \in Nat
  BY BackfillAssumption DEF TypeOK, BackfillTypeOK
<1>2. batch \subseteq cursor .. (cursor + size)
  BY DEF GetBlocksBatch
<1>3. \A n : n \in CursorAfterBatch <=>
        /\ n \in cursor .. (cursor + size + 1)
        /\ n \notin batch
        /\ cursor .. (n - 1) \subseteq batch
  BY DEF CursorAfterBatch
<1> HIDE DEF size, batch
<1>4. cursor + size + 1 \in gaps
  BY <1>1, <1>2
<1>5. PICK next \in gaps : \A n \in gaps : next <= n
  BY <1>4, LeastNat
<1>6. next \in CursorAfterBatch
  <2>1. next \in cursor .. (cursor + size + 1) /\ next \notin batch
    BY <1>1, <1>4, <1>5
  <2>2. ASSUME NEW n \in cursor .. (next - 1)
        PROVE  n \in batch
    <3>1. n \in Nat /\ n >= cursor /\ ~(next <= n)
      BY <1>1, <1>5
    <3>2. QED
      BY <1>5, <3>1
  <2>3. QED
    BY <1>3, <2>1, <2>2
<1>7. ASSUME NEW n, n \in CursorAfterBatch
      PROVE  n = next
  <2>1. /\ n \in Nat /\ n >= cursor /\ n \notin batch
        /\ cursor .. (n - 1) \subseteq batch
    BY <1>1, <1>3, <1>7
  <2>2. next <= n
    BY <1>5, <2>1
  <2>3. ~(next < n)
    <3>1. next \in Nat /\ next >= cursor /\ next \notin batch
      BY <1>5
    <3>2. next < n => next \in cursor .. (n - 1)
      BY <1>1, <2>1, <3>1
    <3>3. QED
      BY <2>1, <3>1, <3>2
  <2>4. QED
    BY <1>5, <2>1, <2>2, <2>3
<1>8. QED
  BY <1>6, <1>7

LEMMA WindowLoopEnds ==
  ASSUME TypeOK, todo # {}
  PROVE  \E block : NextInWindow = {block}
<1>1. todo \in SUBSET Nat
  BY DEF TypeOK, BackfillTypeOK
<1>2. PICK block \in todo : \A other \in todo : block <= other
  BY <1>1, LeastNat
<1>3. ASSUME NEW other, other \in NextInWindow
      PROVE  other = block
  <2>1. /\ other \in Nat /\ block \in Nat
        /\ other <= block /\ block <= other
    BY <1>1, <1>2, <1>3 DEF NextInWindow
  <2>2. QED
    BY <2>1
<1>4. block \in NextInWindow
  BY <1>2 DEF NextInWindow
<1>5. QED
  BY <1>3, <1>4

\* The loop of updateCursor over a batch ends, and at one block only; and the
\* loop of queueBatch over a window has one block to queue next, or is over
\* (backfill.go).
THEOREM BackfillLoopsEnd == Spec => []LoopsEnd
<1>1. TypeOK => LoopsEnd
  BY CursorLoopEnds, WindowLoopEnds DEF LoopsEnd
<1>2. QED
  BY <1>1, TypeCorrect, PTL
==============================================================================
