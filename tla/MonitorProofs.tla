----------------------------- MODULE MonitorProofs -----------------------------
(***************************************************************************)
(* Proofs about module Monitor, for a chain of any length and any faults.  *)
(***************************************************************************)
EXTENDS Monitor, TLAPS

\* The block that is due is the one in the slot, else the one in hand of the
\* dispatcher, else the one the listener delivers next; what the processor
\* has and had is older.
DueInLine ==
  /\ IF slot = <<>>
     THEN due = IF received # NoBlock THEN received ELSE nextHeader
     ELSE /\ slot = <<due>> /\ due < nextHeader
          /\ received # NoBlock => due < received
  /\ received # NoBlock => received < nextHeader
  /\ processing < due /\ processed < due
  /\ processing # NoBlock => processed < processing
  /\ ~running => /\ slot = <<>>
                 /\ received = NoBlock /\ processing = NoBlock
                 /\ processed = NoBlock

IInv == TypeOK /\ DueInLine

LEMMA EmptySlot == <<>> \in Seq(Nat) /\ Len(<<>>) <= 1
OBVIOUS

LEMMA InitIInv == Init => IInv
<1> SUFFICES ASSUME Init PROVE IInv
  OBVIOUS
<1>1. TypeOK
  BY EnvironmentAssumption, EmptySlot DEF Init, EnvironmentInit, TypeOK
<1>2. DueInLine
  BY DEF Init, DueInLine, NoBlock
<1>3. QED
  BY <1>1, <1>2 DEF IInv

LEMMA NextIInv == IInv /\ [Next]_vars => IInv'
<1> SUFFICES ASSUME IInv, [Next]_vars PROVE IInv'
  OBVIOUS
<1> USE EnvironmentAssumption
    DEF IInv, TypeOK, DueInLine, NoBlock, NoFault, Fault, EnvironmentVars,
        serviceVars
<1>1. CASE ChainStep
  BY <1>1 DEF ChainStep, MineBlock
<1>2. CASE StartMonitor
  BY <1>2 DEF StartMonitor
<1>3. CASE ReceiveHeader
  BY <1>3 DEF ReceiveHeader
<1>4. CASE OfferBlock
  BY <1>4 DEF OfferBlock
<1>5. CASE TakeBlock
  BY <1>5 DEF TakeBlock
<1>6. CASE ProcessBlock
  BY <1>6 DEF ProcessBlock
<1>7. CASE RunError
  BY <1>7 DEF RunError
<1>8. CASE MonitorRestart
  <2>1. TypeOK'
    <3>1. slot' \in Seq(Nat) /\ Len(slot') <= 1
      BY <1>8, EmptySlot DEF MonitorRestart
    <3>2. running' \in BOOLEAN /\ nextHeader' \in Nat /\ due' \in Nat
      BY <1>8 DEF MonitorRestart
    <3>3. /\ received' \in Nat \cup {-1}
          /\ processing' \in Nat \cup {-1}
          /\ processed' \in Nat \cup {-1}
      BY <1>8 DEF MonitorRestart
    <3>4. head' \in Nat /\ faults' \in Nat
      BY <1>8 DEF MonitorRestart
    <3>5. QED
      BY <3>1, <3>2, <3>3, <3>4, Zenon
  <2>2. DueInLine'
    BY <1>8 DEF MonitorRestart
  <2>3. QED
    BY <2>1, <2>2
<1>9. CASE UNCHANGED vars
  BY <1>9 DEF vars
<1>10. QED
  BY <1>1, <1>2, <1>3, <1>4, <1>5, <1>6, <1>7, <1>8, <1>9 DEF Next, Processor

LEMMA IInvInOrder == IInv => InOrder
BY DEF IInv, TypeOK, DueInLine, NoBlock, InOrder

\* The variables of the monitor have their types, and at most one block waits.
THEOREM TypeCorrect == Spec => []TypeOK
<1>1. IInv => TypeOK
  BY DEF IInv
<1>2. QED
  BY <1>1, InitIInv, NextIInv, PTL DEF Spec

\* The gauges are set in the order of the chain.
THEOREM Ordered == Spec => []InOrder
BY IInvInOrder, InitIInv, NextIInv, PTL DEF Spec

\* The block that waits is the first that came since one was taken.
THEOREM OldestWaits == Spec => []FirstSinceTaken
<1>1. IInv => FirstSinceTaken
  BY DEF IInv, DueInLine, FirstSinceTaken
<1>2. QED
  BY <1>1, InitIInv, NextIInv, PTL DEF Spec
===============================================================================
