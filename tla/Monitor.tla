-------------------------------- MODULE Monitor --------------------------------
(***************************************************************************)
(* The monitor service (monitor/monitor.go), which keeps the gauges of the *)
(* latest blocks and neither uses Redis nor marks anything.  Start runs    *)
(* three goroutines:                                                       *)
(*                                                                         *)
(*   listener    kliento's HeaderListener (external), a source of the      *)
(*               headers from startBlock on, into an unbuffered channel;   *)
(*   dispatcher  receives a header and offers its number to the slot, a    *)
(*               channel of capacity one, without waiting;                 *)
(*   processor   takes a number from the slot and runs a block handler.    *)
(***************************************************************************)
EXTENDS Environment, Sequences

VARIABLES running,      \* Start got to its goroutines
          nextHeader,   \* the header the listener delivers next
          received,     \* the header the dispatcher has in hand
          slot,         \* the channel blockNumbers
          processing,   \* the block the processor has in hand
          processed,    \* LastBlockProcessed, gone when the process is
          due           \* history: the first header offered since the last
                        \* block was taken, or the one that will be

serviceVars ==
  <<running, nextHeader, received, slot, processing, processed, due>>
vars == <<EnvironmentVars, serviceVars>>

NoBlock == -1

TypeOK ==
  /\ running \in BOOLEAN
  /\ head \in Nat /\ nextHeader \in Nat /\ due \in Nat
  /\ received \in Nat \cup {NoBlock}
  /\ processing \in Nat \cup {NoBlock}
  /\ processed \in Nat \cup {NoBlock}
  /\ slot \in Seq(Nat) /\ Len(slot) <= 1
  /\ faults \in Nat

Init ==
  /\ EnvironmentInit
  /\ running = FALSE
  /\ nextHeader = 0 /\ due = 0
  /\ received = NoBlock /\ processing = NoBlock /\ processed = NoBlock
  /\ slot = <<>>
-----------------------------------------------------------------------------
\* Start: the node's latest header is the first one to be listened for.
StartMonitor ==
  /\ ~running
  /\ running' = TRUE
  /\ nextHeader' = head /\ due' = head
  /\ NoFault
  /\ UNCHANGED <<received, slot, processing, processed>>

\* The listener delivers as soon as the dispatcher is ready to receive.
ReceiveHeader ==
  /\ running
  /\ received = NoBlock
  /\ nextHeader <= head
  /\ received' = nextHeader
  /\ nextHeader' = nextHeader + 1
  /\ NoFault
  /\ UNCHANGED <<running, slot, processing, processed, due>>

\* Mutant: the slot keeps the newest number.
OfferNewest ==
  /\ running
  /\ received # NoBlock
  /\ slot' = <<received>>
  /\ received' = NoBlock
  /\ NoFault
  /\ UNCHANGED <<running, nextHeader, processing, processed, due>>

\* Mutant: every number waits, the channel has no bound.
QueueBlock ==
  /\ running
  /\ received # NoBlock
  /\ slot' = Append(slot, received)
  /\ received' = NoBlock
  /\ NoFault
  /\ UNCHANGED <<running, nextHeader, processing, processed, due>>

\* The number goes into the slot, or is dropped while another one waits.
OfferBlock ==
  /\ running
  /\ received # NoBlock
  /\ slot' = IF slot = <<>> THEN <<received>> ELSE slot
  /\ received' = NoBlock
  /\ NoFault
  /\ UNCHANGED <<running, nextHeader, processing, processed, due>>

\* Mutant: the number is read and left in the slot.
PeekBlock ==
  /\ running
  /\ processing = NoBlock
  /\ slot # <<>>
  /\ processing' = Head(slot)
  /\ due' = IF received # NoBlock THEN received ELSE nextHeader
  /\ NoFault
  /\ UNCHANGED <<running, nextHeader, received, slot, processed>>

TakeBlock ==
  /\ running
  /\ processing = NoBlock
  /\ slot # <<>>
  /\ processing' = Head(slot)
  /\ slot' = Tail(slot)
  /\ due' = IF received # NoBlock THEN received ELSE nextHeader
  /\ NoFault
  /\ UNCHANGED <<running, nextHeader, received, processed>>

\* Mutant: the goroutine does not loop, it takes no further block.
ProcessBlockOnce ==
  /\ processing # NoBlock
  /\ processed' = processing
  /\ NoFault
  /\ UNCHANGED <<running, nextHeader, received, slot, processing, due>>

\* Run returns nil: the gauge is set.
ProcessBlock ==
  /\ processing # NoBlock
  /\ processed' = processing
  /\ processing' = NoBlock
  /\ NoFault
  /\ UNCHANGED <<running, nextHeader, received, slot, due>>

\* Run returns an error: it is logged and the block is done with.
RunError ==
  /\ processing # NoBlock
  /\ processing' = NoBlock
  /\ Fault
  /\ UNCHANGED <<running, nextHeader, received, slot, processed, due>>

\* The process ends, on any error of Start, of the listener or of
\* NewBlockHandler or because it is killed, and is started again.
MonitorRestart ==
  /\ Fault
  /\ running' = FALSE
  /\ nextHeader' = 0 /\ due' = 0
  /\ received' = NoBlock /\ processing' = NoBlock /\ processed' = NoBlock
  /\ slot' = <<>>

ChainStep == MineBlock /\ UNCHANGED serviceVars

Processor == TakeBlock \/ ProcessBlock \/ RunError

Next ==
  \/ ChainStep
  \/ StartMonitor
  \/ ReceiveHeader
  \/ OfferBlock
  \/ Processor
  \/ MonitorRestart

Spec == Init /\ [][Next]_vars

\* The goroutines are scheduled, and a call of Run ends.
FairSpec ==
  /\ Spec
  /\ WF_vars(StartMonitor)
  /\ WF_vars(ReceiveHeader)
  /\ WF_vars(OfferBlock)
  /\ WF_vars(TakeBlock)
  /\ WF_vars(ProcessBlock \/ RunError)
-----------------------------------------------------------------------------
\* The gauges are set in the order of the chain, although numbers are dropped
\* on the way: what is in hand of the goroutines is strictly older from one
\* to the next, so a block is never processed twice or after a later one.
InOrder ==
  LET waiting == IF slot = <<>> THEN NoBlock ELSE Head(slot)
      line == <<processed, processing, waiting, received, nextHeader>>
  IN  \A i, j \in DOMAIN line :
        i < j /\ line[i] # NoBlock /\ line[j] # NoBlock => line[i] < line[j]

\* Drops never cost the monitor the block it is due: the one that waits is
\* the first header that came since the processor took its last block, so
\* what a slow processor is behind is at most the time of one Run.
FirstSinceTaken == slot # <<>> => slot = <<due>>

\* The processor gets to that block, unless the process is restarted, even
\* after an error of Run.
DueIsTaken ==
  \A block \in 0 .. MaxHead :
    running /\ due = block /\ block <= head ~> due # block
===============================================================================
