------------------------------- MODULE ChainTip -------------------------------
(***************************************************************************)
(* The chain tip publisher (publisher/chainTip.go): kliento's              *)
(* HeaderListener sends the headers from startBlock on into a buffered     *)
(* channel, a second goroutine queues the block of each.  The listener is  *)
(* external; it is used as a source of consecutive headers that waits      *)
(* while the channel is full.                                              *)
(***************************************************************************)
EXTENDS Rdb, Environment, Sequences

CONSTANT HeadersCap     \* capacity of the channel headers (10 in the code)

ASSUME ChainTipAssumption == HeadersCap \in Nat \ {0}

VARIABLES tpc,          \* "off", "start" (HeaderByNumber is next) or "run"
          nextHeader,   \* the header the listener delivers next
          headers       \* the channel

ChainTipVars == <<tpc, nextHeader, headers>>

ChainTipTypeOK ==
  /\ tpc \in {"off", "start", "run"}
  /\ nextHeader \in Nat
  /\ headers \in Seq(Nat)

ChainTipInit(enabled) ==
  /\ tpc = IF enabled THEN "start" ELSE "off"
  /\ nextHeader = 0
  /\ headers = <<>>

ChainTipRestart(enabled) ==
  /\ tpc' = IF enabled THEN "start" ELSE "off"
  /\ nextHeader' = 0
  /\ headers' = <<>>
-----------------------------------------------------------------------------
\* start: the listener begins at the header that is the latest by now.
StartListening ==
  /\ tpc = "start"
  /\ tpc' = "run"
  /\ nextHeader' = head
  /\ NoFault
  /\ UNCHANGED <<headers, RdbVars>>

\* HeaderListener (external): the next header goes into the channel.
ListenHeader ==
  /\ tpc = "run"
  /\ nextHeader <= head
  /\ Len(headers) < HeadersCap
  /\ headers' = Append(headers, nextHeader)
  /\ nextHeader' = nextHeader + 1
  /\ NoFault
  /\ UNCHANGED <<tpc, RdbVars>>

\* start, second goroutine: the block of the next header is queued.
QueueTip ==
  /\ tpc = "run"
  /\ headers # <<>>
  /\ EnqueueBlock(Head(headers))
  /\ headers' = Tail(headers)
  /\ NoFault
  /\ UNCHANGED <<tpc, nextHeader>>

ChainTipNext ==
  \/ StartListening
  \/ ListenHeader
  \/ QueueTip
==============================================================================
