------------------------------ MODULE Extraction ------------------------------
(***************************************************************************)
(* What ends up in the destination when blocks are processed again: after  *)
(* a failed attempt, by a second worker, or by an indexer at the tip and   *)
(* one that backfills.  An attempt is a call of blockHandler.Run (handler  *)
(* .go) and the mark that follows it (worker.go).  Here the goroutines of  *)
(* Run are one step; module BlockHandler has the steps inside.  What their *)
(* calls are and which rows follow is taken from module Processors.        *)
(*                                                                         *)
(* BigQuery drops a row with the insert id of one it has; the table keeps  *)
(* both, for the properties to compare them.                               *)
(***************************************************************************)
EXTENDS Processors, FiniteSets, Functions

CONSTANTS Attempts,       \* the attempts of a behaviour, of any worker
          MaxSecond,      \* bound: the clock stops here
          MaxFaults,      \* bound: failing calls, exits and lost marks
          FaultyBlocks    \* bound: attempts at these blocks meet them

ASSUME ExtractionAssumption == MaxSecond \in Nat /\ MaxFaults \in Nat

VARIABLES clock,          \* time.Now(), in seconds
          apc,            \* "new", "run", "mark" or "done"
          loaded,         \* the block of an attempt and when it was loaded
          failing,        \* the calls of an attempt that fail, with the error
          table,          \* the rows in the destination
          marked,         \* BlocksMap
          faults          \* faults so far

vars == <<clock, apc, loaded, failing, table, marked, faults>>

Seconds == 0 .. MaxSecond

\* All threads of all blocks, whenever they are loaded.
AllThreads ==
  [block \in Blocks |-> [second \in Seconds |-> Threads(block, second)]]

ThreadsOf(a) == AllThreads[loaded[a].block][loaded[a].second]

RowsAt(script, calls) == UNION {script[i].rows : i \in calls}

Saved(rows) == {Save(row) : row \in rows}

\* What IsExpectedBeforeContractsDeployed (external) tells apart.
Errors == {"notDeployed", "other"}

TypeOK ==
  /\ clock \in Seconds
  /\ apc \in [Attempts -> {"new", "run", "mark", "done"}]
  /\ loaded \in [Attempts -> [block : Blocks, second : Seconds]]
  /\ \A a \in Attempts : apc[a] = "new" => failing[a] = {}
  /\ \A row \in table : row.id # NoId
  /\ marked \subseteq Blocks
  /\ faults \in 0 .. MaxFaults

Init ==
  /\ clock = 0
  /\ apc = [a \in Attempts |-> "new"]
  /\ loaded \in [Attempts -> [block : Blocks, second : {0}]]
  /\ failing = [a \in Attempts |-> {}]
  /\ table = {}
  /\ marked = {}
  /\ faults = 0

Fault(a) ==
  /\ loaded[a].block \in FaultyBlocks
  /\ faults < MaxFaults /\ faults' = faults + 1
-----------------------------------------------------------------------------
\* Time passes.
Tick ==
  /\ clock < MaxSecond
  /\ clock' = clock + 1
  /\ UNCHANGED <<apc, loaded, failing, table, marked, faults>>

\* loadBlock: the time at which the block is loaded goes into its rows.
LoadBlock(a) ==
  /\ apc[a] = "new"
  /\ apc' = [apc EXCEPT ![a] = "run"]
  /\ loaded' = [loaded EXCEPT ![a].second = clock]
  /\ UNCHANGED <<clock, failing, table, marked, faults>>

\* The error of a call of the attempt, or of the contract it is made on.
FailCall(a) ==
  /\ apc[a] = "run"
  /\ Fault(a)
  /\ \E t \in ThreadsOf(a) :
       \E i \in DOMAIN t.script, error \in Errors :
         /\ t.script[i].onError # "never"
         /\ error = "notDeployed" => t.script[i].onError = "check"
         /\ \A earlier \in Errors : <<t.of, i, earlier>> \notin failing[a]
         /\ failing' = [failing EXCEPT ![a] = @ \cup {<<t.of, i, error>>}]
  /\ UNCHANGED <<clock, apc, loaded, table, marked>>

\* Mutant: it takes every error for one of a contract that is not deployed.
checkNothing(error) == "stop"

\* handler.checkError, around CollectData: Run does not see the error of a
\* contract that is not deployed, though the rest of the script is left out.
checkError(error) == IF error = "notDeployed" THEN "stop" ELSE "fail"

EffectOf(call, error) ==
  IF call.onError = "check" THEN checkError(error) ELSE call.onError

\* The calls of a thread with an error that has one of these effects.
BadCalls(a, t, effects) ==
  {i \in DOMAIN t.script :
     \E error \in Errors :
       <<t.of, i, error>> \in failing[a]
         /\ EffectOf(t.script[i], error) \in effects}

\* CollectData of a thread goes on up to the first error it does not skip.
Sends(a, t) ==
  {i \in DOMAIN t.script \ BadCalls(a, t, {"skip"}) :
     \A j \in BadCalls(a, t, {"fail", "stop"}) : i < j}

\* The thread returns the error of a failing call it gets to, if that is
\* neither taken for a frozen contract nor for one that is not deployed.
ReturnsError(a, t) ==
  \E i \in BadCalls(a, t, {"fail"}) :
    \A j \in BadCalls(a, t, {"stop"}) : i <= j

SentRows(a) == UNION {RowsAt(t.script, Sends(a, t)) : t \in ThreadsOf(a)}

AttemptErrs(a) == \E t \in ThreadsOf(a) : ReturnsError(a, t)

\* Run returns nil: all rows were sent, collected and written.
RunSucceeds(a) ==
  /\ apc[a] = "run"
  /\ ~AttemptErrs(a)
  /\ table' = table \cup Saved(SentRows(a))
  /\ apc' = [apc EXCEPT ![a] = "mark"]
  /\ UNCHANGED <<clock, loaded, failing, marked, faults>>

\* Run does not get to the mark: a processor returned an error, or a factory
\* or the write failed, or the process exits.  Any of the rows may be in the
\* destination.
RunFails(a) ==
  /\ apc[a] = "run"
  /\ \/ AttemptErrs(a) /\ UNCHANGED faults
     \/ ~AttemptErrs(a) /\ Fault(a)
  /\ \E some \in SUBSET Saved(SentRows(a)) : table' = table \cup some
  /\ apc' = [apc EXCEPT ![a] = "done"]
  /\ UNCHANGED <<clock, loaded, failing, marked>>

\* start: the block is marked, or the mark is lost.
MarkBlock(a) ==
  /\ apc[a] = "mark"
  /\ \/ marked' = marked \cup {loaded[a].block} /\ UNCHANGED faults
     \/ Fault(a) /\ UNCHANGED marked
  /\ apc' = [apc EXCEPT ![a] = "done"]
  /\ UNCHANGED <<clock, loaded, failing, table>>

Next ==
  \/ Tick
  \/ \E a \in Attempts :
       \/ LoadBlock(a)
       \/ FailCall(a)
       \/ RunSucceeds(a)
       \/ RunFails(a)
       \/ MarkBlock(a)

Spec == Init /\ [][Next]_vars
-----------------------------------------------------------------------------
\* What a row says of the chain: all of it but the time of indexing.
Fact(row) == Restrict(row.values, DOMAIN row.values \ {"indexerTimestamp"})

\* The first call of a processor that is answered with "not deployed", or that
\* is taken for one of a frozen contract, ends what may be asked of it.
Excuses(a, t) ==
  {i \in DOMAIN t.script :
     \/ <<t.of, i, "notDeployed">> \in failing[a]
     \/ /\ t.script[i].onError = "stop"
        /\ <<t.of, i, "other">> \in failing[a]}

\* The calls whose rows may not be missing when Run returns nil: all but
\* events, which are skipped one by one, up to an excuse.
RequiredOf(a, t) ==
  {i \in DOMAIN t.script :
     /\ t.script[i].onError # "skip"
     /\ \A j \in Excuses(a, t) : i < j}

RequiredRows(a) ==
  UNION {RowsAt(t.script, RequiredOf(a, t)) : t \in ThreadsOf(a)}

\* A block is marked only after one attempt put its rows into the destination.
\* The ones that may be missing are those of events that were skipped and,
\* for a contract that said it is frozen or not deployed, those of that very
\* processor from the call on: no other error, and no error of another
\* processor, loses rows, whatever earlier or other attempts left there
\* (CollectData's error paths, checkError, Run, Worker.start).
MarkedHasRows ==
  \A block \in marked :
    \E a \in Attempts :
      /\ apc[a] = "done" /\ loaded[a].block = block
      /\ Saved(RequiredRows(a)) \subseteq table

\* Rows that say different things never share an insert id, of which the
\* destination would keep one row only: not across processors, tokens,
\* transactions, epoch logs, blocks and attempts (row.go).
IdsIdentify ==
  \A one, other \in table : one.id = other.id => Fact(one) = Fact(other)

\* The rows that are given an id of their own: all but the ones of the block
\* and of the processors that extend the row of the block by "contract".
HasOwnId(row) ==
  \/ "type" \in DOMAIN row.values
     /\ row.values.type \in {"Transaction", "Event", "Transfer"}
  \/ "contract" \in DOMAIN row.values /\ row.values.contract = "SortedOracles"
  \/ "method" \in DOMAIN row.values
     /\ row.values.method = "getBuyAndSellBuckets"

\* All rows of a block that is loaded at the given second.
RowsOf(block, second) ==
  UNION {RowsAt(t.script, DOMAIN t.script) : t \in AllThreads[block][second]}

\* These come back with the id they had and say the same when their block is
\* processed again, at any other time, by another worker or after rows were
\* lost: the destination recognises each of them, also those that say the same
\* as others, like two equal transfers of a transaction.
OwnIdsStable ==
  \A row \in table :
    HasOwnId(row) =>
      \A second \in Seconds :
        \E again \in Saved(RowsOf(row.values.blockNumber, second)) :
          again.id = row.id /\ Fact(again) = Fact(row)

\* "to avoid both indexers processing the same block, even though that
\* shouldn't be problematic if it happens" (readme): a second time gives no
\* row that the destination does not recognise.
ReprocessingHarmless ==
  \A one, other \in table : Fact(one) = Fact(other) => one.id = other.id
===============================================================================
