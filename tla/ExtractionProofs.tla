--------------------------- MODULE ExtractionProofs ---------------------------
(***************************************************************************)
(* Proofs about module Extraction, for every chain, any number of attempts *)
(* and any faults.                                                         *)
(***************************************************************************)
EXTENDS Extraction, TLAPS

\* The threads have sequences of calls for scripts.
AreScripts(threads) ==
  \A t \in threads : DOMAIN t.script \subseteq Nat

\* Runs of view calls are scripts, and so are scripts one after the other.
LEMMA ViewsScript ==
  ASSUME NEW row, NEW methods, DOMAIN methods \subseteq Nat
  PROVE  DOMAIN Views(row, methods) \subseteq Nat
BY DEF Views

LEMMA CallsInSequence ==
  ASSUME NEW S, NEW one \in Seq(S), NEW other \in Seq(S)
  PROVE  DOMAIN (one \o other) \subseteq Nat
OBVIOUS

LEMMA CoreScripts ==
  ASSUME NEW block, NEW contract, NEW script, DOMAIN script \subseteq Nat
  PROVE  AreScripts(CoreContract(block, contract, script))
BY DEF CoreContract, Thread, AreScripts

LEMMA ContractViewsScript ==
  ASSUME NEW row, NEW contract, NEW methods, DOMAIN methods \subseteq Nat
  PROVE  DOMAIN ContractViews(row, contract, methods) \subseteq Nat
BY DEF ContractViews, Views

LEMMA ContractScripts ==
  ASSUME NEW block, NEW row
  PROVE  /\ AreScripts(Election(block, row))
         /\ AreScripts(LockedGold(block, row))
         /\ AreScripts(GoldToken(block, row))
         /\ AreScripts(Reserve(block, row))
         /\ AreScripts(EpochRewards(block, row))
<1>1. AreScripts(Election(block, row))
  <2>1. DOMAIN <<"getActiveVotes", "getTotalVotes", "getElectableValidators">>
          \subseteq Nat
    OBVIOUS
  <2>2. QED
    BY <2>1, ContractViewsScript, CoreScripts DEF Election
<1>2. AreScripts(LockedGold(block, row))
  <2>1. DOMAIN <<"getNonvotingLockedGold", "getTotalLockedGold">> \subseteq Nat
    OBVIOUS
  <2>2. QED
    BY <2>1, ContractViewsScript, CoreScripts DEF LockedGold
<1>3. AreScripts(GoldToken(block, row))
  <2>1. DOMAIN <<"totalSupply">> \subseteq Nat
    OBVIOUS
  <2>2. QED
    BY <2>1, ContractViewsScript, CoreScripts DEF GoldToken
<1>4. AreScripts(Reserve(block, row))
  <2>1. DOMAIN <<"getReserveRatio", "getReserveGoldBalance",
         "getOtherReserveAddressesGoldBalance", "getUnfrozenBalance",
         "getFrozenReserveGoldBalance", "getUnfrozenReserveGoldBalance">>
          \subseteq Nat
    OBVIOUS
  <2>2. QED
    BY <2>1, ContractViewsScript, CoreScripts DEF Reserve
<1>5. AreScripts(EpochRewards(block, row))
  <2>1. DOMAIN <<"getTargetTotalSupply", "getTargetVoterRewards",
         "getRewardsMultiplier", "getRewardsMultiplierParameteres",
         "getTargetVotingYieldParameteres", "getTargetVotingGoldFraction",
         "getVotingGoldFraction", "calculateTargetEpochRewards">> \subseteq Nat
    OBVIOUS
  <2>2. QED
    BY <2>1, ContractViewsScript, CoreScripts DEF EpochRewards
<1>6. QED
  BY <1>1, <1>2, <1>3, <1>4, <1>5

LEMMA TokenScripts ==
  ASSUME NEW block, NEW row
  PROVE  /\ AreScripts(Exchange(block, row))
         /\ AreScripts(StableToken(block, row))
<1>1. AreScripts(Exchange(block, row))
  <2>1. DOMAIN <<"reserveFraction", "goldBucket", "stableBucket">> \subseteq Nat
    OBVIOUS
  <2>2. QED
    BY <2>1, ContractViewsScript DEF AreScripts, Exchange, Thread
<1>2. AreScripts(StableToken(block, row))
  <2>1. DOMAIN <<"totalSupply", "getInflationParameters">> \subseteq Nat
    OBVIOUS
  <2>2. QED
    BY <2>1, ContractViewsScript DEF AreScripts, StableToken, Thread
<1>3. QED
  BY <1>1, <1>2

LEMMA ElementOf ==
  ASSUME NEW T, NEW seq \in Seq(T), NEW i \in DOMAIN seq
  PROVE  seq[i] \in T
OBVIOUS

LEMMA IsSequence ==
  ASSUME NEW T, NEW n \in Nat, NEW seq \in [1 .. n -> T]
  PROVE  seq \in Seq(T)
OBVIOUS

LEMMA MappedSequence ==
  ASSUME NEW T, NEW seq \in Seq(T), NEW f, NEW S,
         f = [i \in DOMAIN seq |-> f[i]], \A i \in DOMAIN seq : f[i] \in S
  PROVE  f \in Seq(S)
<1>1. Len(seq) \in Nat /\ DOMAIN seq = 1 .. Len(seq)
  OBVIOUS
<1>2. f \in [1 .. Len(seq) -> S]
  BY <1>1
<1>3. QED
  BY <1>1, <1>2

LEMMA TransactionScript ==
  ASSUME NEW block \in Blocks, NEW i \in DOMAIN Chain[block].txs, NEW row
  PROVE  DOMAIN Transaction(row, block, i) \subseteq Nat
<1> DEFINE tx == Chain[block].txs[i]
           txRow == Extend(row, [txHash |-> tx.hash, txIndex |-> i - 1])
           receipt ==
             Call({WithId(Extend(txRow, [type |-> "Transaction"]),
                          <<Text(tx.hash)>>)}, "fail")
           events ==
             [j \in DOMAIN tx.logs |-> Event(txRow, tx.hash, j - 1, tx.logs[j])]
           trace == Transfers(txRow, tx.hash, tx.transfers)
           calls == {receipt, trace} \cup {events[j] : j \in DOMAIN tx.logs}
           traces == IF DebugEnabled THEN <<trace>> ELSE <<>>
<1>1. tx.logs \in Seq(BOOLEAN)
  <2>1. tx \in [hash : STRING, logs : Seq(BOOLEAN), transfers : Seq(Nat)]
    BY ProcessorsAssumption, ElementOf
  <2>2. QED
    BY <2>1
<1>2. events \in Seq(calls)
  <2> HIDE DEF receipt, trace
  <2>1. events = [j \in DOMAIN tx.logs |-> events[j]]
    OBVIOUS
  <2>2. \A j \in DOMAIN tx.logs : events[j] \in calls
    OBVIOUS
  <2> HIDE DEF events, calls, tx
  <2>3. QED
    BY <1>1, <2>1, <2>2, MappedSequence
<1>3. <<receipt>> \in Seq(calls) /\ traces \in Seq(calls)
  <2> HIDE DEF receipt, trace
  <2>1. receipt \in calls /\ trace \in calls
    OBVIOUS
  <2> HIDE DEF calls
  <2>2. QED
    BY <2>1
<1>4. Transaction(row, block, i) = (<<receipt>> \o events) \o traces
  BY DEF Transaction
<1> HIDE DEF receipt, events, traces, calls
<1>5. (<<receipt>> \o events) \in Seq(calls)
  BY <1>2, <1>3
<1>6. QED
  BY <1>3, <1>4, <1>5, CallsInSequence

LEMMA ChaindataScripts ==
  ASSUME NEW block \in Blocks, NEW row
  PROVE  AreScripts(Chaindata(block, row))
<1>1. DOMAIN <<Call({Extend(row, [type |-> "Block"])}, "never")>> \subseteq Nat
  OBVIOUS
<1>2. QED
  BY <1>1, TransactionScript DEF AreScripts, Chaindata, Thread

LEMMA EpochLogsScripts ==
  ASSUME NEW block \in Blocks, NEW row
  PROVE  AreScripts(EpochLogs(block, row))
<1> DEFINE logs == Chain[block].epochLogs
           filter == Call({}, "fail")
           events == [i \in DOMAIN logs |->
                        Event(row, Chain[block].hash, logs[i].index,
                              logs[i].known)]
           calls == {filter} \cup {events[i] : i \in DOMAIN logs}
<1>1. logs \in Seq([index : Nat, known : BOOLEAN])
  BY ProcessorsAssumption
<1>2. events \in Seq(calls)
  <2> HIDE DEF filter
  <2>1. events = [i \in DOMAIN logs |-> events[i]]
    OBVIOUS
  <2>2. \A i \in DOMAIN logs : events[i] \in calls
    OBVIOUS
  <2> HIDE DEF events, calls, logs
  <2>3. QED
    BY <1>1, <2>1, <2>2, MappedSequence
<1>3. <<filter>> \in Seq(calls)
  <2> HIDE DEF events, filter
  <2>1. QED
    OBVIOUS
<1>4. EpochLogs(block, row) = {Thread("epochLogs", 0, <<filter>> \o events)}
  BY DEF EpochLogs
<1> HIDE DEF filter, events, calls
<1>5. DOMAIN (<<filter>> \o events) \subseteq Nat
  BY <1>2, <1>3, CallsInSequence
<1>6. QED
  BY <1>4, <1>5 DEF AreScripts, Thread

LEMMA SortedOraclesScript ==
  ASSUME NEW row, NEW token, NEW count
  PROVE  DOMAIN SortedOraclesOf(row, token, count) \subseteq Nat
<1> DEFINE contractRow ==
             AppendID(Contract(row, "SortedOracles", [stableToken |-> token]),
                      Text(token))
           heads == <<"IsOldestReportExpired", "NumRates", "MedianRate",
                      "MedianTimestamp">>
           first == Views(contractRow, heads)
           rates == OracleReports(contractRow, "GetRates", count)
           times == OracleReports(contractRow, "GetTimestamps", count)
           last == Views(Contract(row, TokenID[token], <<>>),
                         <<"getBuyAndSellBuckets">>)
           calls == {rates, times} \cup {first[i] : i \in 1 .. 4}
                      \cup {last[i] : i \in 1 .. 1}
<1>1. SortedOraclesOf(row, token, count) = (first \o <<rates, times>>) \o last
  BY DEF SortedOraclesOf
<1>2. first \in Seq(calls)
  <2>1. DOMAIN heads = 1 .. 4
    OBVIOUS
  <2>2. first = [i \in 1 .. 4 |-> first[i]]
    BY <2>1 DEF Views
  <2> HIDE DEF first, rates, times, last
  <2>3. first \in [1 .. 4 -> calls]
    BY <2>2
  <2> HIDE DEF calls
  <2>4. QED
    BY <2>3, IsSequence
<1>3. last \in Seq(calls)
  <2>1. last = [i \in 1 .. 1 |-> last[i]]
    BY DEF Views
  <2> HIDE DEF first, rates, times, last
  <2>2. last \in [1 .. 1 -> calls]
    BY <2>1
  <2> HIDE DEF calls
  <2>3. QED
    BY <2>2, IsSequence
<1>4. <<rates, times>> \in Seq(calls)
  <2> HIDE DEF first, rates, times, last
  <2>1. QED
    OBVIOUS
<1> HIDE DEF first, rates, times, last, calls
<1>5. (first \o <<rates, times>>) \in Seq(calls)
  BY <1>2, <1>4
<1>6. QED
  BY <1>1, <1>3, <1>5, CallsInSequence

LEMMA SortedOraclesScripts ==
  ASSUME NEW block, NEW row
  PROVE  AreScripts(SortedOracles(block, row))
BY SortedOraclesScript DEF AreScripts, SortedOracles, Thread

\* Every thread of a block, whenever it is loaded, has a script.
LEMMA AllScripts ==
  ASSUME NEW block \in Blocks, NEW second \in Seconds
  PROVE  AreScripts(AllThreads[block][second])
<1>1. AllThreads[block][second] = Threads(block, second)
  BY DEF AllThreads
<1>2. AreScripts(Threads(block, second))
  BY ChaindataScripts, TokenScripts, ContractScripts, SortedOraclesScripts,
     EpochLogsScripts
  DEF AreScripts, Threads
<1>3. QED
  BY <1>1, <1>2

-----------------------------------------------------------------------------
\* An error that Run does not see is an excuse, or that of an event.
LEMMA StopsAreExcuses ==
  ASSUME NEW a, NEW t
  PROVE  BadCalls(a, t, {"stop"}) \subseteq Excuses(a, t)
<1> SUFFICES ASSUME NEW i \in DOMAIN t.script, NEW error \in Errors,
                    <<t.of, i, error>> \in failing[a],
                    EffectOf(t.script[i], error) = "stop"
             PROVE  i \in Excuses(a, t)
  BY DEF BadCalls
<1>1. error = "notDeployed" \/ t.script[i].onError = "stop"
  BY DEF EffectOf, checkError
<1>2. QED
  BY <1>1 DEF Excuses, Errors

LEMMA SkipsAreEvents ==
  ASSUME NEW a, NEW t, NEW i \in BadCalls(a, t, {"skip"})
  PROVE  t.script[i].onError = "skip"
BY DEF BadCalls, EffectOf, checkError

LEMMA ExcusedOrFailing ==
  ASSUME NEW a, NEW t, NEW i \in BadCalls(a, t, {"fail", "stop"})
  PROVE  i \in BadCalls(a, t, {"fail"}) \/ i \in BadCalls(a, t, {"stop"})
BY DEF BadCalls

\* A thread that returns no error has sent what is required of it.
LEMMA RequiredAreSent ==
  ASSUME NEW a, NEW t, DOMAIN t.script \subseteq Nat, ~ReturnsError(a, t)
  PROVE  RequiredOf(a, t) \subseteq Sends(a, t)
<1> SUFFICES ASSUME NEW i \in RequiredOf(a, t)
             PROVE  i \in Sends(a, t)
  OBVIOUS
<1>1. /\ i \in DOMAIN t.script /\ t.script[i].onError # "skip"
      /\ \A j \in Excuses(a, t) : i < j
  BY DEF RequiredOf
<1>2. i \notin BadCalls(a, t, {"skip"})
  BY <1>1, SkipsAreEvents
<1>3. \A j \in BadCalls(a, t, {"stop"}) : i < j
  BY <1>1, StopsAreExcuses
<1>4. ASSUME NEW j \in BadCalls(a, t, {"fail"}), j <= i
      PROVE  FALSE
  <2>1. /\ i \in Nat /\ j \in Nat
        /\ BadCalls(a, t, {"stop"}) \subseteq Nat
    BY <1>1 DEF BadCalls
  <2>2. \A k \in BadCalls(a, t, {"stop"}) : j <= k
    BY <1>3, <1>4, <2>1
  <2>3. QED
    BY <1>4, <2>2 DEF ReturnsError
<1>5. ASSUME NEW j \in BadCalls(a, t, {"fail", "stop"})
      PROVE  i < j
  <2>1. i \in Nat /\ j \in Nat
    BY <1>1 DEF BadCalls
  <2>2. QED
    BY <1>3, <1>4, <2>1, ExcusedOrFailing
<1>6. QED
  BY <1>1, <1>2, <1>5 DEF Sends

LEMMA AttemptSendsRequired ==
  ASSUME TypeOK, NEW a \in Attempts, ~AttemptErrs(a)
  PROVE  RequiredRows(a) \subseteq SentRows(a)
<1>1. loaded[a].block \in Blocks /\ loaded[a].second \in Seconds
  BY DEF TypeOK
<1>2. AreScripts(ThreadsOf(a))
  BY <1>1, AllScripts DEF ThreadsOf
<1>3. ASSUME NEW t \in ThreadsOf(a)
      PROVE  RequiredOf(a, t) \subseteq Sends(a, t)
  BY <1>2, RequiredAreSent DEF AreScripts, AttemptErrs
<1>4. QED
  BY <1>3 DEF RequiredRows, SentRows, RowsAt

LEMMA SavedHasId ==
  ASSUME NEW rows
  PROVE  \A row \in Saved(rows) : row.id # NoId
BY DEF Saved, Save, GetID, NoId

\* An attempt about to mark its block has put its rows into the destination.
ReadyToMark ==
  \A a \in Attempts : apc[a] = "mark" => Saved(RequiredRows(a)) \subseteq table

IInv == TypeOK /\ ReadyToMark /\ MarkedHasRows

LEMMA InitIInv == Init => IInv
<1> SUFFICES ASSUME Init PROVE IInv
  OBVIOUS
<1>1. TypeOK
  BY ExtractionAssumption DEF Init, TypeOK, Seconds
<1>2. ReadyToMark /\ MarkedHasRows
  BY DEF Init, ReadyToMark, MarkedHasRows
<1>3. QED
  BY <1>1, <1>2 DEF IInv

\* What is required of an attempt is settled once it has loaded its block
\* and its calls are over, and rows are never taken away again.
LEMMA RequiredStays ==
  ASSUME NEW a, loaded'[a] = loaded[a], failing'[a] = failing[a]
  PROVE  RequiredRows(a)' = RequiredRows(a)
BY DEF RequiredRows, RequiredOf, Excuses, ThreadsOf

Settled(pcs) ==
  \A a \in Attempts : apc[a] \in pcs =>
    apc'[a] = apc[a] /\ loaded'[a] = loaded[a] /\ failing'[a] = failing[a]

LEMMA ReadyStays ==
  ASSUME IInv, table \subseteq table', Settled({"mark"}),
         \A a \in Attempts : apc'[a] = "mark" => apc[a] = "mark"
  PROVE  ReadyToMark'
<1> SUFFICES ASSUME NEW a \in Attempts, apc'[a] = "mark"
             PROVE  Saved(RequiredRows(a)') \subseteq table'
  BY DEF ReadyToMark, Saved
<1>1. RequiredRows(a)' = RequiredRows(a)
  BY RequiredStays DEF Settled
<1>2. QED
  BY <1>1 DEF IInv, ReadyToMark

LEMMA MarkedStay ==
  ASSUME IInv, table \subseteq table', marked' = marked, Settled({"done"})
  PROVE  MarkedHasRows'
<1> SUFFICES ASSUME NEW block \in marked
             PROVE  \E a \in Attempts :
                      /\ apc'[a] = "done" /\ loaded'[a].block = block
                      /\ Saved(RequiredRows(a)') \subseteq table'
  BY DEF MarkedHasRows, Saved
<1>1. PICK a \in Attempts : /\ apc[a] = "done" /\ loaded[a].block = block
                            /\ Saved(RequiredRows(a)) \subseteq table
  BY DEF IInv, MarkedHasRows
<1>2. RequiredRows(a)' = RequiredRows(a)
  BY <1>1, RequiredStays DEF Settled
<1>3. QED
  BY <1>1, <1>2 DEF Settled

LEMMA NextIInv == IInv /\ [Next]_vars => IInv'
<1> SUFFICES ASSUME IInv, [Next]_vars PROVE IInv'
  OBVIOUS
<1> USE DEF IInv
<1>1. CASE Tick
  <2>1. TypeOK'
    BY <1>1, ExtractionAssumption DEF Tick, TypeOK, Seconds
  <2>2. Settled({"mark"}) /\ Settled({"done"})
    BY <1>1 DEF Tick, Settled
  <2>3. QED
    BY <1>1, <2>1, <2>2, ReadyStays, MarkedStay DEF Tick
<1>2. ASSUME NEW a \in Attempts, LoadBlock(a)
      PROVE  IInv'
  <2>1. TypeOK'
    BY <1>2 DEF LoadBlock, TypeOK
  <2>2. Settled({"mark"}) /\ Settled({"done"})
    BY <1>2 DEF LoadBlock, TypeOK, Settled
  <2>3. \A b \in Attempts : apc'[b] = "mark" => apc[b] = "mark"
    BY <1>2 DEF LoadBlock, TypeOK
  <2>4. QED
    BY <1>2, <2>1, <2>2, <2>3, ReadyStays, MarkedStay DEF LoadBlock
<1>3. ASSUME NEW a \in Attempts, FailCall(a)
      PROVE  IInv'
  <2>1. /\ apc[a] = "run"
        /\ \A b \in Attempts \ {a} : failing'[b] = failing[b]
        /\ UNCHANGED <<clock, apc, loaded, table, marked>>
    BY <1>3 DEF FailCall, TypeOK
  <2>2. faults' \in 0 .. MaxFaults
    BY <1>3, ExtractionAssumption DEF FailCall, Fault, TypeOK
  <2>3. TypeOK'
    BY <2>1, <2>2 DEF TypeOK
  <2>4. Settled({"mark"}) /\ Settled({"done"})
    BY <2>1 DEF Settled
  <2>5. QED
    BY <2>1, <2>3, <2>4, ReadyStays, MarkedStay
<1>4. ASSUME NEW a \in Attempts, RunSucceeds(a)
      PROVE  IInv'
  <2>1. TypeOK'
    BY <1>4, SavedHasId DEF RunSucceeds, TypeOK
  <2>2. RequiredRows(a)' = RequiredRows(a)
    BY <1>4, RequiredStays DEF RunSucceeds
  <2>3. Saved(RequiredRows(a)') \subseteq table'
    BY <1>4, <2>2, AttemptSendsRequired DEF RunSucceeds, Saved
  <2>4. \A b \in Attempts \ {a} : RequiredRows(b)' = RequiredRows(b)
    BY <1>4, RequiredStays DEF RunSucceeds
  <2>5. ASSUME NEW b \in Attempts, apc'[b] = "mark"
        PROVE  Saved(RequiredRows(b)') \subseteq table'
    <3>1. CASE b = a
      BY <2>3, <3>1
    <3>2. CASE b # a
      <4>1. apc[b] = "mark" /\ table \subseteq table'
        BY <1>4, <2>5, <3>2 DEF RunSucceeds, TypeOK
      <4>2. QED
        BY <2>4, <3>2, <4>1 DEF ReadyToMark
    <3>3. QED
      BY <3>1, <3>2
  <2>6. ReadyToMark'
    BY <2>5 DEF ReadyToMark, Saved
  <2>7. Settled({"done"}) /\ table \subseteq table' /\ marked' = marked
    BY <1>4 DEF RunSucceeds, TypeOK, Settled
  <2>8. QED
    BY <2>1, <2>6, <2>7, MarkedStay
<1>5. ASSUME NEW a \in Attempts, RunFails(a)
      PROVE  IInv'
  <2>1. PICK some \in SUBSET Saved(SentRows(a)) : table' = table \cup some
    BY <1>5 DEF RunFails
  <2>2. TypeOK'
    BY <1>5, <2>1, SavedHasId, ExtractionAssumption DEF RunFails, Fault, TypeOK
  <2>3. Settled({"mark"}) /\ Settled({"done"})
    BY <1>5 DEF RunFails, TypeOK, Settled
  <2>4. \A b \in Attempts : apc'[b] = "mark" => apc[b] = "mark"
    BY <1>5 DEF RunFails, TypeOK
  <2>5. QED
    BY <1>5, <2>1, <2>2, <2>3, <2>4, ReadyStays, MarkedStay DEF RunFails
<1>6. ASSUME NEW a \in Attempts, MarkBlock(a)
      PROVE  IInv'
  <2>1. TypeOK'
    BY <1>6, ExtractionAssumption DEF MarkBlock, Fault, TypeOK
  <2>2. /\ \A b \in Attempts : apc'[b] = "mark" => apc[b] = "mark"
        /\ \A b \in Attempts : apc'[b] = "mark" => b # a
        /\ \A b \in Attempts : apc[b] = "done" => apc'[b] = "done"
        /\ apc'[a] = "done"
        /\ UNCHANGED <<loaded, failing, table>>
        /\ marked' \subseteq marked \cup {loaded[a].block}
    BY <1>6 DEF MarkBlock, TypeOK
  <2>3. \A b \in Attempts : RequiredRows(b)' = RequiredRows(b)
    BY <2>2, RequiredStays
  <2>4. ReadyToMark'
    BY <2>2, <2>3 DEF ReadyToMark, Saved
  <2>5. ASSUME NEW block \in marked'
        PROVE  \E b \in Attempts :
                 /\ apc'[b] = "done" /\ loaded'[b].block = block
                 /\ Saved(RequiredRows(b)') \subseteq table'
    <3>1. CASE block \in marked
      BY <2>2, <2>3, <3>1 DEF MarkedHasRows
    <3>2. CASE block = loaded[a].block
      <4>1. Saved(RequiredRows(a)) \subseteq table
        BY <1>6 DEF MarkBlock, ReadyToMark
      <4>2. QED
        BY <2>2, <2>3, <3>2, <4>1
    <3>3. QED
      BY <2>2, <2>5, <3>1, <3>2
  <2>6. MarkedHasRows'
    BY <2>5 DEF MarkedHasRows, Saved
  <2>7. QED
    BY <2>1, <2>4, <2>6
<1>7. CASE UNCHANGED vars
  <2>1. TypeOK'
    BY <1>7 DEF vars, TypeOK
  <2>2. Settled({"mark"}) /\ Settled({"done"})
    BY <1>7 DEF vars, Settled
  <2>3. QED
    BY <1>7, <2>1, <2>2, ReadyStays, MarkedStay DEF vars
<1>8. QED
  BY <1>1, <1>2, <1>3, <1>4, <1>5, <1>6, <1>7 DEF Next

\* The variables of the extraction have their types, and no row is saved
\* without an insert id.
THEOREM TypeCorrect == Spec => []TypeOK
<1>1. IInv => TypeOK
  BY DEF IInv
<1>2. QED
  BY <1>1, InitIInv, NextIInv, PTL DEF Spec

\* A block is marked only after one attempt put its rows into the destination:
\* those that are missing belong to an event that was skipped or to a processor
\* whose own contract said that it is frozen or not deployed.
THEOREM MarkedRows == Spec => []MarkedHasRows
<1>1. IInv => MarkedHasRows
  BY DEF IInv
<1>2. QED
  BY <1>1, InitIInv, NextIInv, PTL DEF Spec
===============================================================================
