-------------------------------- MODULE Gauges --------------------------------
(***************************************************************************)
(* The gauges a process exports while it processes one block after another *)
(* (ObserveMetrics and HandleEvent of indexer/proc_*.go, metrics.go and    *)
(* utils.go).  A gauge keeps the value that was set last, with the event   *)
(* or block it is of.  The threads of a block are the goroutines that set  *)
(* gauges: one for ObserveMetrics of every processor, one for every        *)
(* transaction, whose events go to the handler of the exchange.  Each      *)
(* thread has a script, the calls it makes with what is set after each;    *)
(* the threads of a block run concurrently.                                *)
(*                                                                         *)
(* Chain is what the node answers (external).  A number is a fraction, a   *)
(* pair of integers; that of the big.Float that Quo returns for a zero     *)
(* divisor (an infinity, or a panic) has denominator zero.                 *)
(***************************************************************************)
EXTENDS Integers, Sequences, FiniteSets, FiniteSetsExt

CONSTANTS Chain,           \* what the node answers, for every block
          Observers,       \* the factories whose gauges an instance has
          CollectMetrics,  \* indexer.mode is metrics or both
          CollectData,     \* indexer.mode is data or both
          MinSellAmount,   \* smallest trade for the rate (10^6 in the code)
          Modulus,         \* of the unsigned integers (2^64 in the code)
          MaxRuns,         \* bound: calls of Run
          MaxFaults        \* bound: failing calls

Blocks == DOMAIN Chain

\* The events that have a handler, with the amounts that it looks at.
ExchangeEvents ==
  [kind : {"BucketsUpdated"}, token : STRING, gold : Nat, stable : Nat]
  \cup [kind : {"Exchanged"}, token : STRING, sell : Nat, buy : Nat,
        soldGold : BOOLEAN]

\* Of the contracts: amounts are unsigned, a fraction has no zero divisor,
\* and a report is stamped with the time of the block it comes in.
ASSUME GaugesAssumption ==
  /\ CollectMetrics \in BOOLEAN /\ CollectData \in BOOLEAN
  /\ MinSellAmount \in Nat
  /\ Modulus \in Nat \ {0}
  /\ \A block \in Blocks :
       /\ Chain[block].time \in 0 .. Modulus - 1
       /\ Chain[block].txs \in Seq(Seq(ExchangeEvents))
       /\ Chain[block].votingGoldFraction \in Nat \X (Nat \ {0})
       /\ \A token \in Chain[block].tokens :
            LET oracles == Chain[block].oracles[token]
            IN  /\ oracles.medianTime \in 0 .. Chain[block].time
                /\ oracles.medianRate \in Nat \X Nat
                /\ oracles.buckets \in Nat \X Nat
  /\ MaxRuns \in Nat /\ MaxFaults \in Nat

VARIABLES gauges,    \* what was set, for the gauges that were; one that is made
                     \* with its processor shows 0 before
          phase,     \* "idle", "run", or how the last Run ended: "ok", "error"
          current,   \* the block of this or the last Run
          position,  \* how many calls each of its threads has behind it
          failed,    \* the context of the threads is cancelled
          skipped,   \* an event of this Run could not be parsed
          dropped,   \* its threads with an error that Run does not see
          runs, faults

vars ==
  <<gauges, phase, current, position, failed, skipped, dropped, runs, faults>>
-----------------------------------------------------------------------------
Whole(n) == <<n, 1>>

\* big.Float.Quo
Quo(x, y) == <<x[1] * y[2], x[2] * y[1]>>

\* Mutant: a zero divisor is divided by.
DivideAnyBigInts(numerator, denominator) ==
  Quo(Whole(numerator), Whole(denominator))

\* utils.DivideBigInts
DivideBigInts(numerator, denominator) ==
  IF denominator # 0
  THEN Quo(Whole(numerator), Whole(denominator))
  ELSE Whole(0)

\* utils.BoolToFloat64
BoolToFloat64(value) == Whole(IF value THEN 1 ELSE 0)

Abs(n) == IF n < 0 THEN -n ELSE n

TotalRate(reports) ==
  MapThenSumSet(LAMBDA oracle : reports[oracle].rate, DOMAIN reports)

\* The largest |rate / mean - 1| of the reports on a token (MeanFromFixed);
\* when all rates are zero no quotient is a number, and none is larger than 0.
MaxDeviation(reports) ==
  LET count == Cardinality(DOMAIN reports)
      total == TotalRate(reports)
      diffs == {Abs(reports[oracle].rate * count - total) :
                  oracle \in DOMAIN reports}
  IN  IF total = 0 THEN Whole(0) ELSE <<Max(diffs), total>>

\* Mutant: the subtraction is the wrong way round.
AgeReversed(time, reported) == (reported - time) % Modulus

\* uint64: how old the median of the reports is, whose time is 0 when there
\* are none.
Age(time, reported) == (time - reported) % Modulus
-----------------------------------------------------------------------------
\* The gauge with this name and these label values.
Gauge(name, labels) == <<name>> \o labels

Set(gauge, value) == [g \in {gauge} |-> value]

NoGauge == [gauge \in {} |-> 0]

\* What was set last wins.
Over(new, old) ==
  [gauge \in DOMAIN new \cup DOMAIN old |->
     IF gauge \in DOMAIN new THEN new[gauge] ELSE old[gauge]]

Thread(processor, part, script) ==
  [of |-> <<processor, part>>, script |-> script]

\* chaindataProcessor: only for a block that unmarshals.
ObserveChaindata(block) ==
  IF Chain[block].readable
  THEN {Thread("chaindata", 0,
          <<Set(Gauge("block_gas_used", <<>>), Whole(Chain[block].gasUsed))>>)}
  ELSE {}

\* epochRewardsProcessor, goldTokenProcessor and stableTokenProcessor
ObserveEpochRewards(block) ==
  IF "EpochRewards" \in Chain[block].deployed
  THEN {Thread("epochRewards", 0,
          <<Set(Gauge("votinggoldfraction", <<>>),
                Chain[block].votingGoldFraction)>>)}
  ELSE {}

Supply(block, token) ==
  <<Set(Gauge("celo_token_supply", <<token>>),
        Whole(Chain[block].supply[token]))>>

ObserveGoldToken(block) ==
  IF "GoldToken" \in Chain[block].deployed
  THEN {Thread("goldToken", 0, Supply(block, "GoldToken"))}
  ELSE {}

ObserveStableToken(block) ==
  {Thread("stableToken", token, Supply(block, token)) :
     token \in Chain[block].tokens}

\* The tokens an exchangeProcessor is made for, which handles their events.
ExchangeTokens(block) ==
  IF "Reserve" \in Chain[block].deployed THEN Chain[block].exchanges ELSE {}

\* exchangeProcessor: the last call is for the histogram only.
ObserveExchange(block) ==
  LET bucket(token) == Chain[block].buckets[token]
  IN  {Thread("exchange", token,
         <<Set(Gauge("exchange_celo_bucket_size", <<token>>),
               Whole(bucket(token).gold)),
           Set(Gauge("exchange_stable_bucket_size", <<token>>),
               Whole(bucket(token).stable)),
           NoGauge>>) : token \in ExchangeTokens(block)}

\* The median rate, and the rate of the exchange that it implies; buckets is
\* the answer of GetBuyAndSellBuckets.
MedianRate(median) ==
  IF median[2] # 0 THEN Quo(Whole(median[1]), Whole(median[2])) ELSE Whole(0)

ImpliedRate(median, buckets) ==
  LET price == DivideBigInts(buckets[1], buckets[2])
  IN  IF price[1] # 0 THEN Quo(MedianRate(median), price) ELSE Whole(0)

\* A gauge for every report, with the oracle as a label.
ReportGauges(name, token, values) ==
  [gauge \in {Gauge(name, <<token, oracle>>) : oracle \in DOMAIN values} |->
     Whole(values[gauge[3]])]

\* sortedOraclesProcessor: the age needs the block's time.
ObserveSortedOraclesOf(block, token) ==
  LET oracles == Chain[block].oracles[token]
      reports == oracles.reports
      labels == <<token>>
      rates == [oracle \in DOMAIN reports |-> reports[oracle].rate]
      times == [oracle \in DOMAIN reports |-> reports[oracle].time]
      values == ReportGauges("sortedoracles_report_value", token, rates)
      age == Set(Gauge("sortedoracles_timestamp_median", labels),
                 Whole(Age(Chain[block].time, oracles.medianTime)))
  IN  <<Set(Gauge("sortedoracles_isoldestreportexpired", labels),
            BoolToFloat64(oracles.expired)),
        Set(Gauge("sortedoracles_numrates", labels),
            Whole(Cardinality(DOMAIN reports))),
        Set(Gauge("sortedoracles_medianrate", labels),
            MedianRate(oracles.medianRate)),
        Set(Gauge("sortedoracles_rates_maxdeviation", labels),
            MaxDeviation(reports)),
        IF Chain[block].readable THEN Over(age, values) ELSE values,
        ReportGauges("sortedoracles_report_timestamp", token, times),
        Set(Gauge("exchange_implied_stable_rate", labels),
            ImpliedRate(oracles.medianRate, oracles.buckets))>>

ObserveSortedOracles(block) ==
  IF "SortedOracles" \in Chain[block].deployed
  THEN {Thread("sortedOracles", token, ObserveSortedOraclesOf(block, token)) :
          token \in Chain[block].tokens \cap Chain[block].exchanges}
  ELSE {}

\* Mutant: the rate of small trades is exported too.
HandleAnyTrade(block, event) ==
  IF event.token \notin ExchangeTokens(block) THEN NoGauge
  ELSE IF event.kind = "BucketsUpdated"
       THEN Set(Gauge("exchange_bucket_ratio", <<event.token>>),
                DivideBigInts(event.stable, event.gold))
       ELSE Set(Gauge("exchange_celo_exchanged_rate", <<event.token>>),
                IF event.soldGold THEN DivideBigInts(event.buy, event.sell)
                                  ELSE DivideBigInts(event.sell, event.buy))

\* exchangeProcessor.HandleEvent: small trades are too imprecise for a rate.
HandleEvent(block, event) ==
  IF event.token \notin ExchangeTokens(block) THEN NoGauge
  ELSE CASE event.kind = "BucketsUpdated" ->
              Set(Gauge("exchange_bucket_ratio", <<event.token>>),
                  DivideBigInts(event.stable, event.gold))
         [] event.kind = "Exchanged" /\ event.sell < MinSellAmount -> NoGauge
         [] OTHER ->
              Set(Gauge("exchange_celo_exchanged_rate", <<event.token>>),
                  IF event.soldGold THEN DivideBigInts(event.buy, event.sell)
                                    ELSE DivideBigInts(event.sell, event.buy))

\* collectTransaction: the receipt, what extractEvent does for its logs, and
\* the trace.
Transactions(block) ==
  LET events(i) == [j \in DOMAIN Chain[block].txs[i] |->
                      HandleEvent(block, Chain[block].txs[i][j])]
  IN  IF Chain[block].readable
      THEN {Thread("tx", i, <<NoGauge>> \o events(i) \o <<NoGauge>>) :
              i \in DOMAIN Chain[block].txs}
      ELSE {}

\* spawnProcessors: the threads that set gauges.
ThreadsOf(block) ==
  LET of(factory, threads) == IF factory \in Observers THEN threads ELSE {}
      observing == UNION {of("chaindata", ObserveChaindata(block)),
                          of("exchange", ObserveExchange(block)),
                          of("epochRewards", ObserveEpochRewards(block)),
                          of("sortedOracles", ObserveSortedOracles(block)),
                          of("goldToken", ObserveGoldToken(block)),
                          of("stableToken", ObserveStableToken(block))}
  IN  (IF CollectMetrics THEN observing ELSE {})
      \cup (IF CollectData THEN Transactions(block) ELSE {})
-----------------------------------------------------------------------------
Threads == [block \in Blocks |-> ThreadsOf(block)]

\* What a gauge holds: the value, and the block, thread and call it is of.
Held(block, thread, call, values) ==
  [gauge \in DOMAIN values |->
     [value |-> values[gauge],
      block |-> block, of |-> thread.of, call |-> call]]

TypeOK ==
  /\ \A gauge \in DOMAIN gauges : gauges[gauge].block \in Blocks
  /\ phase \in {"idle", "run", "ok", "error"}
  /\ current \in Blocks
  /\ DOMAIN position = {t.of : t \in Threads[current]}
  /\ \A t \in Threads[current] : position[t.of] \in 0 .. Len(t.script)
  /\ failed \in BOOLEAN /\ skipped \in BOOLEAN
  /\ dropped \subseteq DOMAIN position
  /\ runs \in 0 .. MaxRuns /\ faults \in 0 .. MaxFaults

AtStart(block) == [of \in {t.of : t \in Threads[block]} |-> 0]

Init ==
  /\ gauges = NoGauge
  /\ phase = "idle"
  /\ current \in Blocks /\ position = AtStart(current)
  /\ failed = FALSE /\ skipped = FALSE /\ dropped = {}
  /\ runs = 0 /\ faults = 0

\* Mutant: the tasks of the Run before are kept.
StartRunStale ==
  /\ phase # "run"
  /\ runs < MaxRuns /\ runs' = runs + 1
  /\ phase' = "run"
  /\ current' \in Blocks
  /\ failed' = FALSE /\ skipped' = FALSE /\ dropped' = {}
  /\ UNCHANGED <<gauges, position, faults>>

\* The process takes up a block, the same one again or any other.
StartRun ==
  /\ phase # "run"
  /\ runs < MaxRuns /\ runs' = runs + 1
  /\ phase' = "run"
  /\ \E block \in Blocks : current' = block /\ position' = AtStart(block)
  /\ failed' = FALSE /\ skipped' = FALSE /\ dropped' = {}
  /\ UNCHANGED <<gauges, faults>>

\* The next call of a thread, with the gauges that are set after it.
Advance(thread) ==
  /\ phase = "run"
  /\ position[thread.of] < Len(thread.script)
  /\ position' = [position EXCEPT ![thread.of] = @ + 1]
  /\ LET call == position[thread.of] + 1
     IN  gauges' =
           Over(Held(current, thread, call, thread.script[call]), gauges)
  /\ UNCHANGED <<phase, current, failed, skipped, dropped, runs, faults>>

\* An event is not parsed: it is logged and has no handler called.
SkipEvent(thread) ==
  /\ phase = "run"
  /\ thread.of[1] = "tx"
  /\ position[thread.of] \in 1 .. Len(thread.script) - 2
  /\ faults < MaxFaults /\ faults' = faults + 1
  /\ position' = [position EXCEPT ![thread.of] = @ + 1]
  /\ skipped' = TRUE
  /\ UNCHANGED <<gauges, phase, current, failed, dropped, runs>>

\* The call a thread is at is one of the node or of a contract: setting the
\* gas gauge is none, and neither is handling an event.
Calls(thread) ==
  /\ position[thread.of] < Len(thread.script)
  /\ thread.of[1] # "chaindata"
  /\ thread.of[1] = "tx" =>
       position[thread.of] \in {0, Len(thread.script) - 1}

\* Mutant: checkError takes every error for one of a contract that is not
\* deployed.
FailCallUnseen(thread) ==
  /\ phase = "run"
  /\ Calls(thread)
  /\ faults < MaxFaults /\ faults' = faults + 1
  /\ position' = [position EXCEPT ![thread.of] = Len(thread.script)]
  /\ UNCHANGED <<gauges, phase, current, failed, skipped, dropped, runs>>

\* A call fails and the thread ends.  So do the others at their next call,
\* unless that one is still answered; but when a contract is not deployed
\* checkError makes nil of the error, and the others go on.
FailCall(thread) ==
  /\ phase = "run"
  /\ Calls(thread)
  /\ faults < MaxFaults /\ faults' = faults + 1
  /\ position' = [position EXCEPT ![thread.of] = Len(thread.script)]
  /\ \/ failed' = TRUE /\ UNCHANGED dropped
     \/ /\ thread.of[1] # "tx"
        /\ dropped' = dropped \cup {thread.of}
        /\ UNCHANGED failed
  /\ UNCHANGED <<gauges, phase, current, skipped, runs>>

Cancel(thread) ==
  /\ phase = "run" /\ failed
  /\ position[thread.of] < Len(thread.script)
  /\ position' = [position EXCEPT ![thread.of] = Len(thread.script)]
  /\ UNCHANGED <<gauges, phase, current, failed, skipped, dropped, runs,
                 faults>>

\* All threads have ended, and so does Run.
EndRun ==
  /\ phase = "run"
  /\ \A t \in Threads[current] : position[t.of] = Len(t.script)
  /\ phase' = IF failed THEN "error" ELSE "ok"
  /\ UNCHANGED <<gauges, current, position, failed, skipped, dropped, runs,
                 faults>>

Next ==
  \/ StartRun
  \/ \E thread \in Threads[current] :
       \/ Advance(thread)
       \/ SkipEvent(thread)
       \/ FailCall(thread)
       \/ Cancel(thread)
  \/ EndRun

Spec == Init /\ [][Next]_vars
-----------------------------------------------------------------------------
\* The gauges of a block that are not of an event or a report, without those
\* of the processors that are gone.
BlockGauges(block, gone) ==
  LET at == Chain[block]
      of(factory, here, name, label) ==
        IF factory \in Observers /\ here /\ <<factory, 0>> \notin gone
        THEN {Gauge(name, label)}
        ELSE {}
      ofEach(factory, tokens, names) ==
        IF factory \in Observers
        THEN {Gauge(name, <<token>>) : name \in names,
                token \in {t \in tokens : <<factory, t>> \notin gone}}
        ELSE {}
      ages == IF at.readable THEN {"sortedoracles_timestamp_median"} ELSE {}
  IN  UNION {
        of("chaindata", at.readable, "block_gas_used", <<>>),
        of("epochRewards", "EpochRewards" \in at.deployed,
           "votinggoldfraction", <<>>),
        of("goldToken", "GoldToken" \in at.deployed,
           "celo_token_supply", <<"GoldToken">>),
        ofEach("stableToken", at.tokens, {"celo_token_supply"}),
        ofEach("exchange",
           {token \in at.exchanges : "Reserve" \in at.deployed},
           {"exchange_celo_bucket_size", "exchange_stable_bucket_size"}),
        ofEach("sortedOracles",
           {token \in at.tokens \cap at.exchanges :
              "SortedOracles" \in at.deployed},
           {"sortedoracles_isoldestreportexpired", "sortedoracles_numrates",
            "sortedoracles_medianrate", "sortedoracles_rates_maxdeviation",
            "exchange_implied_stable_rate"} \cup ages)}

\* When Run returns nil, no gauge of the block is left from an earlier one,
\* or from an attempt that failed half way, whatever order blocks and
\* goroutines were in.  Left over may only be gauges of a processor that was
\* itself told that a contract is not deployed: an error of one processor
\* never keeps another from observing the block (checkError).
ObservedTogether ==
  phase = "ok" /\ CollectMetrics =>
    \A gauge \in BlockGauges(current, dropped) :
      gauge \in DOMAIN gauges /\ gauges[gauge].block = current

\* No gauge ever holds an infinity, and none of the quotients panics: not at
\* the first trades of an exchange or before any oracle reported.
Finite == \A gauge \in DOMAIN gauges : gauges[gauge].value[2] # 0

\* The age never wraps around: no report is of after the block that it is
\* read at, and one that is not there at all is as old as can be.
AgeInRange ==
  \A gauge \in DOMAIN gauges :
    gauge[1] = "sortedoracles_timestamp_median" =>
      gauges[gauge].value[1] \in 0 .. Chain[gauges[gauge].block].time

\* The events of a block that a gauge of this name may be of, by transaction
\* and log.
EventsFor(name, block, token) ==
  LET txs == Chain[block].txs
      sets(event) ==
        /\ event.token = token
        /\ \/ event.kind = "BucketsUpdated" /\ name = "exchange_bucket_ratio"
           \/ /\ event.kind = "Exchanged"
              /\ event.sell >= MinSellAmount
              /\ name = "exchange_celo_exchanged_rate"
  IN  UNION {{<<i, j>> : j \in {k \in DOMAIN txs[i] : sets(txs[i][k])}} :
               i \in DOMAIN txs}

\* The event that a gauge is of, if it is one.
EventOf(gauge) == <<gauges[gauge].of[2], gauges[gauge].call - 1>>

EventNames == {"exchange_bucket_ratio", "exchange_celo_exchanged_rate"}

\* The exchanged rate is never the one of a small trade, and after a block
\* with events that matter both gauges are of an event of this very block.
OfEvents ==
  /\ \A gauge \in DOMAIN gauges :
       gauge[1] \in EventNames =>
         EventOf(gauge) \in EventsFor(gauge[1], gauges[gauge].block, gauge[2])
  /\ phase = "ok" /\ CollectData /\ Chain[current].readable /\ ~skipped =>
       \A token \in ExchangeTokens(current) :
         \A name \in EventNames :
           EventsFor(name, current, token) # {} =>
             gauges[Gauge(name, <<token>>)].block = current
===============================================================================
