----------------------------- MODULE GaugesProofs -----------------------------
(***************************************************************************)
(* Proofs about module Gauges, for every chain and any number of Runs and  *)
(* of failing calls.                                                       *)
(***************************************************************************)
EXTENDS Gauges, TLAPS

(***************************************************************************)
(* The values that calls set                                               *)
(***************************************************************************)

MedianAge == "sortedoracles_timestamp_median"

\* A value is no infinity, and an age lies between zero and the block's time.
FineValue(block, gauge, value) ==
  /\ value[2] # 0
  /\ gauge[1] = MedianAge => value[1] \in 0 .. Chain[block].time

FineCall(block, values) ==
  \A gauge \in DOMAIN values : FineValue(block, gauge, values[gauge])

\* A gauge starts with its name.
LEMMA GaugeName ==
  ASSUME NEW name, NEW S, NEW labels \in Seq(S)
  PROVE  Gauge(name, labels)[1] = name
BY DEF Gauge

LEMMA NameOfGauge ==
  ASSUME NEW name, NEW token, NEW oracle
  PROVE  /\ Gauge(name, <<>>)[1] = name
         /\ Gauge(name, <<token>>)[1] = name
         /\ Gauge(name, <<token, oracle>>)[1] = name
<1>1. /\ <<>> \in Seq({token})
      /\ <<token>> \in Seq({token})
      /\ <<token, oracle>> \in Seq({token, oracle})
  OBVIOUS
<1>2. QED
  BY <1>1, GaugeName

\* Quotients have a divisor other than zero.
LEMMA DivideFinite ==
  ASSUME NEW x \in Int, NEW y \in Int
  PROVE  /\ DivideBigInts(x, y) \in Int \X (Int \ {0})
         /\ Whole(x) \in Int \X (Int \ {0})
BY DEF DivideBigInts, Quo, Whole

LEMMA RatesFinite ==
  ASSUME NEW median \in Int \X Int, NEW buckets \in Int \X Int
  PROVE  /\ MedianRate(median)[2] # 0
         /\ ImpliedRate(median, buckets)[2] # 0
<1>1. MedianRate(median) \in Int \X (Int \ {0})
  BY DEF MedianRate, Quo, Whole
<1> DEFINE price == DivideBigInts(buckets[1], buckets[2])
<1>2. price \in Int \X (Int \ {0})
  BY DivideFinite
<1>3. price[1] # 0 => Quo(MedianRate(median), price)[2] # 0
  <2> HIDE DEF price
  <2> SUFFICES ASSUME price[1] # 0
               PROVE  MedianRate(median)[2] * price[1] # 0
    BY DEF Quo
  <2> DEFINE x == MedianRate(median)[2]
             y == price[1]
  <2>1. x \in Int \ {0} /\ y \in Int \ {0}
    BY <1>1, <1>2
  <2> HIDE DEF x, y
  <2>2. x * y # 0
    BY <2>1
  <2>3. QED
    BY <2>2 DEF x, y
<1>4. ImpliedRate(median, buckets)[2] # 0
  <2> HIDE DEF price
  <2>1. ImpliedRate(median, buckets)
          = IF price[1] # 0 THEN Quo(MedianRate(median), price) ELSE Whole(0)
    BY DEF ImpliedRate, price
  <2>2. Whole(0)[2] # 0
    BY DEF Whole
  <2>3. QED
    BY <1>3, <2>1, <2>2
<1>5. QED
  BY <1>1, <1>4

LEMMA DeviationFinite ==
  ASSUME NEW reports
  PROVE  MaxDeviation(reports)[2] # 0
BY DEF MaxDeviation, Whole

\* No unsigned subtraction wraps around.
LEMMA AgeBelow ==
  ASSUME NEW block \in Blocks, NEW reported \in 0 .. Chain[block].time
  PROVE  Age(Chain[block].time, reported) \in 0 .. Chain[block].time
<1> DEFINE time == Chain[block].time
<1>1. time \in 0 .. Modulus - 1 /\ Modulus \in Nat \ {0}
  BY GaugesAssumption
<1> HIDE DEF time
<1>2. \A m \in Nat : \A x \in 0 .. m - 1 : x % m = x
  OBVIOUS
<1>3. reported \in 0 .. time
  BY DEF time
<1>4. time - reported \in 0 .. Modulus - 1
  BY <1>1, <1>3
<1>5. (time - reported) % Modulus = time - reported
  BY <1>1, <1>2, <1>4
<1>6. QED
  BY <1>1, <1>3, <1>5 DEF Age, time

\* Calls that set one gauge, one for every report, or none.
LEMMA SetFine ==
  ASSUME NEW block, NEW gauge, NEW value,
         FineValue(block, gauge, value)
  PROVE  FineCall(block, Set(gauge, value))
BY DEF FineCall, Set

LEMMA NoGaugeFine == ASSUME NEW block PROVE FineCall(block, NoGauge)
BY DEF FineCall, NoGauge

LEMMA ReportsFine ==
  ASSUME NEW block, NEW name, name # MedianAge, NEW token, NEW values
  PROVE  FineCall(block, ReportGauges(name, token, values))
<1> DEFINE R == ReportGauges(name, token, values)
<1>1. \A gauge \in DOMAIN R : gauge[1] = name
  <2>1. \A oracle : Gauge(name, <<token, oracle>>)[1] = name
    BY NameOfGauge
  <2>2. DOMAIN R = {Gauge(name, <<token, oracle>>) : oracle \in DOMAIN values}
    BY DEF ReportGauges
  <2> HIDE DEF R
  <2>3. QED
    BY <2>1, <2>2
<1>2. \A gauge \in DOMAIN R : R[gauge][2] = 1
  <2>1. \A n : Whole(n)[2] = 1
    BY DEF Whole
  <2>2. \A gauge \in DOMAIN R : R[gauge] = Whole(values[gauge[3]])
    BY DEF ReportGauges
  <2>3. QED
    BY <2>1, <2>2
<1> HIDE DEF R
<1>3. FineCall(block, R)
  BY <1>1, <1>2 DEF FineCall, FineValue
<1>4. QED
  BY <1>3 DEF R

LEMMA OverFine ==
  ASSUME NEW block, NEW new, NEW old, FineCall(block, new), FineCall(block, old)
  PROVE  FineCall(block, Over(new, old))
BY DEF FineCall, Over
-----------------------------------------------------------------------------
(***************************************************************************)
(* The threads of a block                                                  *)
(***************************************************************************)

\* A script is a sequence of calls that set fine values.
FineScript(block, script) ==
  /\ Len(script) \in Nat /\ DOMAIN script = 1 .. Len(script)
  /\ \A i \in DOMAIN script : FineCall(block, script[i])

\* The threads of a processor have its name, and no two have the same part.
FineThreads(block, name, threads) ==
  /\ \A t \in threads : t.of[1] = name /\ FineScript(block, t.script)
  /\ \A t1, t2 \in threads : t1.of = t2.of => t1 = t2

LEMMA OneCall ==
  ASSUME NEW block, NEW name, name # MedianAge, NEW token, NEW gauge,
         gauge \in {Gauge(name, <<>>), Gauge(name, <<token>>)},
         NEW value, value[2] # 0
  PROVE  FineCall(block, Set(gauge, value))
<1>1. gauge[1] = name
  BY NameOfGauge
<1>2. FineValue(block, gauge, value)
  BY <1>1 DEF FineValue
<1>3. QED
  BY <1>2, SetFine

LEMMA ScriptOfOne ==
  ASSUME NEW block, NEW values, FineCall(block, values)
  PROVE  FineScript(block, <<values>>)
BY DEF FineScript

LEMMA OneThread ==
  ASSUME NEW block, NEW name, NEW part, NEW script, FineScript(block, script)
  PROVE  FineThreads(block, name, {Thread(name, part, script)})
BY DEF FineThreads, Thread

LEMMA NoThread == ASSUME NEW block, NEW name PROVE FineThreads(block, name, {})
BY DEF FineThreads

LEMMA WholeFinite == ASSUME NEW n PROVE Whole(n)[2] # 0
BY DEF Whole

LEMMA ChaindataFine ==
  ASSUME NEW block \in Blocks
  PROVE  FineThreads(block, "chaindata", ObserveChaindata(block))
<1> DEFINE values == Set(Gauge("block_gas_used", <<>>),
                         Whole(Chain[block].gasUsed))
<1>1. FineScript(block, <<values>>)
  BY OneCall, WholeFinite, ScriptOfOne DEF MedianAge
<1> HIDE DEF values
<1>2. FineThreads(block, "chaindata", {Thread("chaindata", 0, <<values>>)})
  BY <1>1, OneThread
<1>3. QED
  BY <1>2, NoThread DEF ObserveChaindata, values

LEMMA EpochRewardsFine ==
  ASSUME NEW block \in Blocks
  PROVE  FineThreads(block, "epochRewards", ObserveEpochRewards(block))
<1> DEFINE values == Set(Gauge("votinggoldfraction", <<>>),
                         Chain[block].votingGoldFraction)
<1>1. Chain[block].votingGoldFraction[2] # 0
  BY GaugesAssumption
<1>2. FineScript(block, <<values>>)
  BY <1>1, OneCall, ScriptOfOne DEF MedianAge
<1> HIDE DEF values
<1>3. FineThreads(block, "epochRewards",
                  {Thread("epochRewards", 0, <<values>>)})
  BY <1>2, OneThread
<1>4. QED
  BY <1>3, NoThread DEF ObserveEpochRewards, values

LEMMA SupplyFine ==
  ASSUME NEW block, NEW token
  PROVE  FineScript(block, Supply(block, token))
<1> DEFINE values == Set(Gauge("celo_token_supply", <<token>>),
                         Whole(Chain[block].supply[token]))
<1>1. FineScript(block, <<values>>)
  BY OneCall, WholeFinite, ScriptOfOne DEF MedianAge
<1>2. QED
  BY <1>1 DEF Supply

LEMMA TokensFine ==
  ASSUME NEW block \in Blocks
  PROVE  /\ FineThreads(block, "goldToken", ObserveGoldToken(block))
         /\ FineThreads(block, "stableToken", ObserveStableToken(block))
<1>1. FineThreads(block, "goldToken", ObserveGoldToken(block))
  BY SupplyFine, OneThread, NoThread DEF ObserveGoldToken
<1>2. FineThreads(block, "stableToken", ObserveStableToken(block))
  BY SupplyFine DEF ObserveStableToken, FineThreads, Thread
<1>3. QED
  BY <1>1, <1>2

LEMMA ExchangeFine ==
  ASSUME NEW block \in Blocks
  PROVE  FineThreads(block, "exchange", ObserveExchange(block))
<1> DEFINE bucket(token) == Chain[block].buckets[token]
           celo(token) == Set(Gauge("exchange_celo_bucket_size", <<token>>),
                              Whole(bucket(token).gold))
           stable(token) == Set(Gauge("exchange_stable_bucket_size", <<token>>),
                                Whole(bucket(token).stable))
           script(token) == <<celo(token), stable(token), NoGauge>>
<1>1. \A token : FineScript(block, script(token))
  <2> TAKE token
  <2>1. FineCall(block, celo(token)) /\ FineCall(block, stable(token))
    BY OneCall, WholeFinite DEF MedianAge
  <2> HIDE DEF celo, stable
  <2>2. QED
    BY <2>1, NoGaugeFine DEF FineScript
<1>2. ObserveExchange(block)
        = {Thread("exchange", token, script(token)) :
             token \in ExchangeTokens(block)}
  BY DEF ObserveExchange
<1> HIDE DEF script
<1>3. QED
  BY <1>1, <1>2 DEF FineThreads, Thread

LEMMA AgeFine ==
  ASSUME NEW block \in Blocks, NEW token \in Chain[block].tokens
  PROVE  FineCall(block,
           Set(Gauge(MedianAge, <<token>>),
               Whole(Age(Chain[block].time,
                         Chain[block].oracles[token].medianTime))))
<1> DEFINE age == Age(Chain[block].time,
                      Chain[block].oracles[token].medianTime)
<1>1. age \in 0 .. Chain[block].time
  BY AgeBelow, GaugesAssumption
<1> HIDE DEF age
<1>2. /\ Whole(age)[1] \in 0 .. Chain[block].time
      /\ Whole(age)[2] # 0
  BY <1>1 DEF Whole
<1>3. FineValue(block, Gauge(MedianAge, <<token>>), Whole(age))
  BY <1>2 DEF FineValue
<1>4. QED
  BY <1>3, SetFine DEF age

LEMMA OraclesOfFine ==
  ASSUME NEW block \in Blocks, NEW token \in Chain[block].tokens
  PROVE  FineScript(block, ObserveSortedOraclesOf(block, token))
<1> DEFINE oracles == Chain[block].oracles[token]
           reports == oracles.reports
           rates == [oracle \in DOMAIN reports |-> reports[oracle].rate]
           times == [oracle \in DOMAIN reports |-> reports[oracle].time]
           values == ReportGauges("sortedoracles_report_value", token, rates)
           age == Set(Gauge("sortedoracles_timestamp_median", <<token>>),
                      Whole(Age(Chain[block].time, oracles.medianTime)))
           call1 == Set(Gauge("sortedoracles_isoldestreportexpired", <<token>>),
                        BoolToFloat64(oracles.expired))
           call2 == Set(Gauge("sortedoracles_numrates", <<token>>),
                        Whole(Cardinality(DOMAIN reports)))
           call3 == Set(Gauge("sortedoracles_medianrate", <<token>>),
                        MedianRate(oracles.medianRate))
           call4 == Set(Gauge("sortedoracles_rates_maxdeviation", <<token>>),
                        MaxDeviation(reports))
           call5 == IF Chain[block].readable THEN Over(age, values) ELSE values
           call6 == ReportGauges("sortedoracles_report_timestamp", token, times)
           call7 == Set(Gauge("exchange_implied_stable_rate", <<token>>),
                        ImpliedRate(oracles.medianRate, oracles.buckets))
<1>1. FineCall(block, call1) /\ FineCall(block, call2)
  <2>1. BoolToFloat64(oracles.expired)[2] # 0
    BY WholeFinite DEF BoolToFloat64
  <2>2. QED
    BY <2>1, OneCall, WholeFinite DEF MedianAge
<1>2. FineCall(block, call3) /\ FineCall(block, call7)
  <2>1. oracles.medianRate \in Int \X Int /\ oracles.buckets \in Int \X Int
    BY GaugesAssumption
  <2>2. /\ MedianRate(oracles.medianRate)[2] # 0
        /\ ImpliedRate(oracles.medianRate, oracles.buckets)[2] # 0
    BY <2>1, RatesFinite
  <2>3. QED
    BY <2>2, OneCall DEF MedianAge
<1>3. FineCall(block, call4)
  BY DeviationFinite, OneCall DEF MedianAge
<1>4. FineCall(block, call5)
  <2>1. FineCall(block, values)
    BY ReportsFine DEF MedianAge
  <2>2. FineCall(block, age)
    BY AgeFine DEF MedianAge
  <2> HIDE DEF age, values
  <2>3. QED
    BY <2>1, <2>2, OverFine
<1>5. FineCall(block, call6)
  BY ReportsFine DEF MedianAge
<1>6. ObserveSortedOraclesOf(block, token)
        = <<call1, call2, call3, call4, call5, call6, call7>>
  BY DEF ObserveSortedOraclesOf
<1> HIDE DEF call1, call2, call3, call4, call5, call6, call7
<1>7. QED
  BY <1>1, <1>2, <1>3, <1>4, <1>5, <1>6 DEF FineScript

LEMMA SortedOraclesFine ==
  ASSUME NEW block \in Blocks
  PROVE  FineThreads(block, "sortedOracles", ObserveSortedOracles(block))
<1>1. \A token \in Chain[block].tokens \cap Chain[block].exchanges :
        FineScript(block, ObserveSortedOraclesOf(block, token))
  BY OraclesOfFine
<1>2. QED
  BY <1>1, NoThread DEF ObserveSortedOracles, FineThreads, Thread

\* An event sets one gauge to a quotient, or none.
LEMMA HandleEventFine ==
  ASSUME NEW block \in Blocks, NEW event \in ExchangeEvents
  PROVE  FineCall(block, HandleEvent(block, event))
<1>1. CASE event.token \notin ExchangeTokens(block)
  BY <1>1, NoGaugeFine DEF HandleEvent
<1>2. CASE event.token \in ExchangeTokens(block)
           /\ event.kind = "BucketsUpdated"
  <2>1. DivideBigInts(event.stable, event.gold)[2] # 0
    BY <1>2, DivideFinite DEF ExchangeEvents
  <2>2. HandleEvent(block, event)
          = Set(Gauge("exchange_bucket_ratio", <<event.token>>),
                DivideBigInts(event.stable, event.gold))
    BY <1>2 DEF HandleEvent
  <2>3. QED
    BY <2>1, <2>2, OneCall DEF MedianAge
<1>3. CASE event.token \in ExchangeTokens(block) /\ event.kind = "Exchanged"
           /\ event.sell < MinSellAmount
  BY <1>3, NoGaugeFine DEF HandleEvent
<1>4. CASE event.token \in ExchangeTokens(block) /\ event.kind = "Exchanged"
           /\ ~(event.sell < MinSellAmount)
  <2> DEFINE rate == IF event.soldGold
                     THEN DivideBigInts(event.buy, event.sell)
                     ELSE DivideBigInts(event.sell, event.buy)
  <2>1. rate[2] # 0
    <3>1. event.buy \in Int /\ event.sell \in Int
      BY <1>4 DEF ExchangeEvents
    <3>2. /\ DivideBigInts(event.buy, event.sell)[2] # 0
          /\ DivideBigInts(event.sell, event.buy)[2] # 0
      BY <3>1, DivideFinite
    <3>3. QED
      BY <3>2
  <2>2. HandleEvent(block, event)
          = Set(Gauge("exchange_celo_exchanged_rate", <<event.token>>), rate)
    BY <1>4 DEF HandleEvent
  <2> HIDE DEF rate
  <2>3. QED
    BY <2>1, <2>2, OneCall DEF MedianAge
<1>5. event.kind \in {"BucketsUpdated", "Exchanged"}
  BY DEF ExchangeEvents
<1>6. QED
  BY <1>1, <1>2, <1>3, <1>4, <1>5

LEMMA ElementOf ==
  ASSUME NEW T, NEW seq \in Seq(T), NEW i \in DOMAIN seq
  PROVE  seq[i] \in T
OBVIOUS

LEMMA TransactionsFine ==
  ASSUME NEW block \in Blocks
  PROVE  FineThreads(block, "tx", Transactions(block))
<1> DEFINE txs == Chain[block].txs
           events(i) == [j \in DOMAIN txs[i] |-> HandleEvent(block, txs[i][j])]
           script(i) == <<NoGauge>> \o events(i) \o <<NoGauge>>
<1>1. \A i \in DOMAIN txs : FineScript(block, script(i))
  <2> TAKE i \in DOMAIN txs
  <2> DEFINE fine == {values \in {NoGauge} \cup
                        {HandleEvent(block, txs[i][j]) : j \in DOMAIN txs[i]} :
                        FineCall(block, values)}
  <2>1. txs[i] \in Seq(ExchangeEvents)
    BY GaugesAssumption, ElementOf
  <2>2. \A j \in DOMAIN txs[i] : events(i)[j] \in fine
    BY <2>1, ElementOf, HandleEventFine
  <2>3. NoGauge \in fine
    BY NoGaugeFine
  <2>4. events(i) \in Seq(fine)
    <3>1. Len(txs[i]) \in Nat /\ DOMAIN txs[i] = 1 .. Len(txs[i])
      BY <2>1
    <3>2. DOMAIN events(i) = 1 .. Len(txs[i])
      BY <3>1
    <3> HIDE DEF fine, txs
    <3>3. events(i) \in [1 .. Len(txs[i]) -> fine]
      BY <2>2, <3>1
    <3> HIDE DEF events
    <3>4. QED
      BY <3>1, <3>3
  <2> HIDE DEF events, fine
  <2>5. script(i) \in Seq(fine)
    BY <2>3, <2>4
  <2> HIDE DEF script
  <2>6. \A k \in DOMAIN script(i) : script(i)[k] \in fine
    BY <2>5, ElementOf
  <2>7. Len(script(i)) \in Nat /\ DOMAIN script(i) = 1 .. Len(script(i))
    BY <2>5
  <2>8. QED
    BY <2>6, <2>7 DEF FineScript, fine
<1>2. Transactions(block)
        = IF Chain[block].readable
          THEN {Thread("tx", i, script(i)) : i \in DOMAIN txs}
          ELSE {}
  BY DEF Transactions
<1> HIDE DEF script, txs
<1>3. QED
  BY <1>1, <1>2, NoThread DEF FineThreads, Thread

\* All threads of a block are fine, and no two of them go by the same name:
\* that of the processor, which comes first, and the part.
LEMMA ThreadsFine ==
  ASSUME NEW block \in Blocks
  PROVE  /\ \A t \in ThreadsOf(block) : FineScript(block, t.script)
         /\ \A t1, t2 \in ThreadsOf(block) : t1.of = t2.of => t1 = t2
<1> DEFINE all == {ObserveChaindata(block), ObserveExchange(block),
                   ObserveEpochRewards(block), ObserveSortedOracles(block),
                   ObserveGoldToken(block), ObserveStableToken(block),
                   Transactions(block)}
<1>1. \A t \in ThreadsOf(block) : \E threads \in all : t \in threads
  BY DEF ThreadsOf
<1>2. /\ FineThreads(block, "chaindata", ObserveChaindata(block))
      /\ FineThreads(block, "exchange", ObserveExchange(block))
      /\ FineThreads(block, "epochRewards", ObserveEpochRewards(block))
      /\ FineThreads(block, "sortedOracles", ObserveSortedOracles(block))
      /\ FineThreads(block, "goldToken", ObserveGoldToken(block))
      /\ FineThreads(block, "stableToken", ObserveStableToken(block))
      /\ FineThreads(block, "tx", Transactions(block))
  BY ChaindataFine, ExchangeFine, EpochRewardsFine, SortedOraclesFine,
     TokensFine, TransactionsFine
<1>3. \A threads \in all : \A t \in threads : FineScript(block, t.script)
  BY <1>2 DEF FineThreads
<1>4. \A one, other \in all :
        \A t1 \in one, t2 \in other : t1.of = t2.of => t1 = t2
  BY <1>2 DEF FineThreads
<1> HIDE DEF all
<1>5. QED
  BY <1>1, <1>3, <1>4
-----------------------------------------------------------------------------
(***************************************************************************)
(* Types                                                                   *)
(***************************************************************************)

\* What is known of the threads of the block at hand.
LEMMA CurrentThreads ==
  ASSUME current \in Blocks
  PROVE  /\ Threads[current] = ThreadsOf(current)
         /\ \A t \in Threads[current] :
              /\ Len(t.script) \in Nat /\ DOMAIN t.script = 1 .. Len(t.script)
              /\ \A i \in DOMAIN t.script : FineCall(current, t.script[i])
         /\ \A t1, t2 \in Threads[current] : t1.of = t2.of => t1 = t2
<1>1. Threads[current] = ThreadsOf(current)
  BY DEF Threads
<1>2. QED
  BY <1>1, ThreadsFine DEF FineScript

\* The gauges after a call.
LEMMA AdvanceGauges ==
  ASSUME NEW thread, Advance(thread),
         NEW values, values = thread.script[position[thread.of] + 1]
  PROVE  /\ DOMAIN gauges' = DOMAIN values \cup DOMAIN gauges
         /\ \A gauge \in DOMAIN values :
              /\ gauges'[gauge].value = values[gauge]
              /\ gauges'[gauge].block = current
              /\ gauges'[gauge].of = thread.of
              /\ gauges'[gauge].call = position[thread.of] + 1
         /\ \A gauge \in DOMAIN gauges \ DOMAIN values :
              gauges'[gauge] = gauges[gauge]
<1>1. gauges' = Over(Held(current, thread, position[thread.of] + 1, values),
                     gauges)
  BY DEF Advance
<1> DEFINE held == Held(current, thread, position[thread.of] + 1, values)
<1>2. DOMAIN held = DOMAIN values
  BY DEF Held
<1>3. \A gauge \in DOMAIN values :
        /\ held[gauge].value = values[gauge] /\ held[gauge].block = current
        /\ held[gauge].of = thread.of
        /\ held[gauge].call = position[thread.of] + 1
  BY DEF Held
<1> HIDE DEF held
<1>4. gauges' = [gauge \in DOMAIN values \cup DOMAIN gauges |->
                   IF gauge \in DOMAIN values THEN held[gauge]
                                              ELSE gauges[gauge]]
  BY <1>1, <1>2 DEF Over, held
<1>5. QED
  BY <1>3, <1>4

\* A thread goes on, and only this one: to its next call or its end.
LEMMA PositionType ==
  ASSUME TypeOK, NEW thread \in Threads[current],
         NEW n \in 0 .. Len(thread.script),
         position' = [position EXCEPT ![thread.of] = n]
  PROVE  /\ DOMAIN position' = {t.of : t \in Threads[current]}
         /\ \A t \in Threads[current] : position'[t.of] \in 0 .. Len(t.script)
         /\ position'[thread.of] = n
         /\ \A t \in Threads[current] \ {thread} :
              position'[t.of] = position[t.of]
<1>1. /\ DOMAIN position = {t.of : t \in Threads[current]}
      /\ \A t \in Threads[current] : position[t.of] \in 0 .. Len(t.script)
      /\ thread.of \in DOMAIN position
  BY DEF TypeOK
<1>2. \A t \in Threads[current] : t.of = thread.of => t = thread
  BY CurrentThreads DEF TypeOK
<1>3. QED
  BY <1>1, <1>2

LEMMA StartPositions ==
  ASSUME NEW block \in Blocks
  PROVE  /\ DOMAIN AtStart(block) = {t.of : t \in Threads[block]}
         /\ \A t \in Threads[block] :
              AtStart(block)[t.of] = 0 /\ 0 \in 0 .. Len(t.script)
<1>1. \A t \in Threads[block] : Len(t.script) \in Nat
  BY ThreadsFine DEF Threads, FineScript
<1>2. QED
  BY <1>1 DEF AtStart

LEMMA InitType == Init => TypeOK
<1> SUFFICES ASSUME Init PROVE TypeOK
  OBVIOUS
<1>1. /\ DOMAIN position = {t.of : t \in Threads[current]}
      /\ \A t \in Threads[current] : position[t.of] \in 0 .. Len(t.script)
  BY StartPositions DEF Init
<1>2. \A gauge \in DOMAIN gauges : gauges[gauge].block \in Blocks
  BY DEF Init, NoGauge
<1>3. runs \in 0 .. MaxRuns /\ faults \in 0 .. MaxFaults
  BY GaugesAssumption DEF Init
<1>4. QED
  BY <1>1, <1>2, <1>3 DEF Init, TypeOK

LEMMA NextType == TypeOK /\ [Next]_vars => TypeOK'
<1> SUFFICES ASSUME TypeOK, [Next]_vars PROVE TypeOK'
  OBVIOUS
<1>1. CASE StartRun
  <2>1. PICK block \in Blocks : current' = block /\ position' = AtStart(block)
    BY <1>1 DEF StartRun
  <2>2. /\ DOMAIN position' = {t.of : t \in Threads[current']}
        /\ \A t \in Threads[current'] : position'[t.of] \in 0 .. Len(t.script)
    BY <2>1, StartPositions
  <2>3. runs' \in 0 .. MaxRuns
    BY <1>1, GaugesAssumption DEF StartRun, TypeOK
  <2>4. QED
    BY <1>1, <2>1, <2>2, <2>3 DEF StartRun, TypeOK
<1>2. ASSUME NEW thread \in Threads[current],
             Advance(thread) \/ SkipEvent(thread)
      PROVE  TypeOK'
  <2>1. /\ current' = current /\ phase' = phase /\ runs' = runs
        /\ position' = [position EXCEPT ![thread.of] = position[thread.of] + 1]
    BY <1>2 DEF Advance, SkipEvent
  <2> DEFINE n == position[thread.of] + 1
  <2>2. n \in 0 .. Len(thread.script)
    BY <1>2, CurrentThreads DEF Advance, SkipEvent, TypeOK
  <2>3. position' = [position EXCEPT ![thread.of] = n]
    BY <2>1
  <2> HIDE DEF n
  <2>4. /\ DOMAIN position' = {t.of : t \in Threads[current]}
        /\ \A t \in Threads[current] : position'[t.of] \in 0 .. Len(t.script)
    BY <2>2, <2>3, PositionType
  <2>5. \A gauge \in DOMAIN gauges' : gauges'[gauge].block \in Blocks
    <3>1. CASE Advance(thread)
      BY <3>1, AdvanceGauges DEF TypeOK
    <3>2. CASE SkipEvent(thread)
      BY <3>2 DEF SkipEvent, TypeOK
    <3>3. QED
      BY <1>2, <3>1, <3>2
  <2>6. failed' \in BOOLEAN /\ skipped' \in BOOLEAN
    BY <1>2 DEF Advance, SkipEvent, TypeOK
  <2>7. faults' \in 0 .. MaxFaults
    BY <1>2, GaugesAssumption DEF Advance, SkipEvent, TypeOK
  <2>8. dropped' \subseteq DOMAIN position'
    BY <1>2, <2>4 DEF Advance, SkipEvent, TypeOK
  <2>9. QED
    BY <2>1, <2>4, <2>5, <2>6, <2>7, <2>8 DEF TypeOK
<1>3. ASSUME NEW thread \in Threads[current],
             FailCall(thread) \/ Cancel(thread)
      PROVE  TypeOK'
  <2>1. /\ UNCHANGED <<gauges, current, phase, runs, skipped>>
        /\ position' = [position EXCEPT ![thread.of] = Len(thread.script)]
    BY <1>3 DEF FailCall, Cancel
  <2> DEFINE n == Len(thread.script)
  <2>2. n \in 0 .. Len(thread.script)
    BY CurrentThreads DEF TypeOK
  <2>3. position' = [position EXCEPT ![thread.of] = n]
    BY <2>1
  <2> HIDE DEF n
  <2>4. /\ DOMAIN position' = {t.of : t \in Threads[current]}
        /\ \A t \in Threads[current] : position'[t.of] \in 0 .. Len(t.script)
    BY <2>2, <2>3, PositionType
  <2>5. failed' \in BOOLEAN
    BY <1>3 DEF FailCall, Cancel, TypeOK
  <2>6. faults' \in 0 .. MaxFaults
    BY <1>3, GaugesAssumption DEF FailCall, Cancel, TypeOK
  <2>7. dropped' \subseteq DOMAIN position'
    <3>1. dropped \subseteq DOMAIN position' /\ thread.of \in DOMAIN position'
      BY <2>4 DEF TypeOK
    <3>2. dropped' \subseteq dropped \cup {thread.of}
      BY <1>3 DEF FailCall, Cancel
    <3>3. QED
      BY <3>1, <3>2
  <2>8. QED
    BY <2>1, <2>4, <2>5, <2>6, <2>7 DEF TypeOK
<1>4. CASE EndRun
  BY <1>4 DEF EndRun, TypeOK
<1>5. CASE UNCHANGED vars
  BY <1>5 DEF vars, TypeOK
<1>6. QED
  BY <1>1, <1>2, <1>3, <1>4, <1>5 DEF Next

\* Every variable keeps its type: a thread never gets past its last call,
\* and every gauge is of a block (Run, spawnProcessors).
THEOREM TypeCorrect == Spec => []TypeOK
BY InitType, NextType, PTL DEF Spec
-----------------------------------------------------------------------------
(***************************************************************************)
(* The values of the gauges                                                *)
(***************************************************************************)

GaugesFine ==
  \A gauge \in DOMAIN gauges :
    FineValue(gauges[gauge].block, gauge, gauges[gauge].value)

\* The call a thread comes to is one of its script.
LEMMA NextCall ==
  ASSUME TypeOK, NEW thread \in Threads[current], Advance(thread)
  PROVE  position[thread.of] + 1 \in DOMAIN thread.script
BY CurrentThreads DEF Advance, TypeOK

LEMMA FineInvariant == Spec => []GaugesFine
<1>1. Init => GaugesFine
  BY DEF Init, NoGauge, GaugesFine
<1>2. TypeOK /\ GaugesFine /\ [Next]_vars => GaugesFine'
  <2> SUFFICES ASSUME TypeOK, GaugesFine, [Next]_vars PROVE GaugesFine'
    OBVIOUS
  <2>1. ASSUME NEW thread \in Threads[current], Advance(thread)
        PROVE  GaugesFine'
    <3> DEFINE values == thread.script[position[thread.of] + 1]
    <3>1. FineCall(current, values)
      BY <2>1, NextCall, CurrentThreads DEF TypeOK
    <3>2. /\ DOMAIN gauges' = DOMAIN values \cup DOMAIN gauges
          /\ \A gauge \in DOMAIN values :
               /\ gauges'[gauge].value = values[gauge]
               /\ gauges'[gauge].block = current
          /\ \A gauge \in DOMAIN gauges \ DOMAIN values :
               gauges'[gauge] = gauges[gauge]
      BY <2>1, AdvanceGauges
    <3> HIDE DEF values
    <3>3. QED
      BY <3>1, <3>2 DEF GaugesFine, FineCall
  <2>2. CASE UNCHANGED gauges
    BY <2>2 DEF GaugesFine
  <2>3. QED
    BY <2>1, <2>2
    DEF Next, vars, StartRun, SkipEvent, FailCall, Cancel, EndRun
<1>3. QED
  BY <1>1, <1>2, TypeCorrect, PTL DEF Spec

\* No gauge ever holds an infinity (DivideBigInts, and the quotients of
\* proc_sortedOracles.go).
THEOREM AlwaysFinite == Spec => []Finite
<1>1. GaugesFine => Finite
  BY DEF GaugesFine, FineValue, Finite
<1>2. QED
  BY <1>1, FineInvariant, PTL

\* No age of a report is out of range, whatever the modulus.
THEOREM AgesInRange == Spec => []AgeInRange
<1>1. GaugesFine => AgeInRange
  BY DEF GaugesFine, FineValue, AgeInRange, MedianAge
<1>2. QED
  BY <1>1, FineInvariant, PTL
-----------------------------------------------------------------------------
(***************************************************************************)
(* The gauges of events                                                    *)
(***************************************************************************)

\* If this call sets a gauge of an event, it does so for the event before it
\* in the script of transaction i, and that one is for this gauge.
OfItsEvent(block, i, call, values) ==
  \A gauge \in DOMAIN values :
    gauge[1] \in EventNames =>
      <<i, call - 1>> \in EventsFor(gauge[1], block, gauge[2])

\* Calls that set other gauges.
Plain(values) == \A gauge \in DOMAIN values : gauge[1] \notin EventNames

PlainThreads(threads) ==
  \A t \in threads : \A i \in DOMAIN t.script : Plain(t.script[i])

LEMMA GaugeOfToken ==
  ASSUME NEW name, NEW token
  PROVE  /\ Gauge(name, <<token>>)[1] = name
         /\ Gauge(name, <<token>>)[2] = token
BY NameOfGauge DEF Gauge

LEMMA Framed ==
  ASSUME NEW S, NEW x \in S, NEW seq \in Seq(S),
         NEW framed, framed = <<x>> \o seq \o <<x>>
  PROVE  /\ DOMAIN framed = 1 .. Len(seq) + 2
         /\ framed[1] = x /\ framed[Len(seq) + 2] = x
         /\ \A j \in 1 .. Len(seq) : framed[j + 1] = seq[j]
OBVIOUS

\* Whether an event is one for a gauge.
LEMMA InEventsFor ==
  ASSUME NEW block, NEW name, NEW token, NEW i, NEW j
  PROVE  <<i, j>> \in EventsFor(name, block, token) <=>
           /\ i \in DOMAIN Chain[block].txs
           /\ j \in DOMAIN Chain[block].txs[i]
           /\ Chain[block].txs[i][j].token = token
           /\ LET event == Chain[block].txs[i][j]
              IN  \/ /\ event.kind = "BucketsUpdated"
                     /\ name = "exchange_bucket_ratio"
                  \/ /\ event.kind = "Exchanged"
                     /\ event.sell >= MinSellAmount
                     /\ name = "exchange_celo_exchanged_rate"
BY DEF EventsFor

LEMMA EventOfBlock ==
  ASSUME NEW block \in Blocks, NEW i \in DOMAIN Chain[block].txs,
         NEW j \in DOMAIN Chain[block].txs[i]
  PROVE  Chain[block].txs[i][j] \in ExchangeEvents
<1>1. Chain[block].txs[i] \in Seq(ExchangeEvents)
  BY GaugesAssumption, ElementOf
<1>2. QED
  BY <1>1, ElementOf

\* HandleEvent sets the gauges an event is for, and no other.
LEMMA HandlerSets ==
  ASSUME NEW block \in Blocks, NEW i \in DOMAIN Chain[block].txs,
         NEW j \in DOMAIN Chain[block].txs[i], NEW name, NEW token
  PROVE  LET values == HandleEvent(block, Chain[block].txs[i][j])
         IN  /\ \A gauge \in DOMAIN values :
                  <<i, j>> \in EventsFor(gauge[1], block, gauge[2])
             /\ <<i, j>> \in EventsFor(name, block, token)
                /\ token \in ExchangeTokens(block) =>
                  Gauge(name, <<token>>) \in DOMAIN values
<1> DEFINE event == Chain[block].txs[i][j]
           values == HandleEvent(block, event)
<1>1. /\ event.kind \in {"BucketsUpdated", "Exchanged"}
      /\ event.kind = "Exchanged" => event.sell \in Nat
      /\ MinSellAmount \in Nat
  BY EventOfBlock, GaugesAssumption DEF ExchangeEvents
<1>2. CASE event.token \notin ExchangeTokens(block)
  <2>1. DOMAIN values = {}
    BY <1>2 DEF HandleEvent, NoGauge
  <2>2. QED
    BY <1>2, <2>1, InEventsFor
<1>3. CASE /\ event.token \in ExchangeTokens(block)
           /\ event.kind = "BucketsUpdated"
  <2>1. DOMAIN values = {Gauge("exchange_bucket_ratio", <<event.token>>)}
    BY <1>3 DEF HandleEvent, Set
  <2> HIDE DEF values
  <2>2. QED
    BY <1>3, <2>1, InEventsFor, GaugeOfToken DEF values
<1>4. CASE /\ event.token \in ExchangeTokens(block)
           /\ event.kind = "Exchanged" /\ event.sell < MinSellAmount
  <2>1. DOMAIN values = {}
    BY <1>4 DEF HandleEvent, NoGauge
  <2>2. ~(event.sell >= MinSellAmount)
    BY <1>1, <1>4
  <2>3. QED
    BY <1>4, <2>1, <2>2, InEventsFor
<1>5. CASE /\ event.token \in ExchangeTokens(block)
           /\ event.kind = "Exchanged" /\ ~(event.sell < MinSellAmount)
  <2>1. DOMAIN values
          = {Gauge("exchange_celo_exchanged_rate", <<event.token>>)}
    BY <1>5 DEF HandleEvent, Set
  <2>2. event.sell >= MinSellAmount
    BY <1>1, <1>5
  <2> HIDE DEF values
  <2>3. QED
    BY <1>5, <2>1, <2>2, InEventsFor, GaugeOfToken DEF values
<1>6. QED
  BY <1>1, <1>2, <1>3, <1>4, <1>5

\* The script of a transaction: its events come after the receipt and before
\* the trace.
TxScript(block, i) ==
  <<NoGauge>>
  \o [j \in DOMAIN Chain[block].txs[i] |->
        HandleEvent(block, Chain[block].txs[i][j])]
  \o <<NoGauge>>

LEMMA ScriptOfTx ==
  ASSUME NEW block \in Blocks, NEW i \in DOMAIN Chain[block].txs,
         NEW script, script = TxScript(block, i)
  PROVE  /\ \A n \in DOMAIN script :
              \/ script[n] = NoGauge
              \/ /\ n - 1 \in DOMAIN Chain[block].txs[i]
                 /\ script[n] = HandleEvent(block, Chain[block].txs[i][n - 1])
         /\ \A j \in DOMAIN Chain[block].txs[i] :
              /\ j + 1 \in DOMAIN script
              /\ script[j + 1] = HandleEvent(block, Chain[block].txs[i][j])
<1> DEFINE tx == Chain[block].txs[i]
           events == [j \in DOMAIN tx |-> HandleEvent(block, tx[j])]
           all == {NoGauge} \cup {HandleEvent(block, tx[j]) : j \in DOMAIN tx}
<1>1. tx \in Seq(ExchangeEvents)
  BY GaugesAssumption, ElementOf
<1>2. Len(tx) \in Nat /\ DOMAIN tx = 1 .. Len(tx)
  BY <1>1
<1>3. events \in [1 .. Len(tx) -> all]
  <2> HIDE DEF tx
  <2>1. \A j \in DOMAIN tx : HandleEvent(block, tx[j]) \in all
    OBVIOUS
  <2> HIDE DEF all
  <2>2. QED
    BY <1>2, <2>1
<1>4. events \in Seq(all) /\ Len(events) = Len(tx)
  <2> HIDE DEF tx, events, all
  <2>1. QED
    BY <1>2, <1>3
<1>5. NoGauge \in all
  OBVIOUS
<1>6. \A j \in 1 .. Len(tx) : events[j] = HandleEvent(block, tx[j])
  BY <1>2
<1> HIDE DEF tx, all, events
<1>7. /\ DOMAIN script = 1 .. Len(events) + 2
      /\ script[1] = NoGauge /\ script[Len(events) + 2] = NoGauge
      /\ \A j \in 1 .. Len(events) : script[j + 1] = events[j]
  <2>1. script = <<NoGauge>> \o events \o <<NoGauge>>
    BY DEF tx, events, TxScript
  <2>2. events \in Seq(all)
    BY <1>4
  <2>3. QED
    BY <1>5, <2>1, <2>2, Framed
<1>8. DOMAIN script = 1 .. Len(tx) + 2
  BY <1>4, <1>7
<1>9. /\ script[1] = NoGauge /\ script[Len(tx) + 2] = NoGauge
      /\ \A j \in 1 .. Len(tx) : script[j + 1] = events[j]
  BY <1>4, <1>7
<1>10. \A n \in 1 .. Len(tx) + 2 :
         \/ n = 1
         \/ n = Len(tx) + 2
         \/ n - 1 \in 1 .. Len(tx) /\ n = (n - 1) + 1
  BY <1>2
<1>11. \A n \in DOMAIN script :
         \/ script[n] = NoGauge
         \/ n - 1 \in DOMAIN tx /\ script[n] = HandleEvent(block, tx[n - 1])
  <2> TAKE n \in DOMAIN script
  <2>1. CASE n - 1 \in 1 .. Len(tx) /\ n = (n - 1) + 1
    <3>1. script[n] = events[n - 1]
      BY <1>9, <2>1
    <3>2. QED
      BY <1>2, <1>6, <2>1, <3>1
  <2>2. QED
    BY <1>8, <1>9, <1>10, <2>1
<1>12. \A j \in DOMAIN tx :
         j + 1 \in DOMAIN script /\ script[j + 1] = HandleEvent(block, tx[j])
  <2>1. \A j \in 1 .. Len(tx) : j + 1 \in 1 .. Len(tx) + 2
    BY <1>2
  <2>2. QED
    BY <1>2, <1>6, <1>8, <1>9, <2>1
<1>13. QED
  BY <1>11, <1>12 DEF tx

LEMMA TxThreads ==
  ASSUME NEW block, Chain[block].readable
  PROVE  Transactions(block)
           = {Thread("tx", i, TxScript(block, i)) :
                i \in DOMAIN Chain[block].txs}
BY DEF Transactions, TxScript

LEMMA TxThread ==
  ASSUME NEW block \in Blocks, NEW t \in Transactions(block),
         NEW n \in DOMAIN t.script
  PROVE  OfItsEvent(block, t.of[2], n, t.script[n])
<1>1. Chain[block].readable
  BY DEF Transactions
<1>2. PICK i \in DOMAIN Chain[block].txs :
        t = Thread("tx", i, TxScript(block, i))
  BY <1>1, TxThreads
<1>3. t.of[2] = i /\ t.script = TxScript(block, i)
  BY <1>2 DEF Thread
<1>4. CASE t.script[n] = NoGauge
  BY <1>4 DEF OfItsEvent, NoGauge
<1>5. CASE /\ n - 1 \in DOMAIN Chain[block].txs[i]
           /\ t.script[n] = HandleEvent(block, Chain[block].txs[i][n - 1])
  BY <1>3, <1>5, HandlerSets DEF OfItsEvent
<1>6. QED
  BY <1>3, <1>4, <1>5, ScriptOfTx

\* The events of a block that are for a gauge set it.
LEMMA EventsSet ==
  ASSUME NEW block \in Blocks, CollectData, Chain[block].readable,
         NEW token \in ExchangeTokens(block), NEW name,
         EventsFor(name, block, token) # {}
  PROVE  \E t \in ThreadsOf(block) :
           /\ t.of[1] = "tx"
           /\ \E n \in DOMAIN t.script :
                Gauge(name, <<token>>) \in DOMAIN t.script[n]
<1>1. PICK i \in DOMAIN Chain[block].txs :
        \E j \in DOMAIN Chain[block].txs[i] :
          <<i, j>> \in EventsFor(name, block, token)
  BY DEF EventsFor
<1>2. PICK j \in DOMAIN Chain[block].txs[i] :
        <<i, j>> \in EventsFor(name, block, token)
  BY <1>1
<1> DEFINE script == TxScript(block, i)
           t == Thread("tx", i, script)
<1>3. t \in ThreadsOf(block)
  BY TxThreads DEF ThreadsOf
<1>4. t.of[1] = "tx" /\ t.script = script
  BY DEF Thread
<1> HIDE DEF script, t
<1>5. /\ j + 1 \in DOMAIN script
      /\ script[j + 1] = HandleEvent(block, Chain[block].txs[i][j])
  BY ScriptOfTx DEF script
<1>6. Gauge(name, <<token>>) \in DOMAIN script[j + 1]
  BY <1>2, <1>5, HandlerSets
<1>7. QED
  BY <1>3, <1>4, <1>5, <1>6

LEMMA PlainCalls ==
  ASSUME NEW name, name \notin EventNames, NEW token, NEW value, NEW values
  PROVE  /\ Plain(Set(Gauge(name, <<>>), value))
         /\ Plain(Set(Gauge(name, <<token>>), value))
         /\ Plain(ReportGauges(name, token, values))
<1>1. Plain(Set(Gauge(name, <<>>), value))
      /\ Plain(Set(Gauge(name, <<token>>), value))
  BY NameOfGauge DEF Plain, Set
<1> DEFINE R == ReportGauges(name, token, values)
<1>2. DOMAIN R = {Gauge(name, <<token, oracle>>) : oracle \in DOMAIN values}
  BY DEF ReportGauges
<1>3. \A oracle : Gauge(name, <<token, oracle>>)[1] = name
  BY NameOfGauge
<1> HIDE DEF R
<1>4. Plain(R)
  BY <1>2, <1>3 DEF Plain
<1>5. QED
  BY <1>1, <1>4 DEF R

LEMMA PlainOracles ==
  ASSUME NEW block, NEW token
  PROVE  \A n \in DOMAIN ObserveSortedOraclesOf(block, token) :
           Plain(ObserveSortedOraclesOf(block, token)[n])
<1> DEFINE oracles == Chain[block].oracles[token]
           reports == oracles.reports
           rates == [oracle \in DOMAIN reports |-> reports[oracle].rate]
           times == [oracle \in DOMAIN reports |-> reports[oracle].time]
           values == ReportGauges("sortedoracles_report_value", token, rates)
           age == Set(Gauge("sortedoracles_timestamp_median", <<token>>),
                      Whole(Age(Chain[block].time, oracles.medianTime)))
           call1 == Set(Gauge("sortedoracles_isoldestreportexpired", <<token>>),
                        BoolToFloat64(oracles.expired))
           call2 == Set(Gauge("sortedoracles_numrates", <<token>>),
                        Whole(Cardinality(DOMAIN reports)))
           call3 == Set(Gauge("sortedoracles_medianrate", <<token>>),
                        MedianRate(oracles.medianRate))
           call4 == Set(Gauge("sortedoracles_rates_maxdeviation", <<token>>),
                        MaxDeviation(reports))
           call5 == IF Chain[block].readable THEN Over(age, values) ELSE values
           call6 == ReportGauges("sortedoracles_report_timestamp", token, times)
           call7 == Set(Gauge("exchange_implied_stable_rate", <<token>>),
                        ImpliedRate(oracles.medianRate, oracles.buckets))
<1>1. /\ Plain(call1) /\ Plain(call2) /\ Plain(call3) /\ Plain(call4)
      /\ Plain(values) /\ Plain(age) /\ Plain(call6) /\ Plain(call7)
  BY PlainCalls DEF EventNames
<1>2. Plain(call5)
  <2> HIDE DEF age, values
  <2>1. QED
    BY <1>1 DEF Plain, Over
<1>3. ObserveSortedOraclesOf(block, token)
        = <<call1, call2, call3, call4, call5, call6, call7>>
  BY DEF ObserveSortedOraclesOf
<1> HIDE DEF call1, call2, call3, call4, call5, call6, call7
<1>4. QED
  BY <1>1, <1>2, <1>3

\* ObserveMetrics sets no gauge of an event.
LEMMA ObserversPlain ==
  ASSUME NEW block
  PROVE  /\ PlainThreads(ObserveChaindata(block))
         /\ PlainThreads(ObserveEpochRewards(block))
         /\ PlainThreads(ObserveGoldToken(block))
         /\ PlainThreads(ObserveStableToken(block))
         /\ PlainThreads(ObserveExchange(block))
         /\ PlainThreads(ObserveSortedOracles(block))
<1>1. \A name, part, values :
        Plain(values) => PlainThreads({Thread(name, part, <<values>>)})
  BY DEF PlainThreads, Thread
<1>2. PlainThreads(ObserveChaindata(block))
  <2> DEFINE values == Set(Gauge("block_gas_used", <<>>),
                           Whole(Chain[block].gasUsed))
  <2>1. Plain(values)
    BY PlainCalls DEF EventNames
  <2> HIDE DEF values
  <2>2. QED
    BY <1>1, <2>1 DEF ObserveChaindata, PlainThreads, values
<1>3. PlainThreads(ObserveEpochRewards(block))
  <2> DEFINE values == Set(Gauge("votinggoldfraction", <<>>),
                           Chain[block].votingGoldFraction)
  <2>1. Plain(values)
    BY PlainCalls DEF EventNames
  <2> HIDE DEF values
  <2>2. QED
    BY <1>1, <2>1 DEF ObserveEpochRewards, PlainThreads, values
<1>4. /\ PlainThreads(ObserveGoldToken(block))
      /\ PlainThreads(ObserveStableToken(block))
  <2>1. \A token : \A n \in DOMAIN Supply(block, token) :
          Plain(Supply(block, token)[n])
    <3> TAKE token
    <3> DEFINE values == Set(Gauge("celo_token_supply", <<token>>),
                             Whole(Chain[block].supply[token]))
    <3>1. Plain(values)
      BY PlainCalls DEF EventNames
    <3>2. Supply(block, token) = <<values>>
      BY DEF Supply
    <3> HIDE DEF values
    <3>3. QED
      BY <3>1, <3>2
  <2>2. QED
    BY <2>1 DEF ObserveGoldToken, ObserveStableToken, PlainThreads, Thread
<1>5. PlainThreads(ObserveExchange(block))
  <2> DEFINE bucket(token) == Chain[block].buckets[token]
             celo(token) == Set(Gauge("exchange_celo_bucket_size", <<token>>),
                                Whole(bucket(token).gold))
             stable(token) ==
               Set(Gauge("exchange_stable_bucket_size", <<token>>),
                   Whole(bucket(token).stable))
             script(token) == <<celo(token), stable(token), NoGauge>>
  <2>1. \A token : \A n \in DOMAIN script(token) : Plain(script(token)[n])
    <3> TAKE token
    <3>1. Plain(celo(token)) /\ Plain(stable(token))
      BY PlainCalls DEF EventNames
    <3>2. Plain(NoGauge)
      BY DEF Plain, NoGauge
    <3> HIDE DEF celo, stable
    <3>3. QED
      BY <3>1, <3>2
  <2>2. ObserveExchange(block)
          = {Thread("exchange", token, script(token)) :
               token \in ExchangeTokens(block)}
    BY DEF ObserveExchange
  <2> HIDE DEF script
  <2>3. QED
    BY <2>1, <2>2 DEF PlainThreads, Thread
<1>6. PlainThreads(ObserveSortedOracles(block))
  BY PlainOracles DEF ObserveSortedOracles, PlainThreads, Thread
<1>7. QED
  BY <1>2, <1>3, <1>4, <1>5, <1>6

\* Every call of a block sets gauges of events for their event only.
LEMMA CallsOfEvents ==
  ASSUME NEW block \in Blocks, NEW t \in ThreadsOf(block),
         NEW n \in DOMAIN t.script
  PROVE  OfItsEvent(block, t.of[2], n, t.script[n])
<1>1. CASE t \in Transactions(block)
  BY <1>1, TxThread
<1>2. CASE t \notin Transactions(block)
  <2>1. t \in UNION {ObserveChaindata(block), ObserveEpochRewards(block),
                     ObserveGoldToken(block), ObserveStableToken(block),
                     ObserveExchange(block), ObserveSortedOracles(block)}
    BY <1>2 DEF ThreadsOf
  <2>2. Plain(t.script[n])
    BY <2>1, ObserversPlain DEF PlainThreads
  <2>3. QED
    BY <2>2 DEF Plain, OfItsEvent
<1>3. QED
  BY <1>1, <1>2
-----------------------------------------------------------------------------
(***************************************************************************)
(* The gauges of one block                                                 *)
(***************************************************************************)

\* One of these threads, of a processor that is not gone, sets the gauge.
SetBy(threads, gone, gauge) ==
  \E t \in threads :
    /\ t.of[1] # "tx" /\ t.of \notin gone
    /\ \E i \in DOMAIN t.script : gauge \in DOMAIN t.script[i]

LEMMA SetByOne ==
  ASSUME NEW name, name # "tx", NEW part, NEW script, NEW i \in DOMAIN script,
         NEW gauge \in DOMAIN script[i], NEW threads,
         Thread(name, part, script) \in threads,
         NEW gone, <<name, part>> \notin gone
  PROVE  SetBy(threads, gone, gauge)
<1> DEFINE t == Thread(name, part, script)
<1>1. t.of[1] = name /\ t.of = <<name, part>> /\ t.script = script
  BY DEF Thread
<1> HIDE DEF t
<1>2. t \in threads
  BY DEF t
<1>3. QED
  BY <1>1, <1>2 DEF SetBy

LEMMA SetByMore ==
  ASSUME NEW some, NEW threads, some \subseteq threads, NEW gauge,
         NEW gone, SetBy(some, gone, gauge)
  PROVE  SetBy(threads, gone, gauge)
BY DEF SetBy

LEMMA SetsGauge == ASSUME NEW gauge, NEW value
                   PROVE  gauge \in DOMAIN Set(gauge, value)
BY DEF Set

LEMMA Observing ==
  ASSUME NEW block, CollectMetrics
  PROVE  /\ "chaindata" \in Observers =>
              ObserveChaindata(block) \subseteq ThreadsOf(block)
         /\ "exchange" \in Observers =>
              ObserveExchange(block) \subseteq ThreadsOf(block)
         /\ "epochRewards" \in Observers =>
              ObserveEpochRewards(block) \subseteq ThreadsOf(block)
         /\ "sortedOracles" \in Observers =>
              ObserveSortedOracles(block) \subseteq ThreadsOf(block)
         /\ "goldToken" \in Observers =>
              ObserveGoldToken(block) \subseteq ThreadsOf(block)
         /\ "stableToken" \in Observers =>
              ObserveStableToken(block) \subseteq ThreadsOf(block)
BY DEF ThreadsOf

LEMMA SupplySet ==
  ASSUME NEW block, NEW token, NEW name, name # "tx", NEW part, NEW threads,
         Thread(name, part, Supply(block, token)) \in threads,
         NEW gone, <<name, part>> \notin gone
  PROVE  SetBy(threads, gone, Gauge("celo_token_supply", <<token>>))
<1> DEFINE script == Supply(block, token)
           gauge == Gauge("celo_token_supply", <<token>>)
<1>1. 1 \in DOMAIN script /\ gauge \in DOMAIN script[1]
  BY SetsGauge DEF Supply
<1> HIDE DEF script, gauge
<1>2. Thread(name, part, script) \in threads
  BY DEF script
<1>3. SetBy(threads, gone, gauge)
  BY <1>1, <1>2, SetByOne
<1>4. QED
  BY <1>3 DEF gauge

LEMMA BucketsSet ==
  ASSUME NEW block, NEW token \in ExchangeTokens(block),
         NEW name \in {"exchange_celo_bucket_size",
                       "exchange_stable_bucket_size"},
         NEW gone, <<"exchange", token>> \notin gone
  PROVE  SetBy(ObserveExchange(block), gone, Gauge(name, <<token>>))
<1> DEFINE bucket == Chain[block].buckets[token]
           script == <<Set(Gauge("exchange_celo_bucket_size", <<token>>),
                           Whole(bucket.gold)),
                       Set(Gauge("exchange_stable_bucket_size", <<token>>),
                           Whole(bucket.stable)),
                       NoGauge>>
           gauge == Gauge(name, <<token>>)
<1>1. Thread("exchange", token, script) \in ObserveExchange(block)
  BY DEF ObserveExchange
<1>2. \E i \in DOMAIN script : gauge \in DOMAIN script[i]
  <2>1. CASE name = "exchange_celo_bucket_size"
    <3>1. 1 \in DOMAIN script /\ gauge \in DOMAIN script[1]
      BY <2>1, SetsGauge
    <3>2. QED
      BY <3>1
  <2>2. CASE name = "exchange_stable_bucket_size"
    <3>1. 2 \in DOMAIN script /\ gauge \in DOMAIN script[2]
      BY <2>2, SetsGauge
    <3>2. QED
      BY <3>1
  <2>3. QED
    BY <2>1, <2>2
<1> HIDE DEF script, gauge
<1>3. SetBy(ObserveExchange(block), gone, gauge)
  BY <1>1, <1>2, SetByOne
<1>4. QED
  BY <1>3 DEF gauge

LEMMA OraclesSet ==
  ASSUME NEW block,
         NEW token \in Chain[block].tokens \cap Chain[block].exchanges,
         "SortedOracles" \in Chain[block].deployed, NEW name,
         \/ name \in {"sortedoracles_isoldestreportexpired",
                      "sortedoracles_numrates", "sortedoracles_medianrate",
                      "sortedoracles_rates_maxdeviation",
                      "exchange_implied_stable_rate"}
         \/ Chain[block].readable /\ name = "sortedoracles_timestamp_median",
         NEW gone, <<"sortedOracles", token>> \notin gone
  PROVE  SetBy(ObserveSortedOracles(block), gone, Gauge(name, <<token>>))
<1> DEFINE script == ObserveSortedOraclesOf(block, token)
           gauge == Gauge(name, <<token>>)
<1>1. Thread("sortedOracles", token, script) \in ObserveSortedOracles(block)
  BY DEF ObserveSortedOracles
<1>2. \E i \in DOMAIN script : gauge \in DOMAIN script[i]
  <2>1. DOMAIN script = 1 .. 7
    BY DEF ObserveSortedOraclesOf
  <2>2. /\ Gauge("sortedoracles_isoldestreportexpired", <<token>>)
             \in DOMAIN script[1]
        /\ Gauge("sortedoracles_numrates", <<token>>) \in DOMAIN script[2]
        /\ Gauge("sortedoracles_medianrate", <<token>>) \in DOMAIN script[3]
        /\ Gauge("sortedoracles_rates_maxdeviation", <<token>>)
             \in DOMAIN script[4]
        /\ Gauge("exchange_implied_stable_rate", <<token>>)
             \in DOMAIN script[7]
    BY SetsGauge DEF ObserveSortedOraclesOf
  <2>3. Chain[block].readable =>
          Gauge("sortedoracles_timestamp_median", <<token>>)
            \in DOMAIN script[5]
    BY SetsGauge DEF ObserveSortedOraclesOf, Over
  <2> HIDE DEF script
  <2>4. QED
    BY <2>1, <2>2, <2>3
<1> HIDE DEF script, gauge
<1>3. SetBy(ObserveSortedOracles(block), gone, gauge)
  BY <1>1, <1>2, SetByOne
<1>4. QED
  BY <1>3 DEF gauge

LEMMA FewSet ==
  ASSUME NEW block, NEW gone
  PROVE  /\ Chain[block].readable /\ <<"chaindata", 0>> \notin gone =>
              SetBy(ObserveChaindata(block), gone,
                    Gauge("block_gas_used", <<>>))
         /\ ("EpochRewards" \in Chain[block].deployed
              /\ <<"epochRewards", 0>> \notin gone) =>
              SetBy(ObserveEpochRewards(block), gone,
                    Gauge("votinggoldfraction", <<>>))
<1> DEFINE gas == Gauge("block_gas_used", <<>>)
           gasScript == <<Set(gas, Whole(Chain[block].gasUsed))>>
           fraction == Gauge("votinggoldfraction", <<>>)
           fractionScript == <<Set(fraction, Chain[block].votingGoldFraction)>>
<1>1. Chain[block].readable =>
        Thread("chaindata", 0, gasScript) \in ObserveChaindata(block)
  BY DEF ObserveChaindata
<1>2. "EpochRewards" \in Chain[block].deployed =>
        Thread("epochRewards", 0, fractionScript) \in ObserveEpochRewards(block)
  BY DEF ObserveEpochRewards
<1>3. 1 \in DOMAIN gasScript /\ gas \in DOMAIN gasScript[1]
  BY SetsGauge
<1>4. 1 \in DOMAIN fractionScript /\ fraction \in DOMAIN fractionScript[1]
  BY SetsGauge
<1> HIDE DEF gasScript, gas, fractionScript, fraction
<1>5. /\ Chain[block].readable /\ <<"chaindata", 0>> \notin gone =>
           SetBy(ObserveChaindata(block), gone, gas)
      /\ ("EpochRewards" \in Chain[block].deployed
           /\ <<"epochRewards", 0>> \notin gone) =>
           SetBy(ObserveEpochRewards(block), gone, fraction)
  <2>1. ASSUME Chain[block].readable, <<"chaindata", 0>> \notin gone
        PROVE  SetBy(ObserveChaindata(block), gone, gas)
    <3>1. Thread("chaindata", 0, gasScript) \in ObserveChaindata(block)
      BY <1>1, <2>1
    <3>2. QED
      BY <1>3, <2>1, <3>1, SetByOne
  <2>2. ASSUME "EpochRewards" \in Chain[block].deployed,
               <<"epochRewards", 0>> \notin gone
        PROVE  SetBy(ObserveEpochRewards(block), gone, fraction)
    <3>1. Thread("epochRewards", 0, fractionScript)
            \in ObserveEpochRewards(block)
      BY <1>2, <2>2
    <3>2. QED
      BY <1>4, <2>2, <3>1, SetByOne
  <2>3. QED
    BY <2>1, <2>2
<1>6. QED
  BY <1>5 DEF gas, fraction

LEMMA SuppliesSet ==
  ASSUME NEW block, NEW gone
  PROVE  /\ ("GoldToken" \in Chain[block].deployed
              /\ <<"goldToken", 0>> \notin gone) =>
              SetBy(ObserveGoldToken(block), gone,
                    Gauge("celo_token_supply", <<"GoldToken">>))
         /\ \A token \in Chain[block].tokens :
              <<"stableToken", token>> \notin gone =>
                SetBy(ObserveStableToken(block), gone,
                      Gauge("celo_token_supply", <<token>>))
<1>1. "GoldToken" \in Chain[block].deployed =>
        Thread("goldToken", 0, Supply(block, "GoldToken"))
          \in ObserveGoldToken(block)
  BY DEF ObserveGoldToken
<1>2. \A token \in Chain[block].tokens :
        Thread("stableToken", token, Supply(block, token))
          \in ObserveStableToken(block)
  BY DEF ObserveStableToken
<1>3. ASSUME "GoldToken" \in Chain[block].deployed,
             <<"goldToken", 0>> \notin gone
      PROVE  SetBy(ObserveGoldToken(block), gone,
                   Gauge("celo_token_supply", <<"GoldToken">>))
  <2>1. Thread("goldToken", 0, Supply(block, "GoldToken"))
          \in ObserveGoldToken(block)
    BY <1>1, <1>3
  <2>2. QED
    BY <1>3, <2>1, SupplySet
<1>4. ASSUME NEW token \in Chain[block].tokens,
             <<"stableToken", token>> \notin gone
      PROVE  SetBy(ObserveStableToken(block), gone,
                   Gauge("celo_token_supply", <<token>>))
  <2>1. Thread("stableToken", token, Supply(block, token))
          \in ObserveStableToken(block)
    BY <1>2
  <2>2. QED
    BY <1>4, <2>1, SupplySet
<1>5. QED
  BY <1>3, <1>4

\* Every gauge of a block is set by one of its threads, and one that is of a
\* processor that is not gone by a thread that is not.
LEMMA AllSet ==
  ASSUME NEW block \in Blocks, CollectMetrics, NEW gone,
         NEW gauge \in BlockGauges(block, gone)
  PROVE  SetBy(ThreadsOf(block), gone, gauge)
<1> DEFINE at == Chain[block]
<1>1. CASE /\ "chaindata" \in Observers /\ <<"chaindata", 0>> \notin gone
           /\ at.readable /\ gauge = Gauge("block_gas_used", <<>>)
  BY <1>1, FewSet, Observing, SetByMore
<1>2. CASE /\ "epochRewards" \in Observers /\ <<"epochRewards", 0>> \notin gone
           /\ "EpochRewards" \in at.deployed
           /\ gauge = Gauge("votinggoldfraction", <<>>)
  BY <1>2, FewSet, Observing, SetByMore
<1>3. CASE /\ "goldToken" \in Observers /\ <<"goldToken", 0>> \notin gone
           /\ "GoldToken" \in at.deployed
           /\ gauge = Gauge("celo_token_supply", <<"GoldToken">>)
  BY <1>3, SuppliesSet, Observing, SetByMore
<1>4. CASE "stableToken" \in Observers
           /\ \E token \in at.tokens :
                /\ <<"stableToken", token>> \notin gone
                /\ gauge = Gauge("celo_token_supply", <<token>>)
  BY <1>4, SuppliesSet, Observing, SetByMore
<1>5. CASE "exchange" \in Observers /\ "Reserve" \in at.deployed
           /\ \E token \in at.exchanges :
                /\ <<"exchange", token>> \notin gone
                /\ gauge \in {Gauge("exchange_celo_bucket_size", <<token>>),
                              Gauge("exchange_stable_bucket_size", <<token>>)}
  <2>1. PICK token \in ExchangeTokens(block) :
          /\ <<"exchange", token>> \notin gone
          /\ gauge \in {Gauge("exchange_celo_bucket_size", <<token>>),
                        Gauge("exchange_stable_bucket_size", <<token>>)}
    BY <1>5 DEF ExchangeTokens
  <2>2. SetBy(ObserveExchange(block), gone, gauge)
    BY <2>1, BucketsSet
  <2>3. QED
    BY <1>5, <2>2, Observing, SetByMore
<1> DEFINE of(factory, here, name, label) ==
             IF factory \in Observers /\ here /\ <<factory, 0>> \notin gone
             THEN {Gauge(name, label)}
             ELSE {}
           ofEach(factory, tokens, names) ==
             IF factory \in Observers
             THEN {Gauge(name, <<token>>) : name \in names,
                     token \in {t \in tokens : <<factory, t>> \notin gone}}
             ELSE {}
           ages ==
             IF at.readable THEN {"sortedoracles_timestamp_median"} ELSE {}
           gas == of("chaindata", at.readable, "block_gas_used", <<>>)
           fraction == of("epochRewards", "EpochRewards" \in at.deployed,
                          "votinggoldfraction", <<>>)
           celo == of("goldToken", "GoldToken" \in at.deployed,
                      "celo_token_supply", <<"GoldToken">>)
           supplies ==
             ofEach("stableToken", at.tokens, {"celo_token_supply"})
           buckets ==
             ofEach("exchange",
               {token \in at.exchanges : "Reserve" \in at.deployed},
               {"exchange_celo_bucket_size", "exchange_stable_bucket_size"})
           oracles ==
             ofEach("sortedOracles",
               {token \in at.tokens \cap at.exchanges :
                  "SortedOracles" \in at.deployed},
               {"sortedoracles_isoldestreportexpired",
                "sortedoracles_numrates", "sortedoracles_medianrate",
                "sortedoracles_rates_maxdeviation",
                "exchange_implied_stable_rate"} \cup ages)
<1>6. BlockGauges(block, gone)
        = UNION {gas, fraction, celo, supplies, buckets, oracles}
  BY DEF BlockGauges
<1>7. CASE gauge \in gas
  BY <1>1, <1>7
<1>8. CASE gauge \in fraction
  BY <1>2, <1>8
<1>9. CASE gauge \in celo
  BY <1>3, <1>9
<1>10. CASE gauge \in supplies
  BY <1>4, <1>10
<1>11. CASE gauge \in buckets
  <2>1. "exchange" \in Observers
    BY <1>11
  <2>2. PICK name \in {"exchange_celo_bucket_size",
                       "exchange_stable_bucket_size"},
             token \in at.exchanges :
          /\ gauge = Gauge(name, <<token>>) /\ "Reserve" \in at.deployed
          /\ <<"exchange", token>> \notin gone
    BY <1>11, <2>1
  <2>3. gauge \in {Gauge("exchange_celo_bucket_size", <<token>>),
                   Gauge("exchange_stable_bucket_size", <<token>>)}
    BY <2>2
  <2>4. QED
    BY <1>5, <2>1, <2>2, <2>3
<1>12. CASE gauge \in oracles
  <2> DEFINE names == {"sortedoracles_isoldestreportexpired",
                       "sortedoracles_numrates", "sortedoracles_medianrate",
                       "sortedoracles_rates_maxdeviation",
                       "exchange_implied_stable_rate"}
  <2>1. "sortedOracles" \in Observers
    BY <1>12
  <2>2. PICK name \in names \cup ages,
             token \in at.tokens \cap at.exchanges :
          /\ gauge = Gauge(name, <<token>>)
          /\ "SortedOracles" \in at.deployed
          /\ <<"sortedOracles", token>> \notin gone
    BY <1>12, <2>1
  <2>3. \/ name \in names
        \/ at.readable /\ name = "sortedoracles_timestamp_median"
    BY <2>2
  <2>4. SetBy(ObserveSortedOracles(block), gone, gauge)
    BY <2>2, <2>3, OraclesSet
  <2>5. QED
    BY <2>1, <2>4, Observing, SetByMore
<1> HIDE DEF gas, fraction, celo, supplies, buckets, oracles
<1>13. QED
  BY <1>6, <1>7, <1>8, <1>9, <1>10, <1>11, <1>12

\* While no call has failed, what the calls of the threads have set is of the
\* block: also what another thread has set again.  The same goes for the events
\* of transactions until one is not parsed; a thread that has been dropped has
\* not set all of them.
AllHandled(t) ==
  IF t.of[1] = "tx" THEN ~skipped ELSE t.of \notin dropped

SetSoFar ==
  phase = "run" /\ ~failed =>
    \A t \in Threads[current] :
      AllHandled(t) =>
        \A i \in 1 .. position[t.of] :
          \A gauge \in DOMAIN t.script[i] :
            gauge \in DOMAIN gauges /\ gauges[gauge].block = current

\* What OfEvents says of a block that has ended well.
EventsObserved ==
  phase = "ok" /\ CollectData /\ Chain[current].readable /\ ~skipped =>
    \A token \in ExchangeTokens(current) :
      \A name \in EventNames :
        EventsFor(name, current, token) # {} =>
          gauges[Gauge(name, <<token>>)].block = current

TogetherInv == SetSoFar /\ ObservedTogether /\ EventsObserved

\* A thread sets the gauges of its call and leaves none to another block.
LEMMA AdvanceTogether ==
  ASSUME TypeOK, SetSoFar, NEW thread \in Threads[current], Advance(thread)
  PROVE  SetSoFar'
<1> DEFINE n == position[thread.of] + 1
           values == thread.script[n]
<1>1. /\ phase = "run" /\ phase' = "run"
      /\ current' = current /\ failed' = failed
      /\ skipped' = skipped /\ dropped' = dropped
      /\ position' = [position EXCEPT ![thread.of] = n]
  BY DEF Advance
<1>2. n \in 0 .. Len(thread.script)
  BY CurrentThreads DEF Advance, TypeOK
<1>3. /\ DOMAIN gauges' = DOMAIN values \cup DOMAIN gauges
      /\ \A gauge \in DOMAIN values : gauges'[gauge].block = current
      /\ \A gauge \in DOMAIN gauges \ DOMAIN values :
           gauges'[gauge] = gauges[gauge]
  BY AdvanceGauges
<1>4. \A i \in 1 .. n : i = n \/ i \in 1 .. position[thread.of]
  <2>1. position[thread.of] \in Nat
    BY CurrentThreads DEF TypeOK
  <2>2. QED
    BY <2>1
<1> HIDE DEF n
<1>5. /\ position'[thread.of] = n
      /\ \A t \in Threads[current] \ {thread} : position'[t.of] = position[t.of]
  BY <1>1, <1>2, PositionType
<1>6. SUFFICES ASSUME ~failed, NEW t \in Threads[current],
                      AllHandled(t), NEW i \in 1 .. position'[t.of],
                      NEW gauge \in DOMAIN t.script[i]
               PROVE  gauge \in DOMAIN gauges' /\ gauges'[gauge].block = current
  BY <1>1 DEF SetSoFar, AllHandled
<1>7. CASE gauge \in DOMAIN values
  BY <1>3, <1>7
<1>8. CASE gauge \notin DOMAIN values
  <2>1. i \in 1 .. position[t.of]
    BY <1>4, <1>5, <1>8
  <2>2. gauge \in DOMAIN gauges /\ gauges[gauge].block = current
    BY <1>1, <1>6, <2>1 DEF SetSoFar
  <2>3. QED
    BY <1>3, <1>8, <2>2
<1>9. QED
  BY <1>7, <1>8

\* An event that is not parsed is one of a transaction.
LEMMA SkipTogether ==
  ASSUME TypeOK, SetSoFar, NEW thread \in Threads[current], SkipEvent(thread)
  PROVE  SetSoFar'
<1> DEFINE n == position[thread.of] + 1
<1>1. /\ UNCHANGED <<phase, current, failed, dropped, gauges>>
      /\ position' = [position EXCEPT ![thread.of] = n]
      /\ thread.of[1] = "tx" /\ skipped'
  BY DEF SkipEvent
<1>2. n \in 0 .. Len(thread.script)
  BY CurrentThreads DEF SkipEvent, TypeOK
<1> HIDE DEF n
<1>3. \A t \in Threads[current] \ {thread} : position'[t.of] = position[t.of]
  BY <1>1, <1>2, PositionType
<1>4. \A t \in Threads[current] :
        t.of[1] # "tx" => position'[t.of] = position[t.of]
  BY <1>1, <1>3
<1>5. QED
  BY <1>1, <1>4 DEF SetSoFar, AllHandled

\* A thread that fails unseen is dropped, and the others are as they were.
LEMMA DropTogether ==
  ASSUME TypeOK, SetSoFar, NEW thread \in Threads[current], FailCall(thread),
         ~failed'
  PROVE  SetSoFar'
<1> DEFINE n == Len(thread.script)
<1>1. /\ UNCHANGED <<phase, current, failed, skipped, gauges>>
      /\ position' = [position EXCEPT ![thread.of] = n]
      /\ thread.of[1] # "tx" /\ dropped' = dropped \cup {thread.of}
  BY DEF FailCall
<1>2. n \in 0 .. Len(thread.script)
  BY CurrentThreads DEF TypeOK
<1> HIDE DEF n
<1>3. \A t \in Threads[current] \ {thread} : position'[t.of] = position[t.of]
  BY <1>1, <1>2, PositionType
<1>4. ~AllHandled(thread)'
  BY <1>1 DEF AllHandled
<1>5. \A t \in Threads[current] : AllHandled(t)' => AllHandled(t)
  BY <1>1 DEF AllHandled
<1>6. QED
  BY <1>1, <1>3, <1>4, <1>5 DEF SetSoFar

\* When the threads of a block have ended well all its gauges were set.
LEMMA EndSet ==
  ASSUME TypeOK, SetSoFar, EndRun, ~failed, NEW t \in Threads[current],
         AllHandled(t), NEW i \in DOMAIN t.script,
         NEW gauge \in DOMAIN t.script[i]
  PROVE  gauge \in DOMAIN gauges /\ gauges[gauge].block = current
<1>1. i \in 1 .. position[t.of]
  BY CurrentThreads DEF EndRun, TypeOK
<1>2. QED
  BY <1>1 DEF SetSoFar, EndRun

LEMMA EndTogether ==
  ASSUME TypeOK, SetSoFar, EndRun, ~failed, CollectMetrics,
         NEW gauge \in BlockGauges(current, dropped)
  PROVE  gauge \in DOMAIN gauges /\ gauges[gauge].block = current
<1>1. current \in Blocks /\ Threads[current] = ThreadsOf(current)
  BY CurrentThreads DEF TypeOK
<1>2. SetBy(Threads[current], dropped, gauge)
  BY <1>1, AllSet
<1>3. PICK t \in Threads[current] :
        /\ t.of[1] # "tx" /\ t.of \notin dropped
        /\ \E i \in DOMAIN t.script : gauge \in DOMAIN t.script[i]
  BY <1>2 DEF SetBy
<1>4. QED
  BY <1>3, EndSet DEF AllHandled

LEMMA EndEvents ==
  ASSUME TypeOK, SetSoFar, EndRun, ~failed, ~skipped, CollectData,
         Chain[current].readable, NEW token \in ExchangeTokens(current),
         NEW name \in EventNames, EventsFor(name, current, token) # {}
  PROVE  gauges[Gauge(name, <<token>>)].block = current
<1>1. current \in Blocks /\ Threads[current] = ThreadsOf(current)
  BY CurrentThreads DEF TypeOK
<1>2. PICK t \in ThreadsOf(current) :
        /\ t.of[1] = "tx"
        /\ \E i \in DOMAIN t.script :
             Gauge(name, <<token>>) \in DOMAIN t.script[i]
  BY <1>1, EventsSet
<1>3. QED
  BY <1>1, <1>2, EndSet DEF AllHandled

LEMMA TogetherInvariant == Spec => []TogetherInv
<1>1. Init => TogetherInv
  BY DEF Init, TogetherInv, SetSoFar, ObservedTogether, EventsObserved
<1>2. TypeOK /\ TogetherInv /\ [Next]_vars => TogetherInv'
  <2> SUFFICES ASSUME TypeOK, SetSoFar, ObservedTogether, EventsObserved,
                      [Next]_vars
               PROVE  SetSoFar' /\ ObservedTogether' /\ EventsObserved'
    BY DEF TogetherInv
  <2>1. CASE StartRun
    <3>1. PICK block \in Blocks :
            current' = block /\ position' = AtStart(block)
      BY <2>1 DEF StartRun
    <3>2. \A t \in Threads[current'] : position'[t.of] = 0
      BY <3>1, StartPositions
    <3>3. SetSoFar'
      BY <3>2 DEF SetSoFar
    <3>4. QED
      BY <2>1, <3>3 DEF StartRun, ObservedTogether, EventsObserved
  <2>2. ASSUME NEW thread \in Threads[current],
               \/ Advance(thread) \/ SkipEvent(thread)
               \/ FailCall(thread) \/ Cancel(thread)
        PROVE  SetSoFar' /\ ObservedTogether' /\ EventsObserved'
    <3>1. phase' = "run"
      BY <2>2 DEF Advance, SkipEvent, FailCall, Cancel
    <3>2. Cancel(thread) => failed'
      BY DEF Cancel
    <3>3. SetSoFar'
      <4>1. CASE failed' /\ (FailCall(thread) \/ Cancel(thread))
        BY <4>1 DEF SetSoFar
      <4>2. CASE FailCall(thread) /\ ~failed'
        BY <4>2, DropTogether
      <4>3. QED
        BY <2>2, <3>2, <4>1, <4>2, AdvanceTogether, SkipTogether
    <3>4. QED
      BY <3>1, <3>3 DEF ObservedTogether, EventsObserved
  <2>3. CASE EndRun
    <3>1. /\ UNCHANGED <<gauges, current, failed, skipped, dropped>>
          /\ phase' # "run"
          /\ (phase' = "ok" => ~failed)
      BY <2>3 DEF EndRun
    <3>2. ObservedTogether'
      <4>1. SUFFICES ASSUME phase' = "ok", CollectMetrics,
                            NEW gauge \in BlockGauges(current, dropped)
                     PROVE  /\ gauge \in DOMAIN gauges
                            /\ gauges[gauge].block = current
        BY <3>1 DEF ObservedTogether
      <4>2. QED
        BY <2>3, <3>1, <4>1, EndTogether
    <3>3. EventsObserved'
      <4>1. SUFFICES ASSUME phase' = "ok", CollectData,
                            Chain[current].readable, ~skipped,
                            NEW token \in ExchangeTokens(current),
                            NEW name \in EventNames,
                            EventsFor(name, current, token) # {}
                     PROVE  gauges[Gauge(name, <<token>>)].block = current
        BY <3>1 DEF EventsObserved
      <4>2. QED
        BY <2>3, <3>1, <4>1, EndEvents
    <3>4. QED
      BY <3>1, <3>2, <3>3 DEF SetSoFar
  <2>4. CASE UNCHANGED vars
    BY <2>4 DEF vars, SetSoFar, AllHandled, ObservedTogether, EventsObserved
  <2>5. QED
    BY <2>1, <2>2, <2>3, <2>4 DEF Next
<1>3. QED
  BY <1>1, <1>2, TypeCorrect, PTL DEF Spec

\* After a Run that returned nil the gauges of its block are of this block,
\* whatever was processed before and in whichever order its threads went: all
\* but those of a processor that was told that a contract is not deployed
\* (checkError).
THEOREM OfOneBlock == Spec => []ObservedTogether
<1>1. TogetherInv => ObservedTogether
  BY DEF TogetherInv
<1>2. QED
  BY <1>1, TogetherInvariant, PTL
-----------------------------------------------------------------------------
(***************************************************************************)
(* Which event a gauge is of                                               *)
(***************************************************************************)

\* What OfEvents says at all times.
EachOfAnEvent ==
  \A gauge \in DOMAIN gauges :
    gauge[1] \in EventNames =>
      EventOf(gauge) \in EventsFor(gauge[1], gauges[gauge].block, gauge[2])

LEMMA EventInvariant == Spec => []EachOfAnEvent
<1>1. Init => EachOfAnEvent
  BY DEF Init, NoGauge, EachOfAnEvent
<1>2. TypeOK /\ EachOfAnEvent /\ [Next]_vars => EachOfAnEvent'
  <2> SUFFICES ASSUME TypeOK, EachOfAnEvent, [Next]_vars PROVE EachOfAnEvent'
    OBVIOUS
  <2>1. ASSUME NEW thread \in Threads[current], Advance(thread)
        PROVE  EachOfAnEvent'
    <3> DEFINE n == position[thread.of] + 1
               values == thread.script[n]
    <3>1. OfItsEvent(current, thread.of[2], n, values)
      BY <2>1, NextCall, CurrentThreads, CallsOfEvents DEF TypeOK
    <3>2. /\ DOMAIN gauges' = DOMAIN values \cup DOMAIN gauges
          /\ \A gauge \in DOMAIN values :
               /\ gauges'[gauge].block = current
               /\ gauges'[gauge].of = thread.of
               /\ gauges'[gauge].call = n
          /\ \A gauge \in DOMAIN gauges \ DOMAIN values :
               gauges'[gauge] = gauges[gauge]
      BY <2>1, AdvanceGauges
    <3> HIDE DEF values, n
    <3>3. SUFFICES ASSUME NEW gauge \in DOMAIN gauges', gauge[1] \in EventNames
                   PROVE  <<gauges'[gauge].of[2], gauges'[gauge].call - 1>>
                            \in EventsFor(gauge[1], gauges'[gauge].block,
                                          gauge[2])
      BY DEF EachOfAnEvent, EventOf
    <3>4. CASE gauge \in DOMAIN values
      BY <3>1, <3>2, <3>3, <3>4 DEF OfItsEvent
    <3>5. CASE gauge \notin DOMAIN values
      BY <3>2, <3>3, <3>5 DEF EachOfAnEvent, EventOf
    <3>6. QED
      BY <3>4, <3>5
  <2>2. CASE UNCHANGED gauges
    BY <2>2 DEF EachOfAnEvent, EventOf
  <2>3. QED
    BY <2>1, <2>2
    DEF Next, vars, StartRun, SkipEvent, FailCall, Cancel, EndRun
<1>3. QED
  BY <1>1, <1>2, TypeCorrect, PTL DEF Spec

\* The gauges of events are at all times of an event that their handler takes
\* (HandleEvent of proc_exchange.go), and after a Run that returned nil and
\* parsed all events of one of its block.
THEOREM AlwaysOfEvents == Spec => []OfEvents
<1>1. EachOfAnEvent /\ TogetherInv => OfEvents
  BY DEF EachOfAnEvent, TogetherInv, EventsObserved, OfEvents
<1>2. QED
  BY <1>1, EventInvariant, TogetherInvariant, PTL
===============================================================================
