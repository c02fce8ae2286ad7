-------------------------------- MODULE MCGauges -------------------------------
(***************************************************************************)
(* An instance of the gauges for TLC, with blocks from the migrations that *)
(* deploy the contracts: block 1 comes before the exchange, block 2 has an *)
(* empty one and no report yet, block 3 has reports and two transactions   *)
(* with events, block 4 does not unmarshal and has lost an oracle.         *)
(***************************************************************************)
EXTENDS Gauges, Configuration, TLC

Update(gold, stable) ==
  [kind |-> "BucketsUpdated", token |-> "CUSD",
   gold |-> gold, stable |-> stable]

Trade(sell, buy, soldGold) ==
  [kind |-> "Exchanged", token |-> "CUSD", sell |-> sell, buy |-> buy,
   soldGold |-> soldGold]

NoReports ==
  [expired |-> FALSE, reports |-> <<>>, medianRate |-> <<0, 0>>,
   medianTime |-> 0, buckets |-> <<0, 0>>]

NoExchange ==
  [readable |-> TRUE, time |-> 1, gasUsed |-> 0, deployed |-> {"GoldToken"},
   tokens |-> {},
   exchanges |-> {}, votingGoldFraction |-> <<1, 2>>,
   supply |-> [t \in {"GoldToken", "CUSD"} |-> 10],
   buckets |-> [t \in {"CUSD"} |-> [gold |-> 0, stable |-> 0]],
   oracles |-> [t \in {"CUSD"} |-> NoReports], txs |-> <<>>]

EmptyExchange ==
  [NoExchange EXCEPT
     !.time = 5,
     !.deployed = {"GoldToken", "Reserve", "SortedOracles"},
     !.tokens = {"CUSD"}, !.exchanges = {"CUSD"},
     !.txs = <<<<Update(0, 0), Trade(3, 0, TRUE)>>>>]

Reported ==
  [EmptyExchange EXCEPT
     !.time = 10,
     !.buckets["CUSD"] = [gold |-> 4, stable |-> 8],
     !.oracles["CUSD"] =
       [expired |-> FALSE,
        reports |-> "o1" :> [rate |-> 2, time |-> 9]
                    @@ "o2" :> [rate |-> 3, time |-> 10],
        medianRate |-> <<2, 1>>, medianTime |-> 10, buckets |-> <<8, 4>>],
     !.txs = <<<<Update(4, 8)>>, <<Trade(1, 1, FALSE), Update(4, 7)>>>>]

OneOracle ==
  [Reported EXCEPT
     !.readable = FALSE, !.time = 15,
     !.deployed = @ \cup {"EpochRewards"},
     !.oracles["CUSD"].reports = "o1" :> [rate |-> 0, time |-> 15],
     !.oracles["CUSD"].medianRate = <<0, 1>>,
     !.oracles["CUSD"].medianTime = 15]

SmallChain == <<NoExchange, EmptyExchange, Reported, OneOracle>>

\* An indexer that is given the mode on its command line.
ModeGiven == IndexerMode("both", NotSet, "metrics")

Metrics == ShouldCollectMetrics(ModeGiven)

Data == ShouldCollectData(ModeGiven)

AllObservers ==
  {"chaindata", "exchange", "epochRewards", "sortedOracles", "goldToken",
   "stableToken"}
===============================================================================
