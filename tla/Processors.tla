------------------------------ MODULE Processors ------------------------------
(***************************************************************************)
(* What the processors (indexer/proc_*.go) do for a block, as scripts: the *)
(* sequence of the calls that InitProcessors and CollectData lead to, with *)
(* the rows that are sent after a call succeeds and what an error of it    *)
(* does:                                                                   *)
(*                                                                         *)
(*   fail   CollectData returns the error, and Run fails with it: calls of *)
(*          the node, which does not answer them with "not deployed";      *)
(*   check  CollectData returns the error, and checkError decides: calls   *)
(*          of a contract, which may not be deployed;                      *)
(*   stop   CollectData returns nil in its place, the rest is left out;    *)
(*   skip   the error is logged, the rows of this call are left out;       *)
(*   never  there is no call, only rows.                                   *)
(*                                                                         *)
(* One operator per factory gives its threads (goroutines) for a block; a  *)
(* factory whose contract is not deployed at this height (checkError) or   *)
(* whose processors do not collect at this height (ShouldCollect) has      *)
(* none.  Chain is what the node answers (external):                       *)
(*                                                                         *)
(*   readable    the block unmarshals                                      *)
(*   txs         its transactions: hash, logs (is the contract one that    *)
(*               TryParseLog knows?) and internal transfers                *)
(*   epochLogs   its logs of no transaction, with their position among all *)
(*   hash        its hash, which those logs have for the transaction's     *)
(*   deployed    the core contracts in the registry                        *)
(*   tokens, exchanges, reports   stable tokens in the registry, those     *)
(*               with an active exchange, and the reports on each          *)
(***************************************************************************)
EXTENDS Rows, Integers

CONSTANTS Chain,          \* what the node answers, for every block
          Factories,      \* Factories, or the part of it an instance looks at
          EpochSize,      \* EpochSize (17280 in the code)
          BlocksPerHour,  \* BlocksPerHour (720 in the code)
          DebugEnabled,   \* the node has the debug module
          TokenID,        \* registry ids of the stable tokens
          ExchangeID      \* and of their exchanges

Blocks == DOMAIN Chain

ASSUME ProcessorsAssumption ==
  /\ Blocks \subseteq Nat
  /\ \A block \in Blocks :
       /\ Chain[block].txs \in
            Seq([hash : STRING, logs : Seq(BOOLEAN), transfers : Seq(Nat)])
       /\ Chain[block].epochLogs \in Seq([index : Nat, known : BOOLEAN])
       /\ \A token \in Chain[block].tokens \cup Chain[block].exchanges :
            "SortedOracles" \notin {TokenID[token], ExchangeID[token]}
  /\ EpochSize \in Nat \ {0}
  /\ BlocksPerHour \in Nat \ {0}
  /\ DebugEnabled \in BOOLEAN

\* Hashes tell all transactions and blocks of the chain apart.
ASSUME HashesAssumption ==
  \A one, other \in Blocks :
    /\ Chain[one].hash = Chain[other].hash => one = other
    /\ \A i \in DOMAIN Chain[one].txs :
         /\ Chain[one].txs[i].hash # Chain[other].hash
         /\ \A j \in DOMAIN Chain[other].txs :
              Chain[one].txs[i].hash = Chain[other].txs[j].hash =>
                one = other /\ i = j

\* utils.ShouldSample
ShouldSample(block, checkPoint) == block % checkPoint = 0

EpochEnds(block) == ShouldSample(block, EpochSize)

Call(rows, onError) == [rows |-> rows, onError |-> onError]

Thread(processor, part, script) ==
  [of |-> <<processor, part>>, script |-> script]

\* A run of view calls, each with one row.
Views(contractRow, methods) ==
  [i \in DOMAIN methods |->
     Call({ViewCall(contractRow, methods[i], <<>>)}, "check")]

ContractViews(blockRow, contract, methods) ==
  Views(Extend(blockRow, [contract |-> contract]), methods)

\* loadBlock at the given second: the row all others extend.  The one of a
\* block that does not unmarshal is left as NewBlockHandler made it.
BlockRow(block, second) ==
  IF Chain[block].readable
  THEN WithId(NewRow([indexerTimestamp |-> second, blockNumber |-> block]),
              <<Number(block)>>)
  ELSE NewRow([blockNumber |-> block])
-----------------------------------------------------------------------------
\* extractEvent: only a log that TryParseLog knows the contract of has a row.
Event(row, hash, index, known) ==
  Call(IF known
       THEN {WithId(Extend(row, [type |-> "Event", logTxIndex |-> index]),
                    <<Text(hash), Text("event"), Number(index)>>)}
       ELSE {},
       "skip")

\* extractInternalTransactions
Transfers(row, hash, transfers) ==
  Call({WithId(Extend(row, [type |-> "Transfer", value |-> transfers[i]]),
               <<Text(hash), Text("internalTransfer"), Number(i - 1)>>) :
          i \in DOMAIN transfers},
       "fail")

\* collectTransaction
Transaction(blockRow, block, i) ==
  LET hash == Chain[block].txs[i].hash
      txRow == Extend(blockRow, [txHash |-> hash, txIndex |-> i - 1])
      logs == Chain[block].txs[i].logs
  IN  <<Call({WithId(Extend(txRow, [type |-> "Transaction"]), <<Text(hash)>>)},
             "fail")>>
      \o [j \in DOMAIN logs |-> Event(txRow, hash, j - 1, logs[j])]
      \o IF DebugEnabled
         THEN <<Transfers(txRow, hash, Chain[block].txs[i].transfers)>>
         ELSE <<>>

\* chaindata: the row of the block and a thread for every transaction.
Chaindata(block, blockRow) ==
  IF Chain[block].readable
  THEN {Thread("block", 0,
          <<Call({Extend(blockRow, [type |-> "Block"])}, "never")>>)}
       \cup {Thread("tx", i, Transaction(blockRow, block, i)) :
               i \in DOMAIN Chain[block].txs}
  ELSE {}

\* epochLogs: numbered by FilterLogs among all logs of the block, of which
\* those of transactions are passed over.
EpochLogs(block, blockRow) ==
  LET logs == Chain[block].epochLogs
  IN  {Thread("epochLogs", 0,
         <<Call({}, "fail")>> \o
         [i \in DOMAIN logs |->
            Event(blockRow, Chain[block].hash, logs[i].index, logs[i].known)])}

\* The factories with one processor for a core contract.
CoreContract(block, contract, script) ==
  IF contract \in Chain[block].deployed
  THEN {Thread(contract, 0, script)}
  ELSE {}

Election(block, blockRow) ==
  CoreContract(block, "Election",
    ContractViews(blockRow, "Election",
      <<"getActiveVotes", "getTotalVotes", "getElectableValidators">>))

LockedGold(block, blockRow) ==
  CoreContract(block, "LockedGold",
    ContractViews(blockRow, "LockedGold",
      <<"getNonvotingLockedGold", "getTotalLockedGold">>))

GoldToken(block, blockRow) ==
  CoreContract(block, "GoldToken",
    ContractViews(blockRow, "GoldToken", <<"totalSupply">>))

\* An error of the first call is taken for a frozen reserve.
Reserve(block, blockRow) ==
  CoreContract(block, "Reserve",
    [ContractViews(blockRow, "Reserve",
       <<"getReserveRatio", "getReserveGoldBalance",
         "getOtherReserveAddressesGoldBalance", "getUnfrozenBalance",
         "getFrozenReserveGoldBalance", "getUnfrozenReserveGoldBalance">>)
     EXCEPT ![1].onError = "stop"])

\* An error of the last call is taken for a frozen contract.
EpochRewards(block, blockRow) ==
  CoreContract(block, "EpochRewards",
    [ContractViews(blockRow, "EpochRewards",
       <<"getTargetTotalSupply", "getTargetVoterRewards",
         "getRewardsMultiplier", "getRewardsMultiplierParameteres",
         "getTargetVotingYieldParameteres", "getTargetVotingGoldFraction",
         "getVotingGoldFraction", "calculateTargetEpochRewards">>)
     EXCEPT ![8].onError = "stop"])

\* exchange: nothing at all while the reserve is not deployed.
Exchange(block, blockRow) ==
  IF "Reserve" \in Chain[block].deployed
  THEN {Thread("exchange", token,
          ContractViews(blockRow, ExchangeID[token],
            <<"reserveFraction", "goldBucket", "stableBucket">>)) :
          token \in Chain[block].exchanges}
  ELSE {}

StableToken(block, blockRow) ==
  {Thread("stableToken", token,
     ContractViews(blockRow, TokenID[token],
       <<"totalSupply", "getInflationParameters">>)) :
     token \in Chain[block].tokens}

\* The calls of one sortedOracles processor: a row for every report, twice,
\* and the buckets under the registry id of the token (exchangeRegistryID).
OracleReports(contractRow, method, count) ==
  Call({AppendID(ViewCall(contractRow, method, [index |-> i - 1]),
                 Number(i - 1)) : i \in 1 .. count},
       "check")

SortedOraclesOf(blockRow, token, count) ==
  LET contractRow ==
        AppendID(Contract(blockRow, "SortedOracles", [stableToken |-> token]),
                 Text(token))
  IN  Views(contractRow,
        <<"IsOldestReportExpired", "NumRates", "MedianRate",
          "MedianTimestamp">>)
      \o <<OracleReports(contractRow, "GetRates", count),
           OracleReports(contractRow, "GetTimestamps", count)>>
      \o Views(Contract(blockRow, TokenID[token], <<>>),
               <<"getBuyAndSellBuckets">>)

\* sortedOracles: a token shows up before its exchange is active.
SortedOracles(block, blockRow) ==
  IF "SortedOracles" \in Chain[block].deployed
  THEN {Thread("sortedOracles", token,
          SortedOraclesOf(blockRow, token, Chain[block].reports[token])) :
          token \in Chain[block].tokens \cap Chain[block].exchanges}
  ELSE {}
-----------------------------------------------------------------------------
\* ShouldCollect
ShouldCollect(factory, block) ==
  \/ factory \in {"chaindata", "goldToken", "stableToken", "sortedOracles"}
  \/ factory = "reserve" /\ ShouldSample(block, BlocksPerHour)
  \/ EpochEnds(block)

\* initializeProcessors and spawnProcessors: all threads of the block, with
\* their scripts, for a block that was loaded at the given second.
Threads(block, second) ==
  LET row == BlockRow(block, second)
      of(factory, threads) ==
        IF factory \in Factories /\ ShouldCollect(factory, block)
        THEN threads ELSE {}
  IN  UNION {of("chaindata", Chaindata(block, row)),
             of("exchange", Exchange(block, row)),
             of("election", Election(block, row)),
             of("epochRewards", EpochRewards(block, row)),
             of("lockedGold", LockedGold(block, row)),
             of("reserve", Reserve(block, row)),
             of("sortedOracles", SortedOracles(block, row)),
             of("epochLogs", EpochLogs(block, row)),
             of("goldToken", GoldToken(block, row)),
             of("stableToken", StableToken(block, row))}
===============================================================================
