----------------------------- MODULE MCExtraction -----------------------------
(***************************************************************************)
(* Instances of the extraction for TLC: block 3 does not unmarshal, block  *)
(* 2 ends an hour, block 4 an epoch; MOO is a token without an exchange.   *)
(***************************************************************************)
EXTENDS Extraction, TLC

AllFactories ==
  {"chaindata", "exchange", "election", "epochRewards", "lockedGold", "reserve",
   "sortedOracles", "epochLogs", "goldToken", "stableToken"}

Tokens == {"CUSD", "CEUR", "MOO"}

TokenIDs ==
  "CUSD" :> "StableToken" @@ "CEUR" :> "StableTokenEUR"
    @@ "MOO" :> "StableTokenMOO"

ExchangeIDs ==
  "CUSD" :> "Exchange" @@ "CEUR" :> "ExchangeEUR"
    @@ "MOO" :> "ExchangeMOO"

CoreContracts ==
  {"Election", "EpochRewards", "LockedGold", "Reserve", "SortedOracles",
   "GoldToken"}

Early ==
  [readable |-> TRUE, hash |-> "b1", deployed |-> {}, tokens |-> {},
   exchanges |-> {}, txs |-> <<>>, epochLogs |-> <<>>,
   reports |-> [t \in Tokens |-> 0]]

WithEvent ==
  [Early EXCEPT
     !.txs = <<[hash |-> "tx1", logs |-> <<TRUE>>, transfers |-> <<>>]>>]

Hour ==
  [Early EXCEPT !.hash = "b2", !.deployed = {"Reserve", "GoldToken"}]

Unreadable ==
  [Early EXCEPT !.readable = FALSE, !.hash = "b3", !.deployed = CoreContracts,
                !.tokens = {"CUSD"}, !.exchanges = {"CUSD"}]

Epoch ==
  [Early EXCEPT
     !.hash = "b4", !.deployed = CoreContracts, !.tokens = Tokens,
     !.exchanges = {"CUSD", "CEUR"},
     !.txs = <<[hash |-> "tx2", logs |-> <<TRUE>>, transfers |-> <<5, 5>>],
               [hash |-> "tx3", logs |-> <<TRUE, FALSE, TRUE>>,
                transfers |-> <<5>>]>>,
     !.epochLogs = <<[index |-> 4, known |-> TRUE],
                     [index |-> 5, known |-> TRUE]>>,
     !.reports = [t \in Tokens |-> 2]]

SmallChain == 1 :> WithEvent @@ 2 :> Hour @@ 3 :> Unreadable @@ 4 :> Epoch

HourChain == 2 :> Hour

CONSTANTS a1, a2

TwoAttempts == {a1, a2}

AttemptSymmetry == Permutations(Attempts)
===============================================================================
