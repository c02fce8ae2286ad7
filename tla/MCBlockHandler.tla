---------------------------- MODULE MCBlockHandler ----------------------------
(***************************************************************************)
(* Instances of the block handler for TLC.                                 *)
(***************************************************************************)
EXTENDS BlockHandler

CONSTANTS chaindata, exchange, oracles

ThreeTasks == {chaindata, exchange, oracles}

\* One task that sends two rows, one that sends one, and one that sends none.
ThreeRowCounts ==
  [t \in ThreeTasks |->
     CASE t = chaindata -> 2 [] t = exchange -> 1 [] t = oracles -> 0]
==============================================================================
