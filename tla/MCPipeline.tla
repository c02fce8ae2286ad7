------------------------------ MODULE MCPipeline ------------------------------
(***************************************************************************)
(* Instances of the pipeline for TLC.                                      *)
(***************************************************************************)
EXTENDS Pipeline, Configuration, TLC

CONSTANTS w1, w2

OneWorker == {w1}

TwoWorkers == {w1, w2}

WorkerSymmetry == Permutations(TwoWorkers)

NoManualBlocks == <<>>

\* A list with an entry that is not a number.
ListWithTypo == <<2, -1, 0>>

\* An indexer whose configuration has a mode.
Data == ShouldCollectData(IndexerMode(NotSet, NotSet, "data"))

\* A list of one old block.
OneOldBlock == <<0>>
==============================================================================
