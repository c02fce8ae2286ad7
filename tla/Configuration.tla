----------------------------- MODULE Configuration -----------------------------
(***************************************************************************)
(* How the mode of a process is found (cmd/*.go, indexer/helpers.go).  The *)
(* defaults are set when package cmd is initialised, for all commands.     *)
(***************************************************************************)
EXTENDS Sequences

NotSet == "not set"

\* viper.Get (external): a flag given on the command line comes first, and
\* the default of a flag that is not given comes last.
Get(flag, environment, file, default, flagDefault) ==
  Head(SelectSeq(<<flag, environment, file, default, flagDefault>>,
                 LAMBDA value : value # NotSet))

\* indexer.mode; the flag is the one of the indexer command.
IndexerMode(flag, environment, file) ==
  Get(flag, environment, file, "metrics", "both")

\* The monitor command has no such flag.
MonitorMode(environment, file) ==
  Get(NotSet, environment, file, "metrics", NotSet)

\* Mode.shouldCollectData and Mode.shouldCollectMetrics
ShouldCollectData(mode) == mode \in {"data", "both"}

ShouldCollectMetrics(mode) == mode \in {"metrics", "both"}
===============================================================================
