----------------------------- MODULE BlockOutcome -----------------------------
(***************************************************************************)
(* What module Worker takes the processing of a block for, all goroutines  *)
(* and attempts of it: rows of the block are stored, a few at a time and   *)
(* any number of times; in the end the block is marked, with all of its    *)
(* rows stored, or it is left alone; and nothing happens after that.       *)
(***************************************************************************)
EXTENDS Naturals

CONSTANT BlockRows    \* the rows of the block

VARIABLES stored,     \* rows of it that are in the destination
          marked,     \* the block is marked as indexed
          over        \* the worker has gone on to the next block

Init == stored = {} /\ marked = FALSE /\ over = FALSE

\* Rows are written by one of the attempts.
Store ==
  /\ ~over
  /\ stored \subseteq stored' /\ stored' \subseteq BlockRows
  /\ UNCHANGED <<marked, over>>

\* The block is complete and is marked.
Mark ==
  /\ ~over
  /\ stored = BlockRows
  /\ marked' = TRUE
  /\ over' = TRUE
  /\ UNCHANGED stored

\* The block is given up, or the mark is lost.
Leave ==
  /\ ~over
  /\ over' = TRUE
  /\ UNCHANGED <<stored, marked>>

Next == Store \/ Mark \/ Leave

Spec == Init /\ [][Next]_<<stored, marked, over>>
===============================================================================
