------------------------------- MODULE IndexLog -------------------------------
(***************************************************************************)
(* What the pipeline promises to whoever reads its destination and its     *)
(* Redis keys, without queue, cursor in memory, workers or faults: a log   *)
(* of the blocks written, of those of them known to be, and a checkpoint   *)
(* below which nothing has to be looked for again.                         *)
(***************************************************************************)
EXTENDS Integers

CONSTANTS First,      \* the block the log begins with
          Revocable   \* blocks that may be asked for again

NoCheckpoint == -1

VARIABLES written,    \* blocks of which all rows are in the destination
          marked,     \* blocks known to be written
          checkpoint  \* every block from First up to it is known, NoCheckpoint
                      \* before the first one is set

Init == written = {} /\ marked = {} /\ checkpoint = NoCheckpoint

\* A block is written; it stays so.
Write ==
  /\ \E block \in written' : written' = written \cup {block}
  /\ UNCHANGED <<marked, checkpoint>>

\* A written block, and no other, becomes known.
Mark ==
  /\ \E block \in written : marked' = marked \cup {block}
  /\ UNCHANGED <<written, checkpoint>>

\* Some of the revocable blocks are forgotten, and only those.
Revoke ==
  /\ marked' \subseteq marked
  /\ marked \ marked' \subseteq Revocable
  /\ UNCHANGED <<written, checkpoint>>

\* The checkpoint moves up, over known or revocable blocks only.
Advance ==
  /\ checkpoint' \in Nat
  /\ checkpoint' > checkpoint /\ checkpoint' >= First
  /\ First .. (checkpoint' - 1) \subseteq marked \cup Revocable
  /\ UNCHANGED <<written, marked>>

Next == Write \/ Mark \/ Revoke \/ Advance

Spec == Init /\ [][Next]_<<written, marked, checkpoint>>
===============================================================================
