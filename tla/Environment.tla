----------------------------- MODULE Environment -----------------------------
(***************************************************************************)
(* What lies outside the program: the Celo node, whose chain only grows,   *)
(* and the faults that the services survive (a process that is killed or   *)
(* exits on an error, a call to the node or to Redis that fails).  The     *)
(* node is modelled from the calls the services make: HeaderByNumber(nil)  *)
(* and BlockByNumber(nil) read head, BlockByNumber(b) finds b iff b <=     *)
(* head.  Every fault is paid for out of a budget, so that a behaviour has *)
(* finitely many of them.                                                  *)
(***************************************************************************)
EXTENDS Integers

CONSTANTS InitHead,   \* height of the chain when the services are deployed
          MaxHead,    \* bound: the chain does not grow past this height
          MaxFaults   \* bound: number of faults in a behaviour

ASSUME EnvironmentAssumption ==
  /\ InitHead \in Nat
  /\ MaxHead \in Nat
  /\ InitHead <= MaxHead
  /\ MaxFaults \in Nat

VARIABLES head,       \* number of the latest block of the chain
          faults      \* faults that happened so far

EnvironmentVars == <<head, faults>>

EnvironmentInit == head = InitHead /\ faults = 0

\* The node accepts the next block (external).
MineBlock ==
  /\ head < MaxHead
  /\ head' = head + 1
  /\ UNCHANGED faults

\* A step of a service in which nothing goes wrong / that is a fault.
NoFault == UNCHANGED EnvironmentVars

Fault ==
  /\ faults < MaxFaults
  /\ faults' = faults + 1
  /\ UNCHANGED head
==============================================================================
