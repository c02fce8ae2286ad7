---------------------------- MODULE ServiceProofs ----------------------------
(***************************************************************************)
(* Proofs about a process from start to exit, for any number of parts and  *)
(* any of them optional or finite.                                         *)
(***************************************************************************)
EXTENDS Service, TLAPS

\* Parts[i] is one of the parts.
LEMMA NextPart ==
  ASSUME TypeOK, Making
  PROVE  Parts[made + 1] \in PartSet /\ made + 1 \in 0 .. Len(Parts)
<1>1. Len(Parts) \in Nat /\ DOMAIN Parts = 1 .. Len(Parts)
  BY ServiceAssumption
<1>2. made + 1 \in 1 .. Len(Parts)
  BY <1>1 DEF TypeOK, Making
<1>. QED BY <1>1, <1>2 DEF PartSet

\* What a group keeps, and what a call returns, are errors.
LEMMA ErrorTypes ==
  /\ \A done \in BOOLEAN : CallErrors(done) \subseteq Errors \ {"nil"}
  /\ \A kept, err \in Errors : First(kept, err) \in Errors
  BY DEF CallErrors, First, Errors

\* Every variable of the process always has its type (TypeOK).
THEOREM TypeCorrect == Spec => []TypeOK
<1>1. Init => TypeOK
  <2>1. 0 \in 0 .. Len(Parts)
    BY ServiceAssumption
  <2>. QED BY <2>1 DEF Init, TypeOK, Errors
<1>2. TypeOK /\ [Next]_vars => TypeOK'
  <2>. SUFFICES ASSUME TypeOK, [Next]_vars PROVE TypeOK'
    OBVIOUS
  <2>. USE DEF TypeOK
  <2>1. CASE StartPart
    BY <2>1, NextPart DEF StartPart
  <2>2. CASE StartFails
    BY <2>2, ErrorTypes DEF StartFails, NoteFailure, CommandDone
  <2>3. ASSUME NEW p \in PartSet, PartFails(p)
        PROVE  TypeOK'
    <3>1. groupErr' \in Errors
      BY <2>3, ErrorTypes DEF PartFails, PartDone, CommandDone
    <3>. QED BY <2>3, <3>1 DEF PartFails, NoteFailure
  <2>4. ASSUME NEW p \in PartSet, PartStops(p)
        PROVE  TypeOK'
    <3>1. groupErr' \in Errors
      BY <2>4, ErrorTypes DEF PartStops, PartDone, CommandDone
    <3>. QED BY <2>4, <3>1 DEF PartStops
  <2>5. ASSUME NEW p \in PartSet, PartCompletes(p)
        PROVE  TypeOK'
    BY <2>5 DEF PartCompletes
  <2>6. CASE StartReturns
    BY <2>6, ErrorTypes DEF StartReturns
  <2>7. CASE ServerFails
    BY <2>7, ErrorTypes DEF ServerFails, NoteFailure, Errors
  <2>8. CASE Signal \/ Listen \/ ServerCloses \/ Exit \/ UNCHANGED vars
    BY <2>8 DEF Signal, Listen, ServerCloses, Exit, vars
  <2>. QED BY <2>1, <2>2, <2>3, <2>4, <2>5, <2>6, <2>7, <2>8 DEF Next
<1>. QED BY <1>1, <1>2, PTL DEF Spec
-----------------------------------------------------------------------------
(***************************************************************************)
(* Parts end before the process                                            *)
(***************************************************************************)

\* Once Start has returned every part was dealt with, and none runs.
Joined ==
  start = "returned" =>
    made = Len(Parts) /\ \A p \in PartSet : part[p] # "running"

\* Joined is inductive.
LEMMA JoinedInvariant == Spec => []Joined
<1>1. Init => Joined
  BY DEF Init, Joined
<1>2. TypeOK /\ Joined /\ [Next]_vars => Joined'
  <2>. SUFFICES ASSUME TypeOK, Joined, [Next]_vars PROVE Joined'
    OBVIOUS
  <2>1. CASE StartPart \/ StartFails
    BY <2>1 DEF Joined, StartPart, StartFails, Making
  <2>2. CASE StartReturns
    BY <2>2 DEF Joined, StartReturns, Waiting
  <2>3. ASSUME NEW p \in PartSet,
               PartFails(p) \/ PartStops(p) \/ PartCompletes(p)
        PROVE  Joined'
    BY <2>3 DEF Joined, PartFails, PartStops, PartCompletes, TypeOK
  <2>4. CASE \/ Signal \/ Listen \/ ServerFails \/ ServerCloses \/ Exit
             \/ UNCHANGED vars
    BY <2>4
    DEF Joined, Signal, Listen, ServerFails, ServerCloses, Exit, vars
  <2>. QED BY <2>1, <2>2, <2>3, <2>4 DEF Next
<1>. QED BY <1>1, <1>2, TypeCorrect, PTL DEF Spec

\* When Start returned rather than broke off, the process ends after all of
\* its parts (group.Wait in Start).
THEOREM PartsEndFirst == Spec => []NoneCutOff
<1>1. Joined => NoneCutOff
  BY DEF Joined, NoneCutOff
<1>. QED BY <1>1, JoinedInvariant, PTL
-----------------------------------------------------------------------------
(***************************************************************************)
(* The exit code                                                           *)
(***************************************************************************)

\* context.Canceled is never the first error of a process that no signal
\* reached: something else must have failed before.
CanceledIsSecond ==
  /\ ~signalled => commandErr # "canceled"
  /\ ~signalled /\ commandErr = "nil" => groupErr # "canceled"

\* Errors do not come from nowhere, and before Start has run a part its
\* group has none.
ErrorsHaveCauses ==
  /\ "error" \in {groupErr, commandErr} => signalled \/ broken
  /\ made = 0 => groupErr = "nil" /\ \A p \in PartSet : part[p] = "off"

\* A failure before the signal is the error that the command keeps, or will
\* be when Start returns it.
FailureIsKept ==
  /\ broken => \/ commandErr = "error"
               \/ /\ commandErr = "nil"
                  /\ groupErr = "error"
                  /\ start = "running"
  /\ start = "brokenOff" => commandErr # "nil"

\* The server is closed only when the command's context is done.
ServerWatches == server = "ended" => CommandDone

ExitInv ==
  /\ CanceledIsSecond
  /\ ErrorsHaveCauses
  /\ FailureIsKept
  /\ ServerWatches
  /\ CleanExit

\* Start passes on the error of a part, and of a factory.
LEMMA StartExit ==
  ASSUME TypeOK, ExitInv, StartFails \/ StartReturns
  PROVE  ExitInv'
<1>. USE DEF ExitInv, CanceledIsSecond, ErrorsHaveCauses, FailureIsKept,
             ServerWatches, CleanExit, CommandDone, First, Running
<1>1. CASE StartFails
  <2>1. /\ exit = NoExit /\ start' = "brokenOff"
        /\ broken' = (broken \/ ~signalled)
        /\ UNCHANGED <<signalled, made, part, groupErr, server, exit>>
    BY <1>1 DEF StartFails, NoteFailure
  <2>2. PICK err \in CallErrors(made = 0 /\ CommandDone) :
          commandErr' = IF commandErr = "nil" THEN err ELSE commandErr
    BY <1>1 DEF StartFails
  <2>3. /\ err = "error" \/ (err = "canceled" /\ made = 0 /\ CommandDone)
        /\ commandErr' # "nil"
    BY <2>2 DEF CallErrors
  <2>4. commandErr \in Errors /\ signalled \in BOOLEAN /\ broken \in BOOLEAN
    BY DEF TypeOK
  <2>5. CanceledIsSecond' /\ ErrorsHaveCauses'
    BY <2>1, <2>2, <2>3, <2>4
  <2>6. FailureIsKept' /\ ServerWatches'
    BY <2>1, <2>2, <2>3, <2>4 DEF Errors
  <2>7. CleanExit'
    BY <2>1 DEF NoExit
  <2>. QED BY <2>5, <2>6, <2>7
<1>2. CASE StartReturns
  <2>1. /\ start = "running" /\ exit = NoExit
        /\ commandErr' = IF commandErr = "nil" THEN groupErr ELSE commandErr
        /\ UNCHANGED <<signalled, made, part, groupErr, server, exit, broken>>
        /\ start' = "returned"
    BY <1>2 DEF StartReturns, Waiting
  <2>. QED BY <2>1 DEF TypeOK, Errors, NoExit
<1>. QED BY <1>1, <1>2

\* The error of a part is the group's, unless there is one before it.
LEMMA PartExit ==
  ASSUME TypeOK, ExitInv, Joined, NEW p \in PartSet,
         PartFails(p) \/ PartStops(p) \/ PartCompletes(p)
  PROVE  ExitInv'
<1>. USE DEF ExitInv, CanceledIsSecond, ErrorsHaveCauses, FailureIsKept,
             ServerWatches, CleanExit, CommandDone, First, Running
<1>1. made # 0
  BY DEF PartFails, PartStops, PartCompletes
<1>2. start # "returned"
  BY DEF Joined, PartFails, PartStops, PartCompletes
<1>3. CASE PartFails(p)
  BY <1>1, <1>2, <1>3 DEF PartFails, PartDone, CallErrors, NoteFailure,
                          NoExit, TypeOK, Errors
<1>4. CASE PartStops(p)
  BY <1>1, <1>4 DEF PartStops, PartDone, CallErrors, NoExit, TypeOK, Errors
<1>5. CASE PartCompletes(p)
  BY <1>1, <1>5 DEF PartCompletes, NoExit
<1>. QED BY <1>3, <1>4, <1>5

\* ExitInv is inductive.
LEMMA ExitInvariant == Spec => []ExitInv
<1>1. Init => ExitInv
  BY DEF Init, ExitInv, CanceledIsSecond, ErrorsHaveCauses, FailureIsKept,
         ServerWatches, CleanExit, NoExit
<1>2. TypeOK /\ ExitInv /\ Joined /\ [Next]_vars => ExitInv'
  <2>. SUFFICES ASSUME TypeOK, ExitInv, Joined, [Next]_vars PROVE ExitInv'
    OBVIOUS
  <2>. USE DEF ExitInv, CanceledIsSecond, ErrorsHaveCauses, FailureIsKept,
               ServerWatches, CleanExit, CommandDone, First, Running, NoExit
  <2>1. CASE Signal
    BY <2>1 DEF Signal
  <2>2. CASE StartPart
    BY <2>2 DEF StartPart, TypeOK
  <2>3. CASE Listen \/ ServerCloses
    BY <2>3 DEF Listen, ServerCloses
  <2>4. CASE ServerFails
    BY <2>4 DEF ServerFails, NoteFailure, TypeOK, Errors
  <2>5. CASE Exit
    BY <2>5 DEF Exit, TypeOK, Errors
  <2>6. CASE UNCHANGED vars
    BY <2>6 DEF vars
  <2>. QED BY <2>1, <2>2, <2>3, <2>4, <2>5, <2>6, StartExit, PartExit DEF Next
<1>. QED BY <1>1, <1>2, TypeCorrect, JoinedInvariant, PTL DEF Spec

\* The exit code tells whether the process was told to exit while all was
\* well (Run of the commands): 0 then and only then, and no process exits of
\* itself unless something failed.
THEOREM ExitsCleanly == Spec => []CleanExit
<1>1. ExitInv => CleanExit
  BY DEF ExitInv
<1>. QED BY <1>1, ExitInvariant, PTL

\* A process that was told to exit, or of which something failed, is never
\* held up by goroutines that all wait for each other (Start, metrics.Start
\* and Run of the commands).
THEOREM AlwaysWayOut == Spec => []WayOut
<1>1. TypeOK /\ ExitInv => WayOut
  <2>. SUFFICES ASSUME TypeOK, ExitInv, signalled \/ broken
                PROVE  \/ Making
                       \/ PartDone /\ \E p \in PartSet : part[p] = "running"
                       \/ Waiting /\ \A p \in PartSet : part[p] # "running"
                       \/ server # "ended" /\ CommandDone
                       \/ server = "ended" /\ start # "running"
    BY DEF WayOut
  <2>1. CASE start = "running"
    <3>1. PartDone
      BY DEF ExitInv, FailureIsKept, PartDone, CommandDone
    <3>2. Len(Parts) \in Nat
      BY ServiceAssumption
    <3>3. Making \/ Waiting
      BY <2>1, <3>2 DEF TypeOK, Making, Waiting
    <3>. QED BY <3>1, <3>3
  <2>2. CASE start # "running"
    BY <2>2 DEF ExitInv, FailureIsKept, CommandDone
  <2>. QED BY <2>1, <2>2
<1>. QED BY <1>1, TypeCorrect, ExitInvariant, PTL
==============================================================================
