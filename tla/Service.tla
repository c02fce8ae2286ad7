-------------------------------- MODULE Service --------------------------------
(***************************************************************************)
(* A process from start to exit: the command (cmd/indexer.go, monitor.go   *)
(* and publisher.go), the Start of its service, and the metrics server     *)
(* (metrics/server.go).                                                    *)
(*                                                                         *)
(* The command runs Start and the server in an errgroup under a context    *)
(* that is done once a signal came.  Start goes through Parts in order:    *)
(* it makes each one, which may fail, and runs it in an errgroup of its    *)
(* own; then it waits.  A group keeps the first error, cancels its context *)
(* with it, and Wait returns it once all of the group have returned        *)
(* (external).                                                             *)
(*                                                                         *)
(* Returned errors are "nil", "canceled" for context.Canceled itself, and  *)
(* "error" for any other, one that wraps context.Canceled included.        *)
(***************************************************************************)
EXTENDS Integers, Sequences, FiniteSets

CONSTANTS Parts,      \* what Start makes and runs, in order
          Optional,   \* parts that the configuration may leave out
          Finite      \* parts whose start returns nil when its work is done

ASSUME ServiceAssumption ==
  /\ \A i, j \in DOMAIN Parts : i # j => Parts[i] # Parts[j]
  /\ Parts \in Seq(STRING)

PartSet == {Parts[i] : i \in DOMAIN Parts}

VARIABLES signalled,   \* SIGINT or SIGTERM came
          made,        \* how many parts Start has dealt with
          start,       \* Start: "running", "returned", or "brokenOff" after an
                       \* error in making a part
          part,        \* state of the parts: "off", "running", "ended"
          groupErr,    \* the error the group of Start keeps
          server,      \* metrics.Start: "new", "serving" or "ended"
          commandErr,  \* the error the group of the command keeps
          exit,        \* exit code, NoExit while the process runs
          broken       \* history: something failed before any signal came

vars ==
  <<signalled, made, start, part, groupErr, server, commandErr, exit, broken>>

NoExit == -1

Errors == {"nil", "canceled", "error"}

TypeOK ==
  /\ signalled \in BOOLEAN /\ broken \in BOOLEAN
  /\ made \in 0 .. Len(Parts)
  /\ start \in {"running", "returned", "brokenOff"}
  /\ part \in [PartSet -> {"off", "running", "ended"}]
  /\ groupErr \in Errors /\ commandErr \in Errors
  /\ server \in {"new", "serving", "ended"}
  /\ exit \in {NoExit, 0, 1}

Init ==
  /\ signalled = FALSE /\ broken = FALSE
  /\ made = 0 /\ start = "running"
  /\ part = [p \in PartSet |-> "off"]
  /\ groupErr = "nil" /\ commandErr = "nil"
  /\ server = "new"
  /\ exit = NoExit
-----------------------------------------------------------------------------
Running == exit = NoExit

\* ctx.Done() of the command's context.
CommandDone == signalled \/ commandErr # "nil"

\* Mutant: the group of Start is made from context.Background().
GroupDone == groupErr # "nil"

\* ctx.Done() of the context that the parts are given.
PartDone == CommandDone \/ groupErr # "nil"

\* A group keeps the first error only.
First(kept, err) == IF kept = "nil" THEN err ELSE kept

\* What a call that fails returns: not context.Canceled, unless that is why.
CallErrors(done) == IF done THEN {"canceled", "error"} ELSE {"error"}

NoteFailure == broken' = (broken \/ ~signalled)

Making == start = "running" /\ made < Len(Parts)
Waiting == start = "running" /\ made = Len(Parts)

\* The process is told to exit (external).
Signal ==
  /\ Running
  /\ ~signalled /\ signalled' = TRUE
  /\ UNCHANGED <<made, start, part, groupErr, server, commandErr, exit, broken>>

\* Mutant: Start runs a publisher that its factory did not make.
StartNilPart ==
  /\ Running
  /\ Making
  /\ made' = made + 1
  /\ \E state \in {"running", "nil"} :
       part' = [part EXCEPT ![Parts[made + 1]] = state]
  /\ UNCHANGED <<signalled, start, groupErr, server, commandErr, exit, broken>>

\* Start: the next part is made and runs, or is not enabled.
StartPart ==
  /\ Running
  /\ Making
  /\ made' = made + 1
  /\ \/ part' = [part EXCEPT ![Parts[made + 1]] = "running"]
     \/ Parts[made + 1] \in Optional /\ UNCHANGED part
  /\ UNCHANGED <<signalled, start, groupErr, server, commandErr, exit, broken>>

\* Start: making the part fails, in a call that watches the context for the
\* first one.  Start returns the error, and waits for none of the parts that
\* run by now.
StartFails ==
  /\ Running
  /\ Making
  /\ start' = "brokenOff"
  /\ \E err \in CallErrors(made = 0 /\ CommandDone) :
       commandErr' = First(commandErr, err)
  /\ NoteFailure
  /\ UNCHANGED <<signalled, made, part, groupErr, server, exit>>

\* A part fails, on any error it does not recover from.
PartFails(p) ==
  /\ Running
  /\ part[p] = "running"
  /\ part' = [part EXCEPT ![p] = "ended"]
  /\ \E err \in CallErrors(PartDone) : groupErr' = First(groupErr, err)
  /\ NoteFailure
  /\ UNCHANGED <<signalled, made, start, server, commandErr, exit>>

\* A part notices that its context is done: in the select of its loop, or by
\* the error of the call it was in.
PartStops(p) ==
  /\ Running
  /\ part[p] = "running" /\ PartDone
  /\ part' = [part EXCEPT ![p] = "ended"]
  /\ \E err \in CallErrors(PartDone) : groupErr' = First(groupErr, err)
  /\ UNCHANGED <<signalled, made, start, server, commandErr, exit, broken>>

\* The manual publisher has queued its blocks.
PartCompletes(p) ==
  /\ Running
  /\ p \in Finite
  /\ part[p] = "running"
  /\ part' = [part EXCEPT ![p] = "ended"]
  /\ UNCHANGED
       <<signalled, made, start, groupErr, server, commandErr, exit, broken>>

\* Mutant: group.Wait is not waited for.
StartReturnsAtOnce ==
  /\ Running
  /\ Waiting
  /\ start' = "returned"
  /\ commandErr' = First(commandErr, groupErr)
  /\ UNCHANGED <<signalled, made, part, groupErr, server, exit, broken>>

\* Start: group.Wait returns.
StartReturns ==
  /\ Running
  /\ Waiting
  /\ \A p \in PartSet : part[p] # "running"
  /\ start' = "returned"
  /\ commandErr' = First(commandErr, groupErr)
  /\ UNCHANGED <<signalled, made, part, groupErr, server, exit, broken>>

\* metrics.Start: the server listens, unless it is closed by now.
Listen ==
  /\ Running
  /\ server = "new" /\ ~CommandDone
  /\ server' = "serving"
  /\ UNCHANGED
       <<signalled, made, start, part, groupErr, commandErr, exit, broken>>

\* Mutant: an error of ListenAndServe is taken for the server being closed.
ServerEndsQuietly ==
  /\ Running
  /\ server # "ended"
  /\ server' = "ended"
  /\ NoteFailure
  /\ UNCHANGED <<signalled, made, start, part, groupErr, commandErr, exit>>

\* ListenAndServe returns an error: the address is taken, Accept fails.
ServerFails ==
  /\ Running
  /\ server # "ended"
  /\ server' = "ended"
  /\ commandErr' = First(commandErr, "error")
  /\ NoteFailure
  /\ UNCHANGED <<signalled, made, start, part, groupErr, exit>>

\* The goroutine of metrics.Start closes the server, before it listens or
\* after: ListenAndServe returns ErrServerClosed, metrics.Start nil.  Left out
\* is an error of Close, on which that goroutine panics.
ServerCloses ==
  /\ Running
  /\ server # "ended" /\ CommandDone
  /\ server' = "ended"
  /\ UNCHANGED
       <<signalled, made, start, part, groupErr, commandErr, exit, broken>>

\* Run of the command: group.Wait returned, main returns or os.Exit(1).
Exit ==
  /\ Running
  /\ start # "running"
  /\ server = "ended"
  /\ exit' = IF commandErr = "error" THEN 1 ELSE 0
  /\ UNCHANGED
       <<signalled, made, start, part, groupErr, server, commandErr, broken>>

Next ==
  \/ Signal
  \/ StartPart
  \/ StartFails
  \/ \E p \in PartSet : PartFails(p) \/ PartStops(p) \/ PartCompletes(p)
  \/ StartReturns
  \/ Listen
  \/ ServerFails
  \/ ServerCloses
  \/ Exit

Spec == Init /\ [][Next]_vars

\* Goroutines are scheduled, and a part notices a context that is done.
FairSpec ==
  /\ Spec
  /\ WF_vars(StartPart \/ StartFails)
  /\ \A p \in PartSet : WF_vars(PartStops(p))
  /\ WF_vars(StartReturns)
  /\ WF_vars(ServerCloses)
  /\ WF_vars(Exit)
-----------------------------------------------------------------------------
\* What the deployment, which restarts what failed, learns from the exit
\* code: it is 0 only for a process that was told to exit before anything
\* went wrong, and no process exits of itself while all is well, even after
\* every publisher that was enabled has done its work.
CleanExit ==
  /\ exit = 0 => signalled /\ ~broken
  /\ exit = 1 => signalled \/ broken

\* A part is only cut off in the middle of its work when Start broke off.
NoneCutOff ==
  exit # NoExit /\ start = "returned" => \A p \in PartSet : part[p] # "running"

\* While a process has reason to exit, something on the way there can happen:
\* Start makes its parts, a part notices that its context is done, Start
\* returns once none runs, the server is closed, the command's Wait returns.
\* No error and no signal stays where those that wait do not learn of it.
WayOut ==
  Running /\ (signalled \/ broken) =>
    \/ Making
    \/ PartDone /\ \E p \in PartSet : part[p] = "running"
    \/ Waiting /\ \A p \in PartSet : part[p] # "running"
    \/ server # "ended" /\ CommandDone
    \/ server = "ended" /\ start # "running"

\* A process that was told to exit does, at any time of its life.
ExitsWhenTold == signalled ~> ~Running

\* And so does a process of which any part, or the server, failed: none of
\* them is left to run without the others.
ExitsWhenBroken == broken ~> ~Running
===============================================================================
