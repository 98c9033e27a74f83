---------------------------- MODULE BackendStatus ----------------------------
(***************************************************************************)
(* What the window shows of the backend: the statuses of the main process   *)
(* and the window's own health checks both write it                         *)
(* (components/BackendStatusBoundary.tsx over BackendProcess).              *)
(***************************************************************************)
EXTENDS BackendProcess

CONSTANT MaxFailures   \* HEALTH_CHECK_FAILURES_BEFORE_UNRESPONSIVE

ASSUME FailuresAssumption == MaxFailures \in Nat \ {0}

VARIABLES
  shown,      \* backendStatusAtom
  started,    \* hasBackendStartedSuccessfullyAtom
  failures,   \* consecutiveHealthCheckFailuresRef
  check,      \* the health check that is not aborted
  hidden      \* document.hidden

boundaryVars == <<shown, started, failures, check, hidden>>
statusVars == <<mainVars, boundaryVars>>

Shown == Statuses \cup {"warning", "reconnecting", "unresponsive"}
Fine == {"running", "warning"}

\* maybeSetBackendStatus, and the effect that checks the health when the status
\* or the flag has changed, aborting the check before.  rest is what becomes of
\* the check otherwise.
Show(s, hasStarted, rest) ==
  /\ shown' = IF shown = "shutting_down" THEN shown ELSE s
  /\ started' = (hasStarted \/ (shown # "shutting_down" /\ s = "running"))
  /\ check' = IF shown' = "shutting_down"
              THEN IF shown = shown' THEN rest ELSE "none"
              ELSE IF shown' # shown \/ started' # started THEN "sent" ELSE rest

\* The client is configured once the address is known; then the boundary mounts,
\* listens, asks for the current status and checks the health.
Mount ==
  /\ app # "ended" /\ ~listening /\ resolved # NoUrl
  /\ listening' = TRUE
  /\ ipc' = Append(ipc, status)
  /\ check' = "sent"
  /\ UNCHANGED <<modeVars, procVars, jobVars, status, quitVars, late, shown,
                 started, failures, hidden>>

ReceiveStatus ==
  /\ app # "ended" /\ ipc # <<>>
  /\ ipc' = Tail(ipc)
  /\ Show(Head(ipc), started, check)
  /\ UNCHANGED <<modeVars, procVars, jobVars, status, listening, quitVars, late,
                 failures, hidden>>

\* performHealthCheck: a backend answers at the address of the client.
CheckAnswered ==
  /\ app # "ended" /\ check = "sent" /\ Answers(resolved)
  /\ check' = "answered"
  /\ UNCHANGED <<mainVars, shown, started, failures, hidden>>

\* The answer is read; it may warn of a full disk.
CheckSucceeds ==
  /\ app # "ended" /\ check = "answered"
  /\ failures' = 0
  /\ \E s \in Fine : Show(s, TRUE, "none")
  /\ UNCHANGED <<mainVars, hidden>>

\* Mutant: a failure says nothing about a backend that has run.
IgnoredOnceUp == started \/ hidden

\* Failures the check does not count.
Ignored == ~started \/ hidden

\* Nobody accepts the connection.
CheckFails ==
  /\ app # "ended" /\ check = "sent" /\ ~Accepts(resolved)
  /\ \/ /\ Ignored
        /\ check' = "none"
        /\ UNCHANGED <<failures, shown, started>>
     \/ /\ ~Ignored
        /\ failures' = IF failures < MaxFailures THEN failures + 1 ELSE failures
        /\ Show(IF failures' < MaxFailures THEN "reconnecting"
                                           ELSE "unresponsive", started, "none")
  /\ UNCHANGED <<mainVars, hidden>>

\* The interval: the check before is aborted, which counts as nothing.
Tick ==
  /\ app # "ended" /\ listening /\ shown # "shutting_down" /\ ~hidden
  /\ check' = "sent"
  /\ UNCHANGED <<mainVars, shown, started, failures, hidden>>

\* The page is hidden, or visible again and checked at once.
Visibility ==
  /\ app # "ended" /\ listening
  /\ hidden' = ~hidden
  /\ check' = IF hidden /\ shown # "shutting_down" THEN "sent" ELSE check
  /\ UNCHANGED <<mainVars, shown, started, failures>>

\* The error page offers to forget the custom command.
ClearCommand ==
  /\ app # "ended" /\ listening /\ shown = "error" /\ custom /\ command
  /\ command' = FALSE
  /\ UNCHANGED <<custom, procVars, jobVars, sendVars, listening, quitVars, late,
                 boundaryVars>>

StatusInit ==
  /\ MainInit
  /\ shown = "loading" /\ started = FALSE /\ failures = 0
  /\ check = "none" /\ hidden = FALSE

StatusNext ==
  \/ MainNext /\ UNCHANGED boundaryVars
  \/ Mount \/ ReceiveStatus \/ CheckAnswered \/ CheckSucceeds \/ CheckFails
  \/ Tick \/ Visibility \/ ClearCommand

\* Timers fire, messages arrive and a refused connection is reported.  The
\* backend owes nothing: not to start, to answer or to exit.
Fairness ==
  /\ WF_statusVars(ReceiveStatus) /\ WF_statusVars(Tick)
  /\ WF_statusVars(CheckFails) /\ WF_statusVars(CheckSucceeds)
  /\ WF_statusVars((ShutdownEnds \/ ShutdownForces) /\ UNCHANGED boundaryVars)

StatusSpec == StatusInit /\ [][StatusNext]_statusVars /\ Fairness

(***************************************************************************)
(* Properties.                                                              *)
(***************************************************************************)
BoundaryTypes ==
  /\ shown \in Shown /\ started \in BOOLEAN /\ failures \in 0 .. MaxFailures
  /\ check \in {"none", "sent", "answered"} /\ hidden \in BOOLEAN

StatusTypeOK == MainTypeOK /\ BoundaryTypes

\* An application that is asked to quit ends, whatever its backend does: also one
\* that ignores its signal, or that had exited before.
QuitEnds == quitting ~> app = "ended"

\* A backend that is gone is not shown as running for ever: while the page is
\* visible and nobody accepts connections, it stops being shown as fine.
Watched == listening /\ app = "up" /\ ~hidden
DeadIsNoticed ==
  <>[](Watched /\ ~Accepts(resolved)) => <>[](shown \notin Fine)
=============================================================================
