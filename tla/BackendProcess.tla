--------------------------- MODULE BackendProcess ---------------------------
(***************************************************************************)
(* The Electron main process and the backend it spawns (electron/main.ts):  *)
(* start, wait until it is ready, restart a custom command that exits, and  *)
(* shut down on quit.  Every await is a point where other events run, so a  *)
(* start or a restart is a job of its own, named by the process it spawns.  *)
(***************************************************************************)
EXTENDS Naturals, Sequences

CONSTANTS
  MaxRestarts,   \* MAX_RESTARTS
  MaxSpawns,     \* bound: processes ever spawned
  CustomUrls,    \* what a custom command may print
  Port,          \* where the packaged backend serves
  NoUrl

ASSUME MainAssumption ==
  /\ MaxRestarts \in Nat /\ MaxSpawns \in Nat \ {0}
  /\ Port \notin CustomUrls /\ NoUrl \notin CustomUrls \cup {Port}

VARIABLES
  custom,      \* isInCustomCommandMode: there is a command to run
  command,     \* the command is still set
  proc,        \* the processes
  at,          \* the address a process has announced
  current,     \* pythonBackgroundProcess
  signalled,   \* processes that took a signal: their flag "killed"
  job,         \* the start and the restarts
  polls,       \* the address a job polls
  lastUrl,     \* customCommandBackendUrl
  restarts,    \* restartCount
  resolved,    \* backendUrlReady
  status,      \* currentBackendStatus
  listening,   \* the renderer listens
  ipc,         \* statuses on their way to it
  quitting,    \* isQuitting
  app,         \* the life of the application
  awaited,     \* the process killProcessAndWait waits for
  dialog,      \* the question whether to quit is open
  hurried,     \* history: asked to quit once more while shutting down
  late         \* history: a spawn while shutting down

procVars == <<proc, at, current, signalled>>
jobVars == <<job, polls, lastUrl, restarts, resolved>>
sendVars == <<status, ipc>>
quitVars == <<quitting, app, awaited, dialog, hurried>>
modeVars == <<custom, command>>
mainVars == <<modeVars, procVars, jobVars, sendVars, listening, quitVars, late>>

Procs == 1 .. MaxSpawns
NoProc == 0
Addresses == CustomUrls \cup {Port}
Statuses == {"loading", "running", "error", "exited", "shutting_down"}
Stages == {"idle", "sleeping", "launching", "parsing", "waiting", "answered",
           "done"}

\* A process that has exited is dead until the event is handled.
Alive == {"starting", "serving", "hung"}
Answers(u) == \E p \in Procs : proc[p] = "serving" /\ at[p] = u
Accepts(u) == \E p \in Procs : proc[p] \in {"serving", "hung"} /\ at[p] = u

\* sendBackendState.
Send(s) ==
  /\ status' = s
  /\ ipc' = IF listening THEN Append(ipc, s) ELSE ipc

(***************************************************************************)
(* Start and restart.                                                       *)
(***************************************************************************)
Spawn(n, url) ==
  /\ proc' = [proc EXCEPT ![n] = "starting"]
  /\ at' = [at EXCEPT ![n] = url]
  /\ current' = n
  /\ late' = (late \/ quitting)

\* whenReady, after the window is there: a custom command is spawned at once.
StartCustom ==
  /\ app # "ended" /\ job[1] = "idle" /\ custom
  /\ Send("loading")
  /\ Spawn(1, NoUrl)
  /\ job' = [job EXCEPT ![1] = "parsing"]
  /\ UNCHANGED <<modeVars, signalled, polls, lastUrl, restarts, resolved,
                 listening, quitVars>>

\* The packaged backend is spawned once its port and command are known.
StartPackaged ==
  /\ app # "ended" /\ job[1] = "idle" /\ ~custom
  /\ Send("loading")
  /\ resolved' = Port
  /\ job' = [job EXCEPT ![1] = "launching"]
  /\ UNCHANGED <<modeVars, procVars, polls, lastUrl, restarts, listening,
                 quitVars, late>>

\* The error event of a binary that cannot be run: no exit event will come.
SpawnFails(n) ==
  /\ proc' = [proc EXCEPT ![n] = "gone"]
  /\ current' = n
  /\ late' = (late \/ quitting)
  /\ IF quitting THEN UNCHANGED sendVars ELSE Send("error")
  /\ UNCHANGED at

LaunchPackaged ==
  /\ app # "ended" /\ job[1] = "launching"
  /\ \/ Spawn(1, Port) /\ UNCHANGED sendVars
     \/ SpawnFails(1)
  /\ job' = [job EXCEPT ![1] = "waiting"]
  /\ polls' = [polls EXCEPT ![1] = Port]
  /\ UNCHANGED <<modeVars, signalled, lastUrl, restarts, resolved, listening,
                 quitVars>>

\* Mutant: a restart that wakes goes on while the application quits.
NeverCalledOff == FALSE

\* Whether a restart that wakes is called off.
CalledOff == quitting

\* restartCustomCommand, after its delay.
RestartWakes(n) ==
  /\ app # "ended" /\ job[n] = "sleeping"
  /\ \/ /\ CalledOff
        /\ job' = [job EXCEPT ![n] = "done"]
        /\ UNCHANGED <<sendVars, procVars, late>>
     \/ /\ ~CalledOff /\ ~command
        /\ Send("error")
        /\ job' = [job EXCEPT ![n] = "done"]
        /\ UNCHANGED <<procVars, late>>
     \/ /\ ~CalledOff /\ command
        /\ Spawn(n, NoUrl)
        /\ job' = [job EXCEPT ![n] = "parsing"]
        /\ UNCHANGED <<sendVars, signalled>>
  /\ UNCHANGED <<modeVars, polls, lastUrl, restarts, resolved, listening,
                 quitVars>>

\* parseUrlFromStdout finds an address; only the first one is ever handed out.
Parsed(n) ==
  /\ app # "ended" /\ job[n] = "parsing" /\ at[n] # NoUrl
  /\ lastUrl' = at[n]
  /\ resolved' = IF resolved = NoUrl THEN at[n] ELSE resolved
  /\ polls' = [polls EXCEPT ![n] = at[n]]
  /\ job' = [job EXCEPT ![n] = "waiting"]
  /\ UNCHANGED <<modeVars, procVars, restarts, sendVars, listening, quitVars,
                 late>>

\* It times out, or the output ends: the start goes on to poll what it knows.
ParseFails(n) ==
  /\ app # "ended" /\ job[n] = "parsing" /\ at[n] = NoUrl
  /\ Send("error")
  /\ resolved' = IF n = 1 /\ resolved = NoUrl THEN Port ELSE resolved
  /\ job' = [job EXCEPT ![n] = IF n = 1 THEN "waiting" ELSE "done"]
  /\ polls' = [polls EXCEPT ![n] = IF n > 1 THEN NoUrl
                                   ELSE IF lastUrl = NoUrl THEN Port ELSE lastUrl]
  /\ UNCHANGED <<modeVars, procVars, lastUrl, restarts, listening, quitVars,
                 late>>

\* waitForBackend: the health endpoint answers.
HealthAnswers(n) ==
  /\ app # "ended" /\ job[n] = "waiting" /\ Answers(polls[n])
  /\ job' = [job EXCEPT ![n] = "answered"]
  /\ UNCHANGED <<modeVars, procVars, polls, lastUrl, restarts, resolved,
                 sendVars, listening, quitVars, late>>

\* The answer is read.
Ready(n) ==
  /\ app # "ended" /\ job[n] = "answered"
  /\ job' = [job EXCEPT ![n] = "done"]
  /\ \/ quitting /\ UNCHANGED <<restarts, sendVars>>
     \/ ~quitting /\ restarts' = 0 /\ Send("running")
  /\ UNCHANGED <<modeVars, procVars, polls, lastUrl, resolved, listening,
                 quitVars, late>>

\* waitForBackend times out, or sees that the application quits.
GivesUp(n) ==
  /\ app # "ended" /\ job[n] = "waiting"
  /\ job' = [job EXCEPT ![n] = "done"]
  /\ UNCHANGED <<modeVars, procVars, polls, lastUrl, restarts, resolved,
                 sendVars, listening, quitVars, late>>

(***************************************************************************)
(* The backend process.                                                     *)
(***************************************************************************)
\* A custom command prints the address it will serve.
Announce(p) ==
  /\ proc[p] = "starting" /\ at[p] = NoUrl
  /\ \E u \in CustomUrls : at' = [at EXCEPT ![p] = u]
  /\ UNCHANGED <<modeVars, proc, current, signalled, jobVars, sendVars,
                 listening, quitVars, late>>

Becomes(p, from, to) ==
  /\ proc[p] \in from
  /\ proc' = [proc EXCEPT ![p] = to]
  /\ UNCHANGED <<modeVars, at, current, signalled, jobVars, sendVars, listening,
                 quitVars, late>>

Serve(p) == at[p] # NoUrl /\ Becomes(p, {"starting", "hung"}, "serving")

\* It accepts connections and no longer answers them.
Hang(p) == Becomes(p, {"serving"}, "hung")

\* Whether an exit leads to a restart.
RestartIsDue == custom /\ restarts < MaxRestarts

\* It exits, by itself or on a signal.  Bound: the last process that may be
\* spawned does not exit where a restart would follow.
Exit(p) ==
  /\ p < MaxSpawns \/ ~RestartIsDue \/ p \in signalled
  /\ Becomes(p, Alive, "dead")

\* setupProcessHandlers: the exit event.
Exited(p) ==
  /\ app # "ended" /\ proc[p] = "dead"
  /\ proc' = [proc EXCEPT ![p] = "gone"]
  /\ \/ /\ quitting
        /\ UNCHANGED <<job, restarts, sendVars>>
     \/ /\ ~quitting /\ RestartIsDue
        /\ p < MaxSpawns
        /\ restarts' = restarts + 1
        /\ job' = [job EXCEPT ![p + 1] = "sleeping"]
        /\ Send("loading")
     \/ /\ ~quitting /\ ~RestartIsDue
        /\ Send(IF custom THEN "error" ELSE "exited")
        /\ UNCHANGED <<job, restarts>>
  /\ UNCHANGED <<modeVars, at, current, signalled, polls, lastUrl, resolved,
                 listening, quitVars, late>>

(***************************************************************************)
(* Quit.                                                                    *)
(***************************************************************************)
\* shutdownBackend, and killProcessAndWait up to its await.
BeginShutdown ==
  /\ quitting' = TRUE /\ app' = "cleaning"
  /\ Send("shutting_down")
  /\ awaited' = current
  /\ signalled' = IF current # NoProc /\ proc[current] # "gone"
                  THEN signalled \cup {current} ELSE signalled

\* before-quit: the first one is held back until the backend is down.
Quit ==
  /\ app # "ended"
  /\ \/ /\ ~quitting
        /\ BeginShutdown
        /\ UNCHANGED hurried
     \/ /\ quitting
        /\ app' = "ended" /\ hurried' = TRUE
        /\ UNCHANGED <<quitting, awaited, signalled, sendVars>>
  /\ UNCHANGED <<modeVars, proc, at, current, jobVars, listening, dialog, late>>

\* The window is closed: the user is asked.
CloseWindow ==
  /\ app = "up" /\ ~dialog
  /\ dialog' = TRUE
  /\ UNCHANGED <<modeVars, procVars, jobVars, sendVars, listening, quitting, app,
                 awaited, hurried, late>>

Cancel ==
  /\ dialog /\ app # "ended"
  /\ dialog' = FALSE
  /\ UNCHANGED <<modeVars, procVars, jobVars, sendVars, listening, quitting, app,
                 awaited, hurried, late>>

\* The dialog shuts down whether or not a shutdown is under way; one whose
\* process took its signal is not waited for a second time.
Confirm ==
  /\ dialog /\ app # "ended"
  /\ dialog' = FALSE
  /\ \/ /\ ~quitting
        /\ BeginShutdown
        /\ UNCHANGED hurried
     \/ /\ quitting /\ (current = NoProc \/ current \in signalled)
        /\ Send("shutting_down")
        /\ app' = "ended" /\ hurried' = TRUE
        /\ UNCHANGED <<quitting, awaited, signalled>>
     \/ /\ quitting /\ current # NoProc /\ current \notin signalled
        /\ Send("shutting_down")
        /\ awaited' = current
        /\ signalled' = IF proc[current] # "gone" THEN signalled \cup {current}
                                                  ELSE signalled
        /\ UNCHANGED <<quitting, app, hurried>>
  /\ UNCHANGED <<modeVars, proc, at, current, jobVars, listening, late>>

\* Mutant: the wait ends with the signal.
Told == awaited = NoProc \/ awaited \in signalled

\* There was nothing to wait for, or its exit event has come.
Reaped == awaited = NoProc \/ (awaited \in signalled /\ proc[awaited] = "gone")

ShutdownEnds ==
  /\ app = "cleaning" /\ Reaped
  /\ app' = "ended"
  /\ UNCHANGED <<modeVars, procVars, jobVars, sendVars, listening, quitting,
                 awaited, dialog, hurried, late>>

\* Mutant: the wait has no deadline.
NoDeadline == FALSE

\* Whether the wait for the exit may have lasted for the grace period.
GraceIsOver == app = "cleaning" /\ awaited # NoProc

\* The exit event has not come in time, or came before the wait: SIGKILL.
ShutdownForces ==
  /\ GraceIsOver
  /\ app' = "ended"
  /\ proc' = [proc EXCEPT ![current] = IF @ \in Alive THEN "dead" ELSE @]
  /\ UNCHANGED <<modeVars, at, current, signalled, jobVars, sendVars, listening,
                 quitting, awaited, dialog, hurried, late>>

(***************************************************************************)
(* The start of the application.                                            *)
(***************************************************************************)
MainInit ==
  /\ custom \in BOOLEAN /\ command = custom
  /\ proc = [p \in Procs |-> "unborn"] /\ at = [p \in Procs |-> NoUrl]
  /\ current = NoProc /\ signalled = {}
  /\ job = [p \in Procs |-> "idle"] /\ polls = [p \in Procs |-> NoUrl]
  /\ lastUrl = NoUrl /\ restarts = 0 /\ resolved = NoUrl
  /\ status = "loading" /\ listening = FALSE /\ ipc = <<>>
  /\ quitting = FALSE /\ app = "up" /\ awaited = NoProc
  /\ dialog = FALSE /\ hurried = FALSE /\ late = FALSE

MainNext ==
  \/ StartCustom \/ StartPackaged \/ LaunchPackaged
  \/ \E n \in Procs :
       \/ RestartWakes(n) \/ Parsed(n) \/ ParseFails(n)
       \/ HealthAnswers(n) \/ Ready(n) \/ GivesUp(n)
       \/ Announce(n) \/ Serve(n) \/ Hang(n) \/ Exit(n) \/ Exited(n)
  \/ Quit \/ CloseWindow \/ Cancel \/ Confirm
  \/ ShutdownEnds \/ ShutdownForces

(***************************************************************************)
(* Properties.                                                              *)
(***************************************************************************)
ProcTypes ==
  /\ custom \in BOOLEAN /\ command \in BOOLEAN
  /\ proc \in [Procs -> Alive \cup {"unborn", "dead", "gone"}]
  /\ at \in [Procs -> Addresses \cup {NoUrl}]
  /\ current \in Procs \cup {NoProc} /\ signalled \subseteq Procs

JobTypes ==
  /\ job \in [Procs -> Stages]
  /\ polls \in [Procs -> Addresses \cup {NoUrl}]
  /\ lastUrl \in Addresses \cup {NoUrl} /\ resolved \in Addresses \cup {NoUrl}
  /\ restarts \in 0 .. MaxRestarts

SendTypes == status \in Statuses /\ listening \in BOOLEAN /\ ipc \in Seq(Statuses)

QuitTypes ==
  /\ quitting \in BOOLEAN /\ app \in {"up", "cleaning", "ended"}
  /\ awaited \in Procs \cup {NoProc}
  /\ dialog \in BOOLEAN /\ hurried \in BOOLEAN /\ late \in BOOLEAN

MainTypeOK == ProcTypes /\ JobTypes /\ SendTypes /\ QuitTypes

\* A restart spawns only what takes the place of a process that has exited: no
\* two backends ever run at once.
OneBackendRuns ==
  \A p, q \in Procs : proc[p] \in Alive /\ proc[q] \in Alive => p = q

\* The application does not end before its backend, unless it was asked to quit
\* a second time, or quit while the backend was being started.
QuitLeavesNoBackend ==
  app = "ended" /\ ~hurried /\ ~late => \A p \in Procs : proc[p] \notin Alive

\* The processes as the abstract specification knows them.
Lifetime ==
  INSTANCE BackendLifetime
    WITH Backend <- Procs,
         started <- {p \in Procs : proc[p] # "unborn"},
         running <- {p \in Procs : proc[p] \in Alive},
         handled <- {p \in Procs : proc[p] = "gone"},
         phase <- app,
         excused <- hurried \/ late

\* The main process keeps the promise of BackendLifetime: however starts,
\* restarts, exits and the two ways to quit interleave, no backend is started
\* before the exit of the last one is handled, none is restarted by an application
\* that quits, and the application outlives its backend unless it is excused.
ImplementsLifetime == Lifetime!Spec
=============================================================================
