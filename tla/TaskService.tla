---------------------------- MODULE TaskService ----------------------------
(***************************************************************************)
(* The task service of Sculptor's backend: the threads that decide when an *)
(* agent task runs, ends and is deleted, and the one table they share.     *)
(*                                                                         *)
(*   - request threads (the HTTP handlers of web/app.py) create, touch,    *)
(*     restore and delete tasks, or delete the whole workspace;            *)
(*   - the spawner thread (ConcurrentTaskService._spawn_run_tasks) turns   *)
(*     QUEUED rows into RUNNING rows and starts a runner for each;         *)
(*   - a runner thread (BaseTaskService._run_task) runs one task and       *)
(*     writes its outcome.                                                 *)
(*                                                                         *)
(* A transaction of the data-model service is DEFERRED unless it asks for  *)
(* BEGIN IMMEDIATE: what it reads before its first write is read outside   *)
(* any lock, so its read and its commit are two actions here, with the row *)
(* copied by the first and written back whole by the second.  From the     *)
(* first write to the commit it holds the writer slot; that stretch is one *)
(* action unless something outside the database happens inside it (then    *)
(* `writer' holds the slot).  Callbacks run after the commit, outside it.  *)
(*                                                                         *)
(* The process may be shut down or crash at any moment and is then started *)
(* again over the same table.                                              *)
(***************************************************************************)
EXTENDS Naturals, FiniteSets, TaskRow

CONSTANTS
    Task,          \* the tasks of the (one) workspace
    Client,        \* request threads
    Slot,          \* names of the runner threads one task may have at once
    NoTask, NoSlot, NoClient,
    MaxRequests,   \* bound: requests served in a behaviour
    MaxRestarts    \* bound: times the process is started again

ASSUME ConstantsAssumption ==
    /\ NoTask \notin Task
    /\ NoSlot \notin Slot
    /\ NoClient \notin Client
    /\ MaxRequests \in Nat
    /\ MaxRestarts \in Nat

VARIABLES
    \* the disk
    db,            \* task_latest: one row per task
    wsDeleted,     \* workspace_latest.is_deleted
    \* the process
    phase,         \* "booting" (start()), "up" or "down"
    writer,        \* the request that holds the writer slot across actions
    req,           \* request thread -> what it is doing, for which task, row it read
    cleanup,       \* request thread -> tasks whose caches its callbacks clear
    spawner,       \* where the spawner thread stands
    activated,     \* the project is in activated_projects
    batch,         \* rows the spawner read (NoRow: the task is not in the batch)
    runnerOf,      \* _runner_by_id
    thread,        \* task -> slot -> where that runner thread stands
    held,          \* task -> slot -> the row that thread read
    flagOf,        \* _shutdown_flag_by_task_id: whose event is registered
    stop,          \* task -> slot -> that thread's shutdown event is set
    shutdown,      \* _shutdown_flag, parent of every thread's event
    \* bounds
    requests, restarts

disk     == <<db, wsDeleted>>
requestVars == <<writer, req, cleanup>>
spawnerVars == <<spawner, activated, batch, runnerOf>>
runnerVars  == <<thread, held, flagOf, stop>>
bounds   == <<requests, restarts>>
vars == <<disk, phase, requestVars, spawnerVars, runnerVars, shutdown, bounds>>

-----------------------------------------------------------------------------
(* States *)

RequestPC == {"idle", "create", "touch", "restore", "delete",
              "signalled", "cascade", "callbacks"}

SpawnerPC == {"none", "loop", "clean", "update", "queued", "commit",
              "register", "joining", "exited"}

\* Where a runner thread stands in _run_task and _finalize_task.
ThreadPC == {"none", "starting", "running", "paused", "finDeleted",
             "finRead", "finWrite", "succeeded", "failed", "cleanup", "dead"}

\* A request is about one task, unless it is about the whole workspace.
Request ==
    {r \in [pc : RequestPC, task : Task \cup {NoTask}, row : Row] :
        r.task = NoTask => r.pc \in {"idle", "cascade", "callbacks"}}

NoRequest == [pc |-> "idle", task |-> NoTask, row |-> NoRow]

TypeOK ==
    /\ db \in [Task -> Row]
    /\ wsDeleted \in BOOLEAN
    /\ phase \in {"booting", "up", "down"}
    /\ writer \in Client \cup {NoClient}
    /\ req \in [Client -> Request]
    /\ cleanup \in [Client -> SUBSET Task]
    /\ spawner \in SpawnerPC
    /\ activated \in BOOLEAN
    /\ batch \in [Task -> Row]
    /\ runnerOf \in [Task -> Slot \cup {NoSlot}]
    /\ thread \in [Task -> [Slot -> ThreadPC]]
    /\ held \in [Task -> [Slot -> Row]]
    /\ flagOf \in [Task -> Slot \cup {NoSlot}]
    /\ stop \in [Task -> [Slot -> BOOLEAN]]
    /\ shutdown \in BOOLEAN
    /\ requests \in Nat
    /\ restarts \in Nat

Live(t, k) == thread[t][k] \notin {"none", "dead"}

\* Mutant: an event that was built without its parent.
SignalledByOwnEvent(t, k) == stop[t][k]

\* ShutdownEvent.is_set: the thread's own event or its parent's.
Signalled(t, k) == stop[t][k] \/ shutdown

WriterFree == writer = NoClient

EmptyBatch == [t \in Task |-> NoRow]

InBatch(t) == Present(batch[t])

\* Everything that lives in the process's memory, as start() finds it.
FreshProcess ==
    /\ phase = "booting"
    /\ writer = NoClient
    /\ req = [c \in Client |-> NoRequest]
    /\ cleanup = [c \in Client |-> {}]
    /\ spawner = "none"
    /\ activated = FALSE
    /\ batch = EmptyBatch
    /\ runnerOf = [t \in Task |-> NoSlot]
    /\ thread = [t \in Task |-> [k \in Slot |-> "none"]]
    /\ held = [t \in Task |-> [k \in Slot |-> NoRow]]
    /\ flagOf = [t \in Task |-> NoSlot]
    /\ stop = [t \in Task |-> [k \in Slot |-> FALSE]]
    /\ shutdown = FALSE

\* The table as earlier processes left it: nothing, a queued task, one that
\* failed, one that was running when the process died.
Init ==
    /\ db \in [Task -> {NoRow, NewRow}]
    /\ wsDeleted = FALSE
    /\ FreshProcess
    /\ requests = 0
    /\ restarts = 0

-----------------------------------------------------------------------------
(* The process: start, shutdown, crash *)

\* _finalize_recently_deleted_tasks: start() finishes the deletions the last
\* process left half done, before any other thread exists.
BootFinalize(t) ==
    /\ phase = "booting"
    /\ StuckDeleting(db[t])
    /\ db' = [db EXCEPT ![t] = Upsert(@, AsDeleted(@))]
    /\ UNCHANGED <<wsDeleted, phase, requestVars, spawnerVars, runnerVars, shutdown, bounds>>

\* start() then loads its caches and starts the spawner thread.
BootDone ==
    /\ phase = "booting"
    /\ \A t \in Task : ~StuckDeleting(db[t])
    /\ phase' = "up"
    /\ spawner' = "loop"
    /\ UNCHANGED <<disk, requestVars, activated, batch, runnerOf, runnerVars, shutdown, bounds>>

\* ConcurrentTaskService.stop().
Shutdown ==
    /\ phase = "up"
    /\ ~shutdown
    /\ shutdown' = TRUE
    /\ UNCHANGED <<disk, phase, requestVars, spawnerVars, runnerVars, bounds>>

LoseMemory ==
    /\ phase' = "down"
    /\ writer' = NoClient
    /\ req' = [c \in Client |-> NoRequest]
    /\ cleanup' = [c \in Client |-> {}]
    /\ spawner' = "none"
    /\ activated' = FALSE
    /\ batch' = EmptyBatch
    /\ runnerOf' = [t \in Task |-> NoSlot]
    /\ thread' = [t \in Task |-> [k \in Slot |-> "none"]]
    /\ held' = [t \in Task |-> [k \in Slot |-> NoRow]]
    /\ flagOf' = [t \in Task |-> NoSlot]
    /\ stop' = [t \in Task |-> [k \in Slot |-> FALSE]]
    /\ shutdown' = FALSE

\* The process ends once the spawner has joined the runners and the requests
\* are answered.
Exit ==
    /\ phase = "up"
    /\ spawner = "exited"
    /\ \A c \in Client : req[c].pc = "idle"
    /\ LoseMemory
    /\ UNCHANGED <<disk, bounds>>

\* A crash loses every thread and rolls back what was not committed.
Crash ==
    /\ phase \in {"booting", "up"}
    /\ LoseMemory
    /\ UNCHANGED <<disk, bounds>>

Start ==
    /\ phase = "down"
    /\ restarts < MaxRestarts
    /\ phase' = "booting"
    /\ restarts' = restarts + 1
    /\ UNCHANGED <<disk, requestVars, spawnerVars, runnerVars, shutdown, requests>>

-----------------------------------------------------------------------------
(* Request threads: web/app.py handlers over BaseTaskService *)

Serve(c, pc, t, row) ==
    /\ req' = [req EXCEPT ![c] = [pc |-> pc, task |-> t, row |-> row]]

Done(c) == req' = [req EXCEPT ![c] = NoRequest]

\* Any handler that ends here may start another request while the bound allows.
BeginRequest(c) ==
    /\ phase = "up"
    /\ req[c].pc = "idle"
    /\ requests < MaxRequests
    /\ requests' = requests + 1

\* create_workspace_agent: a first transaction checks that the workspace is
\* there; the row is inserted by a second one, much later.
CreateCheck(c, t) ==
    /\ BeginRequest(c)
    /\ ~wsDeleted
    /\ ~Present(db[t])
    /\ \A d \in Client : req[d].task # t
    /\ Serve(c, "create", t, NewRow)
    /\ UNCHANGED <<disk, phase, writer, cleanup, spawnerVars, runnerVars, shutdown, restarts>>

CreateCommit(c) ==
    /\ req[c].pc = "create"
    /\ WriterFree
    /\ db' = [db EXCEPT ![req[c].task] = req[c].row]
    /\ Done(c)
    /\ UNCHANGED <<wsDeleted, phase, writer, cleanup, spawnerVars, runnerVars, shutdown, bounds>>

\* mark_read, mark_unread, rename_task, update_available_models: read the row,
\* change a column that is payload here, write the whole row back.
TouchRead(c, t) ==
    /\ BeginRequest(c)
    /\ Visible(db[t])
    /\ Serve(c, "touch", t, db[t])
    /\ UNCHANGED <<disk, phase, writer, cleanup, spawnerVars, runnerVars, shutdown, restarts>>

TouchCommit(c) ==
    /\ req[c].pc = "touch"
    /\ WriterFree
    /\ db' = [db EXCEPT ![req[c].task] = Upsert(@, req[c].row)]
    /\ Done(c)
    /\ UNCHANGED <<wsDeleted, phase, writer, cleanup, spawnerVars, runnerVars, shutdown, bounds>>

\* restore_task: only a failed task of a workspace that is still there.
RestoreRead(c, t) ==
    /\ BeginRequest(c)
    /\ Visible(db[t])
    /\ db[t].outcome = "FAILED"
    /\ ~wsDeleted
    /\ Serve(c, "restore", t, WithOutcome(db[t], "QUEUED"))
    /\ UNCHANGED <<disk, phase, writer, cleanup, spawnerVars, runnerVars, shutdown, restarts>>

\* create_message, after the upsert, asserts that the row is still visible: a
\* task deleted since the read rolls the restore back.
RestoreCommit(c) ==
    /\ req[c].pc = "restore"
    /\ WriterFree
    /\ LET t == req[c].task IN
       db' = IF db[t].isDeleted THEN db
             ELSE [db EXCEPT ![t] = Upsert(@, req[c].row)]
    /\ Done(c)
    /\ UNCHANGED <<wsDeleted, phase, writer, cleanup, spawnerVars, runnerVars, shutdown, bounds>>

DeleteRead(c, t) ==
    /\ BeginRequest(c)
    /\ Visible(db[t])
    /\ Serve(c, "delete", t, db[t])
    /\ UNCHANGED <<disk, phase, writer, cleanup, spawnerVars, runnerVars, shutdown, restarts>>

\* delete_task, the row was RUNNING: write is_deleting (the writer slot is
\* taken) and set the runner's event, if one is registered, before the commit.
DeleteSignal(c) ==
    /\ req[c].pc = "delete"
    /\ req[c].row.outcome = "RUNNING"
    /\ WriterFree
    /\ writer' = c
    /\ LET t == req[c].task IN
       stop' = IF flagOf[t] = NoSlot THEN stop
               ELSE [stop EXCEPT ![t][flagOf[t]] = TRUE]
    /\ Serve(c, "signalled", req[c].task, req[c].row)
    /\ UNCHANGED <<disk, phase, cleanup, spawnerVars, thread, held, flagOf, shutdown, bounds>>

DeleteCommit(c) ==
    /\ req[c].pc = "signalled"
    /\ db' = [db EXCEPT ![req[c].task] =
                 Upsert(@, [req[c].row EXCEPT !.isDeleting = TRUE])]
    /\ writer' = NoClient
    /\ Done(c)
    /\ UNCHANGED <<wsDeleted, phase, cleanup, spawnerVars, runnerVars, shutdown, bounds>>

\* delete_task, the row was not RUNNING: no runner, so finalize at once.
DeleteIdle(c) ==
    /\ req[c].pc = "delete"
    /\ req[c].row.outcome # "RUNNING"
    /\ WriterFree
    /\ LET t == req[c].task IN
       /\ db' = [db EXCEPT ![t] = Upsert(@, AsDeleted(req[c].row))]
       /\ cleanup' = [cleanup EXCEPT ![c] = {t}]
    /\ Serve(c, "callbacks", req[c].task, NoRow)
    /\ UNCHANGED <<wsDeleted, phase, writer, spawnerVars, runnerVars, shutdown, bounds>>

\* _cleanup_task_caches, after the commit: forget the registered event.
CleanupCaches(c, t) ==
    /\ t \in cleanup[c]
    /\ flagOf' = [flagOf EXCEPT ![t] = NoSlot]
    /\ cleanup' = [cleanup EXCEPT ![c] = @ \ {t}]
    /\ req' = IF cleanup[c] = {t} THEN [req EXCEPT ![c] = NoRequest] ELSE req
    /\ UNCHANGED <<disk, phase, writer, spawnerVars, thread, held, stop, shutdown, bounds>>

\* delete_workspace: BEGIN IMMEDIATE takes the writer slot before it reads, so
\* the cascade sees the rows its commit overwrites.
CascadeBegin(c) ==
    /\ BeginRequest(c)
    /\ ~wsDeleted
    /\ WriterFree
    /\ writer' = c
    /\ stop' = [t \in Task |-> [k \in Slot |->
                   \/ stop[t][k]
                   \/ /\ Listed(db[t])
                      /\ db[t].outcome = "RUNNING"
                      /\ flagOf[t] = k]]
    /\ Serve(c, "cascade", NoTask, NoRow)
    /\ UNCHANGED <<disk, phase, cleanup, spawnerVars, thread, held, flagOf, shutdown, restarts>>

CascadeCommit(c) ==
    /\ req[c].pc = "cascade"
    /\ LET idle == {t \in Task : Listed(db[t]) /\ db[t].outcome # "RUNNING"}
           running == {t \in Task : Listed(db[t]) /\ db[t].outcome = "RUNNING"} IN
       /\ db' = [t \in Task |->
                    CASE t \in idle    -> Upsert(db[t], AsDeleted(db[t]))
                      [] t \in running -> [db[t] EXCEPT !.isDeleting = TRUE]
                      [] OTHER         -> db[t]]
       /\ cleanup' = [cleanup EXCEPT ![c] = idle]
       /\ IF idle = {} THEN Done(c) ELSE Serve(c, "callbacks", NoTask, NoRow)
    /\ wsDeleted' = TRUE
    /\ writer' = NoClient
    /\ UNCHANGED <<phase, spawnerVars, runnerVars, shutdown, bounds>>

-----------------------------------------------------------------------------
(* The spawner thread: _spawn_run_tasks *)

\* The head of the loop.  The wait on the condition has a timeout, so a missed
\* notification costs a second and changes nothing else.
SpawnerLoop ==
    /\ spawner = "loop"
    /\ IF shutdown
       THEN spawner' = "joining" /\ UNCHANGED <<activated, batch>>
       ELSE IF activated
       THEN spawner' = "update" /\ UNCHANGED <<activated, batch>>
       ELSE \* _clean_previously_running_tasks reads; the project counts as
            \* activated already
            /\ spawner' = "clean"
            /\ activated' = TRUE
            /\ batch' = [t \in Task |->
                            IF Listed(db[t]) /\ db[t].outcome = "RUNNING"
                            THEN WithOutcome(db[t], "QUEUED") ELSE NoRow]
    /\ UNCHANGED <<disk, phase, requestVars, runnerOf, runnerVars, shutdown, bounds>>

\* One transaction over the batch: upsert each row, then create_message, whose
\* assertion that the row is visible rolls all of it back.
WriteBatch(next, onError) ==
    IF \E t \in Task : InBatch(t) /\ db[t].isDeleted
    THEN /\ spawner' = onError
         /\ batch' = EmptyBatch
         /\ UNCHANGED db
    ELSE /\ spawner' = next
         /\ db' = [t \in Task |-> IF InBatch(t) THEN Upsert(db[t], batch[t]) ELSE db[t]]
         /\ UNCHANGED batch

\* Mutant: the exception ends the thread.
SpawnerDies == "none"

\* The loop logs an exception and goes on.
AfterError == "loop"

CleanPreviouslyRunning ==
    /\ spawner = "clean"
    /\ WriterFree
    /\ WriteBatch("update", AfterError)
    /\ UNCHANGED <<wsDeleted, phase, requestVars, activated, runnerOf, runnerVars, shutdown, bounds>>

\* _clean_stopped_tasks: forget the runners whose thread is dead.  (The event
\* of such a thread may stay registered; setting it reaches nobody, so here
\* its registration ends with the runner.)
CleanStopped ==
    /\ spawner = "update"
    /\ runnerOf' = [t \in Task |->
                       IF runnerOf[t] # NoSlot /\ ~Live(t, runnerOf[t])
                       THEN NoSlot ELSE runnerOf[t]]
    /\ thread' = [t \in Task |-> [k \in Slot |->
                     IF thread[t][k] = "dead" /\ runnerOf[t] = k
                     THEN "none" ELSE thread[t][k]]]
    /\ flagOf' = [t \in Task |->
                     IF flagOf[t] # NoSlot /\ thread[t][flagOf[t]] = "dead"
                     THEN NoSlot ELSE flagOf[t]]
    /\ stop' = [t \in Task |-> [k \in Slot |-> stop[t][k] /\ Live(t, k)]]
    /\ batch' = EmptyBatch
    /\ spawner' = "queued"
    /\ UNCHANGED <<disk, phase, requestVars, activated, held, shutdown, bounds>>

\* _prepare_queued_tasks: the read, then the commit.
PrepareRead ==
    /\ spawner = "queued"
    /\ batch' = [t \in Task |->
                    IF Listed(db[t]) /\ db[t].outcome = "QUEUED"
                    THEN WithOutcome(db[t], "RUNNING") ELSE NoRow]
    /\ spawner' = "commit"
    /\ UNCHANGED <<disk, phase, requestVars, activated, runnerOf, runnerVars, shutdown, bounds>>

PrepareCommit ==
    /\ spawner = "commit"
    /\ WriterFree
    /\ WriteBatch("register", AfterError)
    /\ UNCHANGED <<wsDeleted, phase, requestVars, activated, runnerOf, runnerVars, shutdown, bounds>>

\* Mutant: the check of _runner_by_id is dropped.
NeverRegistered(t) == FALSE

Registered(t) == runnerOf[t] # NoSlot

\* _register_runners_for_tasks: start a thread, unless the task still has one.
Register(t) ==
    /\ spawner = "register"
    /\ InBatch(t)
    /\ batch' = [batch EXCEPT ![t] = NoRow]
    /\ IF Registered(t)
       THEN UNCHANGED <<runnerOf, runnerVars>>
       ELSE \E k \in Slot :
            /\ thread[t][k] = "none"
            /\ runnerOf' = [runnerOf EXCEPT ![t] = k]
            /\ thread' = [thread EXCEPT ![t][k] = "starting"]
            /\ UNCHANGED <<held, flagOf, stop>>
    /\ UNCHANGED <<disk, phase, requestVars, spawner, activated, shutdown, bounds>>

RegisterDone ==
    /\ spawner = "register"
    /\ batch = EmptyBatch
    /\ spawner' = "loop"
    /\ UNCHANGED <<disk, phase, requestVars, activated, batch, runnerOf, runnerVars, shutdown, bounds>>

\* Mutant: the joins give up.
JoinGivesUp == TRUE

\* After the loop: join every registered runner.
AllJoined == \A t \in Task : runnerOf[t] # NoSlot => ~Live(t, runnerOf[t])

JoinRunners ==
    /\ spawner = "joining"
    /\ AllJoined
    /\ spawner' = "exited"
    /\ UNCHANGED <<disk, phase, requestVars, activated, batch, runnerOf, runnerVars, shutdown, bounds>>

-----------------------------------------------------------------------------
(* Runner threads: _run_task and _finalize_task *)

Goto(t, k, pc) == thread' = [thread EXCEPT ![t][k] = pc]

Hold(t, k, row) == held' = [held EXCEPT ![t][k] = row]

\* _run_task registers its event; the thread was started before, so a delete
\* in between finds no event, or the event of the task's previous run.
RegisterEvent(t, k) ==
    /\ thread[t][k] = "starting"
    /\ Goto(t, k, "running")
    /\ flagOf' = [flagOf EXCEPT ![t] = k]
    /\ UNCHANGED <<disk, phase, requestVars, spawnerVars, held, stop, shutdown, bounds>>

\* run_task ends.  A set event makes the handler raise UserPausedTaskError, and
\* so does an agent process that somebody else terminates.
RunPauses(t, k) ==
    /\ thread[t][k] = "running"
    /\ Goto(t, k, "paused")
    /\ UNCHANGED <<disk, phase, requestVars, spawnerVars, held, flagOf, stop, shutdown, bounds>>

RunSucceeds(t, k) ==
    /\ thread[t][k] = "running"
    /\ Goto(t, k, "succeeded")
    /\ UNCHANGED <<disk, phase, requestVars, spawnerVars, held, flagOf, stop, shutdown, bounds>>

\* on_exception turns any failure under a set event into a pause.
RunFails(t, k) ==
    /\ thread[t][k] = "running"
    /\ ~Signalled(t, k)
    /\ Goto(t, k, "failed")
    /\ UNCHANGED <<disk, phase, requestVars, spawnerVars, held, flagOf, stop, shutdown, bounds>>

\* The pause handler reads the row: a deletion is finalized, anything else is
\* queued again.  An invisible row fails an assertion, which ends the thread.
PausedRead(t, k) ==
    /\ thread[t][k] = "paused"
    /\ Goto(t, k, IF ~Visible(db[t]) THEN "dead"
                  ELSE IF db[t].isDeleting THEN "finDeleted" ELSE "finRead")
    /\ UNCHANGED <<disk, phase, requestVars, spawnerVars, held, flagOf, stop, shutdown, bounds>>

\* _finalize_task_as_deleted, then the callbacks.
WriteDeleted(t, k) ==
    /\ WriterFree
    /\ db' = [db EXCEPT ![t] = Upsert(@, AsDeleted(@))]
    /\ Goto(t, k, "cleanup")
    /\ UNCHANGED held

FinalizeDeleted(t, k) ==
    /\ thread[t][k] = "finDeleted"
    /\ IF Visible(db[t]) THEN WriteDeleted(t, k)
       ELSE Goto(t, k, "dead") /\ UNCHANGED <<db, held>>
    /\ UNCHANGED <<wsDeleted, phase, requestVars, spawnerVars, flagOf, stop, shutdown, bounds>>

\* _finalize_task without a callback (a pause): the read ...
FinalizeRead(t, k) ==
    /\ thread[t][k] = "finRead"
    /\ \/ /\ ~Visible(db[t])
          /\ Goto(t, k, "dead")
          /\ UNCHANGED <<db, held>>
       \/ /\ Visible(db[t]) /\ db[t].isDeleting
          /\ WriteDeleted(t, k)
       \/ /\ Listed(db[t])
          /\ Hold(t, k, db[t])
          /\ Goto(t, k, "finWrite")
          /\ UNCHANGED db
    /\ UNCHANGED <<wsDeleted, phase, requestVars, spawnerVars, flagOf, stop, shutdown, bounds>>

\* ... and the write of the row read, unless the row said CANCELLED; then
\* create_message, whose assertion rolls back on a row deleted since.
FinalizeWrite(t, k) ==
    /\ thread[t][k] = "finWrite"
    /\ WriterFree
    /\ db' = IF db[t].isDeleted \/ held[t][k].outcome \in {"CANCELLED", "QUEUED"} THEN db
             ELSE [db EXCEPT ![t] = Upsert(@, WithOutcome(held[t][k], "QUEUED"))]
    /\ Goto(t, k, "dead")
    /\ Hold(t, k, NoRow)
    /\ UNCHANGED <<wsDeleted, phase, requestVars, spawnerVars, flagOf, stop, shutdown, bounds>>

EndOutcome(pc) == IF pc = "succeeded" THEN "SUCCEEDED" ELSE "FAILED"

\* _finalize_task with a callback (success, failure): the callback's insert
\* takes the writer slot first, so the read that follows is not stale.
FinalizeWithCallback(t, k) ==
    /\ thread[t][k] \in {"succeeded", "failed"}
    /\ \/ /\ ~Visible(db[t])
          /\ Goto(t, k, "dead")
          /\ UNCHANGED <<db, held>>
       \/ /\ Visible(db[t]) /\ db[t].isDeleting
          /\ WriteDeleted(t, k)
       \/ /\ Listed(db[t])
          /\ WriterFree
          /\ db' = IF db[t].outcome = "CANCELLED" THEN db
                   ELSE [db EXCEPT ![t] = WithOutcome(@, EndOutcome(thread[t][k]))]
          /\ Goto(t, k, "dead")
          /\ UNCHANGED held
    /\ UNCHANGED <<wsDeleted, phase, requestVars, spawnerVars, flagOf, stop, shutdown, bounds>>

\* _cleanup_task_caches of the runner's own finalization.
RunnerCleanup(t, k) ==
    /\ thread[t][k] = "cleanup"
    /\ flagOf' = [flagOf EXCEPT ![t] = NoSlot]
    /\ Goto(t, k, "dead")
    /\ UNCHANGED <<disk, phase, requestVars, spawnerVars, held, stop, shutdown, bounds>>

-----------------------------------------------------------------------------
(* The specification *)

RequestStep(c) ==
    \/ CreateCommit(c)
    \/ TouchCommit(c)
    \/ RestoreCommit(c)
    \/ DeleteSignal(c)
    \/ DeleteCommit(c)
    \/ DeleteIdle(c)
    \/ CascadeCommit(c)
    \/ \E t \in Task : CleanupCaches(c, t)

NewRequest(c) ==
    \/ CascadeBegin(c)
    \/ \E t \in Task : \/ CreateCheck(c, t)
                       \/ TouchRead(c, t)
                       \/ RestoreRead(c, t)
                       \/ DeleteRead(c, t)

SpawnerStep ==
    \/ SpawnerLoop
    \/ CleanPreviouslyRunning
    \/ CleanStopped
    \/ PrepareRead
    \/ PrepareCommit
    \/ \E t \in Task : Register(t)
    \/ RegisterDone
    \/ JoinRunners

\* The steps a runner takes on its own account.
RunnerStep(t, k) ==
    \/ RegisterEvent(t, k)
    \/ Signalled(t, k) /\ RunPauses(t, k)
    \/ PausedRead(t, k)
    \/ FinalizeDeleted(t, k)
    \/ FinalizeRead(t, k)
    \/ FinalizeWrite(t, k)
    \/ FinalizeWithCallback(t, k)
    \/ RunnerCleanup(t, k)

\* What the agent does to its runner.
AgentEnds(t, k) ==
    \/ RunPauses(t, k)
    \/ RunSucceeds(t, k)
    \/ RunFails(t, k)

BootStep == BootDone \/ \E t \in Task : BootFinalize(t)

Next ==
    \/ BootStep
    \/ Shutdown
    \/ Exit
    \/ Crash
    \/ Start
    \/ \E c \in Client : NewRequest(c) \/ RequestStep(c)
    \/ SpawnerStep
    \/ \E t \in Task, k \in Slot : RunnerStep(t, k) \/ AgentEnds(t, k)

Spec == Init /\ [][Next]_vars

\* A thread that can take its next step takes it; the process is started again
\* after it went down.  Nothing makes a user ask or an agent end.
Fairness ==
    /\ WF_vars(BootStep)
    /\ WF_vars(Exit)
    /\ WF_vars(Start)
    /\ \A c \in Client : WF_vars(RequestStep(c))
    /\ WF_vars(SpawnerStep)
    /\ \A t \in Task : WF_vars(\E k \in Slot : RunnerStep(t, k))

FairSpec == Spec /\ Fairness

-----------------------------------------------------------------------------
(* Properties *)

\* A task never has two runner threads, however its row is rewritten while a
\* runner is ending (the check of _runner_by_id in
\* _register_runners_for_tasks, with _clean_stopped_tasks behind it).
AtMostOneRunner ==
    \A t \in Task : \A j, k \in Slot : Live(t, j) /\ Live(t, k) => j = k

\* A committed deletion is never undone: not by a writer that read the row
\* before the deletion, not by the runner's final outcome, not by a restart
\* (the monotonic columns of task_latest).
DeletionIsForever ==
    [][\A t \in Task : /\ db[t].isDeleted => db'[t].isDeleted
                       /\ db[t].isDeleting => db'[t].isDeleting]_vars

\* When the spawner thread is done after stop(), no runner thread is left:
\* joining the registered runners joins them all.
ExitLeavesNoRunner ==
    spawner = "exited" => \A t \in Task, k \in Slot : ~Live(t, k)

\* The stage of a task, for the abstract specification: over once its deletion
\* is committed and neither the spawner's batch nor a runner thread has it.
HasRunner(t) == \E k \in Slot : Live(t, k)

StageOf(t) ==
    IF ~Present(db[t]) THEN "absent"
    ELSE IF ~db[t].isDeleting /\ ~db[t].isDeleted THEN "live"
    ELSE IF InBatch(t) \/ HasRunner(t) THEN "doomed"
    ELSE "over"

Lifecycle ==
    INSTANCE TaskLifecycle
        WITH stage <- [t \in Task |-> StageOf(t)],
             running <- {t \in Task : HasRunner(t)}

\* The service keeps the promise of TaskLifecycle: whatever the order of
\* stale writes, runner endings and restarts, a task whose deletion is
\* committed and that no thread holds is never run or listed again.
ImplementsLifecycle == Lifecycle!Spec

\* delete_task: "The runner will finalize the deletion when it observes the
\* flag."  A row that is being deleted has a runner, or is about to get one.
DeletionHasARunner ==
    phase = "up" =>
        \A t \in Task : StuckDeleting(db[t]) => HasRunner(t) \/ InBatch(t)

\* A queued task that stays wanted is picked up by the spawner, if the process
\* in the end stays up.
QueuedIsPickedUp ==
    <>[](phase = "up" /\ ~shutdown) =>
        \A t \in Task : Listed(db[t]) /\ db[t].outcome = "QUEUED"
                            ~> ~(Listed(db[t]) /\ db[t].outcome = "QUEUED")

\* stop() ends the process: every runner hears of it through the parent event
\* and the spawner joins them all.
ShutdownCompletes == shutdown ~> phase # "up"

=============================================================================
