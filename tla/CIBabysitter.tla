---------------------------- MODULE CIBabysitter ----------------------------
(***************************************************************************)
(* The CI Babysitter of one workspace: the coordinator that turns the      *)
(* statuses of a pull request, as PrPollingService emits them, into        *)
(* prompts for an agent of its own.                                        *)
(*                                                                         *)
(* One consumer thread handles the statuses in order.  A prompt for a chat *)
(* agent is sent by the consumer itself; one for a terminal agent is given *)
(* to a worker thread, which waits for the program's prompt.  The requests *)
(* of the pause button run on threads of their own.  One lock guards the   *)
(* workspace's memory, and each action below is what a thread does between *)
(* two moments at which another thread can make a difference.  A restart   *)
(* forgets all of the memory but the tasks' rows and the paused flag.      *)
(*                                                                         *)
(* The pull request itself is the environment.  A failed run and a         *)
(* conflict are told apart by number (run, episode), which the program     *)
(* does not see and only the properties read.                              *)
(***************************************************************************)
EXTENDS Naturals, Sequences

CONSTANTS
    Client,         \* threads of the pause API
    RetryCap,       \* ci_babysitter.retry_cap
    NoTask, NoStatus, NoMemory, NoDrive, NoPipelineId,
    MaxRuns,        \* bound: pipeline runs of the pull request
    MaxEpisodes,    \* bound: times the pull request comes into conflict
    MaxTasks,       \* bound: babysitter tasks ever made
    MaxQueue,       \* bound: statuses waiting for the consumer
    MaxAsks,        \* bound: requests of the pause API
    MaxRestarts     \* bound: times the process is started again

ASSUME BabysitterAssumption ==
    /\ RetryCap \in Nat
    /\ {MaxRuns, MaxEpisodes, MaxTasks, MaxQueue, MaxAsks, MaxRestarts} \subseteq Nat
    /\ NoTask \notin Nat

Trouble == {"PIPELINE_FAILED", "MERGE_CONFLICT"}

Task == 1 .. MaxTasks

PullRequest == [state : {"none", "open", "merged", "closed"},
                pipeline : {"unset", "running", "passed", "failed"},
                run : 0 .. MaxRuns,
                conflicting : BOOLEAN,
                computed : BOOLEAN,
                episode : 0 .. MaxEpisodes]

\* What the program sees of it, and the two numbers it does not see.
Status == [state : {"none", "open", "merged", "closed"},
           pipeline : {"unset", "running", "passed", "failed"},
           id : {NoPipelineId},
           conflicts : {"unknown", "yes", "no"},
           run : 0 .. MaxRuns,
           episode : 0 .. MaxEpisodes]

Memory == [paused : BOOLEAN, retries : Nat, task : Task \cup {NoTask},
           retired : BOOLEAN, prev : Status \cup {NoStatus},
           failedSent : {NoPipelineId}, conflictSent : BOOLEAN, driving : BOOLEAN]

\* What a terminal drive is given.
Drive == [task : Task, trouble : Trouble, number : Nat]

ASSUME MarksAreDistinct ==
    /\ NoStatus \notin Status
    /\ NoMemory \notin Memory
    /\ NoDrive \notin Drive

VARIABLES
    pr,         \* the pull request, at GitHub
    queue,      \* statuses emitted and not yet taken
    mem,        \* the workspace's CIBabysitterState, or NoMemory
    consumer,   \* where the consumer thread stands, and what it holds
    client,     \* pause API thread -> where it stands, and what it holds
    worker,     \* the terminal drive under way, or NoDrive
    rowPaused,  \* ci_babysitter_paused, in the database
    tasks,      \* the rows of the babysitter's tasks
    sent,       \* history: the prompts that agents were given by this process
    passes,     \* history: PIPELINE_PASSED transitions of this process
    dropped,    \* history: how the last dispatch for a trouble was given up
    asks,       \* bound
    restarts    \* bound

history == <<sent, passes, dropped>>
bounds == <<asks, restarts>>
vars == <<pr, queue, mem, consumer, client, worker, rowPaused, tasks, history, bounds>>

TypeOK ==
    /\ pr \in PullRequest
    /\ queue \in Seq(Status) /\ Len(queue) <= MaxQueue
    /\ mem \in Memory \cup {NoMemory}
    /\ consumer \in [at : {"idle", "insert", "gate", "ensure", "deliver"},
                     item : Status \cup {NoStatus}, read : BOOLEAN,
                     todo : Seq(Trouble), agent : {"none", "chat", "terminal"}]
    /\ client \in [Client -> [at : {"idle", "insert", "set", "persist"},
                              want : {"look", "pause", "resume"}, read : BOOLEAN]]
    /\ worker \in Drive \cup {NoDrive}
    /\ rowPaused \in BOOLEAN
    /\ tasks \in [Task -> [state : {"absent", "live", "deleting", "deleted"},
                           kind : {"chat", "terminal"}]]
    /\ sent \in Seq([trouble : Trouble, number : Nat])
    /\ passes \in Nat
    /\ dropped \in [Trouble -> {"no", "coalesced", "skipped"}]
    /\ asks \in 0 .. MaxAsks
    /\ restarts \in 0 .. MaxRestarts

IdleConsumer == [at |-> "idle", item |-> NoStatus, read |-> FALSE, todo |-> <<>>, agent |-> "none"]
IdleClient == [at |-> "idle", want |-> "look", read |-> FALSE]

\* _load_persisted_state: only the paused flag is durable.
FreshMemory(paused) ==
    [paused |-> paused, retries |-> 0, task |-> NoTask, retired |-> FALSE,
     prev |-> NoStatus, failedSent |-> NoPipelineId, conflictSent |-> FALSE,
     driving |-> FALSE]

FreshProcess ==
    /\ queue = <<>>
    /\ mem = NoMemory
    /\ consumer = IdleConsumer
    /\ client = [c \in Client |-> IdleClient]
    /\ worker = NoDrive
    /\ sent = <<>>
    /\ passes = 0
    /\ dropped = [t \in Trouble |-> "no"]

\* Part of a bound may be used up.
Init ==
    /\ pr \in [state : {"none"}, pipeline : {"unset"}, run : {0}, conflicting : {FALSE},
               computed : {FALSE}, episode : 0 .. MaxEpisodes]
    /\ rowPaused = FALSE
    /\ tasks = [t \in Task |-> [state |-> "absent", kind |-> "chat"]]
    /\ asks \in 0 .. MaxAsks
    /\ restarts = 0
    /\ FreshProcess

program == <<queue, mem, consumer, client, worker, rowPaused, tasks, history, bounds>>

-----------------------------------------------------------------------------
(* The pull request, and the statuses that the poller emits *)

\* It is opened, or someone pushes: a new run, and a conflict may be resolved.
Push ==
    \E c \in BOOLEAN :
        /\ pr.state \in {"none", "open"}
        /\ pr.run < MaxRuns
        /\ c => pr.conflicting
        /\ pr' = [pr EXCEPT !.state = "open", !.pipeline = "running", !.run = @ + 1,
                            !.conflicting = c, !.computed = FALSE]
        /\ UNCHANGED program

\* The checks end.
RunEnds ==
    \E p \in {"passed", "failed"} :
        /\ pr.pipeline = "running"
        /\ pr' = [pr EXCEPT !.pipeline = p]
        /\ UNCHANGED program

\* The base branch moves, into conflict with the pull request.
BaseMoves ==
    /\ pr.state = "open"
    /\ ~pr.conflicting
    /\ pr.episode < MaxEpisodes
    /\ pr' = [pr EXCEPT !.conflicting = TRUE, !.computed = FALSE, !.episode = @ + 1]
    /\ UNCHANGED program

\* GitHub computes whether it can be merged.
ComputeMergeable ==
    /\ pr.state = "open"
    /\ ~pr.computed
    /\ pr' = [pr EXCEPT !.computed = TRUE]
    /\ UNCHANGED program

\* It is merged or closed.
Finish ==
    \E s \in {"merged", "closed"} :
        /\ pr.state = "open"
        /\ pr' = [pr EXCEPT !.state = s, !.pipeline = "unset",
                            !.conflicting = FALSE, !.computed = FALSE]
        /\ UNCHANGED program

NoPrStatus == [state |-> "none", pipeline |-> "unset", id |-> NoPipelineId,
               conflicts |-> "unknown", run |-> 0, episode |-> 0]

\* _parse_conflict_status.
ConflictFlag(p) ==
    IF ~p.computed THEN "unknown" ELSE IF p.conflicting THEN "yes" ELSE "no"

\* _fetch_pr_status_inner and _build_open_pr_status: details are given of an
\* open pull request only, and pipeline_id never is.
StatusOf(p) ==
    IF p.state = "none" THEN NoPrStatus
    ELSE IF p.state = "open"
         THEN [state |-> "open", pipeline |-> p.pipeline, id |-> NoPipelineId,
               conflicts |-> ConflictFlag(p), run |-> p.run, episode |-> p.episode]
         ELSE [NoPrStatus EXCEPT !.state = p.state]

\* A poll that emits: reviews, comments and the title are part of a status
\* and may change when nothing modelled does.  It finds the pull request, or
\* does not (the branch was flipped, gh failed).
Poll ==
    \E status \in {StatusOf(pr), NoPrStatus} :
        /\ Len(queue) < MaxQueue
        /\ queue' = Append(queue, status)
        /\ UNCHANGED <<pr, mem, consumer, client, worker, rowPaused, tasks, history, bounds>>

-----------------------------------------------------------------------------
(* The transitions, and what is done on them *)

\* Mutant: a conflict is an edge from an earlier status only, as a failure is.
ConflictAfterBaseline(prev, new) ==
    new.conflicts = "yes" /\ prev # NoStatus /\ prev.conflicts # "yes"

Conflicted(prev, new) ==
    new.conflicts = "yes" /\ (prev = NoStatus \/ prev.conflicts # "yes")

Failed(prev, new) ==
    /\ new.pipeline = "failed" /\ prev # NoStatus
    /\ prev.pipeline # "failed" \/ prev.id # new.id

Passed(prev, new) ==
    new.pipeline = "passed" /\ (prev = NoStatus \/ prev.pipeline # "passed")

\* MR_MERGED or MR_CLOSED.
Retires(prev, new) ==
    new.state \in {"merged", "closed"} /\ (prev = NoStatus \/ prev.state # new.state)

\* The transitions to dispatch, in the order classify_transitions lists them.
ToDispatch(prev, new) ==
    (IF Failed(prev, new) THEN <<"PIPELINE_FAILED">> ELSE <<>>) \o
    (IF Conflicted(prev, new) THEN <<"MERGE_CONFLICT">> ELSE <<>>)

\* Mutant: every status counts.
NeverLost(prev, new) == FALSE /\ prev = new

\* The transient gap in which the pull request is not found.
LostPr(prev, new) == new.state = "none" /\ prev # NoStatus /\ prev.state # "none"

ConflictGone(new) == new.conflicts = "no"

\* The memory after a status: the first section of _handle_status, and the
\* lifecycle transitions.
AfterStatus(m, new) ==
    LET passed == Passed(m.prev, new)
        retires == Retires(m.prev, new)
    IN [m EXCEPT !.prev = new,
                 !.conflictSent = @ /\ ~ConflictGone(new),
                 !.retries = IF passed THEN 0 ELSE @,
                 !.retired = @ \/ retires]

-----------------------------------------------------------------------------
(* The consumer thread *)

\* The thread is done with the first transition of those it has to dispatch.
Proceed ==
    consumer' = IF Len(consumer.todo) = 1 THEN IdleConsumer
                ELSE [consumer EXCEPT !.at = "gate", !.todo = Tail(@), !.agent = "none"]

\* The first transition is given up.
Drop(how) ==
    /\ dropped' = [dropped EXCEPT ![Head(consumer.todo)] = how]
    /\ Proceed

\* _handle_status up to the first dispatch, with the memory m: nobody else
\* writes what it reads.
Handle(m, new) ==
    LET todo == ToDispatch(m.prev, new) IN
    IF LostPr(m.prev, new)
    THEN /\ mem' = m
         /\ consumer' = IdleConsumer
         /\ UNCHANGED <<passes, dropped>>
    ELSE /\ mem' = AfterStatus(m, new)
         /\ consumer' = IF todo = <<>> THEN IdleConsumer
                        ELSE [IdleConsumer EXCEPT !.at = "gate", !.item = new, !.todo = todo]
         /\ passes' = passes + (IF Passed(m.prev, new) THEN 1 ELSE 0)
         /\ dropped' = [t \in Trouble |->
               IF \/ t = "PIPELINE_FAILED" /\ new.pipeline # "failed"
                  \/ t = "MERGE_CONFLICT" /\ new.conflicts = "no"
               THEN "no" ELSE dropped[t]]

\* _consumer_loop, for a workspace whose memory is there.
HandleStatus ==
    /\ consumer.at = "idle"
    /\ queue # <<>>
    /\ mem # NoMemory
    /\ queue' = Tail(queue)
    /\ Handle(mem, Head(queue))
    /\ UNCHANGED <<pr, client, worker, rowPaused, tasks, sent, bounds>>

\* It is not there: _ensure_state reads the row.
ReadRow ==
    /\ consumer.at = "idle"
    /\ queue # <<>>
    /\ mem = NoMemory
    /\ queue' = Tail(queue)
    /\ consumer' = [consumer EXCEPT !.item = Head(queue), !.at = "insert", !.read = rowPaused]
    /\ UNCHANGED <<pr, mem, client, worker, rowPaused, tasks, history, bounds>>

\* Mutant: what was read goes in, whatever has come in since.
Overwritten(paused) == FreshMemory(paused)

\* The end of _ensure_state, with its second look under the lock.
Hydrated(paused) == IF mem = NoMemory THEN FreshMemory(paused) ELSE mem

\* Then the status is handled.
InsertAndHandle ==
    /\ consumer.at = "insert"
    /\ Handle(Hydrated(consumer.read), consumer.item)
    /\ UNCHANGED <<pr, queue, client, worker, rowPaused, tasks, sent, bounds>>

\* Mutant: one prompt too many.
OverCap == mem.retries > RetryCap

AtCap == mem.retries >= RetryCap

\* The dedup of _dispatch_prompt.
AlreadySent(t) ==
    IF t = "PIPELINE_FAILED"
    THEN consumer.item.id # NoPipelineId /\ consumer.item.id = mem.failedSent
    ELSE mem.conflictSent

\* The gates of _dispatch_prompt under the lock.
Blocked(t) == mem.retired \/ mem.paused \/ AtCap \/ AlreadySent(t)

\* _dispatch_prompt up to the resolution.  The babysitter is switched off, an
\* agent of the workspace is busy or waiting, no agent can be driven, or one
\* is resolved: all of it is the user's, and may be different each time.
Dispatch ==
    /\ consumer.at = "gate"
    /\ \/ Drop("skipped")
       \/ \E kind \in {"chat", "terminal"} :
             /\ ~Blocked(Head(consumer.todo))
             /\ consumer' = [consumer EXCEPT !.at = "ensure", !.agent = kind]
             /\ UNCHANGED dropped
    /\ UNCHANGED <<pr, queue, mem, client, worker, rowPaused, tasks, sent, passes, bounds>>

\* The babysitter's tasks that _find_existing_babysitter_task_id looks among.
Listed == {t \in Task : tasks[t].state = "live"}

\* Mutant: what an earlier process made is not looked for.
NoneFound == NoTask

\* The most recent of them.
FindExisting ==
    IF Listed = {} THEN NoTask ELSE CHOOSE t \in Listed : \A u \in Listed : u <= t

\* The task that is known or found, as get_task returns it.
Existing == IF mem.task # NoTask THEN mem.task ELSE FindExisting

Usable(t) == t # NoTask /\ tasks[t].state \in {"live", "deleting"}

\* _ensure_babysitter_task, when there is one.
AdoptTask ==
    /\ consumer.at = "ensure"
    /\ Usable(Existing)
    /\ mem' = [mem EXCEPT !.task = Existing]
    /\ consumer' = [consumer EXCEPT !.at = "deliver"]
    /\ UNCHANGED <<pr, queue, client, worker, rowPaused, tasks, history, bounds>>

\* ... and when there is none: _create_babysitter_task makes it, of the
\* resolved kind.  Tasks are numbered by their time of creation.
CreateTask ==
    \E t \in Task :
        /\ consumer.at = "ensure"
        /\ ~Usable(Existing)
        /\ tasks[t].state = "absent"
        /\ \A u \in Task : u < t => tasks[u].state # "absent"
        /\ tasks' = [tasks EXCEPT ![t] = [state |-> "live", kind |-> consumer.agent]]
        /\ mem' = [mem EXCEPT !.task = t]
        /\ consumer' = [consumer EXCEPT !.at = "deliver"]
        /\ UNCHANGED <<pr, queue, client, worker, rowPaused, history, bounds>>

\* The workspace or its project is gone.
CannotCreate ==
    /\ consumer.at = "ensure"
    /\ ~Usable(Existing)
    /\ mem' = [mem EXCEPT !.task = NoTask]
    /\ Drop("skipped")
    /\ UNCHANGED <<pr, queue, client, worker, rowPaused, tasks, sent, passes, bounds>>

\* The failed run or the conflict that the first transition is about.
NumberOf(t) ==
    IF t = "PIPELINE_FAILED" THEN consumer.item.run ELSE consumer.item.episode

\* The bookkeeping at the end of _dispatch_prompt.
Booked(t) ==
    [mem EXCEPT !.retries = @ + 1,
                !.failedSent = IF t = "PIPELINE_FAILED" THEN consumer.item.id ELSE @,
                !.conflictSent = @ \/ t = "MERGE_CONFLICT"]

\* A chat agent was resolved.  The prompt goes the way of the task's own
\* kind: a message for a chat task, a write that may fail for a terminal.
DeliverChat ==
    LET t == Head(consumer.todo)
        task == tasks[mem.task]
    IN
    /\ consumer.at = "deliver"
    /\ consumer.agent = "chat"
    /\ IF task.state = "deleted"
       THEN /\ Drop("skipped")
            /\ UNCHANGED <<mem, sent>>
       ELSE /\ \/ sent' = Append(sent, [trouble |-> t, number |-> NumberOf(t)])
               \/ task.kind = "terminal" /\ UNCHANGED sent
            /\ mem' = Booked(t)
            /\ Drop("no")
    /\ UNCHANGED <<pr, queue, client, worker, rowPaused, tasks, passes, bounds>>

\* A terminal agent was resolved, and its worker is still at the last prompt.
Coalesce ==
    /\ consumer.at = "deliver"
    /\ consumer.agent = "terminal"
    /\ mem.driving
    /\ Drop("coalesced")
    /\ UNCHANGED <<pr, queue, mem, client, worker, rowPaused, tasks, sent, passes, bounds>>

\* The worker is started.
StartDrive ==
    LET t == Head(consumer.todo) IN
    /\ consumer.at = "deliver"
    /\ consumer.agent = "terminal"
    /\ ~mem.driving
    /\ worker' = [task |-> mem.task, trouble |-> t, number |-> NumberOf(t)]
    /\ mem' = [Booked(t) EXCEPT !.driving = TRUE]
    /\ Drop("no")
    /\ UNCHANGED <<pr, queue, client, rowPaused, tasks, sent, passes, bounds>>

\* Mutant: the guard stays set when no thread was started.
Latched == [mem EXCEPT !.driving = TRUE]

\* The guard is set and cleared again.
NotStarted == [mem EXCEPT !.driving = FALSE]

\* No thread can be started.
CannotStart ==
    /\ consumer.at = "deliver"
    /\ consumer.agent = "terminal"
    /\ ~mem.driving
    /\ mem' = NotStarted
    /\ Drop("skipped")
    /\ UNCHANGED <<pr, queue, client, worker, rowPaused, tasks, sent, passes, bounds>>

\* A query raises: the loop logs it and goes on with the next status.
HandlingRaises ==
    /\ consumer.at \in {"gate", "ensure", "deliver"}
    /\ consumer' = IdleConsumer
    /\ dropped' = [t \in Trouble |->
          IF \E i \in 1 .. Len(consumer.todo) : consumer.todo[i] = t THEN "skipped" ELSE dropped[t]]
    /\ UNCHANGED <<pr, queue, mem, client, worker, rowPaused, tasks, sent, passes, bounds>>

-----------------------------------------------------------------------------
(* The worker: _run_terminal_drive *)

\* The program came to its prompt in time and is there for the write.  Only a
\* terminal's task ever signals that.
DriveDelivers ==
    /\ worker # NoDrive
    /\ tasks[worker.task].kind = "terminal"
    /\ tasks[worker.task].state # "deleted"
    /\ sent' = Append(sent, [trouble |-> worker.trouble, number |-> worker.number])
    /\ mem' = [mem EXCEPT !.driving = FALSE]
    /\ worker' = NoDrive
    /\ UNCHANGED <<pr, queue, consumer, client, rowPaused, tasks, passes, dropped, bounds>>

\* It was not ready within the backstop, a guard refused the write, the task
\* is gone, or the worker raised: the guard is cleared all the same.
DriveFails ==
    /\ worker # NoDrive
    /\ mem' = [mem EXCEPT !.driving = FALSE]
    /\ worker' = NoDrive
    /\ UNCHANGED <<pr, queue, consumer, client, rowPaused, tasks, history, bounds>>

-----------------------------------------------------------------------------
(* The pause API, and the user *)

\* set_paused or get_state_snapshot: the beginning of _ensure_state.
Ask(c) ==
    \E want \in {"look", "pause", "resume"} :
        /\ client[c].at = "idle"
        /\ asks < MaxAsks
        /\ asks' = asks + 1
        /\ IF mem = NoMemory
           THEN client' = [client EXCEPT ![c] = [at |-> "insert", want |-> want,
                                                 read |-> rowPaused]]
           ELSE /\ want # "look"
                /\ client' = [client EXCEPT ![c] = [at |-> "set", want |-> want,
                                                    read |-> FALSE]]
        /\ UNCHANGED <<pr, queue, mem, consumer, worker, rowPaused, tasks, history, restarts>>

AskInsert(c) ==
    /\ client[c].at = "insert"
    /\ mem' = Hydrated(client[c].read)
    /\ client' = [client EXCEPT ![c] =
          IF @.want = "look" THEN IdleClient
          ELSE [at |-> "set", want |-> @.want, read |-> FALSE]]
    /\ UNCHANGED <<pr, queue, consumer, worker, rowPaused, tasks, history, bounds>>

SetPaused(c) ==
    /\ client[c].at = "set"
    /\ mem' = [mem EXCEPT !.paused = client[c].want = "pause"]
    /\ client' = [client EXCEPT ![c].at = "persist"]
    /\ UNCHANGED <<pr, queue, consumer, worker, rowPaused, tasks, history, bounds>>

PersistPaused(c) ==
    /\ client[c].at = "persist"
    /\ rowPaused' = (client[c].want = "pause")
    /\ client' = [client EXCEPT ![c] = IdleClient]
    /\ UNCHANGED <<pr, queue, mem, consumer, worker, tasks, history, bounds>>

\* The user deletes the babysitter's task: it goes through is_deleting when
\* it runs.
Delete(t) ==
    \E state \in {"deleting", "deleted"} :
        /\ \/ tasks[t].state = "live"
           \/ tasks[t].state = "deleting" /\ state = "deleted"
        /\ tasks' = [tasks EXCEPT ![t].state = state]
        /\ UNCHANGED <<pr, queue, mem, consumer, client, worker, rowPaused, history, bounds>>

\* The process ends at any moment and is started again.
Restart ==
    /\ restarts < MaxRestarts
    /\ restarts' = restarts + 1
    /\ queue' = <<>>
    /\ mem' = NoMemory
    /\ consumer' = IdleConsumer
    /\ client' = [c \in Client |-> IdleClient]
    /\ worker' = NoDrive
    /\ sent' = <<>>
    /\ passes' = 0
    /\ dropped' = [t \in Trouble |-> "no"]
    /\ UNCHANGED <<pr, rowPaused, tasks, asks>>

-----------------------------------------------------------------------------
GitHubNext == Push \/ RunEnds \/ BaseMoves \/ ComputeMergeable \/ Finish

ConsumerNext ==
    \/ HandleStatus \/ ReadRow \/ InsertAndHandle \/ Dispatch
    \/ AdoptTask \/ CreateTask \/ CannotCreate
    \/ DeliverChat \/ Coalesce \/ StartDrive \/ CannotStart \/ HandlingRaises

WorkerNext == DriveDelivers \/ DriveFails

ClientNext(c) == Ask(c) \/ AskInsert(c) \/ SetPaused(c) \/ PersistPaused(c)

Next ==
    \/ GitHubNext \/ Poll \/ ConsumerNext \/ WorkerNext
    \/ \E c \in Client : ClientNext(c)
    \/ \E t \in Task : Delete(t)
    \/ Restart

Spec == Init /\ [][Next]_vars

-----------------------------------------------------------------------------
(* Properties *)

\* A workspace never has two babysitter tabs: a restarted coordinator adopts
\* the task that an earlier one made, whatever the user deleted meanwhile.
OneBabysitter == \A t, u \in Listed : t = u

\* No agent is given two prompts by one process for the same failed run or
\* the same conflict, however often the pull request is lost and found again
\* and GitHub does not know.
OncePerTrouble ==
    \A i, j \in 1 .. Len(sent) : sent[i] = sent[j] => i = j

\* Between two passing pipelines that were seen, no more prompts are given
\* than the cap allows, the one still at the terminal included.
RetriesAreCapped ==
    Len(sent) + (IF worker = NoDrive THEN 0 ELSE 1) <= RetryCap * (passes + 1)

\* Once the requests are done, what the coordinator goes by is what a restart
\* will read: the user's last choice.
PauseIsDurable ==
    (mem # NoMemory /\ \A c \in Client : client[c].at = "idle") => mem.paused = rowPaused

\* The guard that makes later prompts coalesce is set exactly while there is
\* a worker to clear it.
GuardFollowsWorker ==
    mem # NoMemory => (mem.driving <=> worker # NoDrive)

\* A conflict that the coordinator has seen was prompted, unless the attempt
\* itself was given up: it is not lost because it was there at the first poll,
\* or was unknown for a while, or the process was restarted.
ConflictSurfaces ==
    (/\ consumer.at = "idle" /\ mem # NoMemory /\ mem.prev # NoStatus
     /\ mem.prev.conflicts = "yes")
    => mem.conflictSent \/ dropped["MERGE_CONFLICT"] # "no"
=============================================================================
