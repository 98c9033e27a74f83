----------------------------- MODULE PrPolling -----------------------------
(***************************************************************************)
(* PrPollingService for one workspace: the worker pool that fetches the    *)
(* status of the workspace's pull request, the round driver that reads all *)
(* open pull requests in one search, the cache both write, and the stream  *)
(* threads, which tell the service of another branch or another row.       *)
(*                                                                         *)
(* Time is a job being due or not: a job put for later falls due at some   *)
(* time.  The checkout, the row, the scanner and GitHub are the            *)
(* environment; the origin is at GitHub and gh is installed.  An action is *)
(* what a thread does between two moments at which another thread can make *)
(* a difference: a lock, a git or gh call, or the unlocked read of         *)
(* something another thread writes.                                        *)
(***************************************************************************)
EXTENDS Naturals, Sequences, FiniteSets

CONSTANTS
    Worker,         \* the threads of the pool
    Stream,         \* the stream threads
    Branch,         \* branches of the repository
    Base,           \* the branch that all pull requests target
    NoBranch, NoStatus, NotReady, Deferred, Latest,
    MaxChanges,     \* bound: changes of the checkout, the row, the requests, the setting
    MaxLinks,       \* bound: times a client connects or disconnects
    MaxFailures     \* bound: calls that fail or miss a request, scans that fail

ASSUME PollingAssumption ==
    /\ Base \in Branch
    /\ NoBranch \notin Branch
    /\ IsFiniteSet(Worker)
    /\ {MaxChanges, MaxLinks, MaxFailures} \subseteq Nat

\* PrStatusInfo.  The branch stands for pr_iid or mismatched_pr_iid.
Status == [state : {"none", "open", "merged"}, branch : Branch \cup {NoBranch},
           note : {"plain", "mismatch", "rate_limited", "error"}]

NoPr == [state |-> "none", branch |-> NoBranch, note |-> "plain"]
Failure(category) == [NoPr EXCEPT !.note = category]

\* The workspace's row, and what the service keeps of it.
Row == [target : Branch, open : BOOLEAN, deleted : BOOLEAN]
PollState == [target : Branch, open : BOOLEAN, deleted : BOOLEAN,
              dir : BOOLEAN, generation : Nat]

ASSUME LatestIsNoObject == Latest \notin PollState

\* What a stream's queue holds for the service.
Item == [kind : {"branch"}, branch : Branch] \cup [kind : {"row"}, row : Row]

VARIABLES
    head,       \* the branch the workspace has checked out
    cloned,     \* the working directory exists
    row,        \* the workspace's row
    request,    \* branch -> the pull request from it
    enabled,    \* pr_polling_enabled
    scanned,    \* the branch the scanner published last, or NoBranch
    state,      \* the workspace's object in _workspace_poll_state
    jobs,       \* _job_queue: how many jobs are due, and how many are not
    pending,    \* the workspace is in _pending
    cache,      \* _cache
    matched,    \* the workspace is in _matched_workspaces
    cooling,    \* the rate-limit cooldown is on
    worker,     \* worker -> where it stands, and what it holds
    round,      \* the round driver: the same
    stream,     \* stream -> the same
    forced,     \* history: polls put past the mark
    changes, links, failures    \* bounds

world == <<head, cloned, row, request, enabled, scanned>>
bounds == <<changes, links, failures>>

vars == <<world, state, jobs, pending, cache, matched, cooling, worker, round, stream, forced, bounds>>

WorkerPlace == {"idle", "asleep", "woken", "ready", "fetching", "fetched",
                "cleared", "emit", "check", "requeue"}

\* Where a worker has a job and has not cleared the mark that it is pending.
HoldingAJob == {"asleep", "woken", "ready", "fetching", "fetched"}

\* What waits to be put into the cache is a status.
WorkerRecord ==
    {r \in [at : WorkerPlace, object : PollState \cup {Latest}, generation : Nat,
            branch : Branch, target : Branch, result : Status \cup {NotReady, Deferred}] :
        r.at = "emit" => r.result \in Status}
RoundRecord ==
    {r \in [at : {"idle", "search", "emit"}, branch : Branch, target : Branch,
            result : Status \cup {NotReady}] :
        r.at = "emit" => r.result \in Status}
\* Items are for a client, and a stream about to put a job has the item it is for.
StreamRecord ==
    {r \in [on : BOOLEAN, inbox : Seq(Item), at : {"idle", "enqueue"},
            last : Branch \cup {NoBranch}] :
        (r.inbox # <<>> => r.on) /\ (r.at = "enqueue" => r.inbox # <<>>)}

TypeOK ==
    /\ head \in Branch
    /\ cloned \in BOOLEAN
    /\ row \in Row
    /\ request \in [Branch -> {"none", "open", "merged"}]
    /\ enabled \in BOOLEAN
    /\ scanned \in Branch \cup {NoBranch}
    /\ state \in PollState
    /\ jobs \in [due : Nat, later : Nat]
    /\ pending \in BOOLEAN
    /\ cache \in Status \cup {NoStatus}
    /\ matched \in BOOLEAN
    /\ cooling \in BOOLEAN
    /\ worker \in [Worker -> WorkerRecord]
    /\ round \in RoundRecord
    /\ stream \in [Stream -> StreamRecord]
    /\ forced \in Nat
    /\ changes \in 0 .. MaxChanges /\ links \in 0 .. MaxLinks /\ failures \in 0 .. MaxFailures

IdleWorker == [at |-> "idle", object |-> Latest, generation |-> 0,
               branch |-> Base, target |-> Base, result |-> NotReady]
IdleRound == [at |-> "idle", branch |-> Base, target |-> Base, result |-> NotReady]
ClosedStream == [on |-> FALSE, inbox |-> <<>>, at |-> "idle", last |-> NoBranch]

\* _add_workspace_poll_state: a new object, whatever the old one counted.
PollStateOf(r) == [target |-> r.target, open |-> r.open, deleted |-> r.deleted,
                   dir |-> cloned, generation |-> 0]

\* start(): the state and one due job; nobody is connected yet.
Idle ==
    /\ state = PollStateOf(row)
    /\ jobs = [due |-> 1, later |-> 0] /\ pending = TRUE
    /\ cache = NoStatus /\ matched = FALSE /\ cooling = FALSE
    /\ worker = [w \in Worker |-> IdleWorker]
    /\ round = IdleRound
    /\ stream = [s \in Stream |-> ClosedStream]
    /\ forced = 0

Init ==
    /\ head \in Branch /\ scanned = NoBranch
    /\ cloned \in BOOLEAN
    /\ row \in [target : Branch, open : BOOLEAN, deleted : {FALSE}]
    /\ request \in [Branch -> {"none", "open", "merged"}] /\ request[Base] = "none"
    /\ enabled \in BOOLEAN
    /\ Idle
    /\ changes = 0 /\ links = 0 /\ failures = 0
-----------------------------------------------------------------------------
(* What several threads do.                                                *)

\* _fetch_pr_status_inner, and build_status_from_open_nodes for an open one.
StatusFor(branch, target) ==
    CASE request[branch] = "none" -> NoPr
      [] request[branch] # "none" /\ target = Base ->
            [state |-> request[branch], branch |-> branch, note |-> "plain"]
      [] request[branch] = "open" /\ target # Base ->
            [state |-> "none", branch |-> branch, note |-> "mismatch"]
      [] request[branch] = "merged" /\ target # Base -> NoPr

Post(streams, item) ==
    [s \in Stream |-> IF streams[s].on
                      THEN [streams[s] EXCEPT !.inbox = Append(@, item)]
                      ELSE streams[s]]

\* _emit_status, under _observer_lock.
EmitStatus(status) == cache' = status

\* Mutant: _pending is not asked.
EnqueueTwice ==
    /\ pending' = TRUE
    /\ jobs' = [jobs EXCEPT !.later = @ + 1]

\* _enqueue with a delay too long for _wake_sleepiest_worker to look.
EnqueueLater ==
    /\ pending' = TRUE
    /\ jobs' = IF pending THEN jobs ELSE [jobs EXCEPT !.later = @ + 1]

\* _enqueue without a delay: a worker that sleeps on a later job is woken,
\* unless it has not registered as a sleeper yet.
EnqueueNow ==
    /\ pending' = TRUE
    /\ IF pending
       THEN UNCHANGED <<jobs, worker>>
       ELSE /\ jobs' = [jobs EXCEPT !.due = @ + 1]
            /\ \/ \E w \in Worker : /\ worker[w].at = "asleep"
                                    /\ worker' = [worker EXCEPT ![w].at = "woken"]
               \/ UNCHANGED worker

\* _resolve_working_dir: the object as it is afterwards.  It has a directory,
\* or the poll is not to go on.
Resolved(object) ==
    IF object.dir THEN object
    ELSE IF row.deleted THEN [object EXCEPT !.deleted = TRUE]
    ELSE IF cloned THEN [object EXCEPT !.dir = TRUE, !.target = row.target]
    ELSE object
\* The object a worker took with its job: the workspace's, or an older one
\* that was the workspace's then and that only the worker still knows.
ObjectOf(holder) == IF holder.object = Latest THEN state ELSE holder.object
-----------------------------------------------------------------------------
(* A worker: _worker_loop.                                                 *)

\* Mutant: nobody looks at whether the workspace is deleted.
DequeueDeleted(w) ==
    LET place == IF jobs.due > 0 THEN "ready" ELSE "asleep" IN
    /\ worker[w].at = "idle"
    /\ jobs.due + jobs.later > 0
    /\ jobs' = IF jobs.due > 0 THEN [jobs EXCEPT !.due = @ - 1] ELSE [jobs EXCEPT !.later = @ - 1]
    /\ worker' = [worker EXCEPT ![w] = [IdleWorker EXCEPT !.at = place]]
    /\ UNCHANGED <<world, state, pending, cache, matched, cooling, round, stream, forced, bounds>>

\* _dequeue_job, the state looked up for the job, and _wait_until_ready.
Dequeue(w) ==
    LET place == IF jobs.due > 0 THEN "ready" ELSE "asleep" IN
    /\ worker[w].at = "idle"
    /\ jobs.due + jobs.later > 0
    /\ jobs' = IF jobs.due > 0 THEN [jobs EXCEPT !.due = @ - 1] ELSE [jobs EXCEPT !.later = @ - 1]
    /\ IF state.deleted
       THEN pending' = FALSE /\ UNCHANGED worker
       ELSE /\ worker' = [worker EXCEPT ![w] = [IdleWorker EXCEPT !.at = place]]
            /\ UNCHANGED pending
    /\ UNCHANGED <<world, state, cache, matched, cooling, round, stream, forced, bounds>>

\* The job a worker sleeps on falls due.  The state it holds is not read again.
ComesDue(w) ==
    /\ worker[w].at \in {"asleep", "woken"}
    /\ worker' = [worker EXCEPT ![w].at = "ready"]
    /\ UNCHANGED <<world, state, jobs, pending, cache, matched, cooling, round, stream, forced, bounds>>

\* Woken early: the job goes back into the queue.
PutBack(w) ==
    /\ worker[w].at = "woken"
    /\ jobs' = [jobs EXCEPT !.later = @ + 1]
    /\ worker' = [worker EXCEPT ![w] = IdleWorker]
    /\ UNCHANGED <<world, state, pending, cache, matched, cooling, round, stream, forced, bounds>>

\* A job in the queue falls due.
JobComesDue ==
    /\ jobs.later > 0
    /\ jobs' = [due |-> jobs.due + 1, later |-> jobs.later - 1]
    /\ UNCHANGED <<world, state, pending, cache, matched, cooling, worker, round, stream, forced, bounds>>

\* A worker that holds no job any more.
At(place, result) == [at |-> place, object |-> Latest, generation |-> 0,
                      branch |-> Base, target |-> Base, result |-> result]

\* Mutant: the mark stays, so the _enqueue that follows finds it.
SkipMarked(w) ==
    /\ worker[w].at = "ready" /\ ~enabled
    /\ worker' = [worker EXCEPT ![w] = At("requeue", NotReady)]
    /\ UNCHANGED <<world, state, jobs, pending, cache, matched, cooling, round, stream, forced, bounds>>

\* The kill switch of _poll_and_handle_result.
SkipDisabled(w) ==
    /\ worker[w].at = "ready" /\ ~enabled
    /\ pending' = FALSE
    /\ worker' = [worker EXCEPT ![w] = At("requeue", NotReady)]
    /\ UNCHANGED <<world, state, jobs, cache, matched, cooling, round, stream, forced, bounds>>

\* gen_before, and _fetch_status up to the call of gh.
StartPoll(w) ==
    LET me == worker[w]
        object == Resolved(ObjectOf(me))
        kept == [me EXCEPT !.object = IF @ = Latest THEN Latest ELSE object,
                           !.generation = object.generation]
        fetching == [kept EXCEPT !.at = "fetching", !.branch = head, !.target = object.target]
        fetched(result) == [kept EXCEPT !.at = "fetched", !.result = result]
    IN
    /\ me.at = "ready" /\ enabled
    /\ state' = IF me.object = Latest THEN object ELSE state
    /\ worker' = [worker EXCEPT ![w] =
           CASE ~object.dir -> fetched(NotReady)
             [] object.dir /\ head = object.target -> fetched(NoPr)
             [] object.dir /\ head # object.target /\ cooling -> fetched(Deferred)
             [] object.dir /\ head # object.target /\ ~cooling -> fetching]
    /\ UNCHANGED <<world, jobs, pending, cache, matched, cooling, round, stream, forced, bounds>>

Answered(w, result) ==
    /\ worker[w].at = "fetching"
    /\ worker' = [worker EXCEPT ![w] = [@ EXCEPT !.at = "fetched", !.result = result,
                                                !.branch = Base, !.target = Base]]

\* fetch_pr_status returns.
Fetch(w) ==
    /\ Answered(w, StatusFor(worker[w].branch, worker[w].target))
    /\ UNCHANGED <<world, state, jobs, pending, cache, matched, cooling, round, stream, forced, bounds>>

\* It reports a failure, or raises (NotReady).
FetchFails(w) ==
    /\ failures < MaxFailures
    /\ \/ Answered(w, NotReady) /\ UNCHANGED cooling
       \/ Answered(w, Failure("error")) /\ UNCHANGED cooling
       \/ Answered(w, Failure("rate_limited")) /\ cooling' = TRUE
    /\ failures' = failures + 1
    /\ UNCHANGED <<world, state, jobs, pending, cache, matched, round, stream, forced, changes, links>>

ClearPending(w) ==
    /\ worker[w].at = "fetched"
    /\ pending' = FALSE
    /\ worker' = [worker EXCEPT ![w].at = "cleared"]
    /\ UNCHANGED <<world, state, jobs, cache, matched, cooling, round, stream, forced, bounds>>

\* Rule 5: an open request that is gone the next time is taken for a blip.
IsBlip(result) == cache # NoStatus /\ cache.state = "open" /\ result = NoPr

\* Mutant: only a poll that came to a status is followed by another.
KeptOnce(result) ==
    CASE result \in {NotReady, Deferred} -> IdleWorker
      [] result \in Status /\ IsBlip(result) -> At("check", NotReady)
      [] result \in Status /\ ~IsBlip(result) -> At("emit", result)

\* Where a worker goes on with a result that is not stale.
Kept(result) ==
    CASE result \in {NotReady, Deferred} -> At("requeue", NotReady)
      [] result \in Status /\ IsBlip(result) -> At("check", NotReady)
      [] result \in Status /\ ~IsBlip(result) -> At("emit", result)

\* The rest of _poll_and_handle_result up to _emit_status.
Digest(w) ==
    LET me == worker[w]
        object == ObjectOf(me)
        stale == object.generation # me.generation \/ object.deleted
    IN
    /\ me.at = "cleared"
    /\ worker' = [worker EXCEPT ![w] = IF stale THEN IdleWorker ELSE Kept(me.result)]
    /\ UNCHANGED <<world, state, jobs, pending, cache, matched, cooling, round, stream, forced, bounds>>

Emit(w) ==
    /\ worker[w].at = "emit"
    /\ EmitStatus(worker[w].result)
    /\ worker' = [worker EXCEPT ![w] = At("check", NotReady)]
    /\ UNCHANGED <<world, state, jobs, pending, matched, cooling, round, stream, forced, bounds>>

\* A workspace that the round matches needs no job of its own.
LeaveToRound(w) ==
    /\ worker[w].at = "check" /\ matched
    /\ worker' = [worker EXCEPT ![w] = IdleWorker]
    /\ UNCHANGED <<world, state, jobs, pending, cache, matched, cooling, round, stream, forced, bounds>>

Requeue(w) ==
    /\ \/ worker[w].at = "requeue"
       \/ worker[w].at = "check" /\ ~matched
    /\ EnqueueLater
    /\ worker' = [worker EXCEPT ![w] = IdleWorker]
    /\ UNCHANGED <<world, state, cache, matched, cooling, round, stream, forced, bounds>>

WorkerStep(w) ==
    \/ Dequeue(w) \/ ComesDue(w) \/ PutBack(w)
    \/ SkipDisabled(w) \/ StartPoll(w) \/ Fetch(w) \/ FetchFails(w)
    \/ ClearPending(w) \/ Digest(w) \/ Emit(w) \/ LeaveToRound(w) \/ Requeue(w)
-----------------------------------------------------------------------------
(* The round driver: _round_loop.                                          *)

\* _resolve_round_candidate: a candidate, a status without a search, or neither.
StartRound ==
    LET object == Resolved(state)
        candidate(place, result) == [at |-> place, branch |-> head, target |-> object.target, result |-> result]
    IN
    /\ round.at = "idle" /\ enabled /\ ~state.deleted
    /\ state' = object
    /\ round' = CASE ~object.dir -> round
                  [] object.dir /\ head = object.target -> candidate("emit", NoPr)
                  [] object.dir /\ head # object.target -> candidate("search", NotReady)
    /\ UNCHANGED <<world, jobs, pending, cache, matched, cooling, worker, stream, forced, bounds>>

\* The branch has an open request: the round takes the workspace over.
Match ==
    /\ matched' = TRUE
    /\ round' = [at |-> "emit", branch |-> Base, target |-> Base,
                 result |-> StatusFor(round.branch, round.target)]
    /\ UNCHANGED <<jobs, pending, worker>>

\* Mutant: a request that is gone is left to the poll that will come anyway.
FallBackIdle ==
    /\ matched' = FALSE
    /\ round' = IdleRound
    /\ UNCHANGED <<jobs, pending, worker>>

\* It has none: a worker is to look closer.
FallBack ==
    /\ matched' = FALSE
    /\ EnqueueNow
    /\ round' = IdleRound

\* _run_host_round: fetch_open_prs_for_token and what its answer comes to.
Search ==
    /\ round.at = "search" /\ ~cooling
    /\ IF request[round.branch] = "open" THEN Match ELSE FallBack
    /\ UNCHANGED <<world, state, cache, cooling, stream, forced, bounds>>

SkipSearch ==
    /\ round.at = "search" /\ cooling
    /\ round' = IdleRound
    /\ UNCHANGED <<world, state, jobs, pending, cache, matched, cooling, worker, stream, forced, bounds>>

\* _handle_round_failure; or the index drops the request out for once.
SearchFails ==
    /\ round.at = "search" /\ ~cooling /\ failures < MaxFailures
    /\ \/ /\ round' = IdleRound /\ cooling' \in BOOLEAN
          /\ UNCHANGED <<matched, jobs, pending, worker>>
       \/ FallBack /\ UNCHANGED cooling
    /\ failures' = failures + 1
    /\ UNCHANGED <<world, state, cache, stream, forced, changes, links>>

EmitRound ==
    /\ round.at = "emit"
    /\ EmitStatus(round.result)
    /\ round' = IdleRound
    /\ UNCHANGED <<world, state, jobs, pending, matched, cooling, worker, stream, forced, bounds>>

RoundStep == StartRound \/ Search \/ SkipSearch \/ SearchFails \/ EmitRound

\* The cooldown's time is over.
CoolDown ==
    /\ cooling
    /\ cooling' = FALSE
    /\ UNCHANGED <<world, state, jobs, pending, cache, matched, worker, round, stream, forced, bounds>>
-----------------------------------------------------------------------------
(* A stream thread: stream_everything and _notify_pr_polling_service.      *)

\* add_observer of the scanner, and the dump of the rows.
Connect(s) ==
    LET branches == IF scanned = NoBranch THEN <<>> ELSE <<[kind |-> "branch", branch |-> scanned]>>
        rows == IF row.deleted THEN <<>> ELSE <<[kind |-> "row", row |-> row]>>
    IN
    /\ ~stream[s].on /\ links < MaxLinks
    /\ stream' = [stream EXCEPT ![s] = [@ EXCEPT !.on = TRUE, !.inbox = branches \o rows]]
    /\ links' = links + 1
    /\ UNCHANGED <<world, state, jobs, pending, cache, matched, cooling, worker, round, forced, changes, failures>>

\* The client goes, whatever is in the queue.
Disconnect(s) ==
    /\ stream[s].on /\ stream[s].at = "idle" /\ links < MaxLinks
    /\ stream' = [stream EXCEPT ![s] = ClosedStream]
    /\ links' = links + 1
    /\ UNCHANGED <<world, state, jobs, pending, cache, matched, cooling, worker, round, forced, changes, failures>>

\* The next item is of this kind, and the stream when it is done with it.
Handling(s, kind) ==
    stream[s].at = "idle" /\ stream[s].inbox # <<>> /\ Head(stream[s].inbox).kind = kind
Handled(s) == [stream[s] EXCEPT !.inbox = Tail(@), !.at = "idle"]

\* The first branch: on_workspace_ready.
NotifyReady(s) ==
    /\ Handling(s, "branch") /\ stream[s].last = NoBranch
    /\ stream' = [stream EXCEPT ![s] = [Handled(s) EXCEPT !.last = Head(stream[s].inbox).branch]]
    /\ EnqueueNow
    /\ UNCHANGED <<world, state, cache, matched, cooling, round, forced, bounds>>

NotifySameBranch(s) ==
    /\ Handling(s, "branch") /\ stream[s].last = Head(stream[s].inbox).branch
    /\ stream' = [stream EXCEPT ![s] = Handled(s)]
    /\ UNCHANGED <<world, state, jobs, pending, cache, matched, cooling, worker, round, forced, bounds>>

\* on_branch_changed up to its _enqueue, when this is the workspace's object.
Invalidate(object) ==
    /\ state' = [object EXCEPT !.generation = @ + 1]
    /\ cache' = NoStatus
    /\ matched' = FALSE
    /\ pending' = FALSE
    /\ forced' = forced + 1

\* Another branch: on_branch_changed.
NotifyBranch(s) ==
    LET branch == Head(stream[s].inbox).branch IN
    /\ Handling(s, "branch") /\ stream[s].last \notin {NoBranch, branch}
    /\ Invalidate(state)
    /\ stream' = [stream EXCEPT ![s] = [@ EXCEPT !.last = branch, !.at = "enqueue"]]
    /\ UNCHANGED <<world, jobs, cooling, worker, round, bounds>>

\* The _enqueue after it, which may find a job put in between.
ForceEnqueue(s) ==
    /\ stream[s].at = "enqueue"
    /\ EnqueueNow
    /\ stream' = [stream EXCEPT ![s] = Handled(s)]
    /\ UNCHANGED <<world, state, cache, matched, cooling, round, forced, bounds>>

\* on_workspace_created: every update of the row makes a new object.  A worker
\* at work keeps the old one.
NotifyRow(s) ==
    LET new == Head(stream[s].inbox).row IN
    /\ Handling(s, "row") /\ ~new.deleted
    /\ worker' = [w \in Worker |->
           IF worker[w].object = Latest /\ worker[w].at \in HoldingAJob \cup {"cleared"}
           THEN [worker[w] EXCEPT !.object = state]
           ELSE worker[w]]
    /\ \/ /\ state.target # new.target
          /\ Invalidate(PollStateOf(new))
          /\ stream' = [stream EXCEPT ![s].at = "enqueue"]
       \/ /\ state.target = new.target /\ ~state.open /\ new.open
          /\ state' = PollStateOf(new)
          /\ pending' = FALSE /\ forced' = forced + 1
          /\ stream' = [stream EXCEPT ![s].at = "enqueue"]
          /\ UNCHANGED <<cache, matched>>
       \/ /\ state.target = new.target /\ (state.open \/ ~new.open)
          /\ state' = PollStateOf(new)
          /\ stream' = [stream EXCEPT ![s] = Handled(s)]
          /\ UNCHANGED <<cache, matched, pending, forced>>
    /\ UNCHANGED <<world, jobs, cooling, round, bounds>>

\* on_workspace_deleted.
NotifyDeleted(s) ==
    /\ Handling(s, "row") /\ Head(stream[s].inbox).row.deleted
    /\ state' = [state EXCEPT !.deleted = TRUE]
    /\ cache' = NoStatus
    /\ matched' = FALSE
    /\ stream' = [stream EXCEPT ![s] = Handled(s)]
    /\ UNCHANGED <<world, jobs, pending, cooling, worker, round, forced, bounds>>

StreamStep(s) ==
    \/ NotifyReady(s) \/ NotifySameBranch(s) \/ NotifyBranch(s) \/ ForceEnqueue(s)
    \/ NotifyRow(s) \/ NotifyDeleted(s)
-----------------------------------------------------------------------------
(* The environment.                                                        *)

\* WorkspaceBranchPoller._scan_once: publishes another branch, forgets a
\* deleted workspace.
Scan ==
    /\ IF row.deleted
       THEN scanned # NoBranch /\ scanned' = NoBranch /\ UNCHANGED stream
       ELSE /\ cloned /\ scanned # head
            /\ scanned' = head
            /\ stream' = Post(stream, [kind |-> "branch", branch |-> head])
    /\ UNCHANGED <<head, cloned, row, request, enabled, state, jobs, pending, cache, matched,
                   cooling, worker, round, forced, bounds>>

\* A scan that cannot read the directory forgets the workspace (_prune).
ScanFails ==
    /\ failures < MaxFailures
    /\ scanned # NoBranch
    /\ scanned' = NoBranch
    /\ failures' = failures + 1
    /\ UNCHANGED <<head, cloned, row, request, enabled, state, jobs, pending, cache, matched,
                   cooling, worker, round, stream, forced, changes, links>>

Change ==
    /\ changes < MaxChanges
    /\ changes' = changes + 1
    /\ UNCHANGED <<scanned, state, jobs, pending, cache, matched, cooling, worker, round, forced, links, failures>>

SwitchBranch ==
    /\ Change
    /\ cloned
    /\ head' \in Branch \ {head}
    /\ UNCHANGED <<cloned, row, request, enabled, stream>>

\* The row is updated or deleted, and the streams are told.
UpdateRow ==
    /\ Change
    /\ ~row.deleted
    /\ row' \in [target : {row.target}, open : {~row.open}, deleted : {FALSE}]
                 \cup [target : Branch \ {row.target}, open : {row.open}, deleted : {FALSE}]
                 \cup {[row EXCEPT !.deleted = TRUE]}
    /\ stream' = Post(stream, [kind |-> "row", row |-> row'])
    /\ UNCHANGED <<head, cloned, request, enabled>>

\* A request is opened, or merged; none ever disappears.
ChangeRequest ==
    /\ Change
    /\ \E b \in Branch \ {Base} :
          request' = [request EXCEPT ![b] = CASE @ = "none" -> "open" [] OTHER -> "merged"]
    /\ request' # request
    /\ UNCHANGED <<head, cloned, row, enabled, stream>>

ToggleSetting ==
    /\ Change
    /\ enabled' = ~enabled
    /\ UNCHANGED <<head, cloned, row, request, stream>>

\* The environment is initialised: the row's environment_id is set.
Clone ==
    /\ ~cloned /\ ~row.deleted
    /\ cloned' = TRUE
    /\ stream' = Post(stream, [kind |-> "row", row |-> row])
    /\ UNCHANGED <<head, row, request, enabled, scanned, state, jobs, pending, cache, matched,
                   cooling, worker, round, forced, bounds>>

Next ==
    \/ \E w \in Worker : WorkerStep(w)
    \/ JobComesDue
    \/ RoundStep
    \/ CoolDown
    \/ \E s \in Stream : StreamStep(s) \/ Connect(s) \/ Disconnect(s)
    \/ Scan \/ ScanFails
    \/ SwitchBranch \/ UpdateRow \/ ChangeRequest \/ ToggleSetting \/ Clone

\* The service's threads run, calls return, time passes and the scanner scans.
Fairness ==
    /\ \A w \in Worker : WF_vars(WorkerStep(w))
    /\ WF_vars(JobComesDue)
    /\ WF_vars(RoundStep)
    /\ WF_vars(CoolDown)
    /\ \A s \in Stream : WF_vars(StreamStep(s))
    /\ WF_vars(Scan)

Spec == Init /\ [][Next]_vars
FairSpec == Spec /\ Fairness
-----------------------------------------------------------------------------
(* Properties.                                                             *)

Holders == {w \in Worker : worker[w].at \in HoldingAJob}
Jobs == jobs.due + jobs.later + Cardinality(Holders)

\* _enqueue drops a job while the workspace is in _pending.  So whenever it is,
\* a job for it is in the queue or with a worker that has yet to clear the
\* mark: a mark that outlived its job would end the workspace's polling.
PendingIsBacked == pending => Jobs > 0

\* Every job is put for the one before it, or by a forced or first poll: the
\* workspace is never without a job, a worker about to put one, or a stream
\* about to, unless it is deleted or the round driver has taken it over.
NeverAbandoned ==
    \/ Jobs > 0
    \/ \E w \in Worker : worker[w].at \in {"cleared", "emit", "check", "requeue"}
    \/ \E s \in Stream : stream[s].at = "enqueue"
    \/ matched
    \/ state.deleted \/ row.deleted

\* A forced poll (on_branch_changed, a reopened workspace) is put past the
\* mark, and leaves one more job that comes again and again.  Nothing else
\* adds to the jobs: no round, no worker and no first poll.
OnlyForcedPollsAddUp == Jobs <= 1 + forced

\* What GitHub would say of the workspace as it is.
Truth == IF head = row.target THEN NoPr ELSE StatusFor(head, row.target)

\* Once the world is at rest, the cache comes to the truth, whatever polls,
\* rounds, failures and changes crossed before: with one exception, an open
\* request that stays because every later poll that finds none is a blip.
CacheComesToTheTruth ==
    <>[](enabled /\ cloned /\ ~row.deleted /\ \E s \in Stream : stream[s].on)
        => <>[](\/ cache = Truth
                \/ /\ cache # NoStatus /\ cache.state = "open"
                   /\ Truth = NoPr /\ head # row.target)

\* "Mark workspace as deleted so workers skip it": once the service knows, the
\* jobs come to an end, those with workers that hold an older state as well.
DeletedIsLeftAlone == <>[]state.deleted => <>[](Jobs = 0)
=============================================================================
