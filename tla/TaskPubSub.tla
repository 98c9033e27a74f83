---------------------------- MODULE TaskPubSub ----------------------------
(***************************************************************************)
(* How the messages of one task reach those who listen: the cache and the  *)
(* listener lists of BaseTaskService, the callbacks that publish after a   *)
(* commit, and the stream that a browser or the CLI follows.               *)
(*                                                                         *)
(* A transaction that makes a message commits first and publishes later,   *)
(* from its own thread; two threads may publish in the other order.  One   *)
(* lock guards the cache and the lists.  There are two kinds of listener:  *)
(*                                                                         *)
(*   - of one task's messages (_subscribe_to_task: the agent's input, a    *)
(*     request that awaits an answer).  Its history is the cache's own     *)
(*     list, read on after the lock is released;                           *)
(*   - of task containers (_scoped_task_container_subscription, the        *)
(*     streams of web/streams.py).  Its history is copied under the lock,  *)
(*     and put into its queue after the lock is released.                  *)
(***************************************************************************)
EXTENDS Naturals, FiniteSets, Sequences, SequencesExt

CONSTANTS
    Writer,        \* threads that commit messages or the deletion of the task
    TaskSub,       \* listeners of the task's messages
    Follower,      \* streams in the scope of the agent
    NoMessage,
    MaxCommits,    \* bound: messages made
    MaxRestarts    \* bound: times the process is started again

ASSUME PubSubAssumption ==
    /\ TaskSub \cap Follower = {}
    /\ MaxCommits \in Nat
    /\ MaxRestarts \in Nat
    /\ NoMessage \notin Nat

Sub == TaskSub \cup Follower

Message == 1 .. MaxCommits

VARIABLES
    log,        \* the messages made, in commit order: "saved" or "ephemeral"
    lost,       \* ephemeral messages that a restart forgot
    deleted,    \* the row's is_deleted, committed
    writer,     \* thread -> which callback it still has to run, for which message
    cached,     \* _messages_by_task_id has an entry for the task
    cache,      \* that entry: messages in the order of their publication
    pc,         \* listener -> where it stands
    history,    \* listener -> the list it read under the lock
    aliased,    \* listener -> that list is the cache's own and still grows with it
    copied,     \* listener -> how much of the list it has put into its queue
    seen,       \* listener -> the messages put into its queue, in order
    unread,     \* follower -> its queue holds something
    notice,     \* follower -> ... among it the task as deleted
    restarts    \* bound

tableVars    == <<log, lost, deleted>>
cacheVars    == <<cached, cache>>
listenerVars == <<pc, history, aliased, copied, seen, unread, notice>>
vars == <<tableVars, writer, cacheVars, listenerVars, restarts>>

Callback == {"none", "publish", "publishDeleted", "cleanup"}

\* "resolved": the scope was found; "copying": registered, history outstanding;
\* "dump": before the initial state is sent; "following"; "closed".
SubPC == {"idle", "resolved", "copying", "dump", "following", "closed"}

TypeOK ==
    /\ log \in Seq({"saved", "ephemeral"}) /\ Len(log) <= MaxCommits
    /\ lost \subseteq Message
    /\ deleted \in BOOLEAN
    /\ writer \in [Writer -> [todo : Callback, message : Message \cup {NoMessage}]]
    /\ cached \in BOOLEAN
    /\ cache \in Seq(Message)
    /\ pc \in [Sub -> SubPC]
    /\ history \in [Sub -> Seq(Message)]
    /\ aliased \in [Sub -> BOOLEAN]
    /\ copied \in [Sub -> Nat]
    /\ seen \in [Sub -> Seq(Message)]
    /\ unread \in [Follower -> BOOLEAN]
    /\ notice \in [Follower -> BOOLEAN]
    /\ restarts \in 0 .. MaxRestarts

Idle == [todo |-> "none", message |-> NoMessage]

\* The task's row is there (the first message is made with it) and not deleted.
Visible == log # <<>> /\ ~deleted

Init ==
    /\ log = <<>>
    /\ lost = {}
    /\ deleted = FALSE
    /\ writer = [w \in Writer |-> Idle]
    /\ cached = FALSE
    /\ cache = <<>>
    /\ pc = [s \in Sub |-> "idle"]
    /\ history = [s \in Sub |-> <<>>]
    /\ aliased = [s \in Sub |-> FALSE]
    /\ copied = [s \in Sub |-> 0]
    /\ seen = [s \in Sub |-> <<>>]
    /\ unread = [s \in Follower |-> FALSE]
    /\ notice = [s \in Follower |-> FALSE]
    /\ restarts = 0

-----------------------------------------------------------------------------
(* Writers *)

NewMessage == Len(log) + 1

\* create_message and the commit (of the task itself, the first time): only
\* for a task that is not deleted.
Commit(w, kind) ==
    /\ writer[w] = Idle
    /\ ~deleted
    /\ Len(log) < MaxCommits
    /\ log' = Append(log, kind)
    /\ writer' = [writer EXCEPT ![w] = [todo |-> "publish", message |-> NewMessage]]
    /\ UNCHANGED <<lost, deleted, cacheVars, listenerVars, restarts>>

\* _finalize_task_as_deleted and the commit.
CommitDeletion(w) ==
    /\ writer[w] = Idle
    /\ Visible
    /\ deleted' = TRUE
    /\ writer' = [writer EXCEPT ![w] = [todo |-> "publishDeleted", message |-> NoMessage]]
    /\ UNCHANGED <<log, lost, cacheVars, listenerVars, restarts>>

\* Mutant: a listener joins the list only when it has its history.
ListeningWithHistory(s) == pc[s] \in {"dump", "following"}

\* In the list of listeners.
Listening(s) == pc[s] \in {"copying", "dump", "following"}

\* _publish_task_update, all of it under the lock.
Publish(w) ==
    LET m == writer[w].message IN
    /\ writer[w].todo = "publish"
    /\ cached' = TRUE
    /\ cache' = Append(cache, m)
    /\ history' = [s \in Sub |-> IF aliased[s] THEN Append(history[s], m) ELSE history[s]]
    /\ seen' = [s \in Sub |-> IF Listening(s) THEN Append(seen[s], m) ELSE seen[s]]
    /\ unread' = [s \in Follower |-> unread[s] \/ Listening(s)]
    /\ writer' = [writer EXCEPT ![w] = Idle]
    /\ UNCHANGED <<tableVars, pc, aliased, copied, notice, restarts>>

\* The same without a message: the row, now deleted, goes to the containers.
PublishDeleted(w) ==
    /\ writer[w].todo = "publishDeleted"
    /\ unread' = [s \in Follower |-> unread[s] \/ Listening(s)]
    /\ notice' = [s \in Follower |-> notice[s] \/ Listening(s)]
    /\ writer' = [writer EXCEPT ![w].todo = "cleanup"]
    /\ UNCHANGED <<tableVars, cacheVars, pc, history, aliased, copied, seen, restarts>>

\* _cleanup_task_caches: whoever still reads the old list keeps it.
Cleanup(w) ==
    /\ writer[w].todo = "cleanup"
    /\ cached' = FALSE
    /\ cache' = <<>>
    /\ aliased' = [s \in Sub |-> FALSE]
    /\ writer' = [writer EXCEPT ![w] = Idle]
    /\ UNCHANGED <<tableVars, pc, history, copied, seen, unread, notice, restarts>>

-----------------------------------------------------------------------------
(* Listeners of one task *)

\* Under the lock: register, and take the cache's own list.
SubscribeToTask(s) ==
    /\ pc[s] = "idle"
    /\ log # <<>>
    /\ pc' = [pc EXCEPT ![s] = "copying"]
    /\ history' = [history EXCEPT ![s] = cache]
    /\ aliased' = [aliased EXCEPT ![s] = cached]
    /\ UNCHANGED <<tableVars, writer, cacheVars, copied, seen, unread, notice, restarts>>

\* After it: `for message in messages', which sees the list as it is by now.
CopyNext(s) ==
    /\ pc[s] = "copying"
    /\ copied[s] < Len(history[s])
    /\ copied' = [copied EXCEPT ![s] = @ + 1]
    /\ seen' = [seen EXCEPT ![s] = Append(@, history[s][copied[s] + 1])]
    /\ UNCHANGED <<tableVars, writer, cacheVars, pc, history, aliased, unread, notice, restarts>>

\* The list is of no more use.
Release(s) ==
    /\ history' = [history EXCEPT ![s] = <<>>]
    /\ aliased' = [aliased EXCEPT ![s] = FALSE]
    /\ copied' = [copied EXCEPT ![s] = 0]

CopyDone(s) ==
    /\ pc[s] = "copying"
    /\ copied[s] = Len(history[s])
    /\ pc' = [pc EXCEPT ![s] = "following"]
    /\ Release(s)
    /\ UNCHANGED <<tableVars, writer, cacheVars, seen, unread, notice, restarts>>

-----------------------------------------------------------------------------
(* Followers: web/streams.py in the scope of the agent *)

\* resolve_scope, in a transaction of its own.
Resolve(s) ==
    /\ pc[s] = "idle"
    /\ Visible
    /\ pc' = [pc EXCEPT ![s] = "resolved"]
    /\ UNCHANGED <<tableVars, writer, cacheVars, history, aliased, copied, seen, unread,
                   notice, restarts>>

\* Under the lock: register, and copy the cache of the tasks the table lists.
SubscribeToContainers(s) ==
    /\ pc[s] = "resolved"
    /\ pc' = [pc EXCEPT ![s] = "copying"]
    /\ history' = [history EXCEPT ![s] = IF Visible THEN cache ELSE <<>>]
    /\ UNCHANGED <<tableVars, writer, cacheVars, aliased, copied, seen, unread, notice,
                   restarts>>

\* Mutant: the first container is built from the cache as it is by now.
SeedFromLiveCache(s) == cache

\* The first container is built from what was copied.
Seed(s) == history[s]

\* After the lock: the first container is put.
PutSeed(s) ==
    /\ pc[s] = "copying"
    /\ pc' = [pc EXCEPT ![s] = "dump"]
    /\ seen' = [seen EXCEPT ![s] = @ \o Seed(s)]
    /\ unread' = [unread EXCEPT ![s] = TRUE]
    /\ Release(s)
    /\ UNCHANGED <<tableVars, writer, cacheVars, notice, restarts>>

\* stream_everything drains the queue into the initial state, whatever it holds.
SendInitialState(s) ==
    /\ pc[s] = "dump"
    /\ pc' = [pc EXCEPT ![s] = "following"]
    /\ unread' = [unread EXCEPT ![s] = FALSE]
    /\ notice' = [notice EXCEPT ![s] = FALSE]
    /\ UNCHANGED <<tableVars, writer, cacheVars, history, aliased, copied, seen, restarts>>

\* Then it drains again and again, and ends when the task came as deleted.
SendUpdate(s) ==
    /\ pc[s] = "following"
    /\ unread[s]
    /\ pc' = [pc EXCEPT ![s] = IF notice[s] THEN "closed" ELSE "following"]
    /\ seen' = [seen EXCEPT ![s] = IF notice[s] THEN <<>> ELSE @]
    /\ unread' = [unread EXCEPT ![s] = FALSE]
    /\ notice' = [notice EXCEPT ![s] = FALSE]
    /\ UNCHANGED <<tableVars, writer, cacheVars, history, aliased, copied, restarts>>

\* The subscriber is done, or its connection is gone.
Unsubscribe(s) ==
    /\ pc[s] = "following"
    /\ pc' = [pc EXCEPT ![s] = "closed"]
    /\ seen' = [seen EXCEPT ![s] = <<>>]
    /\ unread' = [u \in Follower |-> unread[u] /\ u # s]
    /\ notice' = [u \in Follower |-> notice[u] /\ u # s]
    /\ UNCHANGED <<tableVars, writer, cacheVars, history, aliased, copied, restarts>>

-----------------------------------------------------------------------------
(* Restart *)

Saved == {m \in 1 .. Len(log) : log[m] = "saved"}

\* Mutant: start() leaves the cache empty.
ReloadedNothing == {<<>>}

\* start(): the saved messages of the tasks that are not deleted, in the order
\* of their creation times, which were taken before the commits and may tie.
Reloaded == {q \in [1 .. Cardinality(Saved) -> Saved] : IsInjective(q) /\ ToSet(q) = Saved}

\* The process dies and is started again: callbacks that had not run never
\* run, ephemeral messages are gone.
Restart ==
    /\ restarts < MaxRestarts
    /\ restarts' = restarts + 1
    /\ lost' = (1 .. Len(log)) \ Saved
    /\ cached' = Visible
    /\ cache' \in IF Visible THEN Reloaded ELSE {<<>>}
    /\ writer' = [w \in Writer |-> Idle]
    /\ pc' = [s \in Sub |-> "idle"]
    /\ history' = [s \in Sub |-> <<>>]
    /\ aliased' = [s \in Sub |-> FALSE]
    /\ copied' = [s \in Sub |-> 0]
    /\ seen' = [s \in Sub |-> <<>>]
    /\ unread' = [s \in Follower |-> FALSE]
    /\ notice' = [s \in Follower |-> FALSE]
    /\ UNCHANGED <<log, deleted>>

-----------------------------------------------------------------------------
(* The specification *)

\* Mutant: create_message adds no callback.
PublishOnlyDeletion(w) == PublishDeleted(w) \/ Cleanup(w)

\* The callbacks a commit left to its thread.
CallbackStep(w) == Publish(w) \/ PublishDeleted(w) \/ Cleanup(w)

Subscribe ==
    \/ \E s \in TaskSub : SubscribeToTask(s)
    \/ \E s \in Follower : Resolve(s)

ListenerStep(s) ==
    \/ s \in TaskSub /\ (CopyNext(s) \/ CopyDone(s))
    \/ s \in Follower /\ (\/ SubscribeToContainers(s)
                          \/ PutSeed(s)
                          \/ SendInitialState(s)
                          \/ SendUpdate(s))

Next ==
    \/ \E w \in Writer :
          \/ \E kind \in {"saved", "ephemeral"} : Commit(w, kind)
          \/ CommitDeletion(w)
          \/ CallbackStep(w)
    \/ Subscribe
    \/ \E s \in Sub : ListenerStep(s) \/ Unsubscribe(s)
    \/ Restart

Spec == Init /\ [][Next]_vars

\* Threads go on; nobody has to write, subscribe, leave or restart.
Fairness ==
    /\ \A w \in Writer : WF_vars(CallbackStep(w))
    /\ \A s \in Sub : WF_vars(ListenerStep(s))

FairSpec == Spec /\ Fairness

-----------------------------------------------------------------------------
(* Properties *)

Settled(s) == pc[s] \in {"dump", "following"}

\* A listener that has its history misses nothing that the cache holds, in
\* whichever order registration, history and publications fell.
NothingIsMissed ==
    ~deleted => \A s \in Sub : Settled(s) => ToSet(cache) \subseteq ToSet(seen[s])

\* A stream of containers brings every message once: the copy made under the
\* lock and the publications after it share none.
FollowersSeeOnce == \A s \in Follower : IsInjective(seen[s])

\* A saved message that no callback still has to publish is in the cache, even
\* if the process died between its commit and its publication.
Pending(m) == \E w \in Writer : writer[w].todo = "publish" /\ writer[w].message = m

CacheIsComplete ==
    ~deleted => \A m \in Saved : Pending(m) \/ m \in ToSet(cache)

\* A message made while somebody listens reaches that listener, unless the
\* listener leaves, the task is deleted or the process dies.
EveryMessageArrives ==
    \A s \in Sub, m \in Message :
        (m <= Len(log) /\ m \notin lost /\ Listening(s))
            ~> (m \in ToSet(seen[s]) \/ ~Listening(s) \/ deleted)

\* What a listener has, or has still to copy from the list it read.
Outstanding(s) == {history[s][i] : i \in copied[s] + 1 .. Len(history[s])}
Has(s) == ToSet(seen[s]) \cup Outstanding(s)

Feed ==
    INSTANCE MessageFeed
        WITH Listener <- Sub,
             made <- 1 .. Len(log),
             kept <- Saved,
             pending <- {m \in Message : Pending(m)},
             published <- ToSet(cache),
             over <- deleted,
             joined <- {s \in Sub : Listening(s)},
             known <- [s \in Sub |-> IF Listening(s) THEN Has(s) ELSE {}]

\* The service keeps the promise of MessageFeed: wherever a listener stands
\* between its registration and the end of its history when messages are
\* published, it is as if it had joined in one step, and it has the saved
\* messages of before a restart too.
ImplementsFeed == Feed!Spec

=============================================================================
