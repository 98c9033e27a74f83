----------------------------- MODULE TaskStore -----------------------------
(***************************************************************************)
(* The agents ("tasks") as the window keeps them: the query cache that the  *)
(* unified stream fills, the optimistic mutations that write it before the  *)
(* server has answered, the trackers that hold a request back until the     *)
(* stream has acknowledged it, and the rollbacks.                           *)
(*                                                                          *)
(* The server is what the window sees of it: a row per agent, requests that *)
(* commit or are refused, and a stream that sends one dump of the live      *)
(* agents when it is subscribed and then every change and acknowledgement,  *)
(* in the order of the commits, while it stays open.  The requests are the  *)
(* ids of makeRequestId: each is used once.                                 *)
(***************************************************************************)
EXTENDS Integers, Sequences, SequencesExt, FiniteSets

CONSTANTS Agents,    \* the agents of the user
          Requests,  \* request ids
          Titles,    \* names an agent may have
          MaxTurn,   \* bound: how often an agent's updatedAt advances
          MaxDrops,  \* bound: how often the socket closes
          Absent,    \* no entry in the cache (the query has no data)
          Gone,      \* the null tombstone, and the deleted row
          NoRequest, \* an item of the stream that acknowledges nothing
  Fresh,     \* a request id not used yet
  Settled,   \* a request id used up
  NoTitle    \* the title of a request that gives none

ASSUME BoundsAssumption == MaxTurn \in Nat /\ MaxDrops \in Nat

VARIABLES
  server,    \* agent -> its view, or Gone
  stream,    \* "closed", "opening" (open, not subscribed yet) or "open"
  wire,      \* what the stream has sent and the window not yet handled
  drops,     \* how often the socket has closed
  cache,     \* agent -> view, Gone or Absent: the query cache
  ids,       \* the agents of the ids list
  override,  \* agent -> what its "Mark as unread" override waits for
  request,   \* request id -> Fresh, Settled or the state of the request
  crossed,   \* history: agents whose optimistic writes have overlapped
  unheard    \* history: agents deleted of which no tombstone has arrived

storeVars == <<server, stream, wire, drops, cache, ids, override, request,
               crossed, unheard>>

Never == -1                     \* lastReadAt = null
Turns == 0 .. MaxTurn           \* updatedAt

Views == [title : Titles, readAt : Turns \cup {Never}, turn : Turns,
          status : {"idle", "busy"}]

Kinds == {"read", "unread", "rename", "delete"}

NoOverride == [on |-> "nothing", turn |-> 0]
Overrides == {NoOverride, [on |-> "runCompletion", turn |-> 0]}
               \cup [on : {"nextTurn"}, turn : Turns]

\* A request under way.  web: what the server has made of it; client: whether
\* the answer is still awaited, or came and the tracker is awaited; tracker:
\* "none" (skipWsAck, or the stream was down), "waiting", "acked" or "late".
UnderWay == [kind : Kinds, agent : Agents, title : Titles \cup {NoTitle},
             prev : Views \cup {Gone, Absent}, touched : BOOLEAN,
             web : {"pending", "done", "refused", "gone"},
             client : {"waiting", "answered", "settled"},
             tracker : {"none", "waiting", "acked", "late"}]

ASSUME MarksAssumption ==
  /\ Absent # Gone /\ Absent \notin Views /\ Gone \notin Views
  /\ Fresh \notin UnderWay /\ Settled \notin UnderWay /\ Fresh # Settled
  /\ NoRequest \notin Requests

Item(views, r) == [views |-> views, ack |-> r]
NoViews == [a \in {} |-> Gone]
Items == [views : UNION {[S -> Views \cup {Gone}] : S \in SUBSET Agents},
          ack : Requests \cup {NoRequest}]

IsUnderWay(r) == request[r] \notin {Fresh, Settled}
Awaited(r) == IsUnderWay(r) /\ request[r].client # "settled"

Push(items) == IF stream = "open" THEN wire \o items ELSE wire

(***************************************************************************)
(* Optimistic writes.  The context of a mutation is the snapshot it         *)
(* replaced and the sync version at that time; touched stands for the       *)
(* version having moved since.                                              *)
(***************************************************************************)
IsMidRun(view) == view.status = "busy"

\* isUnreadOverrideActive: whether the override is in force for this view.
OverrideActive(a, view) ==
  \/ override[a].on = "runCompletion"
  \/ override[a].on = "nextTurn" /\ override[a].turn = view.turn

\* Mutant: an override set during a run expires with its next tick.
OverrideByTurn(view) == [on |-> "nextTurn", turn |-> view.turn]

\* setUnreadOverride, keyed to the view before the flip.
OverrideFor(view) ==
  IF IsMidRun(view) THEN [on |-> "runCompletion", turn |-> 0]
                    ELSE [on |-> "nextTurn", turn |-> view.turn]

\* What a mutation of this kind makes of a view: ahead of the answer in the
\* window, and on the server when it commits.
Optimistic(kind, view, title) ==
  CASE kind = "read"    -> [view EXCEPT !.readAt = view.turn]
    [] kind = "unread"  -> [view EXCEPT !.readAt = Never]
    [] kind = "rename"  -> [view EXCEPT !.title = title]
    [] kind = "delete"  -> Gone

\* createRequestTracker: a deletion skips the acknowledgement, and nobody
\* waits for one while the stream is down.
NewTracker(kind) ==
  IF kind = "delete" \/ stream = "closed" THEN "none" ELSE "waiting"

\* onMutate and the request; overrides are those in force when it runs.
Mutate(r, kind, a, title, overrides) ==
  LET prev == cache[a]
      writes == prev \in Views
  IN /\ request[r] = Fresh
     /\ request' = [request EXCEPT ![r] =
          [kind |-> kind, agent |-> a, title |-> title, prev |-> prev,
           touched |-> FALSE, web |-> "pending", client |-> "waiting",
           tracker |-> NewTracker(kind)]]
     /\ cache' = IF writes
                 THEN [cache EXCEPT ![a] = Optimistic(kind, prev, title)]
                 ELSE cache
     /\ ids' = IF writes /\ kind = "delete" THEN ids \ {a} ELSE ids
     /\ override' = IF writes /\ kind = "unread"
                    THEN [overrides EXCEPT ![a] = OverrideFor(prev)]
                    ELSE overrides
     /\ crossed' = IF writes /\ \E q \in Requests :
                         /\ Awaited(q) /\ request[q].agent = a
                         /\ request[q].prev \in Views /\ ~request[q].touched
                   THEN crossed \cup {a} ELSE crossed
     /\ UNCHANGED <<server, stream, wire, drops, unheard>>

\* Mutant: the snapshot comes back whatever a frame has written since.
RestoresAlways(q) == q.prev \in Views

\* rollbackOptimisticTaskUpdate and rollbackOptimisticTaskDelete: the snapshot
\* comes back unless nothing was written or a frame has written the agent.
Restores(q) == q.prev \in Views /\ ~q.touched

\* The request has its result: success writes nothing, failure rolls back.
\* survives: the server has the request and may still carry it out.
Settle(r, ok, survives) ==
  LET q == request[r]
      back == ~ok /\ Restores(q)
  IN /\ request' = [request EXCEPT ![r] =
                      IF survives THEN [q EXCEPT !.client = "settled",
                                                 !.tracker = "none",
                                                 !.prev = Absent,
                                                 !.touched = FALSE]
                                  ELSE Settled]
     /\ cache' = IF back THEN [cache EXCEPT ![q.agent] = q.prev] ELSE cache
     /\ ids' = IF back /\ q.kind = "delete" THEN ids \cup {q.agent} ELSE ids
     /\ override' = IF back /\ q.kind = "unread"
                    THEN [override EXCEPT ![q.agent] = NoOverride]
                    ELSE override

(***************************************************************************)
(* The user's mutations; those of the read state are in ReadState.          *)
(***************************************************************************)
Rename(r, a, title) ==
  /\ cache[a] \in Views
  /\ Mutate(r, "rename", a, title, override)

\* useOptimisticTaskDelete: the request goes out even for an unknown agent.
Delete(r, a) == Mutate(r, "delete", a, NoTitle, override)

(***************************************************************************)
(* The server.                                                              *)
(***************************************************************************)
\* Mutant: the acknowledgement goes out ahead of the change.
AcknowledgedFirst(a, view, r) ==
  <<Item(NoViews, r), Item([b \in {a} |-> view], NoRequest)>>

\* What a commit puts on the stream: the hooks of the transaction publish the
\* agent, and then the completed transaction carries the request id.
Published(a, view, r) ==
  <<Item([b \in {a} |-> view], NoRequest), Item(NoViews, r)>>

\* The window may have given up on a request that the server still carries out.
Concluded(q, web) ==
  IF q.client = "settled" THEN Settled ELSE [q EXCEPT !.web = web]

\* The request commits: the change of the agent and then the acknowledgement
\* go to the stream.
Commit(r) ==
  /\ IsUnderWay(r) /\ request[r].web = "pending"
  /\ LET q == request[r]
         a == q.agent
     IN IF server[a] = Gone
        THEN /\ request' = [request EXCEPT ![r] = Concluded(q, "gone")]
             /\ UNCHANGED <<server, wire, unheard>>
        ELSE /\ server' = [server EXCEPT ![a] = Optimistic(q.kind, @, q.title)]
             /\ wire' = Push(Published(a, server'[a], r))
             /\ unheard' = IF q.kind = "delete" THEN unheard \cup {a}
                                                ELSE unheard
             /\ request' = [request EXCEPT ![r] = Concluded(q, "done")]
  /\ UNCHANGED <<stream, drops, cache, ids, override, crossed>>

\* The request fails on the server (the database is locked).
Refuse(r) ==
  /\ IsUnderWay(r) /\ request[r].web = "pending"
  /\ request' = [request EXCEPT ![r] = Concluded(@, "refused")]
  /\ UNCHANGED <<server, stream, wire, drops, cache, ids, override, crossed,
                 unheard>>

Worked(view, status) == [view EXCEPT !.turn = @ + 1, !.status = status]

\* The agent works: its updatedAt advances and its run may begin or end.
Work(a) ==
  /\ server[a] \in Views /\ server[a].turn < MaxTurn
  /\ \E status \in {"idle", "busy"} :
       /\ "busy" \in {status, server[a].status}
       /\ server' = [server EXCEPT ![a] = Worked(@, status)]
  /\ wire' = Push(<<Item([b \in {a} |-> server'[a]], NoRequest)>>)
  /\ UNCHANGED <<stream, drops, cache, ids, override, request, crossed, unheard>>

\* Another window, or the command line, deletes the agent.
DeleteElsewhere(a) ==
  /\ server[a] \in Views
  /\ server' = [server EXCEPT ![a] = Gone]
  /\ wire' = Push(<<Item([b \in {a} |-> Gone], NoRequest)>>)
  /\ unheard' = unheard \cup {a}
  /\ UNCHANGED <<stream, drops, cache, ids, override, request, crossed>>

(***************************************************************************)
(* The stream.                                                              *)
(***************************************************************************)
\* onopen and onclose, which switch the trackers on and off.
Open ==
  /\ stream = "closed"
  /\ stream' = "opening"
  /\ UNCHANGED <<server, wire, drops, cache, ids, override, request, crossed,
                 unheard>>

Close ==
  /\ stream # "closed" /\ drops < MaxDrops
  /\ stream' = "closed"
  /\ wire' = <<>>
  /\ drops' = drops + 1
  /\ UNCHANGED <<server, cache, ids, override, request, crossed, unheard>>

\* The server registers the stream and dumps the agents that are not deleted.
Subscribe ==
  /\ stream = "opening"
  /\ stream' = "open"
  /\ LET live == {a \in Agents : server[a] \in Views}
     IN wire' = <<Item([a \in live |-> server[a]], NoRequest)>>
  /\ UNCHANGED <<server, drops, cache, ids, override, request, crossed, unheard>>

\* syncTasksToQueryCache: what a frame makes of the entries and of the ids.
Synced(entries, views) ==
  [a \in Agents |-> IF a \in DOMAIN views THEN views[a] ELSE entries[a]]
SyncedIds(list, views) ==
  (list \ {a \in DOMAIN views : views[a] = Gone})
     \cup {a \in DOMAIN views : views[a] # Gone}

\* The version of every agent in the frame goes up.
Touched(q, views) ==
  [q EXCEPT !.touched = @ \/ (q.agent \in DOMAIN views /\ q.client # "settled")]

\* acknowledgeRequests: a tracker hears of its request, and a caller that has
\* its answer already goes on.
Acknowledged(q) ==
  IF q.tracker # "waiting" THEN q
  ELSE IF q.client = "answered" THEN Settled
  ELSE [q EXCEPT !.tracker = "acked"]

\* onMessage: the views first, the acknowledgements last.
Deliver ==
  /\ wire # <<>>
  /\ LET item == Head(wire)
         seen == [r \in Requests |->
                    IF IsUnderWay(r) THEN Touched(request[r], item.views)
                                     ELSE request[r]]
     IN /\ cache' = Synced(cache, item.views)
        /\ ids' = SyncedIds(ids, item.views)
        /\ request' = [r \in Requests |->
                         IF item.ack = r /\ IsUnderWay(r)
                         THEN Acknowledged(seen[r]) ELSE seen[r]]
        /\ crossed' = crossed \ DOMAIN item.views
        /\ unheard' = unheard \ {a \in DOMAIN item.views : item.views[a] = Gone}
  /\ wire' = Tail(wire)
  /\ UNCHANGED <<server, stream, drops, override>>

(***************************************************************************)
(* The answers.                                                             *)
(***************************************************************************)
\* makeAPIRequest: an answer that is not ok cancels the tracker; an ok one is
\* held back until the tracker has resolved.  An agent that is not there is
\* a success for its deletion.
Answer(r) ==
  /\ IsUnderWay(r) /\ request[r].client = "waiting"
  /\ request[r].web # "pending"
  /\ LET q == request[r]
         ok == \/ q.web = "done"
               \/ q.web = "gone" /\ q.kind = "delete"
     IN IF ok /\ q.tracker = "waiting"
        THEN /\ request' = [request EXCEPT ![r] = [q EXCEPT !.client = "answered"]]
             /\ UNCHANGED <<cache, ids, override>>
        ELSE Settle(r, ok /\ q.tracker # "late", FALSE)
  /\ UNCHANGED <<server, stream, wire, drops, crossed, unheard>>

\* The fetch rejects: no connection, or the deadline of a deletion.  The server
\* may have the request, and carry it out later.
NetworkFailure(r) ==
  /\ IsUnderWay(r) /\ request[r].client = "waiting"
  /\ \/ Settle(r, FALSE, request[r].web = "pending")
     \/ Settle(r, FALSE, FALSE)
  /\ UNCHANGED <<server, stream, wire, drops, crossed, unheard>>

\* The timer of the tracker fires: the caller fails, now or when the answer
\* comes.
TrackerTimeout(r) ==
  /\ IsUnderWay(r) /\ request[r].tracker = "waiting"
  /\ IF request[r].client = "answered"
     THEN Settle(r, FALSE, FALSE)
     ELSE /\ request' = [request EXCEPT ![r] = [@ EXCEPT !.tracker = "late"]]
          /\ UNCHANGED <<cache, ids, override>>
  /\ UNCHANGED <<server, stream, wire, drops, crossed, unheard>>

StoreInit ==
  /\ \E t \in Titles, status \in {"idle", "busy"} :
       server = [a \in Agents |-> [title |-> t, readAt |-> Never, turn |-> 0,
                                   status |-> status]]
  /\ stream = "closed" /\ wire = <<>> /\ drops = 0
  /\ cache = [a \in Agents |-> Absent] /\ ids = {}
  /\ override = [a \in Agents |-> NoOverride]
  /\ request = [r \in Requests |-> Fresh]
  /\ crossed = {} /\ unheard = {}

StoreTypeOK ==
  /\ server \in [Agents -> Views \cup {Gone}]
  /\ stream \in {"closed", "opening", "open"}
  /\ wire \in Seq(Items)
  /\ drops \in 0 .. MaxDrops
  /\ cache \in [Agents -> Views \cup {Gone, Absent}]
  /\ ids \subseteq Agents
  /\ override \in [Agents -> Overrides]
  /\ request \in [Requests -> UnderWay \cup {Fresh, Settled}]
  /\ crossed \subseteq Agents /\ unheard \subseteq Agents
=============================================================================
