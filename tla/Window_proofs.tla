--------------------------- MODULE Window_proofs ----------------------------
(***************************************************************************)
(* What the window keeps true of what it shows, for every set of agents and *)
(* requests and every length of its streams: the read and unread marks and  *)
(* the titles of its agents (ReadState), and the backend it talks to and    *)
(* the main process that starts and stops it (BackendStatus), which         *)
(* implements BackendLifetime.                                              *)
(***************************************************************************)
EXTENDS ReadState, BackendStatus, TLAPS, SequenceTheorems

-----------------------------------------------------------------------------
(* The types *)

\* A rename has its title, and a read that is due its agent.
RenamesNamed ==
  \A r \in Requests : IsUnderWay(r) /\ request[r].kind = "rename" => request[r].title \in Titles
HookInv == timer \/ pending => viewed \in Agents

\* Nobody waits for a request the window has given up on.
GivenUp ==
  \A r \in Requests : IsUnderWay(r) /\ request[r].client = "settled" =>
    request[r].tracker = "none" /\ request[r].prev = Absent

StoreInv == TypeOK /\ RenamesNamed /\ GivenUp /\ HookInv

\* A request whose failure would write its snapshot back.
Restorable(q) ==
  q \notin {Fresh, Settled} /\ q.client # "settled" /\ q.prev \in Views /\ ~q.touched

LEMMA UnderWayFields ==
  ASSUME NEW q \in UnderWay
  PROVE  /\ \A x \in {"waiting", "answered", "settled"} : [q EXCEPT !.client = x] \in UnderWay
         /\ \A x \in {"none", "waiting", "acked", "late"} : [q EXCEPT !.tracker = x] \in UnderWay
         /\ \A x \in {"pending", "done", "refused", "gone"} : [q EXCEPT !.web = x] \in UnderWay
         /\ \A x \in BOOLEAN : [q EXCEPT !.touched = x] \in UnderWay
         /\ [q EXCEPT !.client = "settled", !.tracker = "none", !.prev = Absent,
                      !.touched = FALSE] \in UnderWay
  BY DEF UnderWay

\* The fields of a request under way.
LEMMA UnderWayTypes ==
  ASSUME StoreTypeOK, NEW r \in Requests, IsUnderWay(r)
  PROVE  /\ request[r] \in UnderWay
         /\ request[r].kind \in Kinds /\ request[r].agent \in Agents
         /\ request[r].prev \in Views \cup {Gone, Absent} /\ request[r].touched \in BOOLEAN
  BY DEF StoreTypeOK, IsUnderWay, UnderWay

\* What a mutation makes of a view, by its kind.
LEMMA OptimisticTyped ==
  ASSUME NEW view \in Views, NEW kind \in Kinds, NEW title, kind = "rename" => title \in Titles
  PROVE  /\ kind = "delete" => Optimistic(kind, view, title) = Gone
         /\ kind # "delete" => /\ Optimistic(kind, view, title) \in Views
                               /\ Optimistic(kind, view, title).turn = view.turn
                               /\ Optimistic(kind, view, title).status = view.status
<1>1. CASE kind = "read"
  BY <1>1 DEF Optimistic, Views
<1>2. CASE kind = "unread"
  BY <1>2 DEF Optimistic, Views
<1>3. CASE kind = "rename"
  BY <1>3 DEF Optimistic, Views
<1>4. CASE kind = "delete"
  BY <1>4 DEF Optimistic
<1> QED BY <1>1, <1>2, <1>3, <1>4 DEF Kinds

LEMMA OverrideForTyped ==
  ASSUME NEW view \in Views
  PROVE  OverrideFor(view) \in Overrides
  BY DEF OverrideFor, Overrides, Views

LEMMA RekeyedTyped ==
  ASSUME StoreTypeOK, NEW a
  PROVE  Rekeyed(a) \in [Agents -> Overrides]
  BY OverrideForTyped DEF Rekeyed, StoreTypeOK

LEMMA ItemTyped ==
  ASSUME NEW views, NEW S \in SUBSET Agents, views \in [S -> Views \cup {Gone}],
         NEW r \in Requests \cup {NoRequest}
  PROVE  Item(views, r) \in Items
  BY DEF Item, Items

LEMMA NewsTyped ==
  ASSUME NEW a \in Agents, NEW state \in Views \cup {Gone}, NEW r \in Requests \cup {NoRequest}
  PROVE  Item([b \in {a} |-> state], r) \in Items
<1>1. [b \in {a} |-> state] \in [{a} -> Views \cup {Gone}] /\ {a} \in SUBSET Agents
  OBVIOUS
<1> QED BY <1>1, ItemTyped

LEMMA NoNewsTyped ==
  ASSUME NEW r \in Requests
  PROVE  Item(NoViews, r) \in Items
<1>1. NoViews \in [{} -> Views \cup {Gone}] /\ {} \in SUBSET Agents
  BY DEF NoViews
<1> QED BY <1>1, ItemTyped

LEMMA PushTyped ==
  ASSUME wire \in Seq(Items), NEW items \in Seq(Items), wire' = Push(items)
  PROVE  wire' \in Seq(Items)
  BY ConcatProperties DEF Push

LEMMA ItemFields ==
  ASSUME NEW item \in Items
  PROVE  /\ DOMAIN item.views \subseteq Agents
         /\ \A a \in DOMAIN item.views : item.views[a] \in Views \cup {Gone}
         /\ item.ack \in Requests \cup {NoRequest}
  BY DEF Items

-----------------------------------------------------------------------------
(* The steps of the store, whoever makes them *)

\* A mutation of an agent there is.
Mutates(r, kind, a, title, overrides) ==
  /\ kind \in Kinds /\ a \in Agents /\ title \in Titles \cup {NoTitle}
  /\ kind = "rename" => title \in Titles
  /\ overrides \in [Agents -> Overrides]
  /\ Mutate(r, kind, a, title, overrides)

\* A request gets its result ...
Settles(r, ok, survives) ==
  /\ IsUnderWay(r) /\ request[r].client # "settled"
  /\ ok => \/ request[r].web = "done"
           \/ request[r].web = "gone" /\ request[r].kind = "delete"
  /\ survives => ~ok
  /\ Settle(r, ok, survives)
  /\ UNCHANGED <<server, stream, wire, drops, crossed, unheard>>

\* ... or goes on waiting.
Holds(r) ==
  /\ IsUnderWay(r) /\ request[r].client # "settled"
  /\ request' = [request EXCEPT ![r] = [@ EXCEPT !.client = "answered"]]
       \/ request' = [request EXCEPT ![r] = [@ EXCEPT !.tracker = "late"]]
  /\ UNCHANGED <<server, stream, wire, drops, cache, ids, override, crossed, unheard>>

\* An override is keyed anew.
Rekeys(a) ==
  /\ override' = Rekeyed(a)
  /\ UNCHANGED <<server, stream, wire, drops, cache, ids, request, crossed, unheard>>

LEMMA ConcludeCases ==
  ASSUME GivenUp, NEW r \in Requests, Conclude(r)
  PROVE  Holds(r) \/ \E ok, survives \in BOOLEAN : Settles(r, ok, survives)
<1>1. CASE Answer(r)
  <2> DEFINE ok == \/ request[r].web = "done"
                   \/ request[r].web = "gone" /\ request[r].kind = "delete"
  <2>1. /\ IsUnderWay(r) /\ request[r].client = "waiting"
        /\ UNCHANGED <<server, stream, wire, drops, crossed, unheard>>
    BY <1>1 DEF Answer
  <2>2. CASE ok /\ request[r].tracker = "waiting"
    BY <1>1, <2>1, <2>2 DEF Answer, Holds
  <2>3. CASE ~(ok /\ request[r].tracker = "waiting")
    <3>1. Settle(r, ok /\ request[r].tracker # "late", FALSE)
      BY <1>1, <2>3 DEF Answer
    <3>2. Settles(r, ok /\ request[r].tracker # "late", FALSE)
      BY <2>1, <3>1 DEF Settles
    <3> QED BY <3>2
  <2> QED BY <2>2, <2>3
<1>2. CASE NetworkFailure(r)
  <2>1. /\ IsUnderWay(r) /\ request[r].client = "waiting"
        /\ UNCHANGED <<server, stream, wire, drops, crossed, unheard>>
        /\ Settle(r, FALSE, request[r].web = "pending") \/ Settle(r, FALSE, FALSE)
    BY <1>2 DEF NetworkFailure
  <2>2. Settles(r, FALSE, request[r].web = "pending") \/ Settles(r, FALSE, FALSE)
    BY <2>1 DEF Settles
  <2> QED BY <2>2
<1>3. CASE TrackerTimeout(r)
  <2>1. /\ IsUnderWay(r) /\ request[r].tracker = "waiting"
        /\ UNCHANGED <<server, stream, wire, drops, crossed, unheard>>
    BY <1>3 DEF TrackerTimeout
  <2>2. CASE request[r].client = "answered"
    <3>1. Settles(r, FALSE, FALSE)
      BY <1>3, <2>1, <2>2 DEF TrackerTimeout, Settles
    <3> QED BY <3>1
  <2>3. CASE request[r].client # "answered"
    <3>1. request[r].client # "settled"
      BY <2>1 DEF GivenUp
    <3> QED BY <1>3, <2>1, <2>3, <3>1 DEF TrackerTimeout, Holds
  <2> QED BY <2>2, <2>3
<1> QED BY <1>1, <1>2, <1>3 DEF Conclude

\* Whoever acts, the store makes one of these steps, or none.
StoreStep ==
  \/ \E r \in Requests, kind \in Kinds, a \in Agents : \E title, overrides :
       Mutates(r, kind, a, title, overrides)
  \/ \E r \in Requests : Holds(r) \/ Commit(r) \/ Refuse(r)
  \/ \E r \in Requests : \E ok, survives \in BOOLEAN : Settles(r, ok, survives)
  \/ \E a \in Agents : Rekeys(a) \/ Work(a) \/ DeleteElsewhere(a)
  \/ Open \/ Close \/ Subscribe \/ Deliver
  \/ UNCHANGED storeVars

\* A read that is due is of an agent in view, and so one there is.
LEMMA MutateSteps ==
  ASSUME NEW r \in Requests, NEW kind \in Kinds, NEW a \in Agents, NEW title, NEW overrides,
         Mutates(r, kind, a, title, overrides)
  PROVE  StoreStep
  BY DEF StoreStep

LEMMA ReadSteps ==
  ASSUME StoreTypeOK, NEW r \in Requests, NEW a \in Agents,
         NEW overrides \in [Agents -> Overrides], MarkRead(r, a, overrides)
  PROVE  StoreStep
<1>1. "read" \in Kinds
  BY DEF Kinds
<1>2. Mutates(r, "read", a, NoTitle, overrides)
  BY <1>1 DEF MarkRead, Mutates
<1> QED BY <1>1, <1>2, MutateSteps

LEMMA StoreSteps ==
  ASSUME StoreInv, [Next]_vars
  PROVE  StoreStep
<1>0. StoreTypeOK /\ override \in [Agents -> Overrides]
  BY DEF StoreInv, TypeOK, StoreTypeOK
<1>1. ASSUME NEW r \in Requests, NEW a \in Agents, NEW first \in BOOLEAN, Activate(r, a, first)
      PROVE  StoreStep
  <2>1. [override EXCEPT ![a] = NoOverride] \in [Agents -> Overrides]
    BY <1>0 DEF Overrides
  <2>2. CASE cache[a] \in Views
    BY <1>0, <1>1, <2>1, <2>2, ReadSteps DEF Activate
  <2>3. CASE cache[a] \notin Views
    BY <1>1, <2>3 DEF Activate, StoreStep
  <2> QED BY <2>2, <2>3
<1>2. ASSUME NEW r \in Requests, Leave(r) PROVE StoreStep
  <2>1. viewed \in Agents
    BY <1>2 DEF Leave, StoreInv, TypeOK
  <2>2. CASE MarkRead(r, viewed, override)
    BY <1>0, <2>1, <2>2, ReadSteps
  <2>3. CASE ~pending
    BY <1>2, <2>3 DEF Leave, StoreStep
  <2>4. CASE pending /\ ExplicitlyUnread(viewed)
    <3>1. Rekeys(viewed)
      BY <1>2, <2>4 DEF Leave, Rekeys
    <3> QED BY <2>1, <3>1 DEF StoreStep
  <2> QED BY <1>2, <2>2, <2>3, <2>4 DEF Leave
<1>3. ASSUME NEW r \in Requests, NEW a \in Agents, MarkUnread(r, a) PROVE StoreStep
  <2>1. "unread" \in Kinds /\ Mutates(r, "unread", a, NoTitle, override)
    BY <1>0, <1>3 DEF MarkUnread, Mutates, Kinds
  <2> QED BY <2>1, MutateSteps
<1>4. ASSUME NEW r \in Requests, NEW a \in Agents, NEW t \in Titles, Rename(r, a, t) PROVE StoreStep
  <2>1. "rename" \in Kinds /\ Mutates(r, "rename", a, t, override)
    BY <1>0, <1>4 DEF Rename, Mutates, Kinds
  <2> QED BY <2>1, MutateSteps
<1>5. ASSUME NEW r \in Requests, NEW a \in Agents, Delete(r, a) PROVE StoreStep
  <2>1. "delete" \in Kinds /\ Mutates(r, "delete", a, NoTitle, override)
    BY <1>0, <1>5 DEF Delete, Mutates, Kinds
  <2> QED BY <2>1, MutateSteps
<1>6. ASSUME Receive PROVE StoreStep
  BY <1>6 DEF Receive, StoreStep
<1>7. ASSUME Notice PROVE StoreStep
  BY <1>7 DEF Notice, StoreStep
<1>8. ASSUME NEW a \in Agents, DeriveDot(a) PROVE StoreStep
  <2>1. Rekeys(a)
    BY <1>8 DEF DeriveDot, Rekeys
  <2> QED BY <2>1 DEF StoreStep
<1>9. ASSUME NEW r \in Requests, DebounceEnds(r) PROVE StoreStep
  <2>1. viewed \in Agents
    BY <1>9 DEF DebounceEnds, StoreInv, HookInv
  <2>2. CASE ExplicitlyUnread(viewed)
    <3>1. Rekeys(viewed)
      BY <1>9, <2>2 DEF DebounceEnds, Rekeys
    <3> QED BY <2>1, <3>1 DEF StoreStep
  <2>3. CASE ~ExplicitlyUnread(viewed)
    <3>1. MarkRead(r, viewed, override)
      BY <1>9, <2>3 DEF DebounceEnds
    <3> QED BY <1>0, <2>1, <3>1, ReadSteps
  <2> QED BY <2>2, <2>3
<1>10. ASSUME NEW r \in Requests, Conclude(r) PROVE StoreStep
  <2>1. Holds(r) \/ \E ok, survives \in BOOLEAN : Settles(r, ok, survives)
    BY <1>10, ConcludeCases DEF StoreInv
  <2> QED BY <2>1 DEF StoreStep
<1>11. ASSUME WorldActs PROVE StoreStep
  BY <1>11 DEF WorldActs, StoreStep
<1>12. ASSUME UNCHANGED vars PROVE StoreStep
  BY <1>12 DEF vars, StoreStep
<1> QED BY <1>1, <1>2, <1>3, <1>4, <1>5, <1>6, <1>7, <1>8, <1>9, <1>10, <1>11, <1>12
        DEF Next, UserActs, WindowActs

-----------------------------------------------------------------------------
(* What a step makes of the requests and of the cache *)

LEMMA NewTrackerTyped ==
  ASSUME NEW kind
  PROVE  NewTracker(kind) \in {"none", "waiting"}
  BY DEF NewTracker

\* A mutation begins its request, and writes the entry it finds.
LEMMA MutateFacts ==
  ASSUME StoreTypeOK, NEW r \in Requests, NEW kind, NEW a, NEW title, NEW overrides,
         Mutates(r, kind, a, title, overrides)
  PROVE  /\ request[r] = Fresh /\ a \in Agents /\ kind \in Kinds
         /\ request'[r] = [kind |-> kind, agent |-> a, title |-> title, prev |-> cache[a],
                           touched |-> FALSE, web |-> "pending", client |-> "waiting",
                           tracker |-> NewTracker(kind)]
         /\ request'[r] \in UnderWay
         /\ \A q \in Requests \ {r} : request'[q] = request[q]
         /\ cache'[a] = IF cache[a] \in Views THEN Optimistic(kind, cache[a], title) ELSE cache[a]
         /\ \A b \in Agents \ {a} : cache'[b] = cache[b]
         /\ UNCHANGED <<server, stream, wire, drops, unheard>>
<1>1. /\ request[r] = Fresh /\ a \in Agents /\ kind \in Kinds
      /\ UNCHANGED <<server, stream, wire, drops, unheard>>
  BY DEF Mutates, Mutate
<1>2. /\ request'[r] = [kind |-> kind, agent |-> a, title |-> title, prev |-> cache[a],
                        touched |-> FALSE, web |-> "pending", client |-> "waiting",
                        tracker |-> NewTracker(kind)]
      /\ \A q \in Requests \ {r} : request'[q] = request[q]
  BY DEF Mutates, Mutate, StoreTypeOK
<1>3. /\ cache'[a] = IF cache[a] \in Views THEN Optimistic(kind, cache[a], title) ELSE cache[a]
      /\ \A b \in Agents \ {a} : cache'[b] = cache[b]
  BY <1>1 DEF Mutates, Mutate, StoreTypeOK
<1>4. request'[r] \in UnderWay
  <2>1. cache[a] \in Views \cup {Gone, Absent} /\ title \in Titles \cup {NoTitle}
    BY <1>1 DEF StoreTypeOK, Mutates
  <2> QED BY <1>1, <1>2, <2>1, NewTrackerTyped DEF UnderWay
<1> QED BY <1>1, <1>2, <1>3, <1>4

LEMMA MutateTyped ==
  ASSUME StoreTypeOK, NEW r \in Requests, NEW kind, NEW a, NEW title, NEW overrides,
         Mutates(r, kind, a, title, overrides)
  PROVE  StoreTypeOK'
<1>1. a \in Agents /\ kind \in Kinds /\ (kind = "rename" => title \in Titles)
  BY DEF Mutates
<1>2. cache' \in [Agents -> Views \cup {Gone, Absent}]
  BY <1>1, OptimisticTyped DEF Mutates, Mutate, StoreTypeOK
<1>3. request' \in [Requests -> UnderWay \cup {Fresh, Settled}]
  <2>1. request'[r] \in UnderWay /\ \A q \in Requests \ {r} : request'[q] = request[q]
    BY MutateFacts
  <2>2. request' = [q \in Requests |-> request'[q]]
    BY DEF Mutates, Mutate, StoreTypeOK
  <2> QED BY <2>1, <2>2 DEF StoreTypeOK
<1>4. override' \in [Agents -> Overrides]
  <2>1. cache[a] \in Views => OverrideFor(cache[a]) \in Overrides
    BY OverrideForTyped
  <2> QED BY <1>1, <2>1 DEF Mutates, Mutate
<1>5. ids' \subseteq Agents /\ crossed' \subseteq Agents
  BY <1>1 DEF Mutates, Mutate, StoreTypeOK
<1> QED BY <1>2, <1>3, <1>4, <1>5 DEF Mutates, Mutate, StoreTypeOK

\* A result ends the request, or gives it up; a failure puts the snapshot back.
LEMMA SettleFacts ==
  ASSUME StoreTypeOK, NEW r \in Requests, NEW ok \in BOOLEAN, NEW survives \in BOOLEAN,
         Settles(r, ok, survives)
  PROVE  /\ request[r] \in UnderWay /\ request[r].agent \in Agents
         /\ \/ request'[r] = Settled
            \/ /\ survives
               /\ request'[r] = [request[r] EXCEPT !.client = "settled", !.tracker = "none",
                                                   !.prev = Absent, !.touched = FALSE]
               /\ request'[r] \in UnderWay
         /\ \A q \in Requests \ {r} : request'[q] = request[q]
         /\ cache'[request[r].agent] = IF ~ok /\ Restores(request[r])
                                         THEN request[r].prev ELSE cache[request[r].agent]
         /\ \A b \in Agents \ {request[r].agent} : cache'[b] = cache[b]
<1>1. request[r] \in UnderWay /\ request[r].agent \in Agents
  BY UnderWayTypes DEF Settles
<1>2. /\ request'[r] = IF survives
                         THEN [request[r] EXCEPT !.client = "settled", !.tracker = "none",
                                                 !.prev = Absent, !.touched = FALSE]
                         ELSE Settled
      /\ \A q \in Requests \ {r} : request'[q] = request[q]
  BY DEF Settles, Settle, StoreTypeOK
<1>3. /\ cache'[request[r].agent] = IF ~ok /\ Restores(request[r])
                                      THEN request[r].prev ELSE cache[request[r].agent]
      /\ \A b \in Agents \ {request[r].agent} : cache'[b] = cache[b]
  BY <1>1 DEF Settles, Settle, StoreTypeOK
<1>4. survives => request'[r] \in UnderWay
  BY <1>1, <1>2, UnderWayFields
<1> QED BY <1>1, <1>2, <1>3, <1>4

LEMMA SettleTyped ==
  ASSUME StoreTypeOK, NEW r \in Requests, NEW ok \in BOOLEAN, NEW survives \in BOOLEAN,
         Settles(r, ok, survives)
  PROVE  StoreTypeOK'
<1> DEFINE a == request[r].agent
<1>1. a \in Agents /\ request[r] \in UnderWay
  BY SettleFacts
<1>2. request' \in [Requests -> UnderWay \cup {Fresh, Settled}]
  <2>1. request'[r] \in UnderWay \cup {Settled} /\ \A q \in Requests \ {r} : request'[q] = request[q]
    BY SettleFacts
  <2>2. request' = [q \in Requests |-> request'[q]]
    BY DEF Settles, Settle, StoreTypeOK
  <2> QED BY <2>1, <2>2 DEF StoreTypeOK
<1>3. cache' \in [Agents -> Views \cup {Gone, Absent}]
  BY <1>1 DEF Settles, Settle, Restores, StoreTypeOK
<1>4. override' \in [Agents -> Overrides] /\ ids' \subseteq Agents
  BY <1>1 DEF Settles, Settle, StoreTypeOK, Overrides
<1> QED BY <1>2, <1>3, <1>4 DEF Settles, StoreTypeOK

\* A request that goes on waiting keeps what it is about.
LEMMA HoldFacts ==
  ASSUME StoreTypeOK, NEW r \in Requests, Holds(r)
  PROVE  /\ request[r] \in UnderWay /\ request'[r] \in UnderWay
         /\ request'[r].kind = request[r].kind /\ request'[r].agent = request[r].agent
         /\ request'[r].title = request[r].title /\ request'[r].prev = request[r].prev
         /\ request'[r].touched = request[r].touched /\ request'[r].web = request[r].web
         /\ request[r].client # "settled" /\ request'[r].client # "settled"
         /\ request'[r].tracker \in {request[r].tracker, "late"}
         /\ \A q \in Requests \ {r} : request'[q] = request[q]
         /\ request' \in [Requests -> UnderWay \cup {Fresh, Settled}]
<1>1. request[r] \in UnderWay /\ request[r].client # "settled"
  BY UnderWayTypes DEF Holds
<1>2. /\ request'[r] \in {[request[r] EXCEPT !.client = "answered"],
                          [request[r] EXCEPT !.tracker = "late"]}
      /\ \A q \in Requests \ {r} : request'[q] = request[q]
  BY DEF Holds, StoreTypeOK
<1>3. request'[r] \in UnderWay
  BY <1>1, <1>2, UnderWayFields
<1>4. request' = [q \in Requests |-> request'[q]]
  BY DEF Holds, StoreTypeOK
<1>5. request' \in [Requests -> UnderWay \cup {Fresh, Settled}]
  BY <1>2, <1>3, <1>4 DEF StoreTypeOK
<1>6. /\ request'[r].kind = request[r].kind /\ request'[r].agent = request[r].agent
      /\ request'[r].title = request[r].title /\ request'[r].prev = request[r].prev
      /\ request'[r].touched = request[r].touched /\ request'[r].web = request[r].web
      /\ request'[r].client # "settled"
      /\ request'[r].tracker \in {request[r].tracker, "late"}
  BY <1>1, <1>2 DEF UnderWay
<1> QED BY <1>1, <1>2, <1>3, <1>5, <1>6

\* What the server does with a request concludes one that was given up.
LEMMA ConcludedFacts ==
  ASSUME NEW q \in UnderWay, NEW web \in {"done", "refused", "gone"}
  PROVE  \/ q.client = "settled" /\ Concluded(q, web) = Settled
         \/ /\ q.client # "settled" /\ Concluded(q, web) \in UnderWay
            /\ Concluded(q, web) = [q EXCEPT !.web = web]
            /\ Concluded(q, web).web = web
            /\ Concluded(q, web).kind = q.kind /\ Concluded(q, web).agent = q.agent
            /\ Concluded(q, web).title = q.title /\ Concluded(q, web).prev = q.prev
            /\ Concluded(q, web).touched = q.touched /\ Concluded(q, web).client = q.client
            /\ Concluded(q, web).tracker = q.tracker
  BY DEF Concluded, UnderWay

LEMMA CommitFacts ==
  ASSUME StoreTypeOK, RenamesNamed, NEW r \in Requests, Commit(r)
  PROVE  /\ request[r] \in UnderWay /\ request[r].agent \in Agents /\ request[r].web = "pending"
         /\ \A q \in Requests \ {r} : request'[q] = request[q]
         /\ UNCHANGED <<stream, drops, cache, ids, override, crossed>>
         /\ \/ /\ server[request[r].agent] = Gone
               /\ request'[r] = Concluded(request[r], "gone")
               /\ UNCHANGED <<server, wire, unheard>>
            \/ /\ server[request[r].agent] \in Views
               /\ request'[r] = Concluded(request[r], "done")
               /\ server'[request[r].agent]
                    = Optimistic(request[r].kind, server[request[r].agent], request[r].title)
               /\ server'[request[r].agent] \in Views \cup {Gone}
               /\ \A b \in Agents \ {request[r].agent} : server'[b] = server[b]
               /\ wire' = Push(Published(request[r].agent, server'[request[r].agent], r))
               /\ unheard' = IF request[r].kind = "delete"
                               THEN unheard \cup {request[r].agent} ELSE unheard
<1>1. /\ request[r] \in UnderWay /\ request[r].agent \in Agents /\ request[r].web = "pending"
      /\ request[r].kind \in Kinds
      /\ request[r].kind = "rename" => request[r].title \in Titles
      /\ UNCHANGED <<stream, drops, cache, ids, override, crossed>>
  BY UnderWayTypes DEF Commit, RenamesNamed
<1>2. CASE server[request[r].agent] = Gone
  BY <1>1, <1>2 DEF Commit, StoreTypeOK
<1>3. CASE server[request[r].agent] # Gone
  <2>1. server[request[r].agent] \in Views
    BY <1>1, <1>3 DEF StoreTypeOK
  <2>2. /\ server' = [server EXCEPT ![request[r].agent] =
                        Optimistic(request[r].kind, @, request[r].title)]
        /\ wire' = Push(Published(request[r].agent, server'[request[r].agent], r))
        /\ unheard' = IF request[r].kind = "delete"
                        THEN unheard \cup {request[r].agent} ELSE unheard
        /\ request' = [request EXCEPT ![r] = Concluded(request[r], "done")]
    BY <1>3 DEF Commit
  <2>3. /\ server'[request[r].agent]
             = Optimistic(request[r].kind, server[request[r].agent], request[r].title)
        /\ \A b \in Agents \ {request[r].agent} : server'[b] = server[b]
    BY <1>1, <2>2 DEF StoreTypeOK
  <2>4. server'[request[r].agent] \in Views \cup {Gone}
    BY <1>1, <2>1, <2>3, OptimisticTyped
  <2>5. request'[r] = Concluded(request[r], "done") /\ \A q \in Requests \ {r} : request'[q] = request[q]
    BY <2>2 DEF StoreTypeOK
  <2> QED BY <1>1, <2>1, <2>2, <2>3, <2>4, <2>5
<1> QED BY <1>2, <1>3

LEMMA PublishedTyped ==
  ASSUME NEW a \in Agents, NEW state \in Views \cup {Gone}, NEW r \in Requests
  PROVE  Published(a, state, r) \in Seq(Items)
<1>1. Item([b \in {a} |-> state], NoRequest) \in Items /\ Item(NoViews, r) \in Items
  BY NewsTyped, NoNewsTyped
<1>2. \A x, y \in Items : <<x, y>> \in Seq(Items)
  OBVIOUS
<1> QED BY <1>1, <1>2, Zenon DEF Published

\* One request changes, and stays a request or is concluded.
LEMMA OneRequestTyped ==
  ASSUME StoreTypeOK, NEW r \in Requests, NEW q, request' = [request EXCEPT ![r] = q],
         q \in UnderWay \cup {Settled}
  PROVE  request' \in [Requests -> UnderWay \cup {Fresh, Settled}]
  BY DEF StoreTypeOK

LEMMA CommitTyped ==
  ASSUME StoreTypeOK, RenamesNamed, NEW r \in Requests, Commit(r)
  PROVE  StoreTypeOK'
<1>1. /\ request[r] \in UnderWay /\ request[r].agent \in Agents
      /\ UNCHANGED <<stream, drops, cache, ids, override, crossed>>
  BY CommitFacts
<1>2. Concluded(request[r], "gone") \in UnderWay \cup {Settled}
      /\ Concluded(request[r], "done") \in UnderWay \cup {Settled}
  BY <1>1, ConcludedFacts
<1>3. CASE server[request[r].agent] = Gone
  <2>1. request' = [request EXCEPT ![r] = Concluded(request[r], "gone")] /\ UNCHANGED <<server, wire, unheard>>
    BY <1>3 DEF Commit
  <2> QED BY <1>1, <1>2, <2>1, OneRequestTyped DEF StoreTypeOK
<1>4. CASE server[request[r].agent] # Gone
  <2>1. /\ request' = [request EXCEPT ![r] = Concluded(request[r], "done")]
        /\ server' = [server EXCEPT ![request[r].agent] = server'[request[r].agent]]
    BY <1>1, <1>4 DEF Commit, StoreTypeOK
  <2>2. /\ server'[request[r].agent] \in Views \cup {Gone}
        /\ wire' = Push(Published(request[r].agent, server'[request[r].agent], r))
        /\ unheard' \subseteq unheard \cup {request[r].agent}
    BY <1>4, CommitFacts
  <2>3. wire' \in Seq(Items)
    BY <1>1, <2>2, PublishedTyped, PushTyped DEF StoreTypeOK
  <2>4. request' \in [Requests -> UnderWay \cup {Fresh, Settled}]
    BY <1>2, <2>1, OneRequestTyped
  <2>5. server' \in [Agents -> Views \cup {Gone}]
    BY <1>1, <2>1, <2>2 DEF StoreTypeOK
  <2>6. unheard' \subseteq Agents
    BY <1>1, <2>2 DEF StoreTypeOK
  <2> QED BY <1>1, <2>3, <2>4, <2>5, <2>6 DEF StoreTypeOK
<1> QED BY <1>3, <1>4

LEMMA RefuseFacts ==
  ASSUME StoreTypeOK, NEW r \in Requests, Refuse(r)
  PROVE  /\ request[r] \in UnderWay /\ request[r].web = "pending"
         /\ request'[r] = Concluded(request[r], "refused")
         /\ \A q \in Requests \ {r} : request'[q] = request[q]
         /\ UNCHANGED <<server, stream, wire, drops, cache, ids, override, crossed, unheard>>
         /\ StoreTypeOK'
<1>1. /\ request[r] \in UnderWay /\ request[r].web = "pending"
      /\ request' = [request EXCEPT ![r] = Concluded(request[r], "refused")]
      /\ UNCHANGED <<server, stream, wire, drops, cache, ids, override, crossed, unheard>>
  BY UnderWayTypes DEF Refuse
<1>2. Concluded(request[r], "refused") \in UnderWay \cup {Settled}
  BY <1>1, ConcludedFacts
<1>3. request' \in [Requests -> UnderWay \cup {Fresh, Settled}]
  BY <1>1, <1>2, OneRequestTyped
<1>4. request'[r] = Concluded(request[r], "refused") /\ \A q \in Requests \ {r} : request'[q] = request[q]
  BY <1>1 DEF StoreTypeOK
<1> QED BY <1>1, <1>3, <1>4 DEF StoreTypeOK

\* What is left of a request when a frame has come.
AfterFrame(q, p, views, acked) ==
  \/ p = Settled /\ acked /\ q.tracker = "waiting" /\ q.client = "answered"
  \/ /\ p \in UnderWay
     /\ p.kind = q.kind /\ p.agent = q.agent /\ p.title = q.title /\ p.prev = q.prev
     /\ p.web = q.web /\ p.client = q.client
     /\ p.touched = (q.touched \/ (q.agent \in DOMAIN views /\ q.client # "settled"))
     /\ p.tracker = q.tracker \/ (p.tracker = "acked" /\ acked /\ q.tracker = "waiting")

LEMMA AfterFrameFacts ==
  ASSUME NEW q \in UnderWay, NEW views, NEW acked \in BOOLEAN, NEW p,
         p = IF acked THEN Acknowledged(Touched(q, views)) ELSE Touched(q, views)
  PROVE  AfterFrame(q, p, views, acked)
<1> DEFINE t == Touched(q, views)
<1>1. /\ t \in UnderWay
      /\ t.kind = q.kind /\ t.agent = q.agent /\ t.title = q.title /\ t.prev = q.prev
      /\ t.web = q.web /\ t.client = q.client /\ t.tracker = q.tracker
      /\ t.touched = (q.touched \/ (q.agent \in DOMAIN views /\ q.client # "settled"))
  <2> DEFINE b == q.touched \/ (q.agent \in DOMAIN views /\ q.client # "settled")
  <2>1. b \in BOOLEAN
    BY DEF UnderWay
  <2>2. t = [q EXCEPT !.touched = b]
    BY DEF Touched
  <2> HIDE DEF b
  <2>3. t \in UnderWay
    BY <2>1, <2>2, UnderWayFields
  <2>4. /\ t.kind = q.kind /\ t.agent = q.agent /\ t.title = q.title /\ t.prev = q.prev
        /\ t.web = q.web /\ t.client = q.client /\ t.tracker = q.tracker /\ t.touched = b
    BY <2>2 DEF UnderWay
  <2> QED BY <2>3, <2>4 DEF b
<1> HIDE DEF t
<1>2. CASE p = t
  BY <1>1, <1>2 DEF AfterFrame
<1>3. CASE acked /\ p = Acknowledged(t) /\ p # t
  <2>1. t.tracker = "waiting"
    BY <1>3 DEF Acknowledged
  <2>2. CASE t.client = "answered"
    BY <1>1, <1>3, <2>1, <2>2 DEF Acknowledged, AfterFrame
  <2>3. CASE t.client # "answered"
    <3>1. p = [t EXCEPT !.tracker = "acked"]
      BY <1>3, <2>1, <2>3 DEF Acknowledged
    <3>2. p \in UnderWay
      BY <1>1, <3>1, UnderWayFields
    <3>3. /\ p.kind = t.kind /\ p.agent = t.agent /\ p.title = t.title /\ p.prev = t.prev
          /\ p.web = t.web /\ p.client = t.client /\ p.touched = t.touched /\ p.tracker = "acked"
      BY <1>1, <3>1 DEF UnderWay
    <3> QED BY <1>1, <1>3, <2>1, <3>2, <3>3 DEF AfterFrame
  <2> QED BY <2>2, <2>3
<1> QED BY <1>2, <1>3 DEF t

\* The frame at the head of the wire.
Frame == Head(wire)

LEMMA DeliverFacts ==
  ASSUME StoreTypeOK, Deliver
  PROVE  /\ wire # <<>> /\ Frame \in Items /\ wire' = Tail(wire) /\ wire' \in Seq(Items)
         /\ cache' = Synced(cache, Frame.views) /\ ids' = SyncedIds(ids, Frame.views)
         /\ crossed' = crossed \ DOMAIN Frame.views
         /\ unheard' = unheard \ {a \in DOMAIN Frame.views : Frame.views[a] = Gone}
         /\ UNCHANGED <<server, stream, drops, override>>
         /\ \A r \in Requests :
              IF IsUnderWay(r)
                THEN AfterFrame(request[r], request'[r], Frame.views, Frame.ack = r)
                ELSE request'[r] = request[r]
<1>1. /\ wire # <<>> /\ wire' = Tail(wire)
      /\ cache' = Synced(cache, Frame.views) /\ ids' = SyncedIds(ids, Frame.views)
      /\ crossed' = crossed \ DOMAIN Frame.views
      /\ unheard' = unheard \ {a \in DOMAIN Frame.views : Frame.views[a] = Gone}
      /\ UNCHANGED <<server, stream, drops, override>>
  BY DEF Deliver, Frame
<1>2. Frame \in Items /\ wire' \in Seq(Items)
  BY <1>1, HeadTailProperties DEF StoreTypeOK, Frame
<1>3. ASSUME NEW r \in Requests
      PROVE  request'[r] = IF Frame.ack = r /\ IsUnderWay(r)
                             THEN Acknowledged(Touched(request[r], Frame.views))
                             ELSE IF IsUnderWay(r) THEN Touched(request[r], Frame.views)
                                                   ELSE request[r]
  BY DEF Deliver, Frame
<1>4. ASSUME NEW r \in Requests, IsUnderWay(r)
      PROVE  AfterFrame(request[r], request'[r], Frame.views, Frame.ack = r)
  <2>1. request[r] \in UnderWay
    BY <1>4, UnderWayTypes
  <2>2. request'[r] = IF Frame.ack = r THEN Acknowledged(Touched(request[r], Frame.views))
                                       ELSE Touched(request[r], Frame.views)
    BY <1>3, <1>4
  <2>3. (Frame.ack = r) \in BOOLEAN
    OBVIOUS
  <2> QED BY <2>1, <2>2, <2>3, AfterFrameFacts
<1>5. \A r \in Requests : ~IsUnderWay(r) => request'[r] = request[r]
  BY <1>3
<1> QED BY <1>1, <1>2, <1>4, <1>5

LEMMA DeliverTyped ==
  ASSUME StoreTypeOK, Deliver
  PROVE  StoreTypeOK'
<1>1. /\ Frame \in Items /\ wire' \in Seq(Items)
      /\ cache' = Synced(cache, Frame.views) /\ ids' = SyncedIds(ids, Frame.views)
      /\ crossed' = crossed \ DOMAIN Frame.views /\ unheard' \subseteq unheard
      /\ UNCHANGED <<server, stream, drops, override>>
  BY DeliverFacts
<1>2. cache' \in [Agents -> Views \cup {Gone, Absent}] /\ ids' \subseteq Agents
  BY <1>1, ItemFields DEF Synced, SyncedIds, StoreTypeOK
<1>3. \A r \in Requests : request'[r] \in UnderWay \cup {Fresh, Settled}
  BY DeliverFacts DEF AfterFrame, IsUnderWay
<1>4. request' = [r \in Requests |-> request'[r]]
  BY DEF Deliver
<1>5. request' \in [Requests -> UnderWay \cup {Fresh, Settled}]
  BY <1>3, <1>4
<1> QED BY <1>1, <1>2, <1>5 DEF StoreTypeOK

LEMMA Singletons ==
  \A item \in Items : <<item>> \in Seq(Items)
OBVIOUS

\* An agent that has worked is one with a later turn.
LEMMA WorkedTyped ==
  ASSUME NEW view \in Views, view.turn < MaxTurn, NEW run \in {"idle", "busy"}
  PROVE  /\ Worked(view, run) \in Views /\ Worked(view, run).turn = view.turn + 1
         /\ view.turn \in Int
<1>1. view.turn \in Turns /\ view.turn + 1 \in Turns /\ view.turn \in Int
  <2>1. view.turn \in Turns
    BY DEF Views
  <2> QED BY <2>1, BoundsAssumption DEF Turns
<1>2. Worked(view, run) \in Views
  BY <1>1 DEF Worked, Views
<1>3. Worked(view, run).turn = view.turn + 1
  BY DEF Worked, Views
<1> QED BY <1>1, <1>2, <1>3

LEMMA WorkFacts ==
  ASSUME StoreTypeOK, NEW a \in Agents, Work(a)
  PROVE  /\ server[a] \in Views /\ server' = [server EXCEPT ![a] = server'[a]]
         /\ server'[a] \in Views /\ server'[a].turn = server[a].turn + 1
         /\ server[a].turn \in Int
<1>1. PICK view \in Views : view = server[a] /\ view.turn < MaxTurn
  BY DEF Work
<1>2. PICK run \in {"idle", "busy"} : server' = [server EXCEPT ![a] = Worked(@, run)]
  BY DEF Work
<1>3. /\ server' = [server EXCEPT ![a] = Worked(view, run)]
      /\ server'[a] = Worked(view, run)
  BY <1>1, <1>2 DEF StoreTypeOK
<1>4. Worked(view, run) \in Views /\ Worked(view, run).turn = view.turn + 1 /\ view.turn \in Int
  BY <1>1, WorkedTyped
<1> QED BY <1>1, <1>3, <1>4

LEMMA WorldTyped ==
  ASSUME StoreTypeOK
  PROVE  /\ \A a \in Agents : Work(a) \/ DeleteElsewhere(a) \/ Rekeys(a) => StoreTypeOK'
         /\ Open \/ Close \/ Subscribe => StoreTypeOK'
<1>1. ASSUME NEW a \in Agents, Work(a) PROVE StoreTypeOK'
  <2>1. /\ UNCHANGED <<stream, drops, cache, ids, override, request, crossed, unheard>>
        /\ wire' = Push(<<Item([b \in {a} |-> server'[a]], NoRequest)>>)
    BY <1>1 DEF Work
  <2>2. server' = [server EXCEPT ![a] = server'[a]] /\ server'[a] \in Views
    BY <1>1, WorkFacts
  <2>3. Item([b \in {a} |-> server'[a]], NoRequest) \in Items
    BY <2>2, NewsTyped
  <2>4. <<Item([b \in {a} |-> server'[a]], NoRequest)>> \in Seq(Items)
    BY <2>3, Singletons, Zenon
  <2>5. wire' \in Seq(Items)
    BY <2>1, <2>4, PushTyped DEF StoreTypeOK
  <2> QED BY <2>1, <2>2, <2>5 DEF StoreTypeOK
<1>2. ASSUME NEW a \in Agents, DeleteElsewhere(a) PROVE StoreTypeOK'
  <2>1. <<Item([b \in {a} |-> Gone], NoRequest)>> \in Seq(Items)
    <3>1. Item([b \in {a} |-> Gone], NoRequest) \in Items
      BY NewsTyped
    <3> QED BY <3>1, Singletons, Zenon
  <2>2. wire' \in Seq(Items)
    BY <1>2, <2>1, PushTyped DEF DeleteElsewhere, StoreTypeOK
  <2> QED BY <1>2, <2>2 DEF DeleteElsewhere, StoreTypeOK
<1>3. ASSUME NEW a \in Agents, Rekeys(a) PROVE StoreTypeOK'
  BY <1>3, RekeyedTyped DEF Rekeys, StoreTypeOK
<1>4. ASSUME Open PROVE StoreTypeOK'
  BY <1>4 DEF Open, StoreTypeOK
<1>5. ASSUME Close PROVE StoreTypeOK'
  <2>1. <<>> \in Seq(Items)
    OBVIOUS
  <2> QED BY <1>5, <2>1, BoundsAssumption DEF Close, StoreTypeOK
<1>6. ASSUME Subscribe PROVE StoreTypeOK'
  <2> DEFINE live == {a \in Agents : server[a] \in Views}
             views == [a \in live |-> server[a]]
  <2>1. live \in SUBSET Agents /\ views \in [live -> Views \cup {Gone}]
    OBVIOUS
  <2> HIDE DEF live, views
  <2>2. Item(views, NoRequest) \in Items
    BY <2>1, ItemTyped
  <2>3. wire' = <<Item(views, NoRequest)>>
    BY <1>6 DEF Subscribe, live, views
  <2>4. wire' \in Seq(Items)
    BY <2>2, <2>3
  <2> QED BY <1>6, <2>4 DEF Subscribe, StoreTypeOK
<1> QED BY <1>1, <1>2, <1>3, <1>4, <1>5, <1>6

LEMMA StoreTypeStep ==
  ASSUME StoreInv, StoreStep
  PROVE  StoreTypeOK'
<1>0. StoreTypeOK /\ RenamesNamed
  BY DEF StoreInv, TypeOK
<1>1. ASSUME NEW r \in Requests, NEW kind, NEW a, NEW title, NEW overrides,
             Mutates(r, kind, a, title, overrides)
      PROVE  StoreTypeOK'
  BY <1>0, <1>1, MutateTyped
<1>2. ASSUME NEW r \in Requests, Holds(r) PROVE StoreTypeOK'
  BY <1>0, <1>2, HoldFacts DEF Holds, StoreTypeOK
<1>3. ASSUME NEW r \in Requests, Commit(r) \/ Refuse(r) PROVE StoreTypeOK'
  BY <1>0, <1>3, CommitTyped, RefuseFacts
<1>4. ASSUME NEW r \in Requests, NEW ok \in BOOLEAN, NEW survives \in BOOLEAN,
             Settles(r, ok, survives)
      PROVE  StoreTypeOK'
  BY <1>0, <1>4, SettleTyped
<1>5. ASSUME UNCHANGED storeVars PROVE StoreTypeOK'
  BY <1>0, <1>5 DEF storeVars, StoreTypeOK
<1> QED BY <1>0, <1>1, <1>2, <1>3, <1>4, <1>5, WorldTyped, DeliverTyped DEF StoreStep

\* The renames and the requests given up, request by request.
LEMMA RequestsStep ==
  ASSUME StoreInv, StoreStep
  PROVE  RenamesNamed' /\ GivenUp'
<1> DEFINE Good(q) ==
      q \notin {Fresh, Settled} =>
        /\ q.kind = "rename" => q.title \in Titles
        /\ q.client = "settled" => q.tracker = "none" /\ q.prev = Absent
<1>0. StoreTypeOK /\ RenamesNamed /\ \A q \in Requests : Good(request[q])
  BY DEF StoreInv, TypeOK, RenamesNamed, GivenUp, IsUnderWay
<1>1. SUFFICES \A q \in Requests : Good(request'[q])
  BY DEF RenamesNamed, GivenUp, IsUnderWay
<1>2. Good(Fresh) /\ Good(Settled)
  OBVIOUS
<1>3. ASSUME NEW r \in Requests, Good(request'[r]), \A q \in Requests \ {r} : request'[q] = request[q]
      PROVE  \A q \in Requests : Good(request'[q])
  BY <1>0, <1>3
<1>4. ASSUME request' = request PROVE \A q \in Requests : Good(request'[q])
  BY <1>0, <1>4
<1> HIDE DEF Good
<1>5. ASSUME NEW r \in Requests, NEW kind, NEW a, NEW title, NEW overrides,
             Mutates(r, kind, a, title, overrides)
      PROVE  \A q \in Requests : Good(request'[q])
  <2>0. /\ request'[r] = [kind |-> kind, agent |-> a, title |-> title, prev |-> cache[a],
                          touched |-> FALSE, web |-> "pending", client |-> "waiting",
                          tracker |-> NewTracker(kind)]
        /\ \A q \in Requests \ {r} : request'[q] = request[q]
    BY <1>0, <1>5, MutateFacts
  <2>1. /\ request'[r].kind = kind /\ request'[r].title = title /\ request'[r].client = "waiting"
        /\ \A q \in Requests \ {r} : request'[q] = request[q]
    BY <2>0
  <2>2. Good(request'[r])
    BY <1>5, <2>1 DEF Good, Mutates
  <2> QED BY <1>3, <2>1, <2>2
<1>6. ASSUME NEW r \in Requests, Holds(r) PROVE \A q \in Requests : Good(request'[q])
  <2>1. Good(request'[r])
    BY <1>0, <1>6, HoldFacts DEF Good, Holds, IsUnderWay
  <2> QED BY <1>0, <1>3, <1>6, <2>1, HoldFacts
<1>7. ASSUME NEW r \in Requests, Commit(r) \/ Refuse(r) PROVE \A q \in Requests : Good(request'[q])
  <2>1. /\ request[r] \in UnderWay /\ IsUnderWay(r)
        /\ \E web \in {"done", "gone", "refused"} : request'[r] = Concluded(request[r], web)
        /\ \A q \in Requests \ {r} : request'[q] = request[q]
    BY <1>0, <1>7, CommitFacts, RefuseFacts DEF Commit, Refuse
  <2>2. Good(request'[r])
    BY <1>0, <1>2, <2>1, ConcludedFacts DEF Good, IsUnderWay
  <2> QED BY <1>3, <2>1, <2>2
<1>8. ASSUME NEW r \in Requests, NEW ok \in BOOLEAN, NEW survives \in BOOLEAN,
             Settles(r, ok, survives)
      PROVE  \A q \in Requests : Good(request'[q])
  <2>1. \A q \in Requests \ {r} : request'[q] = request[q]
    BY <1>0, <1>8, SettleFacts
  <2>2. CASE request'[r] = Settled
    BY <1>2, <1>3, <2>1, <2>2
  <2>3. CASE request'[r] # Settled
    <3>1. /\ request[r] \in UnderWay
          /\ request'[r] = [request[r] EXCEPT !.client = "settled", !.tracker = "none",
                                              !.prev = Absent, !.touched = FALSE]
      BY <1>0, <1>8, <2>3, SettleFacts
    <3>2. /\ request'[r].kind = request[r].kind /\ request'[r].title = request[r].title
          /\ request'[r].tracker = "none" /\ request'[r].prev = Absent
      BY <3>1 DEF UnderWay
    <3>3. Good(request'[r])
      BY <1>0, <1>8, <3>2 DEF Good, Settles, IsUnderWay
    <3> QED BY <1>3, <2>1, <3>3
  <2> QED BY <2>2, <2>3
<1>9. ASSUME Deliver PROVE \A q \in Requests : Good(request'[q])
  <2> TAKE q \in Requests
  <2>1. CASE ~IsUnderWay(q)
    BY <1>0, <1>9, <2>1, DeliverFacts
  <2>2. CASE IsUnderWay(q)
    <3>1. AfterFrame(request[q], request'[q], Frame.views, Frame.ack = q)
      BY <1>0, <1>9, <2>2, DeliverFacts
    <3>2. request[q] \notin {Fresh, Settled} /\ Good(request[q])
      BY <1>0, <2>2 DEF IsUnderWay
    <3>3. CASE request'[q] = Settled
      BY <1>2, <3>3
    <3> QED BY <3>1, <3>2, <3>3 DEF AfterFrame, Good
  <2> QED BY <2>1, <2>2
<1>10. ASSUME \/ \E a \in Agents : Rekeys(a) \/ Work(a) \/ DeleteElsewhere(a)
              \/ Open \/ Close \/ Subscribe \/ UNCHANGED storeVars
       PROVE  request' = request
  BY <1>10 DEF Rekeys, Work, DeleteElsewhere, Open, Close, Subscribe, storeVars
<1> QED BY <1>4, <1>5, <1>6, <1>7, <1>8, <1>9, <1>10 DEF StoreStep

HookTyped ==
  /\ viewed \in Agents \cup {Nobody} /\ noticed \in Turns \cup {Absent}
  /\ timer \in BOOLEAN /\ pending \in BOOLEAN /\ wish \subseteq Agents /\ HookInv

LEMMA StoreInvStep ==
  ASSUME StoreInv, [Next]_vars
  PROVE  StoreInv'
<1>0. StoreTypeOK' /\ RenamesNamed' /\ GivenUp'
  BY StoreSteps, StoreTypeStep, RequestsStep
<1>1. HookTyped'
  <2>0. \A a \in Agents \cup {Nobody} : UpdatedAt(a) \in Turns \cup {Absent}
    BY DEF UpdatedAt, StoreInv, TypeOK, StoreTypeOK, Views
  <2> USE DEF StoreInv, TypeOK, HookInv, HookTyped
  <2>1. ASSUME NEW r \in Requests, NEW a \in Agents, NEW first \in BOOLEAN, Activate(r, a, first)
        PROVE  HookTyped'
    BY <2>0, <2>1 DEF Activate
  <2>2. ASSUME NEW r \in Requests, Leave(r) PROVE HookTyped'
    BY <2>2 DEF Leave
  <2>3. ASSUME NEW r \in Requests, NEW a \in Agents, MarkUnread(r, a) PROVE HookTyped'
    BY <2>3 DEF MarkUnread
  <2>4. ASSUME UNCHANGED hookVars PROVE HookTyped'
    BY <2>4 DEF hookVars
  <2>5. ASSUME Receive PROVE HookTyped'
    BY <2>5 DEF Receive
  <2>6. ASSUME Notice PROVE HookTyped'
    BY <2>0, <2>6 DEF Notice
  <2>7. ASSUME NEW a \in Agents, DeriveDot(a) PROVE HookTyped'
    BY <2>4, <2>7 DEF DeriveDot
  <2>8. ASSUME NEW r \in Requests, DebounceEnds(r) PROVE HookTyped'
    BY <2>8 DEF DebounceEnds
  <2>9. ASSUME NEW r \in Requests, Conclude(r) PROVE HookTyped'
    BY <2>9 DEF Conclude
  <2>10. ASSUME WorldActs \/ UNCHANGED vars PROVE HookTyped'
    BY <2>4, <2>10 DEF WorldActs, vars
  <2> QED BY <2>1, <2>2, <2>3, <2>4, <2>5, <2>6, <2>7, <2>8, <2>9, <2>10
          DEF Next, UserActs, WindowActs
<1> QED BY <1>0, <1>1 DEF StoreInv, TypeOK, HookTyped

-----------------------------------------------------------------------------
(* Acknowledgements follow the frames *)

\* One of the items before the i-th has a frame with the agent.
ToldBefore(w, i, a) == \E j \in 1 .. i - 1 : a \in DOMAIN w[j].views

AckOf(w, r, q) ==
  /\ q = Fresh => \A i \in DOMAIN w : w[i].ack # r
  /\ q \notin {Fresh, Settled} =>
       /\ q.tracker = "acked" => q.touched
       /\ q.tracker = "waiting" =>
            \A i \in DOMAIN w : w[i].ack = r => q.touched \/ ToldBefore(w, i, q.agent)

\* What is on the wire acknowledges a request only behind a frame with its
\* agent, or when such a frame has come.
AckInv == \A r \in Requests : AckOf(wire, r, request[r])

\* A request that stands where it stood.
LEMMA AckKept ==
  ASSUME NEW w, NEW r \in Requests, NEW q \in UnderWay, NEW p \in UnderWay, AckOf(w, r, q),
         p.agent = q.agent, p.touched = q.touched, p.tracker \in {q.tracker, "late"}
  PROVE  AckOf(w, r, p)
  BY MarksAssumption DEF AckOf

LEMMA AckOver ==
  ASSUME NEW w, NEW r \in Requests
  PROVE  /\ AckOf(w, r, Settled)
         /\ \A p \in UnderWay : p.tracker = "none" => AckOf(w, r, p)
  BY MarksAssumption DEF AckOf

\* What goes to the end of the wire acknowledges nothing, or what it has told.
LEMMA AckPushed ==
  ASSUME NEW w \in Seq(Items), NEW items \in Seq(Items), NEW r \in Requests, NEW q,
         AckOf(w, r, q),
         \A k \in 1 .. Len(items) : items[k].ack = r =>
           /\ q # Fresh
           /\ q # Settled => \E j \in 1 .. k - 1 : q.agent \in DOMAIN items[j].views
  PROVE  AckOf(w \o items, r, q)
<1>1. /\ w \o items \in Seq(Items) /\ Len(w) \in Nat /\ Len(items) \in Nat
      /\ Len(w \o items) = Len(w) + Len(items)
      /\ \A i \in 1 .. Len(w) : (w \o items)[i] = w[i]
      /\ \A i \in Len(w) + 1 .. Len(w) + Len(items) : (w \o items)[i] = items[i - Len(w)]
  OBVIOUS
<1> DEFINE both == w \o items
<1>2. both = w \o items
  OBVIOUS
<1> HIDE DEF both
<1>3. /\ DOMAIN both = 1 .. Len(w) + Len(items) /\ DOMAIN w = 1 .. Len(w)
      /\ \A i \in 1 .. Len(w) : both[i] = w[i]
      /\ \A i \in Len(w) + 1 .. Len(w) + Len(items) : both[i] = items[i - Len(w)]
  BY <1>1, <1>2
<1>4. \A i \in 1 .. Len(w) : \A a : ToldBefore(w, i, a) => ToldBefore(both, i, a)
  BY <1>1, <1>3 DEF ToldBefore
<1>5. \A i \in Len(w) + 1 .. Len(w) + Len(items) : \A a :
        (\E j \in 1 .. (i - Len(w)) - 1 : a \in DOMAIN items[j].views) => ToldBefore(both, i, a)
  <2> TAKE i \in Len(w) + 1 .. Len(w) + Len(items)
  <2> TAKE a
  <2> HAVE \E j \in 1 .. (i - Len(w)) - 1 : a \in DOMAIN items[j].views
  <2>1. PICK j \in 1 .. (i - Len(w)) - 1 : a \in DOMAIN items[j].views
    OBVIOUS
  <2>2. /\ Len(w) + j \in 1 .. i - 1 /\ Len(w) + j \in Len(w) + 1 .. Len(w) + Len(items)
        /\ (Len(w) + j) - Len(w) = j
    BY <1>1
  <2>3. a \in DOMAIN both[Len(w) + j].views
    BY <1>3, <2>1, <2>2
  <2> QED BY <2>2, <2>3 DEF ToldBefore
<1>6. \A i \in Len(w) + 1 .. Len(w) + Len(items) :
        i - Len(w) \in 1 .. Len(items) /\ both[i] = items[i - Len(w)]
  BY <1>1, <1>3
<1>7. ASSUME NEW i \in DOMAIN both, both[i].ack = r
      PROVE  /\ q # Fresh
             /\ q # Settled /\ q.tracker = "waiting" => q.touched \/ ToldBefore(both, i, q.agent)
  <2>1. CASE i \in 1 .. Len(w)
    BY <1>3, <1>4, <1>7, <2>1 DEF AckOf
  <2>2. CASE i \notin 1 .. Len(w)
    <3>1. i \in Len(w) + 1 .. Len(w) + Len(items)
      BY <1>1, <1>3, <2>2
    <3>2. PICK k \in 1 .. Len(items) : k = i - Len(w) /\ items[k].ack = r
      BY <1>6, <1>7, <3>1
    <3>3. q # Fresh /\ (q # Settled => \E j \in 1 .. k - 1 : q.agent \in DOMAIN items[j].views)
      BY <3>2
    <3> QED BY <1>5, <3>1, <3>2, <3>3
  <2> QED BY <2>1, <2>2
<1>8. AckOf(both, r, q)
  BY <1>7 DEF AckOf
<1> QED BY <1>2, <1>8

\* The stream may be down, and then nothing is put on it.
LEMMA AckOnTheWire ==
  ASSUME StoreTypeOK, NEW items \in Seq(Items), NEW r \in Requests, NEW q, AckOf(wire, r, q),
         wire' = Push(items),
         \A k \in 1 .. Len(items) : items[k].ack = r =>
           /\ q # Fresh
           /\ q # Settled => \E j \in 1 .. k - 1 : q.agent \in DOMAIN items[j].views
  PROVE  AckOf(wire', r, q)
<1>1. wire \in Seq(Items)
  BY DEF StoreTypeOK
<1>2. AckOf(wire \o items, r, q)
  BY <1>1, AckPushed
<1>3. wire' = wire \o items \/ wire' = wire
  BY DEF Push
<1> QED BY <1>2, <1>3

\* The frame at the head of the wire is handled.
LEMMA AckTaken ==
  ASSUME NEW w \in Seq(Items), w # <<>>, NEW r \in Requests, NEW q \in UnderWay, NEW p,
         q.client = "settled" => q.tracker = "none",
         AckOf(w, r, q), AfterFrame(q, p, Head(w).views, Head(w).ack = r)
  PROVE  AckOf(Tail(w), r, p)
<1>1. /\ Len(w) \in Nat /\ Len(w) >= 1 /\ Head(w) = w[1] /\ DOMAIN w = 1 .. Len(w)
      /\ DOMAIN Tail(w) = 1 .. Len(w) - 1
      /\ \A i \in 1 .. Len(w) - 1 : Tail(w)[i] = w[i + 1]
  BY HeadTailProperties
<1>2. q \notin {Fresh, Settled}
  BY MarksAssumption
<1>3. CASE p = Settled
  BY <1>3, AckOver
<1>4. CASE p # Settled
  <2>0. /\ p \in UnderWay /\ p.agent = q.agent
        /\ p.touched = (q.touched \/ (q.agent \in DOMAIN Head(w).views /\ q.client # "settled"))
        /\ p.tracker = q.tracker \/ (p.tracker = "acked" /\ Head(w).ack = r /\ q.tracker = "waiting")
    BY <1>4 DEF AfterFrame
  <2>1. p.tracker = "acked" => p.touched
    <3>1. q.tracker = "acked" => q.touched
      BY <1>2 DEF AckOf
    <3>2. Head(w).ack = r /\ q.tracker = "waiting" => q.touched
      BY <1>1, <1>2 DEF AckOf, ToldBefore
    <3> QED BY <2>0, <3>1, <3>2
  <2>2. ASSUME p.tracker = "waiting", NEW i \in DOMAIN Tail(w), Tail(w)[i].ack = r, ~p.touched
        PROVE  ToldBefore(Tail(w), i, p.agent)
    <3>1. q.tracker = "waiting" /\ ~q.touched /\ q.agent \notin DOMAIN w[1].views
      BY <1>1, <2>0, <2>2
    <3>2. ToldBefore(w, i + 1, q.agent)
      BY <1>1, <1>2, <2>2, <3>1 DEF AckOf
    <3>3. PICK j \in 1 .. i : q.agent \in DOMAIN w[j].views
      BY <1>1, <3>2 DEF ToldBefore
    <3>4. j - 1 \in 1 .. i - 1 /\ Tail(w)[j - 1] = w[j]
      BY <1>1, <3>1, <3>3
    <3> QED BY <2>0, <3>3, <3>4 DEF ToldBefore
  <2> QED BY <2>0, <2>1, <2>2, MarksAssumption DEF AckOf
<1> QED BY <1>3, <1>4

LEMMA AckStep ==
  ASSUME StoreInv, AckInv, StoreStep
  PROVE  AckInv'
<1>0. StoreTypeOK /\ RenamesNamed /\ GivenUp /\ wire \in Seq(Items)
  BY DEF StoreInv, TypeOK, StoreTypeOK
<1>a. \A q \in Requests : AckOf(wire, q, request[q])
  BY DEF AckInv
<1>b. SUFFICES \A q \in Requests : AckOf(wire', q, request'[q])
  BY DEF AckInv
<1>1. ASSUME NEW r \in Requests, NEW kind, NEW a, NEW title, NEW overrides,
             Mutates(r, kind, a, title, overrides)
      PROVE  \A q \in Requests : AckOf(wire', q, request'[q])
  <2>1. /\ request[r] = Fresh /\ request'[r] \in UnderWay /\ wire' = wire
        /\ \A q \in Requests \ {r} : request'[q] = request[q]
        /\ request'[r] = [kind |-> kind, agent |-> a, title |-> title, prev |-> cache[a],
                          touched |-> FALSE, web |-> "pending", client |-> "waiting",
                          tracker |-> NewTracker(kind)]
    BY <1>0, <1>1, MutateFacts
  <2>2. request'[r].tracker # "acked"
    BY <2>1, NewTrackerTyped
  <2>3. AckOf(wire, r, request'[r])
    BY <1>a, <2>1, <2>2, MarksAssumption DEF AckOf
  <2> QED BY <1>a, <2>1, <2>3
<1>2. ASSUME NEW r \in Requests, Holds(r)
      PROVE  \A q \in Requests : AckOf(wire', q, request'[q])
  <2>1. AckOf(wire, r, request'[r]) /\ wire' = wire
    BY <1>0, <1>2, <1>a, HoldFacts, AckKept DEF Holds
  <2> QED BY <1>0, <1>2, <1>a, <2>1, HoldFacts
<1>3. ASSUME NEW r \in Requests, NEW ok \in BOOLEAN, NEW survives \in BOOLEAN,
             Settles(r, ok, survives)
      PROVE  \A q \in Requests : AckOf(wire', q, request'[q])
  <2>1. wire' = wire /\ \A q \in Requests \ {r} : request'[q] = request[q]
    BY <1>0, <1>3, SettleFacts DEF Settles
  <2>2. CASE request'[r] = Settled
    BY <1>a, <2>1, <2>2, AckOver
  <2>3. CASE request'[r] # Settled
    <3>1. /\ request[r] \in UnderWay /\ request'[r] \in UnderWay
          /\ request'[r] = [request[r] EXCEPT !.client = "settled", !.tracker = "none",
                                              !.prev = Absent, !.touched = FALSE]
      BY <1>0, <1>3, <2>3, SettleFacts
    <3>2. request'[r].tracker = "none"
      BY <3>1 DEF UnderWay
    <3> QED BY <1>a, <2>1, <3>1, <3>2, AckOver
  <2> QED BY <2>2, <2>3
<1>4. ASSUME NEW r \in Requests, NEW web \in {"done", "gone", "refused"}, request[r] \in UnderWay,
             NEW w, AckOf(w, r, request[r])
      PROVE  AckOf(w, r, Concluded(request[r], web))
  BY <1>4, ConcludedFacts, AckOver, AckKept
<1>5. ASSUME NEW r \in Requests, Refuse(r)
      PROVE  \A q \in Requests : AckOf(wire', q, request'[q])
  BY <1>0, <1>4, <1>5, <1>a, RefuseFacts
<1>6. ASSUME NEW r \in Requests, Commit(r)
      PROVE  \A q \in Requests : AckOf(wire', q, request'[q])
  <2>1. /\ request[r] \in UnderWay /\ request[r].agent \in Agents
        /\ \A q \in Requests \ {r} : request'[q] = request[q]
    BY <1>0, <1>6, CommitFacts
  <2>2. CASE server[request[r].agent] = Gone
    <3>1. request'[r] = Concluded(request[r], "gone") /\ wire' = wire
      BY <1>0, <1>6, <2>2, CommitFacts, MarksAssumption
    <3> QED BY <1>4, <1>a, <2>1, <3>1
  <2>3. CASE server[request[r].agent] # Gone
    <3>1. PICK state \in Views \cup {Gone} : /\ request'[r] = Concluded(request[r], "done")
                                             /\ wire' = Push(Published(request[r].agent, state, r))
      BY <1>0, <1>6, <2>3, CommitFacts
    <3>2. PICK items \in Seq(Items) :
            /\ wire' = Push(items) /\ Len(items) = 2
            /\ items[1] = Item([b \in {request[r].agent} |-> state], NoRequest)
            /\ items[2] = Item(NoViews, r)
      BY <2>1, <3>1, PublishedTyped DEF Published
    <3>3. /\ items[1].ack = NoRequest /\ request[r].agent \in DOMAIN items[1].views
          /\ items[2].ack = r
      BY <3>2 DEF Item
    <3>4. request[r] \notin {Fresh, Settled}
      BY <2>1, MarksAssumption
    <3>5. AckOf(wire', r, request[r])
      <4>1. \A k \in 1 .. Len(items) : items[k].ack = r =>
              \E j \in 1 .. k - 1 : request[r].agent \in DOMAIN items[j].views
        BY <3>2, <3>3, MarksAssumption
      <4> QED BY <1>0, <1>a, <3>2, <3>4, <4>1, AckOnTheWire
    <3>6. ASSUME NEW q \in Requests \ {r}
          PROVE  AckOf(wire', q, request[q])
      <4>1. \A k \in 1 .. Len(items) : items[k].ack # q
        BY <3>2, <3>3, MarksAssumption
      <4> QED BY <1>0, <1>a, <3>2, <4>1, AckOnTheWire
    <3> QED BY <1>4, <2>1, <3>1, <3>5, <3>6
  <2> QED BY <2>2, <2>3
<1>7. ASSUME NEW item \in Items, item.ack = NoRequest, request' = request,
             wire' = Push(<<item>>) \/ wire' = <<item>>
      PROVE  \A q \in Requests : AckOf(wire', q, request'[q])
  <2>1. <<item>> \in Seq(Items) /\ Len(<<item>>) = 1 /\ <<item>>[1] = item
    OBVIOUS
  <2>2. CASE wire' = Push(<<item>>)
    <3> TAKE q \in Requests
    <3>1. \A k \in 1 .. Len(<<item>>) : <<item>>[k].ack # q
      BY <1>7, <2>1, MarksAssumption
    <3> QED BY <1>0, <1>7, <1>a, <2>1, <2>2, <3>1, AckOnTheWire
  <2>3. CASE wire' = <<item>>
    BY <1>7, <1>a, <2>1, <2>3, MarksAssumption DEF AckOf
  <2> QED BY <1>7, <2>2, <2>3
<1>8. ASSUME NEW a \in Agents, Work(a) \/ DeleteElsewhere(a)
      PROVE  \A q \in Requests : AckOf(wire', q, request'[q])
  <2>1. PICK state \in Views \cup {Gone} :
          request' = request /\ wire' = Push(<<Item([b \in {a} |-> state], NoRequest)>>)
    BY <1>0, <1>8, WorkFacts DEF Work, DeleteElsewhere
  <2>2. Item([b \in {a} |-> state], NoRequest) \in Items
    BY NewsTyped
  <2>3. Item([b \in {a} |-> state], NoRequest).ack = NoRequest
    BY DEF Item
  <2> QED BY <1>7, <2>1, <2>2, <2>3
<1>9. ASSUME Subscribe
      PROVE  \A q \in Requests : AckOf(wire', q, request'[q])
  <2> DEFINE views == [b \in {b \in Agents : server[b] \in Views} |-> server[b]]
  <2>1. request' = request /\ wire' = <<Item(views, NoRequest)>>
    BY <1>9 DEF Subscribe
  <2>2. Item(views, NoRequest) \in Items
    <3>1. views \in [{b \in Agents : server[b] \in Views} -> Views \cup {Gone}]
      OBVIOUS
    <3> QED BY <3>1, ItemTyped
  <2>3. Item(views, NoRequest).ack = NoRequest
    BY DEF Item
  <2> QED BY <1>7, <2>1, <2>2, <2>3
<1>10. ASSUME Close
       PROVE  \A q \in Requests : AckOf(wire', q, request'[q])
  <2>1. wire' = <<>> /\ request' = request
    BY <1>10 DEF Close
  <2> QED BY <1>a, <2>1 DEF AckOf
<1>11. ASSUME \/ \E a \in Agents : Rekeys(a)
              \/ Open \/ UNCHANGED storeVars
       PROVE  \A q \in Requests : AckOf(wire', q, request'[q])
  BY <1>11, <1>a DEF Rekeys, Open, storeVars
<1>12. ASSUME Deliver
       PROVE  \A q \in Requests : AckOf(wire', q, request'[q])
  <2>1. /\ wire # <<>> /\ wire' = Tail(wire) /\ Frame = Head(wire)
        /\ \A r \in Requests :
              IF IsUnderWay(r)
                THEN AfterFrame(request[r], request'[r], Frame.views, Frame.ack = r)
                ELSE request'[r] = request[r]
    BY <1>0, <1>12, DeliverFacts DEF Frame
  <2> TAKE q \in Requests
  <2>2. CASE IsUnderWay(q)
    <3>1. request[q] \in UnderWay /\ (request[q].client = "settled" => request[q].tracker = "none")
      BY <1>0, <2>2, UnderWayTypes DEF GivenUp
    <3> QED BY <1>0, <1>a, <2>1, <2>2, <3>1, AckTaken
  <2>3. CASE ~IsUnderWay(q)
    <3>1. /\ Len(wire) \in Nat /\ DOMAIN wire = 1 .. Len(wire)
          /\ DOMAIN Tail(wire) = 1 .. Len(wire) - 1
          /\ \A i \in 1 .. Len(wire) - 1 : Tail(wire)[i] = wire[i + 1]
      BY <1>0, <2>1, HeadTailProperties
    <3>2. request'[q] = request[q] /\ request[q] \in {Fresh, Settled} /\ AckOf(wire, q, request[q])
      BY <1>a, <2>1, <2>3 DEF IsUnderWay
    <3> QED BY <2>1, <3>1, <3>2 DEF AckOf
  <2> QED BY <2>2, <2>3
<1> QED BY <1>1, <1>2, <1>3, <1>5, <1>6, <1>8, <1>9, <1>10, <1>11, <1>12 DEF StoreStep

-----------------------------------------------------------------------------
(* What is on the wire about an agent *)

Tells(w, a) == {i \in DOMAIN w : a \in DOMAIN w[i].views}
Silent(w, a) == Tells(w, a) = {}
Heard(w, a) == {w[i].views[a] : i \in Tells(w, a)}

LEMMA PushedFacts ==
  ASSUME NEW w \in Seq(Items), NEW items \in Seq(Items), NEW both, both = w \o items
  PROVE  /\ Len(w) \in Nat /\ Len(items) \in Nat /\ both \in Seq(Items)
         /\ DOMAIN both = 1 .. Len(w) + Len(items) /\ DOMAIN w = 1 .. Len(w)
         /\ DOMAIN items = 1 .. Len(items)
         /\ \A i \in 1 .. Len(w) : both[i] = w[i]
         /\ \A i \in Len(w) + 1 .. Len(w) + Len(items) :
              i - Len(w) \in 1 .. Len(items) /\ both[i] = items[i - Len(w)]
<1>1. /\ w \o items \in Seq(Items) /\ Len(w) \in Nat /\ Len(items) \in Nat
      /\ Len(w \o items) = Len(w) + Len(items)
      /\ \A i \in 1 .. Len(w) : (w \o items)[i] = w[i]
      /\ \A i \in Len(w) + 1 .. Len(w) + Len(items) : (w \o items)[i] = items[i - Len(w)]
  OBVIOUS
<1>2. \A i \in Len(w) + 1 .. Len(w) + Len(items) : i - Len(w) \in 1 .. Len(items)
  BY <1>1
<1>3. DOMAIN both = 1 .. Len(both)
  BY <1>1
<1> QED BY <1>1, <1>2, <1>3

LEMMA TailFacts ==
  ASSUME NEW w \in Seq(Items), w # <<>>
  PROVE  /\ Len(w) \in Nat /\ Len(w) >= 1 /\ Head(w) = w[1] /\ DOMAIN w = 1 .. Len(w)
         /\ DOMAIN Tail(w) = 1 .. Len(w) - 1
         /\ \A i \in 1 .. Len(w) - 1 : Tail(w)[i] = w[i + 1]
  BY HeadTailProperties

LEMMA HeardPushed ==
  ASSUME NEW w \in Seq(Items), NEW items \in Seq(Items), NEW a
  PROVE  Heard(w \o items, a) \subseteq Heard(w, a) \cup Heard(items, a)
<1> DEFINE both == w \o items
<1>1. both = w \o items
  OBVIOUS
<1> HIDE DEF both
<1>2. /\ Len(w) \in Nat /\ Len(items) \in Nat
      /\ DOMAIN both = 1 .. Len(w) + Len(items) /\ DOMAIN w = 1 .. Len(w)
      /\ DOMAIN items = 1 .. Len(items)
      /\ \A i \in 1 .. Len(w) : both[i] = w[i]
      /\ \A i \in Len(w) + 1 .. Len(w) + Len(items) :
           i - Len(w) \in 1 .. Len(items) /\ both[i] = items[i - Len(w)]
  BY <1>1, PushedFacts
<1>3. ASSUME NEW i \in Tells(both, a)
      PROVE  both[i].views[a] \in Heard(w, a) \cup Heard(items, a)
  <2>1. CASE i \in 1 .. Len(w)
    BY <1>2, <1>3, <2>1 DEF Tells, Heard
  <2>2. CASE i \notin 1 .. Len(w)
    <3>1. i \in Len(w) + 1 .. Len(w) + Len(items)
      BY <1>2, <1>3, <2>2 DEF Tells
    <3>2. PICK k \in 1 .. Len(items) : both[i] = items[k]
      BY <1>2, <3>1
    <3> QED BY <1>2, <1>3, <3>2 DEF Tells, Heard
  <2> QED BY <2>1, <2>2
<1>4. Heard(both, a) \subseteq Heard(w, a) \cup Heard(items, a)
  BY <1>3 DEF Heard
<1> QED BY <1>1, <1>4

LEMMA HeardTail ==
  ASSUME NEW w \in Seq(Items), w # <<>>, NEW a
  PROVE  /\ Heard(Tail(w), a) \subseteq Heard(w, a)
         /\ a \in DOMAIN Head(w).views => Head(w).views[a] \in Heard(w, a)
<1>1. /\ Len(w) \in Nat /\ Len(w) >= 1 /\ Head(w) = w[1] /\ DOMAIN w = 1 .. Len(w)
      /\ DOMAIN Tail(w) = 1 .. Len(w) - 1
      /\ \A i \in 1 .. Len(w) - 1 : Tail(w)[i] = w[i + 1]
  BY TailFacts
<1>2. ASSUME NEW i \in Tells(Tail(w), a)
      PROVE  Tail(w)[i].views[a] \in Heard(w, a)
  <2>1. i + 1 \in DOMAIN w /\ Tail(w)[i] = w[i + 1] /\ a \in DOMAIN Tail(w)[i].views
    BY <1>1, <1>2 DEF Tells
  <2> QED BY <2>1 DEF Tells, Heard
<1>3. a \in DOMAIN Head(w).views => Head(w).views[a] \in Heard(w, a)
  BY <1>1 DEF Tells, Heard
<1> QED BY <1>2, <1>3 DEF Heard

LEMMA HeardOne ==
  ASSUME NEW views, NEW r, NEW a
  PROVE  \A x \in Heard(<<Item(views, r)>>, a) : a \in DOMAIN views /\ x = views[a]
  BY DEF Heard, Tells, Item

LEMMA HeardPublished ==
  ASSUME NEW b, NEW state, NEW r, NEW a
  PROVE  Heard(Published(b, state, r), a) \subseteq IF a = b THEN {state} ELSE {}
  BY DEF Heard, Tells, Item, Published, NoViews

\* Whatever comes to the wire about an agent is what the server has made of it.
LEMMA HeardStep ==
  ASSUME StoreInv, StoreStep, NEW a \in Agents
  PROVE  \A x \in Heard(wire', a) : x \in Heard(wire, a) \/ x = server'[a]
<1>0. StoreTypeOK /\ RenamesNamed /\ wire \in Seq(Items)
  BY DEF StoreInv, TypeOK, StoreTypeOK
<1>1. ASSUME NEW items \in Seq(Items), wire' = Push(items), Heard(items, a) \subseteq {server'[a]}
      PROVE  \A x \in Heard(wire', a) : x \in Heard(wire, a) \/ x = server'[a]
  BY <1>0, <1>1, HeardPushed DEF Push
<1>2. ASSUME NEW r \in Requests, Commit(r)
      PROVE  \A x \in Heard(wire', a) : x \in Heard(wire, a) \/ x = server'[a]
  <2>1. request[r].agent \in Agents /\ (wire' = wire \/ server'[request[r].agent] \in Views \cup {Gone})
    BY <1>0, <1>2, CommitFacts
  <2>2. CASE wire' # wire
    <3>1. wire' = Push(Published(request[r].agent, server'[request[r].agent], r))
      BY <1>0, <1>2, <2>2, CommitFacts
    <3>2. Published(request[r].agent, server'[request[r].agent], r) \in Seq(Items)
      BY <2>1, <2>2, PublishedTyped
    <3>3. Heard(Published(request[r].agent, server'[request[r].agent], r), a) \subseteq {server'[a]}
      BY HeardPublished
    <3> QED BY <1>1, <3>1, <3>2, <3>3
  <2> QED BY <2>2
<1>3. ASSUME NEW b \in Agents, Work(b) \/ DeleteElsewhere(b)
      PROVE  \A x \in Heard(wire', a) : x \in Heard(wire, a) \/ x = server'[a]
  <2>1. PICK state \in Views \cup {Gone} :
          state = server'[b] /\ wire' = Push(<<Item([c \in {b} |-> state], NoRequest)>>)
    BY <1>0, <1>3, WorkFacts DEF Work, DeleteElsewhere, StoreTypeOK
  <2>2. Item([c \in {b} |-> state], NoRequest) \in Items
    BY NewsTyped
  <2>3. <<Item([c \in {b} |-> state], NoRequest)>> \in Seq(Items)
    BY <2>2, Singletons, Zenon
  <2>4. Heard(<<Item([c \in {b} |-> state], NoRequest)>>, a) \subseteq {server'[a]}
    BY <2>1, HeardOne
  <2> QED BY <1>1, <2>1, <2>3, <2>4
<1>4. ASSUME Subscribe
      PROVE  \A x \in Heard(wire', a) : x \in Heard(wire, a) \/ x = server'[a]
  <2> DEFINE views == [b \in {b \in Agents : server[b] \in Views} |-> server[b]]
  <2>1. server' = server /\ wire' = <<Item(views, NoRequest)>>
    BY <1>4 DEF Subscribe
  <2> QED BY <2>1, HeardOne
<1>5. ASSUME Close
      PROVE  \A x \in Heard(wire', a) : x \in Heard(wire, a) \/ x = server'[a]
  BY <1>5 DEF Close, Heard, Tells
<1>6. ASSUME Deliver
      PROVE  \A x \in Heard(wire', a) : x \in Heard(wire, a) \/ x = server'[a]
  BY <1>0, <1>6, HeardTail DEF Deliver
<1>7. ASSUME wire' = wire
      PROVE  \A x \in Heard(wire', a) : x \in Heard(wire, a) \/ x = server'[a]
  BY <1>7
<1>8. ASSUME NEW r \in Requests, NEW kind, NEW b, NEW title, NEW overrides,
             Mutates(r, kind, b, title, overrides)
      PROVE  wire' = wire
  BY <1>8 DEF Mutates, Mutate
<1>9. ASSUME \/ \E r \in Requests : Holds(r) \/ Refuse(r)
             \/ \E r \in Requests : \E ok, survives \in BOOLEAN : Settles(r, ok, survives)
             \/ \E b \in Agents : Rekeys(b)
             \/ Open \/ UNCHANGED storeVars
      PROVE  wire' = wire
  BY <1>9 DEF Holds, Refuse, Settles, Rekeys, Open, storeVars
<1> QED BY <1>2, <1>3, <1>4, <1>5, <1>6, <1>7, <1>8, <1>9 DEF StoreStep

\* The server keeps the turn and the run of an agent, or takes its next turn.
LEMMA ServerStep ==
  ASSUME StoreInv, StoreStep, NEW a \in Agents, server'[a] \in Views
  PROVE  /\ server[a] \in Views
         /\ \/ server'[a].turn = server[a].turn /\ server'[a].status = server[a].status
            \/ server'[a].turn = server[a].turn + 1 /\ server[a].turn \in Int
<1>0. StoreTypeOK /\ RenamesNamed
  BY DEF StoreInv, TypeOK
<1> DEFINE Goal ==
      /\ server[a] \in Views
      /\ \/ server'[a].turn = server[a].turn /\ server'[a].status = server[a].status
         \/ server'[a].turn = server[a].turn + 1 /\ server[a].turn \in Int
<1>1. ASSUME server'[a] = server[a] PROVE Goal
  BY <1>1
<1> HIDE DEF Goal
<1>2. ASSUME NEW r \in Requests, Commit(r) PROVE Goal
  <2>1. CASE a = request[r].agent /\ server'[a] # server[a]
    <3>1. /\ server[a] \in Views /\ request[r] \in UnderWay
          /\ server'[a] = Optimistic(request[r].kind, server[a], request[r].title)
      BY <1>0, <1>2, <2>1, CommitFacts
    <3>2. /\ request[r].kind \in Kinds
          /\ request[r].kind = "rename" => request[r].title \in Titles
      BY <1>0, <1>2, UnderWayTypes DEF Commit, RenamesNamed
    <3>3. request[r].kind # "delete"
      BY <3>1, <3>2, OptimisticTyped, MarksAssumption
    <3> QED BY <3>1, <3>2, <3>3, OptimisticTyped DEF Goal
  <2>2. CASE a # request[r].agent
    BY <1>0, <1>1, <1>2, <2>2, CommitFacts
  <2> QED BY <1>1, <2>1, <2>2
<1>3. ASSUME NEW b \in Agents, Work(b) PROVE Goal
  <2>1. CASE a = b
    BY <1>0, <1>3, <2>1, WorkFacts DEF Goal
  <2>2. CASE a # b
    BY <1>0, <1>1, <1>3, <2>2, WorkFacts DEF StoreTypeOK
  <2> QED BY <2>1, <2>2
<1>4. ASSUME NEW b \in Agents, DeleteElsewhere(b) PROVE Goal
  <2>1. a # b
    BY <1>0, <1>4, MarksAssumption DEF DeleteElsewhere, StoreTypeOK
  <2>2. server'[a] = server[a]
    BY <1>0, <1>4, <2>1 DEF DeleteElsewhere, StoreTypeOK
  <2> QED BY <1>1, <2>2
<1>5. ASSUME NEW r \in Requests, NEW kind, NEW b, NEW title, NEW overrides,
             Mutates(r, kind, b, title, overrides)
      PROVE  server' = server
  BY <1>5 DEF Mutates, Mutate
<1>6. ASSUME \/ \E r \in Requests : Holds(r) \/ Refuse(r)
             \/ \E r \in Requests : \E ok, survives \in BOOLEAN : Settles(r, ok, survives)
             \/ \E b \in Agents : Rekeys(b)
             \/ Open \/ Close \/ Subscribe \/ Deliver \/ UNCHANGED storeVars
      PROVE  server' = server
  BY <1>6 DEF Holds, Refuse, Settles, Rekeys, Open, Close, Subscribe, Deliver, storeVars
<1>7. Goal
  BY <1>1, <1>2, <1>3, <1>4, <1>5, <1>6 DEF StoreStep
<1> QED BY <1>7 DEF Goal

-----------------------------------------------------------------------------
(* What the cache shows, and may show again *)

\* A request stays what it was, though it may lose its snapshot.
Stays(q, p) ==
  /\ q \in UnderWay /\ p \in UnderWay
  /\ p.kind = q.kind /\ p.agent = q.agent /\ p.title = q.title
  /\ \/ p.prev = Absent
     \/ /\ p.prev = q.prev /\ (q.touched => p.touched)
        /\ q.client = "settled" => p.client = "settled"

LEMMA StaysFacts ==
  ASSUME NEW q, NEW p, Stays(q, p)
  PROVE  /\ p.agent = q.agent /\ p.kind = q.kind /\ p.title = q.title
         /\ Restorable(p) => Restorable(q) /\ p.prev = q.prev
         /\ p.prev \in Views => p.prev = q.prev
  BY MarksAssumption DEF Stays, Restorable

\* A request under way was begun by this step, or stays what it was.
LEMMA SnapshotStep ==
  ASSUME StoreInv, StoreStep, NEW r \in Requests, request'[r] \notin {Fresh, Settled}
  PROVE  \/ \E kind \in Kinds, a \in Agents : \E title, overrides :
              Mutates(r, kind, a, title, overrides)
         \/ request[r] \in UnderWay /\ Stays(request[r], request'[r])
<1>0. StoreTypeOK /\ RenamesNamed /\ GivenUp
  BY DEF StoreInv, TypeOK
<1> DEFINE Goal == request[r] \in UnderWay /\ Stays(request[r], request'[r])
<1>1. ASSUME request'[r] = request[r] PROVE Goal
  <2>1. request[r] \in UnderWay
    BY <1>0, <1>1, UnderWayTypes DEF IsUnderWay
  <2> QED BY <1>1, <2>1 DEF Stays
<1>2. ASSUME NEW q \in Requests, Holds(q) PROVE Goal
  BY <1>0, <1>1, <1>2, HoldFacts DEF Stays
<1>3. ASSUME NEW q \in Requests, Commit(q) \/ Refuse(q) PROVE Goal
  <2>1. /\ request[q] \in UnderWay
        /\ \E web \in {"done", "gone", "refused"} : request'[q] = Concluded(request[q], web)
        /\ \A p \in Requests \ {q} : request'[p] = request[p]
    BY <1>0, <1>3, CommitFacts, RefuseFacts
  <2> QED BY <1>1, <2>1, ConcludedFacts DEF Stays
<1>4. ASSUME NEW q \in Requests, NEW ok \in BOOLEAN, NEW survives \in BOOLEAN,
             Settles(q, ok, survives)
      PROVE  Goal
  <2>1. /\ request[q] \in UnderWay
        /\ \/ request'[q] = Settled
           \/ /\ request'[q] = [request[q] EXCEPT !.client = "settled", !.tracker = "none",
                                                  !.prev = Absent, !.touched = FALSE]
              /\ request'[q] \in UnderWay
        /\ \A p \in Requests \ {q} : request'[p] = request[p]
    BY <1>0, <1>4, SettleFacts
  <2>2. CASE r = q
    <3>1. /\ request'[r] = [request[r] EXCEPT !.client = "settled", !.tracker = "none",
                                              !.prev = Absent, !.touched = FALSE]
          /\ request'[r] \in UnderWay /\ request[r] \in UnderWay
      BY <2>1, <2>2
    <3> QED BY <3>1 DEF Stays, UnderWay
  <2>3. CASE r # q
    BY <1>1, <2>1, <2>3
  <2> QED BY <2>2, <2>3
<1>5. ASSUME Deliver PROVE Goal
  <2>1. CASE IsUnderWay(r)
    <3>1. AfterFrame(request[r], request'[r], Frame.views, Frame.ack = r) /\ request[r] \in UnderWay
      BY <1>0, <1>5, <2>1, DeliverFacts, UnderWayTypes
    <3> QED BY <3>1 DEF AfterFrame, Stays
  <2>2. CASE ~IsUnderWay(r)
    BY <1>0, <1>1, <1>5, <2>2, DeliverFacts
  <2> QED BY <2>1, <2>2
<1>6. ASSUME \/ \E a \in Agents : Rekeys(a) \/ Work(a) \/ DeleteElsewhere(a)
             \/ Open \/ Close \/ Subscribe \/ UNCHANGED storeVars
      PROVE  request' = request
  BY <1>6 DEF Rekeys, Work, DeleteElsewhere, Open, Close, Subscribe, storeVars
<1>7. ASSUME NEW q \in Requests, NEW kind \in Kinds, NEW a \in Agents, NEW title, NEW overrides,
             Mutates(q, kind, a, title, overrides), q # r
      PROVE  Goal
  BY <1>0, <1>1, <1>7, MutateFacts
<1> HIDE DEF Goal
<1>8. ASSUME ~Goal
      PROVE  \E kind \in Kinds, a \in Agents : \E title, overrides :
               Mutates(r, kind, a, title, overrides)
  BY <1>1, <1>2, <1>3, <1>4, <1>5, <1>6, <1>7, <1>8 DEF StoreStep
<1> QED BY <1>8 DEF Goal

\* What the cache shows of an agent, and may show again when a request fails.
Current(a) ==
  {v \in Views : \/ v = cache[a]
                 \/ \E r \in Requests : /\ Restorable(request[r])
                                        /\ request[r].agent = a /\ request[r].prev = v}

Same(v, w) == v.turn = w.turn /\ v.status = w.status

LEMMA MutateCache ==
  ASSUME StoreTypeOK, NEW r, NEW kind, NEW a, NEW title, NEW overrides,
         Mutates(r, kind, a, title, overrides)
  PROVE  /\ cache'[a] = IF cache[a] \in Views THEN Optimistic(kind, cache[a], title) ELSE cache[a]
         /\ \A b \in Agents \ {a} : cache'[b] = cache[b]
  BY DEF Mutates, Mutate, StoreTypeOK

\* Short of a frame with the agent, it stays of the turn it was.
LEMMA CurrentStep ==
  ASSUME StoreInv, StoreStep, NEW a \in Agents, ~(Deliver /\ a \in DOMAIN Frame.views),
         NEW v \in Current(a)'
  PROVE  \E w \in Current(a) : Same(v, w)
<1>0. StoreTypeOK /\ RenamesNamed /\ GivenUp
  BY DEF StoreInv, TypeOK
<1> DEFINE Goal == \E w \in Current(a) : Same(v, w)
<1>1. v \in Views /\ (v \in Current(a) => Goal)
  BY DEF Current, Same
<1> HIDE DEF Goal
<1>2. ASSUME NEW r \in Requests, Restorable(request'[r]), request'[r].agent = a,
             request'[r].prev = v
      PROVE  Goal
  <2>1. request'[r] \notin {Fresh, Settled}
    BY <1>2 DEF Restorable
  <2>2. CASE request[r] \in UnderWay /\ Stays(request[r], request'[r])
    <3>1. Restorable(request[r]) /\ request[r].agent = a /\ request[r].prev = v
      BY <1>2, <2>2, StaysFacts
    <3> QED BY <1>1, <3>1 DEF Current
  <2>3. ASSUME NEW kind \in Kinds, NEW b \in Agents, NEW title, NEW overrides,
               Mutates(r, kind, b, title, overrides)
        PROVE  Goal
    <3>1. /\ request'[r] = [kind |-> kind, agent |-> b, title |-> title, prev |-> cache[b],
                           touched |-> FALSE, web |-> "pending", client |-> "waiting",
                           tracker |-> NewTracker(kind)]
      BY <1>0, <2>3, MutateFacts
    <3>2. b = a /\ cache[a] = v
      BY <1>2, <3>1
    <3> QED BY <1>1, <3>2 DEF Current
  <2> QED BY <2>1, <2>2, <2>3, SnapshotStep
<1>3. ASSUME v = cache'[a]
      PROVE  Goal
  <2>1. ASSUME cache'[a] = cache[a] PROVE Goal
    BY <1>1, <1>3, <2>1 DEF Current
  <2>2. ASSUME NEW r \in Requests, NEW kind \in Kinds, NEW b \in Agents, NEW title, NEW overrides,
               Mutates(r, kind, b, title, overrides)
        PROVE  Goal
    <3>0. /\ cache'[b] = IF cache[b] \in Views THEN Optimistic(kind, cache[b], title) ELSE cache[b]
          /\ \A c \in Agents \ {b} : cache'[c] = cache[c]
      BY <1>0, <2>2, MutateCache
    <3>a. kind = "rename" => title \in Titles
      BY <2>2 DEF Mutates
    <3>1. CASE a = b /\ cache[a] \in Views
      <4>1. cache'[a] = Optimistic(kind, cache[a], title) /\ (kind = "rename" => title \in Titles)
        BY <3>0, <3>a, <3>1
      <4>2. kind # "delete"
        BY <1>1, <1>3, <3>1, <4>1, OptimisticTyped, MarksAssumption
      <4>3. Same(v, cache[a])
        BY <1>3, <3>1, <4>1, <4>2, OptimisticTyped DEF Same
      <4>4. cache[a] \in Current(a)
        BY <3>1 DEF Current
      <4> QED BY <4>3, <4>4 DEF Goal
    <3>2. CASE ~(a = b /\ cache[a] \in Views)
      BY <2>1, <3>0, <3>2
    <3> QED BY <3>1, <3>2
  <2>3. ASSUME NEW r \in Requests, NEW ok \in BOOLEAN, NEW survives \in BOOLEAN,
               Settles(r, ok, survives)
        PROVE  Goal
    <3>1. CASE a = request[r].agent /\ ~ok /\ Restores(request[r])
      <4>1. /\ cache'[a] = request[r].prev /\ request[r].prev \in Views /\ ~request[r].touched
            /\ request[r] \in UnderWay
        BY <1>0, <2>3, <3>1, SettleFacts DEF Restores
      <4>2. Restorable(request[r])
        BY <2>3, <4>1 DEF Restorable, Settles, IsUnderWay
      <4>3. v \in Current(a)
        BY <1>1, <1>3, <3>1, <4>1, <4>2 DEF Current
      <4> QED BY <1>1, <4>3
    <3>2. CASE ~(a = request[r].agent /\ ~ok /\ Restores(request[r]))
      <4>1. /\ cache'[request[r].agent] = IF ~ok /\ Restores(request[r])
                                            THEN request[r].prev ELSE cache[request[r].agent]
            /\ \A b \in Agents \ {request[r].agent} : cache'[b] = cache[b]
        BY <1>0, <2>3, SettleFacts
      <4> QED BY <2>1, <3>2, <4>1
    <3> QED BY <3>1, <3>2
  <2>4. ASSUME \/ \E r \in Requests : Holds(r) \/ Refuse(r) \/ Commit(r)
               \/ \E b \in Agents : Rekeys(b) \/ Work(b) \/ DeleteElsewhere(b)
               \/ Open \/ Close \/ Subscribe \/ UNCHANGED storeVars
        PROVE  Goal
    <3>1. cache' = cache
      BY <2>4 DEF Holds, Refuse, Commit, Rekeys, Work, DeleteElsewhere, Open, Close, Subscribe, storeVars
    <3> QED BY <2>1, <3>1
  <2>5. ASSUME Deliver PROVE Goal
    <3>1. cache'[a] = cache[a]
      BY <1>0, <2>5, DeliverFacts DEF Synced
    <3> QED BY <2>1, <3>1
  <2> QED BY <2>2, <2>3, <2>4, <2>5 DEF StoreStep
<1>4. Goal
  BY <1>2, <1>3 DEF Current
<1> QED BY <1>4 DEF Goal

\* After a frame with the agent, it is what the frame says.
LEMMA CurrentTold ==
  ASSUME StoreInv, Deliver, NEW a \in Agents, a \in DOMAIN Frame.views, NEW v \in Current(a)'
  PROVE  v = Frame.views[a] /\ v = cache'[a]
<1>0. StoreTypeOK /\ cache'[a] = Frame.views[a]
  BY DeliverFacts DEF Synced, StoreInv, TypeOK
<1>1. ASSUME NEW r \in Requests, Restorable(request'[r]), request'[r].agent = a
      PROVE  FALSE
  <2>1. CASE IsUnderWay(r)
    <3>1. AfterFrame(request[r], request'[r], Frame.views, Frame.ack = r)
      BY <1>0, <2>1, DeliverFacts
    <3> QED BY <1>1, <3>1 DEF AfterFrame, Restorable
  <2>2. CASE ~IsUnderWay(r)
    BY <1>0, <1>1, <2>2, DeliverFacts DEF IsUnderWay, Restorable
  <2> QED BY <2>1, <2>2
<1> QED BY <1>0, <1>1 DEF Current

-----------------------------------------------------------------------------
(* An agent marked unread stays unread until its next turn *)

\* The views of an agent that are about: at the server, in the cache, on the
\* wire, or in the snapshot of a request.
Seen(a) ==
  {v \in Views : \/ v \in {server[a], cache[a]} \cup Heard(wire, a)
                 \/ \E r \in Requests : IsUnderWay(r) /\ request[r].agent = a /\ request[r].prev = v}

\* The turn of a view tells whether its run goes on, and the server is ahead.
Coherent(a) ==
  /\ \A v, w \in Seen(a) : v.turn = w.turn => v.status = w.status
  /\ server[a] \in Views => \A v \in Seen(a) : v.turn <= server[a].turn

\* The override is in force for the view, and stays so until the next turn.
Covers(o, v) == o.on = "runCompletion" \/ (o.on = "nextTurn" /\ o.turn = v.turn /\ v.status = "idle")

Covered(a) == \A v \in Current(a) : Covers(override[a], v)

\* A frame ends every snapshot, so all that may be shown is of one turn; and
\* the override of an agent the user wants unread covers all of it.
WishInv ==
  \A a \in Agents :
    /\ Coherent(a)
    /\ \A v, w \in Current(a) : Same(v, w)
    /\ a \in wish => Covered(a)

LEMMA CurrentSeen ==
  ASSUME NEW a
  PROVE  Current(a) \subseteq Seen(a)
  BY DEF Current, Seen, Restorable, IsUnderWay

LEMMA SeenStep ==
  ASSUME StoreInv, StoreStep, NEW a \in Agents, NEW v \in Seen(a)'
  PROVE  \/ \E w \in Seen(a) : Same(v, w)
         \/ /\ server[a] \in Views /\ v = server'[a]
            /\ v.turn = server[a].turn + 1 /\ server[a].turn \in Int
<1> DEFINE Goal == \/ \E w \in Seen(a) : Same(v, w)
                   \/ /\ server[a] \in Views /\ v = server'[a]
                      /\ v.turn = server[a].turn + 1 /\ server[a].turn \in Int
<1>1. v \in Views /\ (v \in Seen(a) => Goal)
  BY DEF Seen, Same
<1>2. ASSUME NEW w \in Current(a), Same(v, w) PROVE Goal
  BY <1>2, CurrentSeen
<1>3. ASSUME v = server'[a] PROVE Goal
  <2>1. server[a] \in Views => server[a] \in Seen(a)
    BY DEF Seen
  <2> QED BY <1>1, <1>3, <2>1, ServerStep DEF Same
<1> HIDE DEF Goal
<1>4. ASSUME v \in Heard(wire', a) PROVE Goal
  <2>1. v \in Heard(wire, a) => v \in Seen(a)
    BY <1>1 DEF Seen
  <2> QED BY <1>1, <1>3, <1>4, <2>1, HeardStep
<1>5. ASSUME v = cache'[a] PROVE Goal
  <2>1. CASE Deliver /\ a \in DOMAIN Frame.views
    <3>1. v = Frame.views[a] /\ wire \in Seq(Items) /\ wire # <<>>
      BY <1>5, <2>1, DeliverFacts DEF Synced, StoreInv, TypeOK, StoreTypeOK
    <3>2. v \in Heard(wire, a)
      BY <2>1, <3>1, HeardTail DEF Frame
    <3> QED BY <1>1, <3>2 DEF Seen
  <2>2. CASE ~(Deliver /\ a \in DOMAIN Frame.views)
    <3>1. v \in Current(a)'
      BY <1>1, <1>5 DEF Current
    <3> QED BY <1>2, <2>2, <3>1, CurrentStep
  <2> QED BY <2>1, <2>2
<1>6. ASSUME NEW r \in Requests, request'[r] \notin {Fresh, Settled},
             request'[r].agent = a, request'[r].prev = v
      PROVE  Goal
  <2>1. CASE request[r] \in UnderWay /\ Stays(request[r], request'[r])
    <3>1. request[r].agent = a /\ request[r].prev = v /\ IsUnderWay(r)
      BY <1>1, <1>6, <2>1, StaysFacts, MarksAssumption DEF IsUnderWay
    <3> QED BY <1>1, <3>1 DEF Seen
  <2>2. ASSUME NEW kind \in Kinds, NEW b \in Agents, NEW title, NEW overrides,
               Mutates(r, kind, b, title, overrides)
        PROVE  Goal
    <3>1. /\ request'[r] = [kind |-> kind, agent |-> b, title |-> title, prev |-> cache[b],
                           touched |-> FALSE, web |-> "pending", client |-> "waiting",
                           tracker |-> NewTracker(kind)]
      BY <2>2, MutateFacts DEF StoreInv, TypeOK
    <3>2. b = a /\ cache[a] = v
      BY <1>6, <3>1
    <3> QED BY <1>1, <3>2 DEF Seen
  <2> QED BY <1>6, <2>1, <2>2, SnapshotStep
<1>7. Goal
  BY <1>3, <1>4, <1>5, <1>6 DEF Seen, IsUnderWay
<1> QED BY <1>7 DEF Goal

LEMMA CoherentStep ==
  ASSUME StoreInv, StoreStep, NEW a \in Agents, Coherent(a)
  PROVE  Coherent(a)'
<1>1. \A v \in Seen(a) \cup Seen(a)' : v.turn \in Int
  BY BoundsAssumption DEF Seen, Views, Turns
<1> DEFINE Fresher(v) == /\ server[a] \in Views /\ v = server'[a]
                         /\ v.turn = server[a].turn + 1 /\ server[a].turn \in Int
           Older(v) == \E w \in Seen(a) : Same(v, w)
<1>2. \A v \in Seen(a)' : Older(v) \/ Fresher(v)
  BY SeenStep
<1>a. ASSUME NEW v \in Seen(a)', Older(v), server[a] \in Views
      PROVE  v.turn <= server[a].turn
  BY <1>a DEF Coherent, Same
<1>3. ASSUME NEW v \in Seen(a)', NEW w \in Seen(a)', v.turn = w.turn
      PROVE  v.status = w.status
  <2>1. CASE Older(v) /\ Older(w)
    BY <1>3, <2>1 DEF Coherent, Same
  <2>2. CASE Older(v) /\ Fresher(w)
    BY <1>1, <1>3, <1>a, <2>2
  <2>3. CASE Fresher(v) /\ Older(w)
    BY <1>1, <1>3, <1>a, <2>3
  <2>4. CASE Fresher(v) /\ Fresher(w)
    BY <2>4
  <2> QED BY <1>2, <2>1, <2>2, <2>3, <2>4
<1>4. ASSUME server'[a] \in Views, NEW v \in Seen(a)'
      PROVE  v.turn <= server'[a].turn
  <2>1. /\ server[a] \in Views /\ server[a].turn \in Int /\ server'[a].turn \in Int
        /\ server'[a].turn \in {server[a].turn, server[a].turn + 1}
    BY <1>1, <1>4, ServerStep DEF Seen
  <2>2. CASE Older(v)
    BY <1>1, <2>1, <2>2 DEF Coherent, Same
  <2>3. CASE Fresher(v)
    BY <2>1, <2>3
  <2> QED BY <1>2, <2>2, <2>3
<1> QED BY <1>3, <1>4 DEF Coherent

LEMMA CurrentAlike ==
  ASSUME StoreInv, StoreStep, NEW a \in Agents, \A v, w \in Current(a) : Same(v, w)
  PROVE  \A v, w \in Current(a)' : Same(v, w)
<1>1. CASE Deliver /\ a \in DOMAIN Frame.views
  BY <1>1, CurrentTold DEF Same
<1>2. CASE ~(Deliver /\ a \in DOMAIN Frame.views)
  <2>1. \A v \in Current(a)' : \E w \in Current(a) : Same(v, w)
    BY <1>2, CurrentStep
  <2> QED BY <2>1 DEF Same
<1> QED BY <1>1, <1>2

\* What covers a view covers the others of its turn.
LEMMA CoveredStep ==
  ASSUME StoreInv, StoreStep, NEW a \in Agents, ~(Deliver /\ a \in DOMAIN Frame.views),
         \A v \in Current(a) : Covers(override'[a], v)
  PROVE  Covered(a)'
<1>1. \A v \in Current(a)' : \E w \in Current(a) : Same(v, w)
  BY CurrentStep
<1> QED BY <1>1 DEF Covered, Covers, Same

LEMMA OverrideForCovers ==
  ASSUME NEW v \in Views, NEW w, Same(v, w)
  PROVE  Covers(OverrideFor(v), w)
  BY DEF Covers, Same, OverrideFor, IsMidRun, Views

\* A frame that is handled leaves the wire.
LEMMA NotDelivered ==
  ASSUME StoreTypeOK, wire' = wire
  PROVE  ~Deliver
<1> SUFFICES ASSUME wire # <<>>, Tail(wire) = wire PROVE FALSE
  BY DEF Deliver
<1>1. /\ wire \in Seq(Items) /\ Len(wire) \in Nat /\ Len(wire) >= 1
      /\ DOMAIN wire = 1 .. Len(wire) /\ DOMAIN Tail(wire) = 1 .. Len(wire) - 1
  BY TailFacts DEF StoreTypeOK
<1>2. Len(wire) \in DOMAIN wire /\ Len(wire) \notin DOMAIN Tail(wire)
  BY <1>1
<1> QED BY <1>2

\* Ending a request takes no override away but that of its agent, and then
\* the wish goes with it.
LEMMA ConcludeWish ==
  ASSUME StoreInv, NEW r \in Requests, Conclude(r), NEW a \in Agents, a \in wish'
  PROVE  a \in wish /\ override'[a] = override[a] /\ ~Deliver
<1>0. StoreTypeOK /\ GivenUp /\ override \in [Agents -> Overrides]
  BY DEF StoreInv, TypeOK, StoreTypeOK
<1>1. a \in wish /\ (request[r].kind = "unread" /\ ~Awaited(r)' => a # request[r].agent)
  BY DEF Conclude
<1>2. ASSUME Holds(r) PROVE override' = override /\ wire' = wire
  BY <1>2 DEF Holds
<1>3. ASSUME NEW ok \in BOOLEAN, NEW survives \in BOOLEAN, Settles(r, ok, survives)
      PROVE  override'[a] = override[a] /\ wire' = wire
  <2>1. ~Awaited(r)'
    <3>1. \/ request'[r] = Settled
          \/ /\ request[r] \in UnderWay
             /\ request'[r] = [request[r] EXCEPT !.client = "settled", !.tracker = "none",
                                                 !.prev = Absent, !.touched = FALSE]
      BY <1>0, <1>3, SettleFacts
    <3>2. request'[r] = Settled \/ request'[r].client = "settled"
      BY <3>1 DEF UnderWay
    <3> QED BY <3>2 DEF Awaited, IsUnderWay
  <2>2. \/ override' = override
        \/ /\ request[r].kind = "unread"
           /\ override' = [override EXCEPT ![request[r].agent] = NoOverride]
    BY <1>3 DEF Settles, Settle
  <2> QED BY <1>0, <1>1, <1>3, <2>1, <2>2 DEF Settles
<1>4. override'[a] = override[a] /\ wire' = wire
  BY <1>0, <1>2, <1>3, ConcludeCases
<1>5. ~Deliver
  BY <1>0, <1>4, NotDelivered
<1> QED BY <1>1, <1>4, <1>5

\* A frame that does not begin the next turn leaves the override in force.
LEMMA ToldWish ==
  ASSUME StoreInv, WishInv, Receive, NEW a \in Agents, a \in wish', a \in DOMAIN Frame.views
  PROVE  Covered(a)'
<1>1. /\ a \in wish /\ override' = override /\ wire \in Seq(Items) /\ wire # <<>> /\ Deliver
  BY DeliverFacts DEF Receive, StoreInv, TypeOK, StoreTypeOK
<1>2. PICK told \in Views, mine \in Views :
        /\ told = Frame.views[a] /\ mine = cache[a]
        /\ IsMidRun(mine) \/ told.turn = mine.turn
  BY DEF Receive, NextTurnBegins, Frame
<1>3. mine \in Seen(a) /\ told \in Seen(a) /\ mine \in Current(a)
  <2>1. told \in Heard(wire, a)
    BY <1>1, <1>2, HeardTail DEF Frame
  <2> QED BY <1>2, <2>1 DEF Seen, Current
<1>4. told.turn = mine.turn => told.status = mine.status
  BY <1>3 DEF WishInv, Coherent
<1>5. Covers(override[a], mine)
  BY <1>1, <1>3 DEF WishInv, Covered
<1>6. Covers(override[a], told)
  BY <1>2, <1>4, <1>5 DEF Covers, IsMidRun
<1>7. \A v \in Current(a)' : v = told
  BY <1>1, <1>2, CurrentTold
<1> QED BY <1>1, <1>6, <1>7 DEF Covered

LEMMA WishStep ==
  ASSUME StoreInv, WishInv, [Next]_vars, NEW a \in Agents, a \in wish'
  PROVE  Covered(a)'
<1>0. /\ StoreStep /\ StoreTypeOK /\ override \in [Agents -> Overrides]
      /\ \A v, w \in Current(a) : Same(v, w)
  BY StoreSteps DEF StoreInv, TypeOK, StoreTypeOK, WishInv
\* The override stays, and there is no frame.
<1>1. ASSUME a \in wish, override'[a] = override[a], ~Deliver
      PROVE  Covered(a)'
  <2>1. \A v \in Current(a) : Covers(override'[a], v)
    BY <1>1 DEF WishInv, Covered
  <2> QED BY <1>0, <1>1, <2>1, CoveredStep
<1>2. ASSUME wire' = wire PROVE ~Deliver
  BY <1>0, <1>2, NotDelivered
\* It is keyed to the view the cache has.
<1>3. ASSUME cache[a] \in Views, override'[a] = OverrideFor(cache[a]), ~Deliver
      PROVE  Covered(a)'
  <2>1. \A w \in Current(a) : Same(cache[a], w)
    BY <1>0, <1>3 DEF Current
  <2>2. \A w \in Current(a) : Covers(override'[a], w)
    BY <1>3, <2>1, OverrideForCovers
  <2> QED BY <1>0, <1>3, <2>2, CoveredStep
<1>4. ASSUME a \in wish, NEW b, override' = Rekeyed(b), wire' = wire
      PROVE  Covered(a)'
  <2>1. override'[a] = override[a] \/ (cache[a] \in Views /\ override'[a] = OverrideFor(cache[a]))
    BY <1>0, <1>4 DEF Rekeyed
  <2> QED BY <1>1, <1>2, <1>3, <1>4, <2>1
<1>5. ASSUME a \in wish, NEW r, NEW b, MarkRead(r, b, override)
      PROVE  Covered(a)'
  <2>1. override' = override /\ wire' = wire
    BY <1>5 DEF MarkRead, Mutate
  <2> QED BY <1>1, <1>2, <1>5, <2>1
<1>6. ASSUME NEW r \in Requests, NEW b \in Agents, NEW first \in BOOLEAN, Activate(r, b, first)
      PROVE  Covered(a)'
  <2>1. CASE cache[b] \in Views
    <3>1. /\ wish' = wish \ {b} /\ wire' = wire
          /\ override' = [override EXCEPT ![b] = NoOverride]
      BY <1>6, <2>1 DEF Activate, MarkRead, Mutate
    <3> QED BY <1>0, <1>1, <1>2, <3>1
  <2>2. CASE cache[b] \notin Views
    BY <1>1, <1>2, <1>6, <2>2 DEF Activate, storeVars
  <2> QED BY <2>1, <2>2
<1>7. ASSUME NEW r \in Requests, Leave(r) PROVE Covered(a)'
  <2>1. a \in wish
    BY <1>7 DEF Leave
  <2>2. CASE ~pending
    BY <1>1, <1>2, <1>7, <2>1, <2>2 DEF Leave, storeVars
  <2>3. CASE pending /\ ExplicitlyUnread(viewed)
    BY <1>4, <1>7, <2>1, <2>3 DEF Leave
  <2>4. CASE pending /\ ~ExplicitlyUnread(viewed)
    BY <1>5, <1>7, <2>1, <2>4 DEF Leave
  <2> QED BY <2>2, <2>3, <2>4
<1>8. ASSUME NEW r \in Requests, NEW b \in Agents, MarkUnread(r, b) PROVE Covered(a)'
  <2>1. /\ cache[b] \in Views /\ wire' = wire /\ wish' = wish \cup {b}
        /\ override' = [override EXCEPT ![b] = OverrideFor(cache[b])]
    BY <1>8 DEF MarkUnread, Mutate
  <2>2. CASE a = b
    BY <1>0, <1>2, <1>3, <2>1, <2>2
  <2>3. CASE a # b
    BY <1>0, <1>1, <1>2, <2>1, <2>3
  <2> QED BY <2>2, <2>3
<1>9. ASSUME NEW r \in Requests, NEW b \in Agents,
             Delete(r, b) \/ \E t \in Titles : Rename(r, b, t), UNCHANGED hookVars
      PROVE  Covered(a)'
  <2>1. a \in wish /\ override' = override /\ wire' = wire
    BY <1>9 DEF Delete, Rename, Mutate, hookVars
  <2> QED BY <1>1, <1>2, <2>1
<1>10. ASSUME Receive PROVE Covered(a)'
  <2>1. a \in wish /\ override' = override
    BY <1>10 DEF Receive, Deliver
  <2>2. CASE a \in DOMAIN Frame.views
    BY <1>10, <2>2, ToldWish
  <2>3. CASE a \notin DOMAIN Frame.views
    <3>1. \A v \in Current(a) : Covers(override'[a], v)
      BY <2>1 DEF WishInv, Covered
    <3> QED BY <1>0, <2>3, <3>1, CoveredStep
  <2> QED BY <2>2, <2>3
<1>11. ASSUME Notice PROVE Covered(a)'
  BY <1>1, <1>2, <1>11 DEF Notice, storeVars
<1>12. ASSUME NEW b \in Agents, DeriveDot(b) PROVE Covered(a)'
  BY <1>4, <1>12 DEF DeriveDot, hookVars
<1>13. ASSUME NEW r \in Requests, DebounceEnds(r) PROVE Covered(a)'
  <2>1. a \in wish
    BY <1>13 DEF DebounceEnds
  <2> QED BY <1>4, <1>5, <1>13, <2>1 DEF DebounceEnds
<1>14. ASSUME NEW r \in Requests, Conclude(r) PROVE Covered(a)'
  BY <1>1, <1>14, ConcludeWish
<1>15. ASSUME WorldActs PROVE Covered(a)'
  <2>1. a \in wish /\ override' = override
    BY <1>15 DEF WorldActs, hookVars, Commit, Refuse, Work, DeleteElsewhere, Open, Close, Subscribe
  <2>2. cache' = cache
    BY <1>15 DEF WorldActs, Commit, Refuse, Work, DeleteElsewhere, Open, Close, Subscribe
  <2>3. CASE ~(Deliver /\ a \in DOMAIN Frame.views)
    <3>1. \A v \in Current(a) : Covers(override'[a], v)
      BY <2>1 DEF WishInv, Covered
    <3> QED BY <1>0, <2>3, <3>1, CoveredStep
  \* A frame that leaves the cache as it is.
  <2>4. CASE Deliver /\ a \in DOMAIN Frame.views
    <3>1. \A v \in Current(a)' : v \in Views /\ v = cache[a]
      BY <2>2, <2>4, CurrentTold DEF Current
    <3>2. \A v \in Current(a)' : v \in Current(a)
      BY <3>1 DEF Current
    <3> QED BY <2>1, <3>2 DEF WishInv, Covered
  <2> QED BY <2>3, <2>4
<1>16. ASSUME UNCHANGED vars PROVE Covered(a)'
  BY <1>1, <1>2, <1>16 DEF vars, storeVars, hookVars
<1> QED BY <1>6, <1>7, <1>8, <1>9, <1>10, <1>11, <1>12, <1>13, <1>14, <1>15, <1>16
        DEF Next, UserActs, WindowActs

-----------------------------------------------------------------------------
(* The properties of the read state *)

LEMMA StoreInvInit ==
  ASSUME Init
  PROVE  StoreInv /\ AckInv /\ WishInv
<1>1. \A t \in Titles, run \in {"idle", "busy"} :
        [title |-> t, readAt |-> Never, turn |-> 0, status |-> run] \in Views
  BY BoundsAssumption DEF Views, Turns
<1>2. PICK t \in Titles, run \in {"idle", "busy"} :
        server = [a \in Agents |-> [title |-> t, readAt |-> Never, turn |-> 0, status |-> run]]
  BY DEF Init, StoreInit
<1>3. /\ stream = "closed" /\ wire = <<>> /\ drops = 0
      /\ cache = [a \in Agents |-> Absent] /\ ids = {}
      /\ override = [a \in Agents |-> NoOverride]
      /\ request = [r \in Requests |-> Fresh]
      /\ crossed = {} /\ unheard = {}
      /\ viewed = Nobody /\ noticed = Absent
      /\ timer = FALSE /\ pending = FALSE /\ wish = {}
  BY DEF Init, StoreInit
<1>4. server \in [Agents -> Views \cup {Gone}]
  BY <1>1, <1>2
<1>5. NoOverride \in Overrides /\ <<>> \in Seq(Items)
  BY DEF Overrides
<1>6. StoreTypeOK
  BY <1>3, <1>4, <1>5, BoundsAssumption DEF StoreTypeOK
<1>7. \A r \in Requests : ~IsUnderWay(r)
  BY <1>3 DEF IsUnderWay
<1>8. StoreInv
  BY <1>3, <1>6, <1>7 DEF StoreInv, TypeOK, RenamesNamed, GivenUp, HookInv
<1>9. AckInv
  BY <1>3, MarksAssumption DEF AckInv, AckOf
<1>10. ASSUME NEW a \in Agents
       PROVE  /\ Coherent(a)
              /\ \A v, w \in Current(a) : Same(v, w)
  <2>1. Heard(wire, a) = {} /\ cache[a] \notin Views
    BY <1>3, MarksAssumption DEF Heard, Tells
  <2>2. Current(a) = {}
    BY <1>7, <2>1 DEF Current, Restorable, IsUnderWay
  <2>3. \A v \in Seen(a) : v = server[a]
    BY <1>7, <2>1 DEF Seen
  <2>4. server[a] \in Views => server[a].turn \in Int
    BY BoundsAssumption DEF Views, Turns
  <2> QED BY <2>2, <2>3, <2>4 DEF Coherent, Seen
<1> QED BY <1>3, <1>8, <1>9, <1>10 DEF WishInv

\* The state of the window and of what the server has told it is well typed.
THEOREM ReadStateTypes == Spec => []TypeOK
<1>1. Init => StoreInv
  BY StoreInvInit
<1>2. StoreInv /\ [Next]_vars => StoreInv'
  BY StoreInvStep
<1>3. StoreInv => TypeOK
  BY DEF StoreInv
<1> QED BY <1>1, <1>2, <1>3, PTL DEF Spec

ReadInv == StoreInv /\ AckInv /\ WishInv

LEMMA ReadInvariant == Spec => []ReadInv
<1>1. Init => ReadInv
  BY StoreInvInit DEF ReadInv
<1>2. ASSUME ReadInv, [Next]_vars PROVE ReadInv'
  <2>0. StoreInv /\ AckInv /\ WishInv /\ StoreStep
    BY <1>2, StoreSteps DEF ReadInv
  <2>1. StoreInv'
    BY <1>2, <2>0, StoreInvStep
  <2>2. AckInv'
    BY <2>0, AckStep
  <2>3. ASSUME NEW a \in Agents
        PROVE  /\ Coherent(a)'
               /\ \A v, w \in Current(a)' : Same(v, w)
               /\ a \in wish' => Covered(a)'
    <3>1. Coherent(a) /\ \A v, w \in Current(a) : Same(v, w)
      BY <2>0 DEF WishInv
    <3> QED BY <1>2, <2>0, <3>1, CoherentStep, CurrentAlike, WishStep
  <2>4. WishInv'
    BY <2>3 DEF WishInv
  <2> QED BY <2>1, <2>2, <2>4 DEF ReadInv
<1> QED BY <1>1, <1>2, PTL DEF Spec

\* An acknowledgement is handled only after a frame with the agent: what the
\* server puts on the stream for a commit is the agent and then the request
\* (publication of the hooks, and the request id of the transaction), and the
\* window handles the stream in order.
THEOREM AcksFollowViews == Spec => []AckFollowsView
<1>1. ReadInv => AckFollowsView
  BY DEF ReadInv, AckInv, AckOf, AckFollowsView, IsUnderWay
<1> QED BY <1>1, ReadInvariant, PTL

\* An agent marked unread shows as unread until its next turn: the override is
\* in force for all that the cache may show of it, whatever is rolled back.
THEOREM UnreadIsShown == Spec => []UnreadShows
<1>1. ASSUME ReadInv PROVE UnreadShows
  <2> SUFFICES ASSUME NEW a \in wish, cache[a] \in Views, cache[a].status = "idle"
               PROVE  Dot(a) = "unread"
    BY DEF UnreadShows
  <2>1. a \in Agents /\ cache[a] \in Current(a)
    BY <1>1 DEF Current, ReadInv, StoreInv, TypeOK
  <2>2. Covers(override[a], cache[a])
    BY <1>1, <2>1 DEF ReadInv, WishInv, Covered
  <2>3. OverrideActive(a, cache[a])
    BY <2>2 DEF Covers, OverrideActive
  <2>4. BaseDot(cache[a], viewed = a) \in {"read", "unread"}
    BY DEF BaseDot
  <2> QED BY <2>3, <2>4 DEF Dot
<1> QED BY <1>1, ReadInvariant, PTL

LEMMA NoReadStep ==
  ASSUME ReadInv, [Next]_vars, NEW r \in Requests, request[r] = Fresh, request'[r] # Fresh,
         request'[r].kind = "read", cache[request'[r].agent] \in Views
  PROVE  request'[r].agent \notin wish \/ viewed = Nobody
<1>0. StoreTypeOK /\ StoreInv /\ WishInv
  BY DEF ReadInv, StoreInv, TypeOK
<1>1. ASSUME NEW q, NEW kind, NEW a \in Agents, NEW title, NEW overrides,
             Mutate(q, kind, a, title, overrides)
      PROVE  kind = "read" /\ request'[r].agent = a
  BY <1>0, <1>1 DEF Mutate, StoreTypeOK
<1>2. ASSUME NEW q, MarkRead(q, viewed, override), ~ExplicitlyUnread(viewed), viewed \in Agents
      PROVE  request'[r].agent \notin wish
  <2>1. request'[r].agent = viewed /\ cache[viewed] \in Views
    BY <1>1, <1>2 DEF MarkRead
  <2>2. ~OverrideActive(viewed, cache[viewed]) /\ cache[viewed] \in Current(viewed)
    BY <1>2, <2>1 DEF ExplicitlyUnread, Current
  <2>3. ~Covers(override[viewed], cache[viewed])
    BY <2>2 DEF Covers, OverrideActive
  <2> QED BY <1>0, <1>2, <2>1, <2>2, <2>3 DEF WishInv, Covered
<1>3. ASSUME NEW q \in Requests, NEW a \in Agents, NEW first \in BOOLEAN, Activate(q, a, first)
      PROVE  viewed = Nobody
  BY <1>3 DEF Activate
<1>4. ASSUME request' = request PROVE FALSE
  BY <1>4
<1>5. ASSUME NEW q \in Requests, Leave(q) PROVE request'[r].agent \notin wish
  <2>1. viewed \in Agents
    BY <1>0, <1>5 DEF Leave, StoreInv, TypeOK
  <2> QED BY <1>2, <1>4, <1>5, <2>1 DEF Leave, storeVars
<1>6. ASSUME NEW q \in Requests, DebounceEnds(q) PROVE request'[r].agent \notin wish
  <2>1. viewed \in Agents
    BY <1>0, <1>6 DEF DebounceEnds, StoreInv, HookInv
  <2> QED BY <1>2, <1>4, <1>6, <2>1 DEF DebounceEnds
<1>7. ASSUME NEW q \in Requests, NEW a \in Agents,
             MarkUnread(q, a) \/ Delete(q, a) \/ \E t \in Titles : Rename(q, a, t)
      PROVE  FALSE
  BY <1>1, <1>7 DEF MarkUnread, Delete, Rename
<1>8. ASSUME Receive PROVE FALSE
  <2>1. request'[r] = request[r]
    BY <1>0, <1>8, DeliverFacts DEF Receive, IsUnderWay
  <2> QED BY <2>1
<1>9. ASSUME NEW q \in Requests, Conclude(q) PROVE FALSE
  <2>1. /\ IsUnderWay(q)
        /\ Holds(q) \/ \E ok, survives \in BOOLEAN : Settles(q, ok, survives)
    BY <1>0, <1>9, ConcludeCases DEF Holds, Settles, StoreInv
  <2>2. q # r
    BY <2>1 DEF IsUnderWay
  <2>3. request'[r] = request[r]
    BY <1>0, <2>1, <2>2, HoldFacts, SettleFacts
  <2> QED BY <2>3
<1>10. ASSUME WorldActs PROVE FALSE
  <2>1. ASSUME NEW q \in Requests, Commit(q) \/ Refuse(q) PROVE FALSE
    <3>1. q # r
      BY <2>1 DEF Commit, Refuse, IsUnderWay
    <3>2. request'[r] = request[r]
      BY <1>0, <2>1, <3>1, CommitFacts, RefuseFacts DEF StoreInv
    <3> QED BY <3>2
  <2> QED BY <1>4, <1>10, <2>1 DEF WorldActs, Work, DeleteElsewhere, Open, Close, Subscribe
<1>11. ASSUME Notice \/ (\E a \in Agents : DeriveDot(a)) \/ UNCHANGED vars PROVE FALSE
  BY <1>4, <1>11 DEF Notice, DeriveDot, vars, storeVars
<1> QED BY <1>3, <1>5, <1>6, <1>7, <1>8, <1>9, <1>10, <1>11 DEF Next, UserActs, WindowActs

\* Neither the debounced read nor the one made on leaving undoes the wish: both
\* ask for the override, which is in force as long as the wish stands.
THEOREM WishIsKept == Spec => NoReadAgainstTheWish
<1>1. ASSUME ReadInv, [Next]_vars
      PROVE  [\A r \in Requests :
                /\ request[r] = Fresh /\ request'[r] # Fresh
                /\ request'[r].kind = "read" /\ cache[request'[r].agent] \in Views
                => request'[r].agent \notin wish \/ viewed = Nobody]_vars
  BY <1>1, NoReadStep
<1> QED BY <1>1, ReadInvariant, PTL DEF Spec, NoReadAgainstTheWish

-----------------------------------------------------------------------------
(* What the window shows comes to rest on what the server has *)

\* The last frame about an agent says what the server has, and a tombstone is
\* the last there is.
WireSays(w, a, state) ==
  /\ \A i \in Tells(w, a) : (\A j \in Tells(w, a) : j <= i) => w[i].views[a] = state
  /\ \A i \in Tells(w, a) : w[i].views[a] = Gone =>
       state = Gone /\ \A j \in Tells(w, a) : j <= i

LEMMA EmptyWire ==
  ASSUME NEW a, NEW state
  PROVE  Silent(<<>>, a) /\ WireSays(<<>>, a, state)
  BY DEF Silent, WireSays, Tells

\* The dump of the live agents.
LEMMA DumpedWire ==
  ASSUME NEW views, NEW r, NEW a, NEW state, a \in DOMAIN views => views[a] = state /\ state # Gone
  PROVE  /\ WireSays(<<Item(views, r)>>, a, state)
         /\ Silent(<<Item(views, r)>>, a) <=> a \notin DOMAIN views
<1> DEFINE w == <<Item(views, r)>>
<1>1. DOMAIN w = {1} /\ w[1].views = views
  BY DEF Item
<1> HIDE DEF w
<1>2. Tells(w, a) = IF a \in DOMAIN views THEN {1} ELSE {}
  BY <1>1 DEF Tells
<1>3. WireSays(w, a, state) /\ (Silent(w, a) <=> a \notin DOMAIN views)
  BY <1>1, <1>2 DEF WireSays, Silent
<1> QED BY <1>3 DEF w

\* What goes to the end of the wire about others, or about nobody.
LEMMA OthersPushed ==
  ASSUME NEW w \in Seq(Items), NEW items \in Seq(Items), NEW a, NEW state, Silent(items, a)
  PROVE  /\ WireSays(w, a, state) => WireSays(w \o items, a, state)
         /\ Silent(w \o items, a) <=> Silent(w, a)
<1> DEFINE both == w \o items
<1>1. both = w \o items
  OBVIOUS
<1> HIDE DEF both
<1>2. /\ Len(w) \in Nat /\ Len(items) \in Nat
      /\ DOMAIN both = 1 .. Len(w) + Len(items) /\ DOMAIN w = 1 .. Len(w)
      /\ DOMAIN items = 1 .. Len(items)
      /\ \A i \in 1 .. Len(w) : both[i] = w[i]
      /\ \A i \in Len(w) + 1 .. Len(w) + Len(items) :
           i - Len(w) \in 1 .. Len(items) /\ both[i] = items[i - Len(w)]
  BY <1>1, PushedFacts
<1>3. \A k \in 1 .. Len(items) : a \notin DOMAIN items[k].views
  BY <1>2 DEF Silent, Tells
<1>4. \A i \in 1 .. Len(w) + Len(items) : a \in DOMAIN both[i].views => i \in 1 .. Len(w)
  <2> TAKE i \in 1 .. Len(w) + Len(items)
  <2>1. CASE i \notin 1 .. Len(w)
    <3>1. i \in Len(w) + 1 .. Len(w) + Len(items)
      BY <1>2, <2>1
    <3> QED BY <1>2, <1>3, <3>1
  <2> QED BY <2>1
<1>5. 1 .. Len(w) \subseteq 1 .. Len(w) + Len(items)
  BY <1>2
<1>6. Tells(both, a) = Tells(w, a)
  BY <1>2, <1>4, <1>5 DEF Tells
<1>7. \A i \in Tells(w, a) : both[i] = w[i]
  BY <1>2 DEF Tells
<1>8. (WireSays(w, a, state) => WireSays(both, a, state)) /\ (Silent(both, a) <=> Silent(w, a))
  BY <1>6, <1>7 DEF WireSays, Silent
<1> QED BY <1>1, <1>8

\* The news of an agent that was there, and what else goes with it.
LEMMA NewsPushed ==
  ASSUME NEW w \in Seq(Items), NEW items \in Seq(Items), NEW a, NEW old \in Views,
         WireSays(w, a, old), Tells(items, a) = {1}
  PROVE  WireSays(w \o items, a, items[1].views[a]) /\ ~Silent(w \o items, a)
<1> DEFINE both == w \o items
<1>1. both = w \o items
  OBVIOUS
<1> HIDE DEF both
<1>2. /\ Len(w) \in Nat /\ Len(items) \in Nat
      /\ DOMAIN both = 1 .. Len(w) + Len(items) /\ DOMAIN w = 1 .. Len(w)
      /\ DOMAIN items = 1 .. Len(items)
      /\ \A i \in 1 .. Len(w) : both[i] = w[i]
      /\ \A i \in Len(w) + 1 .. Len(w) + Len(items) :
           i - Len(w) \in 1 .. Len(items) /\ both[i] = items[i - Len(w)]
  BY <1>1, PushedFacts
<1> DEFINE n == Len(w) + 1
<1>3. 1 \in 1 .. Len(items) /\ a \in DOMAIN items[1].views
  BY <1>2 DEF Tells
<1>4. n \in DOMAIN both /\ both[n] = items[1]
  <2>1. n \in Len(w) + 1 .. Len(w) + Len(items) /\ n - Len(w) = 1
    BY <1>2, <1>3
  <2> QED BY <1>2, <2>1
<1>5. \A i \in Tells(both, a) : i = n \/ (i \in Tells(w, a) /\ both[i] = w[i] /\ i <= n)
  <2> TAKE i \in Tells(both, a)
  <2>1. i \in 1 .. Len(w) + Len(items) /\ a \in DOMAIN both[i].views
    BY <1>2 DEF Tells
  <2>2. CASE i \in 1 .. Len(w)
    BY <1>2, <2>1, <2>2 DEF Tells
  <2>3. CASE i \notin 1 .. Len(w)
    <3>1. i \in Len(w) + 1 .. Len(w) + Len(items)
      BY <1>2, <2>1, <2>3
    <3>2. i - Len(w) \in Tells(items, a)
      BY <1>2, <2>1, <3>1 DEF Tells
    <3> QED BY <1>2, <3>1, <3>2
  <2> QED BY <2>2, <2>3
<1>6. n \in Tells(both, a) /\ n \in Int /\ \A j \in Tells(both, a) : j <= n /\ j \in Int
  BY <1>2, <1>3, <1>4, <1>5 DEF Tells
<1>7. \A i \in Tells(w, a) : w[i].views[a] # Gone
  BY MarksAssumption DEF WireSays
<1>8. \A i \in Tells(both, a) : (\A j \in Tells(both, a) : j <= i) => i = n
  BY <1>6
<1> HIDE DEF n
<1>9. WireSays(both, a, items[1].views[a]) /\ ~Silent(both, a)
  BY <1>4, <1>5, <1>6, <1>7, <1>8 DEF WireSays, Silent
<1> QED BY <1>1, <1>9

\* A frame is taken from the head of the wire.
LEMMA WireTaken ==
  ASSUME NEW w \in Seq(Items), w # <<>>, NEW a, NEW state, WireSays(w, a, state)
  PROVE  /\ WireSays(Tail(w), a, state)
         /\ a \notin DOMAIN Head(w).views => (Silent(Tail(w), a) <=> Silent(w, a))
         /\ a \in DOMAIN Head(w).views =>
              /\ ~Silent(w, a)
              /\ Silent(Tail(w), a) => Head(w).views[a] = state
              /\ Head(w).views[a] = Gone => state = Gone /\ Silent(Tail(w), a)
<1> DEFINE tail == Tail(w)
<1>0. tail = Tail(w)
  OBVIOUS
<1> HIDE DEF tail
<1>1. /\ Len(w) \in Nat /\ Len(w) >= 1 /\ Head(w) = w[1] /\ DOMAIN w = 1 .. Len(w)
      /\ DOMAIN tail = 1 .. Len(w) - 1
      /\ \A i \in 1 .. Len(w) - 1 : tail[i] = w[i + 1]
  BY <1>0, TailFacts
<1>2. \A i \in Tells(tail, a) : i \in Int /\ i + 1 \in Tells(w, a) /\ tail[i] = w[i + 1] /\ i + 1 > 1
  BY <1>1 DEF Tells
<1>3. \A k \in Tells(w, a) : k \in Int /\ (k # 1 => k - 1 \in Tells(tail, a)) /\ k >= 1
  <2> TAKE k \in Tells(w, a)
  <2>1. k \in 1 .. Len(w) /\ a \in DOMAIN w[k].views
    BY <1>1 DEF Tells
  <2>2. k # 1 => k - 1 \in 1 .. Len(w) - 1 /\ tail[k - 1] = w[k]
    BY <1>1, <2>1
  <2> QED BY <1>1, <2>1, <2>2 DEF Tells
<1>4. WireSays(tail, a, state)
  <2>1. ASSUME NEW i \in Tells(tail, a), \A j \in Tells(tail, a) : j <= i
        PROVE  tail[i].views[a] = state
    <3>1. \A k \in Tells(w, a) : k <= i + 1
      BY <1>2, <1>3, <2>1
    <3> QED BY <1>2, <2>1, <3>1 DEF WireSays
  <2>2. ASSUME NEW i \in Tells(tail, a), tail[i].views[a] = Gone
        PROVE  state = Gone /\ \A j \in Tells(tail, a) : j <= i
    <3>1. state = Gone /\ \A k \in Tells(w, a) : k <= i + 1
      BY <1>2, <2>2 DEF WireSays
    <3>2. \A j \in Tells(tail, a) : j + 1 <= i + 1 /\ j \in Int /\ i \in Int
      BY <1>2, <3>1
    <3> QED BY <3>1, <3>2
  <2> QED BY <2>1, <2>2 DEF WireSays
<1>5. a \in DOMAIN Head(w).views <=> 1 \in Tells(w, a)
  BY <1>1 DEF Tells
<1>6. ASSUME 1 \notin Tells(w, a) PROVE Silent(tail, a) <=> Silent(w, a)
  BY <1>2, <1>3, <1>6 DEF Silent
<1>7. ASSUME 1 \in Tells(w, a), Silent(tail, a) PROVE w[1].views[a] = state
  <2>1. \A k \in Tells(w, a) : k = 1
    BY <1>3, <1>7 DEF Silent
  <2> QED BY <1>7, <2>1 DEF WireSays
<1>8. ASSUME 1 \in Tells(w, a), w[1].views[a] = Gone PROVE state = Gone /\ Silent(tail, a)
  <2>1. state = Gone /\ \A k \in Tells(w, a) : k <= 1
    BY <1>8 DEF WireSays
  <2>2. Tells(tail, a) = {}
    BY <1>2, <2>1
  <2> QED BY <2>1, <2>2 DEF Silent
<1> QED BY <1>0, <1>1, <1>4, <1>5, <1>6, <1>7, <1>8 DEF Silent

\* A commit is told while the stream is open.
LEMMA NewsOnTheWire ==
  ASSUME StoreTypeOK, NEW items \in Seq(Items), NEW a, NEW old \in Views, WireSays(wire, a, old),
         Tells(items, a) = {1}, wire' = Push(items), stream # "open" => wire = <<>>
  PROVE  /\ WireSays(wire', a, items[1].views[a])
         /\ stream = "open" => ~Silent(wire', a)
<1>1. CASE stream = "open"
  BY <1>1, NewsPushed DEF Push, StoreTypeOK
<1>2. CASE stream # "open"
  BY <1>2, EmptyWire DEF Push
<1> QED BY <1>1, <1>2

LEMMA OthersOnTheWire ==
  ASSUME StoreTypeOK, NEW items \in Seq(Items), NEW a, NEW state, WireSays(wire, a, state),
         Silent(items, a), wire' = Push(items)
  PROVE  WireSays(wire', a, state) /\ (Silent(wire', a) <=> Silent(wire, a))
  BY OthersPushed DEF Push, StoreTypeOK

LEMMA PublishedTells ==
  ASSUME NEW a \in Agents, NEW state \in Views \cup {Gone}, NEW r \in Requests
  PROVE  /\ Published(a, state, r) \in Seq(Items)
         /\ Tells(Published(a, state, r), a) = {1}
         /\ Published(a, state, r)[1].views[a] = state
         /\ \A b : b # a => Silent(Published(a, state, r), b)
<1> DEFINE items == Published(a, state, r)
<1>1. /\ DOMAIN items = {1, 2} /\ items[1].views = [b \in {a} |-> state]
      /\ items[2].views = [b \in {} |-> Gone]
  BY DEF Published, Item, NoViews
<1> HIDE DEF items
<1>2. /\ Tells(items, a) = {1} /\ items[1].views[a] = state
      /\ \A b : b # a => Silent(items, b)
  BY <1>1 DEF Tells, Silent
<1> QED BY <1>2, PublishedTyped DEF items

LEMMA NewsTells ==
  ASSUME NEW a \in Agents, NEW state \in Views \cup {Gone}, NEW items,
         items = <<Item([b \in {a} |-> state], NoRequest)>>
  PROVE  /\ items \in Seq(Items) /\ Tells(items, a) = {1} /\ items[1].views[a] = state
         /\ \A b : b # a => Silent(items, b)
<1>1. items \in Seq(Items)
  <2>1. Item([b \in {a} |-> state], NoRequest) \in Items
    BY NewsTyped
  <2> QED BY <2>1, Singletons, Zenon
<1>2. DOMAIN items = {1} /\ items[1].views = [b \in {a} |-> state]
  BY DEF Item
<1> QED BY <1>1, <1>2 DEF Tells, Silent

\* The requests whose failure would write a snapshot of the agent back.
Restoring(a) == {r \in Requests : Restorable(request[r]) /\ request[r].agent = a}

\* Writes that do not overlap: one snapshot at most, and the cache shows what
\* its request has made of it.
Pristine(a) ==
  /\ a \in ids <=> cache[a] \in Views
  /\ \A r, q \in Restoring(a) : r = q
  /\ \A r \in Restoring(a) :
       cache[a] = Optimistic(request[r].kind, request[r].prev, request[r].title)

\* What the server has done is told before the snapshot could come back.
ToldInTime(a) ==
  \A r \in Restoring(a) :
    /\ request[r].web = "done" /\ stream = "open" /\ server[a] \in Views => ~Silent(wire, a)
    /\ request[r].web = "gone" => server[a] = Gone

\* Nothing more is to be told: what the window shows, or falls back to, is true.
Follows(a) ==
  stream = "open" /\ server[a] \in Views /\ Silent(wire, a) =>
    /\ \A r \in Restoring(a) : request[r].prev = server[a]
    /\ Restoring(a) = {} => cache[a] = server[a]

\* An agent whose tombstone has come is never shown again.
GoneForGood(a) ==
  server[a] = Gone /\ a \notin unheard => Silent(wire, a) /\ cache[a] = Gone /\ Restoring(a) = {}

TruthOf(a) ==
  /\ WireSays(wire, a, server[a])
  /\ a \notin crossed => Pristine(a) /\ Follows(a)
  /\ ToldInTime(a) /\ GoneForGood(a)

TruthInv ==
  /\ stream # "open" => wire = <<>>
  /\ \A a \in Agents : TruthOf(a)

\* A request keeps the snapshot it has, if it has one.
Keeps(q, p) ==
  /\ Restorable(p) <=> Restorable(q)
  /\ Restorable(q) => /\ p.kind = q.kind /\ p.agent = q.agent /\ p.title = q.title
                      /\ p.prev = q.prev

\* Nothing about the agent changes but the answers to come.
LEMMA SameAgent ==
  ASSUME NEW a \in Agents, TruthOf(a), stream' = stream,
         server'[a] = server[a], cache'[a] = cache[a],
         a \in ids' <=> a \in ids, a \in crossed' <=> a \in crossed,
         a \in unheard' <=> a \in unheard,
         WireSays(wire', a, server[a]), Silent(wire', a) <=> Silent(wire, a),
         Restoring(a)' = Restoring(a),
         \A r \in Restoring(a) :
           /\ Keeps(request[r], request'[r])
           /\ \/ request'[r].web \in {request[r].web, "refused"}
              \/ request'[r].web = "gone" /\ server[a] = Gone
  PROVE  TruthOf(a)'
<1>1. \A r \in Restoring(a) : /\ request'[r].kind = request[r].kind
                              /\ request'[r].title = request[r].title
                              /\ request'[r].prev = request[r].prev
  BY DEF Keeps, Restoring
<1>2. a \notin crossed' => Pristine(a)' /\ Follows(a)'
  <2>1. a \notin crossed' => Pristine(a) /\ Follows(a)
    BY DEF TruthOf
  <2>2. Pristine(a) => Pristine(a)'
    BY <1>1 DEF Pristine
  <2>3. Follows(a) => Follows(a)'
    BY <1>1 DEF Follows
  <2> QED BY <2>1, <2>2, <2>3
<1>3. ToldInTime(a)'
  BY DEF TruthOf, ToldInTime
<1>4. GoneForGood(a)'
  BY DEF TruthOf, GoneForGood
<1> QED BY <1>2, <1>3, <1>4 DEF TruthOf

LEMMA KeptRestoring ==
  ASSUME NEW a, \A r \in Requests : Keeps(request[r], request'[r])
  PROVE  Restoring(a)' = Restoring(a)
  BY DEF Restoring, Keeps

LEMMA KeepsSame ==
  ASSUME NEW q, NEW p, p = q
  PROVE  Keeps(q, p)
  BY DEF Keeps

LEMMA KeepsConcluded ==
  ASSUME NEW q \in UnderWay, NEW web \in {"done", "refused", "gone"}
  PROVE  /\ Keeps(q, Concluded(q, web))
         /\ Restorable(q) => Concluded(q, web).web = web
<1>1. CASE q.client = "settled"
  <2>1. Concluded(q, web) = Settled
    BY <1>1, ConcludedFacts
  <2> QED BY <1>1, <2>1 DEF Keeps, Restorable
<1>2. CASE q.client # "settled"
  BY <1>2, ConcludedFacts, MarksAssumption DEF Keeps, Restorable
<1> QED BY <1>1, <1>2

LEMMA KeepsHeld ==
  ASSUME StoreTypeOK, NEW r \in Requests, Holds(r)
  PROVE  Keeps(request[r], request'[r]) /\ request'[r].web = request[r].web
  BY HoldFacts, MarksAssumption DEF Keeps, Restorable

\* A frame without its agent leaves a request what it would write back: one it
\* acknowledges has had its frame before.
LEMMA KeepsUntold ==
  ASSUME StoreTypeOK, AckInv, Deliver, NEW r \in Requests,
         Restorable(request[r]) => request[r].agent \notin DOMAIN Frame.views
  PROVE  /\ Keeps(request[r], request'[r])
         /\ Restorable(request[r]) => request'[r].web = request[r].web
<1>1. CASE ~IsUnderWay(r)
  <2>1. request'[r] = request[r] /\ ~Restorable(request[r])
    BY <1>1, DeliverFacts DEF Restorable, IsUnderWay
  <2> QED BY <2>1, KeepsSame
<1>2. CASE IsUnderWay(r)
  <2>1. /\ AfterFrame(request[r], request'[r], Frame.views, Frame.ack = r)
        /\ request[r] \in UnderWay /\ wire # <<>> /\ wire \in Seq(Items)
    BY <1>2, DeliverFacts, UnderWayTypes DEF StoreTypeOK
  <2>2. CASE request'[r] = Settled
    <3>1. Frame.ack = r /\ request[r].tracker = "waiting"
      BY <2>1, <2>2, MarksAssumption DEF AfterFrame
    <3>2. 1 \in DOMAIN wire /\ wire[1].ack = r /\ ~ToldBefore(wire, 1, request[r].agent)
      BY <2>1, <3>1, TailFacts DEF Frame, ToldBefore
    <3>3. request[r].touched
      BY <1>2, <3>1, <3>2 DEF AckInv, AckOf, IsUnderWay
    <3> QED BY <2>2, <3>3 DEF Keeps, Restorable
  <2>3. CASE request'[r] # Settled
    <3>1. /\ request'[r] \in UnderWay
          /\ request'[r].kind = request[r].kind /\ request'[r].agent = request[r].agent
          /\ request'[r].title = request[r].title /\ request'[r].prev = request[r].prev
          /\ request'[r].web = request[r].web /\ request'[r].client = request[r].client
          /\ request'[r].touched
               = (request[r].touched \/ (request[r].agent \in DOMAIN Frame.views
                                         /\ request[r].client # "settled"))
      BY <2>1, <2>3 DEF AfterFrame
    <3>2. Restorable(request'[r]) => Restorable(request[r])
      BY <1>2, <3>1 DEF Restorable, IsUnderWay
    <3>3. Restorable(request[r]) => Restorable(request'[r])
      BY <3>1, MarksAssumption DEF Restorable
    <3> QED BY <3>1, <3>2, <3>3 DEF Keeps
  <2> QED BY <2>2, <2>3
<1> QED BY <1>1, <1>2

\* A mutation: what it finds in the cache is its snapshot.
LEMMA TruthMutate ==
  ASSUME StoreTypeOK, NEW a \in Agents, TruthOf(a), NEW r \in Requests, NEW kind, NEW b, NEW title,
         NEW overrides, Mutates(r, kind, b, title, overrides)
  PROVE  TruthOf(a)'
<1>1. /\ request[r] = Fresh
      /\ request'[r] = [kind |-> kind, agent |-> b, title |-> title, prev |-> cache[b],
                        touched |-> FALSE, web |-> "pending", client |-> "waiting",
                        tracker |-> NewTracker(kind)]
      /\ request'[r] \in UnderWay
      /\ \A q \in Requests \ {r} : request'[q] = request[q]
      /\ UNCHANGED <<server, stream, wire, drops, unheard>>
  BY MutateFacts
<1>2. /\ cache'[b] = IF cache[b] \in Views THEN Optimistic(kind, cache[b], title) ELSE cache[b]
      /\ \A c \in Agents \ {b} : cache'[c] = cache[c]
  BY MutateCache
<1>3. /\ request'[r].kind = kind /\ request'[r].agent = b /\ request'[r].title = title
      /\ request'[r].prev = cache[b] /\ request'[r].web = "pending"
      /\ ~request'[r].touched /\ request'[r].client = "waiting"
  BY <1>1
<1>4. /\ kind \in Kinds /\ (kind = "rename" => title \in Titles)
      /\ ids' = IF cache[b] \in Views /\ kind = "delete" THEN ids \ {b} ELSE ids
      /\ crossed' = IF cache[b] \in Views /\ \E q \in Requests :
                         /\ Awaited(q) /\ request[q].agent = b
                         /\ request[q].prev \in Views /\ ~request[q].touched
                    THEN crossed \cup {b} ELSE crossed
  BY DEF Mutates, Mutate
<1>5. /\ r \notin Restoring(a)
      /\ \A q \in Requests \ {r} : q \in Restoring(a)' <=> q \in Restoring(a)
  BY <1>1 DEF Restoring, Restorable
<1>6. r \in Restoring(a)' <=> b = a /\ cache[b] \in Views
  <2>1. request'[r] \notin {Fresh, Settled}
    BY <1>1, MarksAssumption
  <2> QED BY <1>3, <2>1 DEF Restoring, Restorable
<1>7. CASE b = a /\ cache[a] \in Views
  <2>1. a \notin crossed' => a \notin crossed /\ Restoring(a) = {}
    <3>1. (\E q \in Restoring(a) : TRUE) => a \in crossed'
      BY <1>4, <1>7 DEF Restoring, Restorable, Awaited, IsUnderWay
    <3> QED BY <1>4, <1>7, <3>1
  <2>2. ASSUME a \notin crossed' PROVE Pristine(a)' /\ Follows(a)'
    <3>1. Pristine(a) /\ Follows(a) /\ Restoring(a) = {} /\ Restoring(a)' = {r}
      <4>1. \A q \in Restoring(a)' : q = r
        BY <1>5, <2>1, <2>2 DEF Restoring
      <4> QED BY <1>6, <1>7, <2>1, <2>2, <4>1 DEF TruthOf
    <3>2. cache'[a] = Optimistic(kind, cache[a], title) /\ a \in ids
      BY <1>2, <1>7, <3>1 DEF Pristine
    <3>3. a \in ids' <=> cache'[a] \in Views
      BY <1>4, <1>7, <3>2, OptimisticTyped, MarksAssumption
    <3>4. Pristine(a)'
      BY <1>3, <1>7, <3>1, <3>2, <3>3 DEF Pristine
    <3>5. Follows(a)'
      BY <1>1, <1>3, <1>7, <3>1 DEF Follows
    <3> QED BY <3>4, <3>5
  <2>3. ToldInTime(a)'
    BY <1>1, <1>3, <1>5 DEF TruthOf, ToldInTime, Restoring
  <2>4. GoneForGood(a)'
    BY <1>1, <1>7, MarksAssumption DEF TruthOf, GoneForGood
  <2> QED BY <1>1, <2>2, <2>3, <2>4 DEF TruthOf
<1>8. CASE ~(b = a /\ cache[a] \in Views)
  <2>1. cache'[a] = cache[a]
    BY <1>2, <1>8
  <2>2. (a \in ids' <=> a \in ids) /\ (a \in crossed' <=> a \in crossed)
    BY <1>4, <1>8
  <2>3. Restoring(a)' = Restoring(a)
    BY <1>5, <1>6, <1>8 DEF Restoring
  <2>4. \A q \in Restoring(a) : request'[q] = request[q]
    BY <1>1, <1>5 DEF Restoring
  <2>5. WireSays(wire, a, server[a])
    BY DEF TruthOf
  <2> QED BY <1>1, <2>1, <2>2, <2>3, <2>4, <2>5, KeepsSame, SameAgent
<1> QED BY <1>7, <1>8

\* A result: a failure falls back to the snapshot.
LEMMA TruthSettle ==
  ASSUME StoreTypeOK, RenamesNamed, NEW a \in Agents, TruthOf(a), NEW r \in Requests,
         NEW ok \in BOOLEAN, NEW survives \in BOOLEAN, Settles(r, ok, survives)
  PROVE  TruthOf(a)'
<1>1. /\ request[r] \in UnderWay /\ request[r].agent \in Agents
      /\ \A q \in Requests \ {r} : request'[q] = request[q]
      /\ cache'[request[r].agent] = IF ~ok /\ Restores(request[r])
                                      THEN request[r].prev ELSE cache[request[r].agent]
      /\ \A b \in Agents \ {request[r].agent} : cache'[b] = cache[b]
  BY SettleFacts
<1>2. ~Restorable(request'[r])
  <2>1. \/ request'[r] = Settled
        \/ request'[r] = [request[r] EXCEPT !.client = "settled", !.tracker = "none",
                                            !.prev = Absent, !.touched = FALSE]
    BY SettleFacts
  <2>2. request'[r] = Settled \/ request'[r].client = "settled"
    BY <1>1, <2>1 DEF UnderWay
  <2> QED BY <2>2 DEF Restorable
<1>3. /\ ids' = IF ~ok /\ Restores(request[r]) /\ request[r].kind = "delete"
                  THEN ids \cup {request[r].agent} ELSE ids
      /\ UNCHANGED <<server, stream, wire, drops, crossed, unheard>>
      /\ Restorable(request[r]) <=> Restores(request[r])
      /\ ok => \/ request[r].web = "done"
               \/ request[r].web = "gone" /\ request[r].kind = "delete"
  BY DEF Settles, Settle, Restorable, Restores, IsUnderWay
<1>4. Restoring(a)' = Restoring(a) \ {r}
  BY <1>1, <1>2 DEF Restoring
<1>5. \A q \in Restoring(a) \ {r} : request'[q] = request[q]
  BY <1>1 DEF Restoring
<1>6. CASE r \in Restoring(a)
  <2>1. request[r].agent = a /\ Restores(request[r]) /\ request[r].prev \in Views
    BY <1>3, <1>6 DEF Restoring, Restores
  <2>2. ASSUME a \notin crossed' PROVE Pristine(a)' /\ Follows(a)'
    <3>1. Pristine(a) /\ Follows(a)
      BY <1>3, <2>2 DEF TruthOf
    <3>2. Restoring(a)' = {}
      BY <1>4, <1>6, <3>1 DEF Pristine
    <3>3. CASE ~ok
      <4>1. cache'[a] = request[r].prev
        BY <1>1, <2>1, <3>3
      <4>2. a \in ids'
        <5>1. CASE request[r].kind = "delete"
          BY <1>3, <2>1, <3>3, <5>1
        <5>2. CASE request[r].kind # "delete"
          <6>1. cache[a] = Optimistic(request[r].kind, request[r].prev, request[r].title)
            BY <1>6, <3>1 DEF Pristine
          <6>2. cache[a] \in Views
            <7>1. /\ request[r].kind \in Kinds
                  /\ request[r].kind = "rename" => request[r].title \in Titles
              BY <1>1 DEF UnderWay, RenamesNamed, Settles
            <7> QED BY <2>1, <5>2, <6>1, <7>1, OptimisticTyped
          <6> QED BY <1>3, <3>1, <5>2, <6>2 DEF Pristine
        <5> QED BY <5>1, <5>2
      <4>3. Pristine(a)'
        BY <2>1, <3>2, <4>1, <4>2 DEF Pristine
      <4>4. Follows(a)'
        BY <1>3, <1>6, <3>1, <3>2, <4>1 DEF Follows
      <4> QED BY <4>3, <4>4
    <3>4. CASE ok
      <4>1. cache'[a] = cache[a] /\ ids' = ids
        BY <1>1, <1>3, <2>1, <3>4
      <4>2. Pristine(a)'
        BY <3>1, <3>2, <4>1 DEF Pristine
      <4>3. ~(stream = "open" /\ server[a] \in Views /\ Silent(wire, a))
        BY <1>3, <1>6, <3>4, MarksAssumption DEF TruthOf, ToldInTime
      <4> QED BY <1>3, <4>2, <4>3 DEF Follows
    <3> QED BY <3>3, <3>4
  <2>3. ToldInTime(a)'
    BY <1>3, <1>4, <1>5 DEF TruthOf, ToldInTime
  <2>4. GoneForGood(a)'
    BY <1>3, <1>6 DEF TruthOf, GoneForGood
  <2> QED BY <1>3, <2>2, <2>3, <2>4 DEF TruthOf
<1>7. CASE r \notin Restoring(a)
  <2>1. request[r].agent = a => ~Restores(request[r])
    BY <1>3, <1>7 DEF Restoring
  <2>2. cache'[a] = cache[a] /\ (a \in ids' <=> a \in ids)
    BY <1>1, <1>3, <2>1
  <2>3. Restoring(a)' = Restoring(a) /\ \A q \in Restoring(a) : request'[q] = request[q]
    BY <1>4, <1>5, <1>7
  <2>4. WireSays(wire, a, server[a])
    BY DEF TruthOf
  <2> QED BY <1>3, <2>2, <2>3, <2>4, KeepsSame, SameAgent
<1> QED BY <1>6, <1>7

\* A frame with its agent ends a snapshot.
LEMMA EndsTold ==
  ASSUME StoreTypeOK, Deliver, NEW r \in Requests, request[r].agent \in DOMAIN Frame.views
  PROVE  ~Restorable(request'[r])
<1>1. CASE ~IsUnderWay(r)
  BY <1>1, DeliverFacts DEF Restorable, IsUnderWay
<1>2. CASE IsUnderWay(r)
  BY <1>2, DeliverFacts DEF AfterFrame, Restorable
<1> QED BY <1>1, <1>2

LEMMA TruthDeliver ==
  ASSUME StoreTypeOK, AckInv, NEW a \in Agents, TruthOf(a), Deliver
  PROVE  TruthOf(a)'
<1>1. /\ wire # <<>> /\ Frame \in Items /\ wire' = Tail(wire) /\ wire \in Seq(Items)
      /\ cache' = Synced(cache, Frame.views) /\ ids' = SyncedIds(ids, Frame.views)
      /\ crossed' = crossed \ DOMAIN Frame.views
      /\ unheard' = unheard \ {b \in DOMAIN Frame.views : Frame.views[b] = Gone}
      /\ UNCHANGED <<server, stream, drops, override>>
  BY DeliverFacts DEF StoreTypeOK
<1>2. /\ WireSays(wire', a, server[a])
      /\ a \notin DOMAIN Frame.views => (Silent(wire', a) <=> Silent(wire, a))
      /\ a \in DOMAIN Frame.views =>
           /\ ~Silent(wire, a)
           /\ Silent(wire', a) => Frame.views[a] = server[a]
           /\ Frame.views[a] = Gone => server[a] = Gone /\ Silent(wire', a)
  BY <1>1, WireTaken DEF TruthOf, Frame
<1>3. \A r \in Requests :
        \/ ~Restorable(request'[r])
        \/ /\ Restorable(request[r]) /\ request[r].agent \notin DOMAIN Frame.views
           /\ request'[r].agent = request[r].agent
  BY EndsTold, KeepsUntold DEF Keeps
<1>4. CASE a \notin DOMAIN Frame.views
  <2>1. ASSUME NEW r \in Restoring(a)
        PROVE  /\ r \in Restoring(a)' /\ Keeps(request[r], request'[r])
               /\ request'[r].web = request[r].web
    <3>1. r \in Requests /\ Restorable(request[r]) /\ request[r].agent = a
      BY DEF Restoring
    <3>2. Keeps(request[r], request'[r]) /\ request'[r].web = request[r].web
      BY <1>4, <3>1, KeepsUntold
    <3> QED BY <3>1, <3>2 DEF Keeps, Restoring
  <2>2. Restoring(a)' = Restoring(a)
    BY <1>3, <2>1 DEF Restoring
  <2>3. /\ cache'[a] = cache[a] /\ (a \in ids' <=> a \in ids)
        /\ (a \in crossed' <=> a \in crossed) /\ (a \in unheard' <=> a \in unheard)
    BY <1>1, <1>4 DEF Synced, SyncedIds
  <2> QED BY <1>1, <1>2, <1>4, <2>1, <2>2, <2>3, SameAgent
<1>5. CASE a \in DOMAIN Frame.views
  <2>1. Restoring(a)' = {}
    BY <1>3, <1>5 DEF Restoring
  <2>2. /\ cache'[a] = Frame.views[a] /\ Frame.views[a] \in Views \cup {Gone}
        /\ a \in ids' <=> Frame.views[a] # Gone
    BY <1>1, <1>5, ItemFields DEF Synced, SyncedIds
  <2>3. Pristine(a)'
    BY <2>1, <2>2, MarksAssumption DEF Pristine
  <2>4. Follows(a)'
    BY <1>1, <1>2, <1>5, <2>1, <2>2 DEF Follows
  <2>5. ToldInTime(a)'
    BY <2>1 DEF ToldInTime
  <2>6. GoneForGood(a)'
    <3>1. server[a] = Gone => a \in unheard
      BY <1>2, <1>5 DEF TruthOf, GoneForGood
    <3> QED BY <1>1, <1>2, <1>5, <2>1, <2>2, <3>1 DEF GoneForGood
  <2> QED BY <1>1, <1>2, <2>3, <2>4, <2>5, <2>6 DEF TruthOf
<1> QED BY <1>4, <1>5

\* The server changes an agent that is there, and says so.
LEMMA TruthTold ==
  ASSUME NEW a \in Agents, TruthOf(a), server[a] \in Views, stream' = stream,
         cache'[a] = cache[a], a \in ids' <=> a \in ids, a \in crossed' <=> a \in crossed,
         WireSays(wire', a, server'[a]), stream = "open" => ~Silent(wire', a),
         server'[a] = Gone => a \in unheard',
         Restoring(a)' = Restoring(a),
         \A r \in Restoring(a) :
           /\ Keeps(request[r], request'[r])
           /\ request'[r].web \in {request[r].web, "done"}
  PROVE  TruthOf(a)'
<1>1. \A r \in Restoring(a) : /\ request'[r].kind = request[r].kind
                              /\ request'[r].title = request[r].title
                              /\ request'[r].prev = request[r].prev
  BY DEF Keeps, Restoring
<1>2. a \notin crossed' => Pristine(a)' /\ Follows(a)'
  <2>1. a \notin crossed' => Pristine(a)
    BY DEF TruthOf
  <2>2. Pristine(a) => Pristine(a)'
    BY <1>1 DEF Pristine
  <2>3. Follows(a)'
    BY DEF Follows
  <2> QED BY <2>1, <2>2, <2>3
<1>3. ToldInTime(a)'
  BY MarksAssumption DEF TruthOf, ToldInTime
<1>4. GoneForGood(a)'
  BY DEF GoneForGood
<1> QED BY <1>2, <1>3, <1>4 DEF TruthOf

LEMMA TruthCommit ==
  ASSUME StoreTypeOK, RenamesNamed, stream # "open" => wire = <<>>, NEW a \in Agents, TruthOf(a),
         NEW r \in Requests, Commit(r)
  PROVE  TruthOf(a)'
<1>0. PICK b \in Agents : b = request[r].agent
  BY CommitFacts
<1>1. /\ request[r] \in UnderWay
      /\ \A q \in Requests \ {r} : request'[q] = request[q]
      /\ UNCHANGED <<stream, drops, cache, ids, override, crossed>>
  BY CommitFacts
<1>2. WireSays(wire, a, server[a])
  BY DEF TruthOf
<1>3. CASE server[b] = Gone
  <2>1. request'[r] = Concluded(request[r], "gone") /\ UNCHANGED <<server, wire, unheard>>
    BY <1>0, <1>3, CommitFacts, MarksAssumption
  <2>2. \A q \in Requests : Keeps(request[q], request'[q])
    BY <1>1, <2>1, KeepsConcluded, KeepsSame
  <2>3. \A q \in Restoring(a) : \/ request'[q].web = request[q].web
                                \/ request'[q].web = "gone" /\ server[a] = Gone
    BY <1>0, <1>1, <1>3, <2>1, KeepsConcluded DEF Restoring
  <2>4. Restoring(a)' = Restoring(a)
    BY <2>2, KeptRestoring
  <2>5. \A q \in Restoring(a) : q \in Requests
    BY DEF Restoring
  <2> QED BY <1>1, <1>2, <2>1, <2>2, <2>3, <2>4, <2>5, SameAgent
<1>4. CASE server[b] # Gone
  <2>1. /\ server[b] \in Views /\ request'[r] = Concluded(request[r], "done")
        /\ server'[b] = Optimistic(request[r].kind, server[b], request[r].title)
        /\ server'[b] \in Views \cup {Gone}
        /\ \A c \in Agents \ {b} : server'[c] = server[c]
        /\ wire' = Push(Published(b, server'[b], r))
        /\ unheard' = IF request[r].kind = "delete" THEN unheard \cup {b} ELSE unheard
    BY <1>0, <1>4, CommitFacts
  <2>2. \A q \in Requests : Keeps(request[q], request'[q])
    BY <1>1, <2>1, KeepsConcluded, KeepsSame
  <2>3. \A q \in Restoring(a) : q \in Requests /\ request[q].agent = a
    BY DEF Restoring
  <2>4. Restoring(a)' = Restoring(a)
    BY <2>2, KeptRestoring
  <2>5. PICK items \in Seq(Items) :
          /\ wire' = Push(items) /\ Tells(items, b) = {1} /\ items[1].views[b] = server'[b]
          /\ \A c : c # b => Silent(items, c)
    <3>1. PICK state \in Views \cup {Gone} : state = server'[b]
      BY <2>1
    <3>2. /\ Published(b, state, r) \in Seq(Items)
          /\ Tells(Published(b, state, r), b) = {1}
          /\ Published(b, state, r)[1].views[b] = state
          /\ \A c : c # b => Silent(Published(b, state, r), c)
      BY PublishedTells
    <3>3. wire' = Push(Published(b, state, r))
      BY <2>1, <3>1
    <3> QED BY <3>1, <3>2, <3>3
  <2>6. CASE a = b
    <3>1. Tells(items, a) = {1} /\ items[1].views[a] = server'[a]
      BY <2>5, <2>6
    <3>2. WireSays(wire', a, server'[a]) /\ (stream = "open" => ~Silent(wire', a))
      BY <1>2, <2>1, <2>5, <2>6, <3>1, NewsOnTheWire
    <3>3. server'[a] = Gone => a \in unheard'
      <4>1. /\ request[r].kind \in Kinds
            /\ request[r].kind = "rename" => request[r].title \in Titles
        BY <1>1 DEF UnderWay, RenamesNamed, Commit
      <4>2. request[r].kind # "delete" => server'[b] # Gone
        BY <2>1, <4>1, OptimisticTyped, MarksAssumption
      <4> QED BY <2>1, <2>6, <4>2
    <3>4. \A q \in Restoring(a) : request'[q].web \in {request[q].web, "done"}
      BY <1>0, <1>1, <2>1, <2>3, KeepsConcluded DEF Restoring
    <3> QED BY <1>1, <2>1, <2>2, <2>3, <2>4, <2>6, <3>2, <3>3, <3>4, TruthTold
  <2>7. CASE a # b
    <3>1. Silent(items, a)
      BY <2>5, <2>7
    <3>2. WireSays(wire', a, server[a]) /\ (Silent(wire', a) <=> Silent(wire, a))
      BY <1>2, <2>1, <2>5, <3>1, OthersOnTheWire
    <3>3. server'[a] = server[a] /\ (a \in unheard' <=> a \in unheard)
      BY <2>1, <2>7
    <3>4. \A q \in Restoring(a) : request'[q].web = request[q].web
      BY <1>0, <1>1, <2>3, <2>7
    <3> QED BY <1>1, <2>2, <2>3, <2>4, <3>2, <3>3, <3>4, SameAgent
  <2> QED BY <2>6, <2>7
<1> QED BY <1>3, <1>4

\* An agent works, or is deleted by another window.
LEMMA TruthNews ==
  ASSUME StoreTypeOK, stream # "open" => wire = <<>>, NEW a \in Agents, TruthOf(a),
         NEW b \in Agents, Work(b) \/ DeleteElsewhere(b)
  PROVE  TruthOf(a)'
<1>1. /\ server[b] \in Views /\ server' = [server EXCEPT ![b] = server'[b]]
      /\ server'[b] \in Views \cup {Gone}
      /\ UNCHANGED <<stream, drops, cache, ids, override, request, crossed>>
      /\ unheard \subseteq unheard' /\ unheard' \subseteq unheard \cup {b}
      /\ server'[b] = Gone => b \in unheard'
      /\ wire' = Push(<<Item([c \in {b} |-> server'[b]], NoRequest)>>)
  <2>1. CASE Work(b)
    BY <2>1, WorkFacts, MarksAssumption DEF Work
  <2>2. CASE DeleteElsewhere(b)
    BY <2>2 DEF DeleteElsewhere, StoreTypeOK
  <2> QED BY <2>1, <2>2
<1>2. PICK items \in Seq(Items) :
        /\ wire' = Push(items) /\ Tells(items, b) = {1} /\ items[1].views[b] = server'[b]
        /\ \A c : c # b => Silent(items, c)
  <2>1. PICK state \in Views \cup {Gone} : state = server'[b]
    BY <1>1
  <2>2. PICK items \in {<<Item([c \in {b} |-> state], NoRequest)>>} : TRUE
    OBVIOUS
  <2>3. /\ items \in Seq(Items) /\ Tells(items, b) = {1} /\ items[1].views[b] = state
        /\ \A c : c # b => Silent(items, c)
    BY <2>2, NewsTells
  <2>4. wire' = Push(items)
    BY <1>1, <2>1, <2>2
  <2> QED BY <2>1, <2>3, <2>4
<1>3. WireSays(wire, a, server[a])
  BY DEF TruthOf
<1>4. /\ Restoring(a)' = Restoring(a)
      /\ \A q \in Restoring(a) : request'[q] = request[q] /\ Keeps(request[q], request'[q])
  BY <1>1, KeepsSame DEF Restoring
<1>5. CASE a = b
  <2>1. WireSays(wire', a, server'[a]) /\ (stream = "open" => ~Silent(wire', a))
    BY <1>1, <1>2, <1>3, <1>5, NewsOnTheWire
  <2> QED BY <1>1, <1>4, <1>5, <2>1, TruthTold
<1>6. CASE a # b
  <2>1. WireSays(wire', a, server[a]) /\ (Silent(wire', a) <=> Silent(wire, a))
    BY <1>2, <1>3, <1>6, OthersOnTheWire
  <2>2. server'[a] = server[a] /\ (a \in unheard' <=> a \in unheard)
    BY <1>1, <1>6 DEF StoreTypeOK
  <2> QED BY <1>1, <1>4, <2>1, <2>2, SameAgent
<1> QED BY <1>5, <1>6

\* The stream opens, closes, and dumps the live agents.
LEMMA TruthStream ==
  ASSUME StoreTypeOK, stream # "open" => wire = <<>>, NEW a \in Agents, TruthOf(a),
         Open \/ Close \/ Subscribe
  PROVE  TruthOf(a)'
<1>1. /\ UNCHANGED <<server, cache, ids, override, request, crossed, unheard>>
      /\ Restoring(a)' = Restoring(a)
  BY DEF Open, Close, Subscribe, Restoring
<1>2. /\ WireSays(wire', a, server[a])
      /\ stream' = "open" /\ server[a] \in Views => ~Silent(wire', a)
      /\ server[a] \notin Views => Silent(wire', a) \/ a \in unheard
  <2>1. CASE Open \/ Close
    <3>1. wire' = <<>> /\ stream' # "open"
      BY <2>1 DEF Open, Close
    <3> QED BY <3>1, EmptyWire
  <2>2. CASE Subscribe
    <3> DEFINE views == [b \in {b \in Agents : server[b] \in Views} |-> server[b]]
    <3>1. wire' = <<Item(views, NoRequest)>>
      BY <2>2 DEF Subscribe
    <3>2. /\ a \in DOMAIN views <=> server[a] \in Views
          /\ a \in DOMAIN views => views[a] = server[a] /\ server[a] # Gone
      BY MarksAssumption
    <3> HIDE DEF views
    <3> QED BY <3>1, <3>2, DumpedWire
  <2> QED BY <2>1, <2>2
<1>3. server[a] # Gone <=> server[a] \in Views
  BY MarksAssumption DEF StoreTypeOK
<1>4. Pristine(a)' <=> Pristine(a)
  BY <1>1 DEF Pristine
<1>5. Follows(a)'
  BY <1>1, <1>2 DEF Follows
<1>6. ToldInTime(a)'
  BY <1>1, <1>2 DEF TruthOf, ToldInTime
<1>7. GoneForGood(a)'
  BY <1>1, <1>2, <1>3 DEF TruthOf, GoneForGood
<1> QED BY <1>1, <1>2, <1>4, <1>5, <1>6, <1>7 DEF TruthOf

LEMMA TruthStep ==
  ASSUME StoreInv, AckInv, TruthInv, StoreStep, NEW a \in Agents
  PROVE  TruthOf(a)'
<1>0. StoreTypeOK /\ RenamesNamed /\ TruthOf(a) /\ (stream # "open" => wire = <<>>)
  BY DEF StoreInv, TypeOK, TruthInv
<1>1. ASSUME UNCHANGED <<server, stream, wire, cache, ids, crossed, unheard>>,
             \A r \in Requests : /\ Keeps(request[r], request'[r])
                                 /\ Restorable(request[r]) =>
                                      request'[r].web \in {request[r].web, "refused"}
      PROVE  TruthOf(a)'
  <2>1. Restoring(a)' = Restoring(a)
    BY <1>1, KeptRestoring
  <2>2. \A r \in Restoring(a) : r \in Requests /\ Restorable(request[r])
    BY DEF Restoring
  <2>3. WireSays(wire, a, server[a])
    BY <1>0 DEF TruthOf
  <2> QED BY <1>0, <1>1, <2>1, <2>2, <2>3, SameAgent
<1>2. ASSUME UNCHANGED <<server, stream, wire, cache, ids, crossed, unheard, request>>
      PROVE  TruthOf(a)'
  BY <1>1, <1>2, KeepsSame
<1>3. ASSUME NEW r \in Requests, Holds(r) PROVE TruthOf(a)'
  <2>1. /\ UNCHANGED <<server, stream, wire, cache, ids, crossed, unheard>>
        /\ \A q \in Requests \ {r} : request'[q] = request[q]
    BY <1>0, <1>3, HoldFacts DEF Holds
  <2>2. Keeps(request[r], request'[r]) /\ request'[r].web = request[r].web
    BY <1>0, <1>3, KeepsHeld
  <2> QED BY <1>1, <2>1, <2>2, KeepsSame
<1>4. ASSUME NEW r \in Requests, Refuse(r) PROVE TruthOf(a)'
  <2>1. /\ UNCHANGED <<server, stream, wire, cache, ids, crossed, unheard>>
        /\ \A q \in Requests \ {r} : request'[q] = request[q]
        /\ request[r] \in UnderWay /\ request'[r] = Concluded(request[r], "refused")
    BY <1>0, <1>4, RefuseFacts
  <2>2. Keeps(request[r], request'[r]) /\ (Restorable(request[r]) => request'[r].web = "refused")
    BY <2>1, KeepsConcluded
  <2> QED BY <1>1, <2>1, <2>2, KeepsSame
<1>5. ASSUME NEW r \in Requests, NEW kind, NEW b, NEW title, NEW overrides,
             Mutates(r, kind, b, title, overrides)
      PROVE  TruthOf(a)'
  BY <1>0, <1>5, TruthMutate
<1>6. ASSUME NEW r \in Requests, NEW ok \in BOOLEAN, NEW survives \in BOOLEAN,
             Settles(r, ok, survives)
      PROVE  TruthOf(a)'
  BY <1>0, <1>6, TruthSettle
<1>7. ASSUME (\E b \in Agents : Rekeys(b)) \/ UNCHANGED storeVars
      PROVE  TruthOf(a)'
  BY <1>2, <1>7 DEF Rekeys, storeVars
<1> QED BY <1>0, <1>3, <1>4, <1>5, <1>6, <1>7, TruthCommit, TruthNews, TruthStream, TruthDeliver
        DEF StoreStep

LEMMA WireStep ==
  ASSUME StoreInv, TruthInv, StoreStep, stream' # "open"
  PROVE  wire' = <<>>
<1>0. stream # "open" => wire = <<>>
  BY DEF TruthInv
<1>1. ASSUME NEW items, wire' = Push(items), stream' = stream PROVE wire' = <<>>
  BY <1>0, <1>1 DEF Push
<1>2. ASSUME wire' = wire, stream' = stream PROVE wire' = <<>>
  BY <1>0, <1>2
<1>3. ASSUME NEW r \in Requests, NEW kind, NEW b, NEW title, NEW overrides,
             Mutates(r, kind, b, title, overrides)
      PROVE  wire' = <<>>
  BY <1>2, <1>3 DEF Mutates, Mutate
<1>4. ASSUME \/ \E r \in Requests : Holds(r) \/ Refuse(r)
             \/ \E r \in Requests : \E ok, survives \in BOOLEAN : Settles(r, ok, survives)
             \/ \E b \in Agents : Rekeys(b)
             \/ UNCHANGED storeVars
      PROVE  wire' = <<>>
  BY <1>2, <1>4 DEF Holds, Refuse, Settles, Rekeys, storeVars
<1>5. ASSUME NEW r \in Requests, Commit(r) PROVE wire' = <<>>
  BY <1>1, <1>2, <1>5 DEF Commit
<1>6. ASSUME NEW b \in Agents, Work(b) \/ DeleteElsewhere(b) PROVE wire' = <<>>
  BY <1>1, <1>6 DEF Work, DeleteElsewhere
<1>7. ASSUME Open \/ Close \/ Subscribe PROVE wire' = <<>>
  BY <1>0, <1>7 DEF Open, Close, Subscribe
<1>8. ASSUME Deliver PROVE wire' = <<>>
  BY <1>0, <1>8 DEF Deliver
<1> QED BY <1>3, <1>4, <1>5, <1>6, <1>7, <1>8 DEF StoreStep

LEMMA TruthInit ==
  ASSUME Init
  PROVE  TruthInv
<1>1. /\ stream = "closed" /\ wire = <<>> /\ ids = {} /\ request = [r \in Requests |-> Fresh]
      /\ cache = [a \in Agents |-> Absent]
      /\ server \in [Agents -> Views \cup {Gone}] /\ \A a \in Agents : server[a] # Gone
  <2>1. StoreTypeOK
    BY StoreInvInit DEF StoreInv, TypeOK
  <2>2. \A a \in Agents : server[a] # Gone
    <3>1. PICK t \in Titles, run \in {"idle", "busy"} :
            server = [a \in Agents |-> [title |-> t, readAt |-> Never, turn |-> 0,
                                        status |-> run]]
      BY DEF Init, StoreInit
    <3>2. [title |-> t, readAt |-> Never, turn |-> 0, status |-> run] \in Views
      BY BoundsAssumption DEF Views, Turns
    <3> QED BY <3>1, <3>2, MarksAssumption
  <2> QED BY <2>1, <2>2 DEF Init, StoreInit, StoreTypeOK
<1>2. \A a : Restoring(a) = {}
  BY <1>1 DEF Restoring, Restorable
<1> SUFFICES ASSUME NEW a \in Agents PROVE TruthOf(a)
  BY <1>1 DEF TruthInv
<1>3. Pristine(a)
  BY <1>1, <1>2, MarksAssumption DEF Pristine
<1>4. Follows(a) /\ ToldInTime(a) /\ GoneForGood(a)
  BY <1>1, <1>2 DEF Follows, ToldInTime, GoneForGood
<1> QED BY <1>1, <1>3, <1>4, EmptyWire DEF TruthOf

\* Once nothing is under way and the stream has been handled to its end, the
\* window shows what the server has, in the cache and in the ids list: the
\* rollbacks restore no more than what is still true (useTaskMutations and
\* the sync versions of syncTasksToQueryCache).
THEOREM WindowRestsOnTruth == Spec => []RestsOnTruth
<1>1. Init => TruthInv
  BY TruthInit
<1>2. ReadInv /\ TruthInv /\ [Next]_vars => TruthInv'
  <2> SUFFICES ASSUME ReadInv, TruthInv, [Next]_vars PROVE TruthInv'
    OBVIOUS
  <2>1. StoreInv /\ AckInv /\ StoreStep
    BY StoreSteps DEF ReadInv
  <2>2. \A a \in Agents : TruthOf(a)'
    BY <2>1, TruthStep
  <2>3. stream' # "open" => wire' = <<>>
    BY <2>1, WireStep
  <2> QED BY <2>2, <2>3 DEF TruthInv
<1>3. ReadInv /\ TruthInv => RestsOnTruth
  <2> SUFFICES ASSUME ReadInv, TruthInv, AtRest, NEW a \in Agents \ crossed
               PROVE  /\ a \in ids <=> cache[a] \in Views
                      /\ \/ cache[a] = server[a]
                         \/ server[a] = Gone /\ (cache[a] = Absent \/ a \in unheard)
    BY DEF RestsOnTruth
  <2>1. Restoring(a) = {} /\ Silent(wire, a) /\ stream = "open"
    BY EmptyWire DEF AtRest, IsUnderWay, Restoring, Restorable
  <2>2. TruthOf(a) /\ server[a] \in Views \cup {Gone}
    BY DEF TruthInv, ReadInv, StoreInv, TypeOK, StoreTypeOK
  <2> QED BY <2>1, <2>2 DEF TruthOf, Pristine, Follows, GoneForGood
<1> QED BY <1>1, <1>2, <1>3, ReadInvariant, PTL DEF Spec

-----------------------------------------------------------------------------
(* The inductive invariant *)

\* A job that has not spawned its process has none.
NotYetBorn ==
  \A n \in Procs : job[n] \in {"idle", "sleeping", "launching"} => proc[n] = "unborn"

\* What was spawned, or is about to be, follows exits that were handled.
Succession ==
  \A p, q \in Procs :
    q < p /\ (proc[p] # "unborn" \/ job[p] = "sleeping") => proc[q] = "gone"

\* The process that may still be running is the one that quitting will kill.
CurrentIsLast == \A p \in Procs : proc[p] \in Alive \cup {"dead"} => p = current

\* A shutdown waits for that process, unless another was spawned meanwhile.
WaitsForCurrent == app = "cleaning" /\ ~late => awaited = current

QuitFlag == quitting <=> app # "up"

BackendInv ==
  /\ StatusTypeOK /\ NotYetBorn /\ Succession /\ CurrentIsLast
  /\ WaitsForCurrent /\ QuitFlag /\ QuitLeavesNoBackend

-----------------------------------------------------------------------------
(* The operators *)

\* A message sent keeps the types of what is sent.
LEMMA SendTyped ==
  ASSUME SendTypes, NEW s \in Statuses, Send(s), UNCHANGED listening
  PROVE  SendTypes'
  BY DEF Send, SendTypes

\* What the boundary shows has its type, whatever it is told to show.
LEMMA ShowTyped ==
  ASSUME shown \in Shown, started \in BOOLEAN,
         NEW s \in Shown, NEW h \in BOOLEAN,
         NEW rest \in {"none", "sent", "answered"}, Show(s, h, rest)
  PROVE  /\ shown' \in Shown /\ started' \in BOOLEAN
         /\ check' \in {"none", "sent", "answered"}
  BY DEF Show

-----------------------------------------------------------------------------
(* The actions of the main process *)

\* A start spawns process 1, when no later one was spawned.
LEMMA StartCustomStep ==
  ASSUME BackendInv, StartCustom, UNCHANGED boundaryVars
  PROVE  BackendInv'
<1> USE MainAssumption DEF BackendInv, StatusTypeOK, MainTypeOK, Procs, NoProc, Alive,
        mainVars, modeVars, procVars, jobVars, sendVars, quitVars, boundaryVars
<1>1. ProcTypes'
  BY DEF StartCustom, Send, Spawn, ProcTypes, Addresses
<1>2. JobTypes'
  BY DEF StartCustom, Send, Spawn, ProcTypes, JobTypes, Addresses, Stages
<1>3. SendTypes'
  BY SendTyped DEF StartCustom, Spawn, SendTypes, Statuses
<1>4. QuitTypes' /\ BoundaryTypes'
  BY DEF StartCustom, Send, Spawn, ProcTypes, QuitTypes, BoundaryTypes
<1>5. NotYetBorn' /\ Succession'
  BY DEF StartCustom, Send, Spawn, ProcTypes, JobTypes, NotYetBorn, Succession
<1>6. CurrentIsLast'
  BY DEF StartCustom, Send, Spawn, ProcTypes, CurrentIsLast, NotYetBorn, Succession
<1>7. WaitsForCurrent' /\ QuitFlag'
  BY DEF StartCustom, Send, Spawn, QuitTypes, WaitsForCurrent, QuitFlag
<1>8. QuitLeavesNoBackend'
  BY DEF StartCustom, Send, Spawn, ProcTypes, QuitTypes, QuitLeavesNoBackend, CurrentIsLast,
         WaitsForCurrent, QuitFlag
<1> QED BY <1>1, <1>2, <1>3, <1>4, <1>5, <1>6, <1>7, <1>8

LEMMA StartPackagedStep ==
  ASSUME BackendInv, StartPackaged, UNCHANGED boundaryVars
  PROVE  BackendInv'
<1> USE MainAssumption DEF BackendInv, StatusTypeOK, MainTypeOK, Procs, NoProc, Alive,
        mainVars, modeVars, procVars, jobVars, sendVars, quitVars, boundaryVars
<1>1. ProcTypes'
  BY DEF StartPackaged, Send, ProcTypes, Addresses
<1>2. JobTypes'
  BY DEF StartPackaged, Send, ProcTypes, JobTypes, Addresses, Stages
<1>3. SendTypes'
  BY SendTyped DEF StartPackaged, SendTypes, Statuses
<1>4. QuitTypes' /\ BoundaryTypes'
  BY DEF StartPackaged, Send, ProcTypes, QuitTypes, BoundaryTypes
<1>5. NotYetBorn' /\ Succession'
  BY DEF StartPackaged, Send, ProcTypes, JobTypes, NotYetBorn, Succession
<1>6. CurrentIsLast'
  BY DEF StartPackaged, Send, ProcTypes, CurrentIsLast, NotYetBorn, Succession
<1>7. WaitsForCurrent' /\ QuitFlag'
  BY DEF StartPackaged, Send, QuitTypes, WaitsForCurrent, QuitFlag
<1>8. QuitLeavesNoBackend'
  BY DEF StartPackaged, Send, ProcTypes, QuitTypes, QuitLeavesNoBackend, CurrentIsLast,
         WaitsForCurrent, QuitFlag
<1> QED BY <1>1, <1>2, <1>3, <1>4, <1>5, <1>6, <1>7, <1>8

LEMMA LaunchPackagedStep ==
  ASSUME BackendInv, LaunchPackaged, UNCHANGED boundaryVars
  PROVE  BackendInv'
<1> USE MainAssumption DEF BackendInv, StatusTypeOK, MainTypeOK, Procs, NoProc, Alive,
        mainVars, modeVars, procVars, jobVars, sendVars, quitVars, boundaryVars
<1>1. ProcTypes'
  BY DEF LaunchPackaged, Spawn, SpawnFails, Send, ProcTypes, Addresses
<1>2. JobTypes'
  BY DEF LaunchPackaged, Spawn, SpawnFails, Send, ProcTypes, JobTypes, Addresses, Stages
<1>3. SendTypes'
  BY SendTyped DEF LaunchPackaged, Spawn, SpawnFails, SendTypes, Statuses
<1>4. QuitTypes' /\ BoundaryTypes'
  BY DEF LaunchPackaged, Spawn, SpawnFails, Send, ProcTypes, QuitTypes, BoundaryTypes
<1>5. NotYetBorn' /\ Succession'
  BY DEF LaunchPackaged, Spawn, SpawnFails, Send, ProcTypes, JobTypes, NotYetBorn, Succession
<1>6. CurrentIsLast'
  BY DEF LaunchPackaged, Spawn, SpawnFails, Send, ProcTypes, CurrentIsLast, NotYetBorn, Succession
<1>7. WaitsForCurrent' /\ QuitFlag'
  BY DEF LaunchPackaged, Spawn, SpawnFails, Send, QuitTypes, WaitsForCurrent, QuitFlag
<1>8. QuitLeavesNoBackend'
  BY DEF LaunchPackaged, Spawn, SpawnFails, Send, ProcTypes, QuitTypes, QuitLeavesNoBackend, CurrentIsLast,
         WaitsForCurrent, QuitFlag
<1> QED BY <1>1, <1>2, <1>3, <1>4, <1>5, <1>6, <1>7, <1>8

\* A restart spawns after everything before it has gone.
LEMMA RestartWakesStep ==
  ASSUME BackendInv, NEW n \in Procs, RestartWakes(n), UNCHANGED boundaryVars
  PROVE  BackendInv'
<1> USE MainAssumption DEF BackendInv, StatusTypeOK, MainTypeOK, Procs, NoProc, Alive,
        mainVars, modeVars, procVars, jobVars, sendVars, quitVars, boundaryVars
<1>1. ProcTypes'
  BY DEF RestartWakes, CalledOff, Send, Spawn, ProcTypes, Addresses
<1>2. JobTypes'
  BY DEF RestartWakes, CalledOff, Send, Spawn, ProcTypes, JobTypes, Addresses, Stages
<1>3. SendTypes'
  BY SendTyped DEF RestartWakes, CalledOff, Spawn, SendTypes, Statuses
<1>4. QuitTypes' /\ BoundaryTypes'
  BY DEF RestartWakes, CalledOff, Send, Spawn, ProcTypes, QuitTypes, BoundaryTypes
<1>5. NotYetBorn' /\ Succession'
  BY DEF RestartWakes, CalledOff, Send, Spawn, ProcTypes, JobTypes, NotYetBorn, Succession
<1>6. CurrentIsLast'
  BY DEF RestartWakes, CalledOff, Send, Spawn, ProcTypes, CurrentIsLast, NotYetBorn, Succession
<1>7. WaitsForCurrent' /\ QuitFlag'
  BY DEF RestartWakes, CalledOff, Send, Spawn, QuitTypes, WaitsForCurrent, QuitFlag
<1>8. QuitLeavesNoBackend'
  BY DEF RestartWakes, CalledOff, Send, Spawn, ProcTypes, QuitTypes, QuitLeavesNoBackend, CurrentIsLast,
         WaitsForCurrent, QuitFlag
<1> QED BY <1>1, <1>2, <1>3, <1>4, <1>5, <1>6, <1>7, <1>8

\* Neither outcome of parsing touches a process.
LEMMA ParseStep ==
  ASSUME BackendInv, NEW n \in Procs, Parsed(n) \/ ParseFails(n), UNCHANGED boundaryVars
  PROVE  BackendInv'
<1> USE MainAssumption DEF BackendInv, StatusTypeOK, MainTypeOK, Procs, NoProc, Alive,
        mainVars, modeVars, procVars, jobVars, sendVars, quitVars, boundaryVars
<1>1. ProcTypes'
  BY DEF Parsed, ParseFails, Send, ProcTypes, Addresses
<1>2. JobTypes'
  BY DEF Parsed, ParseFails, Send, ProcTypes, JobTypes, Addresses, Stages
<1>3. SendTypes'
  BY SendTyped DEF Parsed, ParseFails, SendTypes, Statuses
<1>4. QuitTypes' /\ BoundaryTypes'
  BY DEF Parsed, ParseFails, Send, ProcTypes, QuitTypes, BoundaryTypes
<1>5. NotYetBorn' /\ Succession'
  BY DEF Parsed, ParseFails, Send, ProcTypes, JobTypes, NotYetBorn, Succession
<1>6. CurrentIsLast'
  BY DEF Parsed, ParseFails, Send, ProcTypes, CurrentIsLast, NotYetBorn, Succession
<1>7. WaitsForCurrent' /\ QuitFlag'
  BY DEF Parsed, ParseFails, Send, QuitTypes, WaitsForCurrent, QuitFlag
<1>8. QuitLeavesNoBackend'
  BY DEF Parsed, ParseFails, Send, ProcTypes, QuitTypes, QuitLeavesNoBackend, CurrentIsLast,
         WaitsForCurrent, QuitFlag
<1> QED BY <1>1, <1>2, <1>3, <1>4, <1>5, <1>6, <1>7, <1>8

\* Nor does the wait for the backend.
LEMMA WaitStep ==
  ASSUME BackendInv, NEW n \in Procs, HealthAnswers(n) \/ Ready(n) \/ GivesUp(n), UNCHANGED boundaryVars
  PROVE  BackendInv'
<1> USE MainAssumption DEF BackendInv, StatusTypeOK, MainTypeOK, Procs, NoProc, Alive,
        mainVars, modeVars, procVars, jobVars, sendVars, quitVars, boundaryVars
<1>1. ProcTypes'
  BY DEF HealthAnswers, Ready, GivesUp, Send, ProcTypes, Addresses
<1>2. JobTypes'
  BY DEF HealthAnswers, Ready, GivesUp, Send, ProcTypes, JobTypes, Addresses, Stages
<1>3. SendTypes'
  BY SendTyped DEF HealthAnswers, Ready, GivesUp, SendTypes, Statuses
<1>4. QuitTypes' /\ BoundaryTypes'
  BY DEF HealthAnswers, Ready, GivesUp, Send, ProcTypes, QuitTypes, BoundaryTypes
<1>5. NotYetBorn' /\ Succession'
  BY DEF HealthAnswers, Ready, GivesUp, Send, ProcTypes, JobTypes, NotYetBorn, Succession
<1>6. CurrentIsLast'
  BY DEF HealthAnswers, Ready, GivesUp, Send, ProcTypes, CurrentIsLast, NotYetBorn, Succession
<1>7. WaitsForCurrent' /\ QuitFlag'
  BY DEF HealthAnswers, Ready, GivesUp, Send, QuitTypes, WaitsForCurrent, QuitFlag
<1>8. QuitLeavesNoBackend'
  BY DEF HealthAnswers, Ready, GivesUp, Send, ProcTypes, QuitTypes, QuitLeavesNoBackend, CurrentIsLast,
         WaitsForCurrent, QuitFlag
<1> QED BY <1>1, <1>2, <1>3, <1>4, <1>5, <1>6, <1>7, <1>8

LEMMA PrintStep ==
  ASSUME BackendInv, NEW n \in Procs, Announce(n), UNCHANGED boundaryVars
  PROVE  BackendInv'
<1> USE MainAssumption DEF BackendInv, StatusTypeOK, MainTypeOK, Procs, NoProc, Alive,
        mainVars, modeVars, procVars, jobVars, sendVars, quitVars, boundaryVars
<1>1. ProcTypes'
  BY DEF Announce, ProcTypes, Addresses
<1>2. JobTypes'
  BY DEF Announce, ProcTypes, JobTypes, Addresses, Stages
<1>3. SendTypes'
  BY DEF Announce, SendTypes
<1>4. QuitTypes' /\ BoundaryTypes'
  BY DEF Announce, ProcTypes, QuitTypes, BoundaryTypes
<1>5. NotYetBorn' /\ Succession'
  BY DEF Announce, ProcTypes, JobTypes, NotYetBorn, Succession
<1>6. CurrentIsLast'
  BY DEF Announce, ProcTypes, CurrentIsLast, NotYetBorn, Succession
<1>7. WaitsForCurrent' /\ QuitFlag'
  BY DEF Announce, QuitTypes, WaitsForCurrent, QuitFlag
<1>8. QuitLeavesNoBackend'
  BY DEF Announce, ProcTypes, QuitTypes, QuitLeavesNoBackend, CurrentIsLast,
         WaitsForCurrent, QuitFlag
<1> QED BY <1>1, <1>2, <1>3, <1>4, <1>5, <1>6, <1>7, <1>8

\* A process that changes was alive, and is the current one.
LEMMA BecomesStep ==
  ASSUME BackendInv, NEW n \in Procs, Serve(n) \/ Hang(n) \/ Exit(n), UNCHANGED boundaryVars
  PROVE  BackendInv'
<1> USE MainAssumption DEF BackendInv, StatusTypeOK, MainTypeOK, Procs, NoProc, Alive,
        mainVars, modeVars, procVars, jobVars, sendVars, quitVars, boundaryVars
<1>1. ProcTypes'
  BY DEF Serve, Hang, Exit, Becomes, ProcTypes, Addresses
<1>2. JobTypes'
  BY DEF Serve, Hang, Exit, Becomes, ProcTypes, JobTypes, Addresses, Stages
<1>3. SendTypes'
  BY DEF Serve, Hang, Exit, Becomes, SendTypes
<1>4. QuitTypes' /\ BoundaryTypes'
  BY DEF Serve, Hang, Exit, Becomes, ProcTypes, QuitTypes, BoundaryTypes
<1>5. NotYetBorn' /\ Succession'
  BY DEF Serve, Hang, Exit, Becomes, ProcTypes, JobTypes, NotYetBorn, Succession
<1>6. CurrentIsLast'
  BY DEF Serve, Hang, Exit, Becomes, ProcTypes, CurrentIsLast, NotYetBorn, Succession
<1>7. WaitsForCurrent' /\ QuitFlag'
  BY DEF Serve, Hang, Exit, Becomes, QuitTypes, WaitsForCurrent, QuitFlag
<1>8. QuitLeavesNoBackend'
  BY DEF Serve, Hang, Exit, Becomes, ProcTypes, QuitTypes, QuitLeavesNoBackend, CurrentIsLast,
         WaitsForCurrent, QuitFlag
<1> QED BY <1>1, <1>2, <1>3, <1>4, <1>5, <1>6, <1>7, <1>8

\* An exit that was handled makes room for one restart, whose job was never used.
LEMMA ExitedStep ==
  ASSUME BackendInv, NEW n \in Procs, Exited(n), UNCHANGED boundaryVars
  PROVE  BackendInv'
<1> USE MainAssumption DEF BackendInv, StatusTypeOK, MainTypeOK, Procs, NoProc, Alive,
        mainVars, modeVars, procVars, jobVars, sendVars, quitVars, boundaryVars
<1>1. ProcTypes'
  BY DEF Exited, RestartIsDue, Send, ProcTypes, Addresses
<1>2. JobTypes'
  BY DEF Exited, RestartIsDue, Send, ProcTypes, JobTypes, Addresses, Stages
<1>3. SendTypes'
  BY SendTyped DEF Exited, RestartIsDue, SendTypes, Statuses
<1>4. QuitTypes' /\ BoundaryTypes'
  BY DEF Exited, RestartIsDue, Send, ProcTypes, QuitTypes, BoundaryTypes
<1>5. NotYetBorn' /\ Succession'
  BY DEF Exited, RestartIsDue, Send, ProcTypes, JobTypes, NotYetBorn, Succession
<1>6. CurrentIsLast'
  BY DEF Exited, RestartIsDue, Send, ProcTypes, CurrentIsLast, NotYetBorn, Succession
<1>7. WaitsForCurrent' /\ QuitFlag'
  BY DEF Exited, RestartIsDue, Send, QuitTypes, WaitsForCurrent, QuitFlag
<1>8. QuitLeavesNoBackend'
  BY DEF Exited, RestartIsDue, Send, ProcTypes, QuitTypes, QuitLeavesNoBackend, CurrentIsLast,
         WaitsForCurrent, QuitFlag
<1> QED BY <1>1, <1>2, <1>3, <1>4, <1>5, <1>6, <1>7, <1>8

\* A shutdown begins by waiting for the current process; a second request is hurried.
LEMMA QuitStep ==
  ASSUME BackendInv, Quit \/ Confirm, UNCHANGED boundaryVars
  PROVE  BackendInv'
<1> USE MainAssumption DEF BackendInv, StatusTypeOK, MainTypeOK, Procs, NoProc, Alive,
        mainVars, modeVars, procVars, jobVars, sendVars, quitVars, boundaryVars
<1>1. ProcTypes'
  BY DEF Quit, Confirm, BeginShutdown, Send, ProcTypes, Addresses
<1>2. JobTypes'
  BY DEF Quit, Confirm, BeginShutdown, Send, ProcTypes, JobTypes, Addresses, Stages
<1>3. SendTypes'
  BY SendTyped DEF Quit, Confirm, BeginShutdown, SendTypes, Statuses
<1>4. QuitTypes' /\ BoundaryTypes'
  BY DEF Quit, Confirm, BeginShutdown, Send, ProcTypes, QuitTypes, BoundaryTypes
<1>5. NotYetBorn' /\ Succession'
  BY DEF Quit, Confirm, BeginShutdown, Send, ProcTypes, JobTypes, NotYetBorn, Succession
<1>6. CurrentIsLast'
  BY DEF Quit, Confirm, BeginShutdown, Send, ProcTypes, CurrentIsLast, NotYetBorn, Succession
<1>7. WaitsForCurrent' /\ QuitFlag'
  BY DEF Quit, Confirm, BeginShutdown, Send, QuitTypes, WaitsForCurrent, QuitFlag
<1>8. QuitLeavesNoBackend'
  BY DEF Quit, Confirm, BeginShutdown, Send, ProcTypes, QuitTypes, QuitLeavesNoBackend, CurrentIsLast,
         WaitsForCurrent, QuitFlag
<1> QED BY <1>1, <1>2, <1>3, <1>4, <1>5, <1>6, <1>7, <1>8

LEMMA DialogStep ==
  ASSUME BackendInv, CloseWindow \/ Cancel, UNCHANGED boundaryVars
  PROVE  BackendInv'
<1> USE MainAssumption DEF BackendInv, StatusTypeOK, MainTypeOK, Procs, NoProc, Alive,
        mainVars, modeVars, procVars, jobVars, sendVars, quitVars, boundaryVars
<1>1. ProcTypes'
  BY DEF CloseWindow, Cancel, ProcTypes, Addresses
<1>2. JobTypes'
  BY DEF CloseWindow, Cancel, ProcTypes, JobTypes, Addresses, Stages
<1>3. SendTypes'
  BY DEF CloseWindow, Cancel, SendTypes
<1>4. QuitTypes' /\ BoundaryTypes'
  BY DEF CloseWindow, Cancel, ProcTypes, QuitTypes, BoundaryTypes
<1>5. NotYetBorn' /\ Succession'
  BY DEF CloseWindow, Cancel, ProcTypes, JobTypes, NotYetBorn, Succession
<1>6. CurrentIsLast'
  BY DEF CloseWindow, Cancel, ProcTypes, CurrentIsLast, NotYetBorn, Succession
<1>7. WaitsForCurrent' /\ QuitFlag'
  BY DEF CloseWindow, Cancel, QuitTypes, WaitsForCurrent, QuitFlag
<1>8. QuitLeavesNoBackend'
  BY DEF CloseWindow, Cancel, ProcTypes, QuitTypes, QuitLeavesNoBackend, CurrentIsLast,
         WaitsForCurrent, QuitFlag
<1> QED BY <1>1, <1>2, <1>3, <1>4, <1>5, <1>6, <1>7, <1>8

\* The awaited process is gone, and it was the current one.
LEMMA ShutdownEndsStep ==
  ASSUME BackendInv, ShutdownEnds, UNCHANGED boundaryVars
  PROVE  BackendInv'
<1> USE MainAssumption DEF BackendInv, StatusTypeOK, MainTypeOK, Procs, NoProc, Alive,
        mainVars, modeVars, procVars, jobVars, sendVars, quitVars, boundaryVars
<1>1. ProcTypes'
  BY DEF ShutdownEnds, Reaped, ProcTypes, Addresses
<1>2. JobTypes'
  BY DEF ShutdownEnds, Reaped, ProcTypes, JobTypes, Addresses, Stages
<1>3. SendTypes'
  BY DEF ShutdownEnds, Reaped, SendTypes
<1>4. QuitTypes' /\ BoundaryTypes'
  BY DEF ShutdownEnds, Reaped, ProcTypes, QuitTypes, BoundaryTypes
<1>5. NotYetBorn' /\ Succession'
  BY DEF ShutdownEnds, Reaped, ProcTypes, JobTypes, NotYetBorn, Succession
<1>6. CurrentIsLast'
  BY DEF ShutdownEnds, Reaped, ProcTypes, CurrentIsLast, NotYetBorn, Succession
<1>7. WaitsForCurrent' /\ QuitFlag'
  BY DEF ShutdownEnds, Reaped, QuitTypes, WaitsForCurrent, QuitFlag
<1>8. QuitLeavesNoBackend'
  BY DEF ShutdownEnds, Reaped, ProcTypes, QuitTypes, QuitLeavesNoBackend, CurrentIsLast,
         WaitsForCurrent, QuitFlag
<1> QED BY <1>1, <1>2, <1>3, <1>4, <1>5, <1>6, <1>7, <1>8

\* The current process is killed.
LEMMA ShutdownForcesStep ==
  ASSUME BackendInv, ShutdownForces, UNCHANGED boundaryVars
  PROVE  BackendInv'
<1> USE MainAssumption DEF BackendInv, StatusTypeOK, MainTypeOK, Procs, NoProc, Alive,
        mainVars, modeVars, procVars, jobVars, sendVars, quitVars, boundaryVars
<1>1. ProcTypes'
  BY DEF ShutdownForces, GraceIsOver, ProcTypes, Addresses
<1>2. JobTypes'
  BY DEF ShutdownForces, GraceIsOver, ProcTypes, JobTypes, Addresses, Stages
<1>3. SendTypes'
  BY DEF ShutdownForces, GraceIsOver, SendTypes
<1>4. QuitTypes' /\ BoundaryTypes'
  BY DEF ShutdownForces, GraceIsOver, ProcTypes, QuitTypes, BoundaryTypes
<1>5. NotYetBorn' /\ Succession'
  BY DEF ShutdownForces, GraceIsOver, ProcTypes, JobTypes, NotYetBorn, Succession
<1>6. CurrentIsLast'
  BY DEF ShutdownForces, GraceIsOver, ProcTypes, CurrentIsLast, NotYetBorn, Succession
<1>7. WaitsForCurrent' /\ QuitFlag'
  BY DEF ShutdownForces, GraceIsOver, QuitTypes, WaitsForCurrent, QuitFlag
<1>8. QuitLeavesNoBackend'
  BY DEF ShutdownForces, GraceIsOver, ProcTypes, QuitTypes, QuitLeavesNoBackend, CurrentIsLast,
         WaitsForCurrent, QuitFlag
<1> QED BY <1>1, <1>2, <1>3, <1>4, <1>5, <1>6, <1>7, <1>8

-----------------------------------------------------------------------------
(* The actions of the window *)

\* The window never touches what the invariant says of the processes.
LEMMA MainPartStays ==
  ASSUME BackendInv, UNCHANGED <<custom, procVars, jobVars, quitVars, late>>,
         SendTypes', BoundaryTypes', command' \in BOOLEAN
  PROVE  BackendInv'
<1> USE DEF BackendInv, StatusTypeOK, MainTypeOK, procVars, jobVars, quitVars
<1>1. ProcTypes' /\ JobTypes' /\ QuitTypes'
  BY DEF ProcTypes, JobTypes, QuitTypes
<1>2. NotYetBorn' /\ Succession' /\ CurrentIsLast'
  BY DEF NotYetBorn, Succession, CurrentIsLast
<1>3. WaitsForCurrent' /\ QuitFlag' /\ QuitLeavesNoBackend'
  BY DEF WaitsForCurrent, QuitFlag, QuitLeavesNoBackend
<1> QED BY <1>1, <1>2, <1>3

LEMMA ReceiveStep ==
  ASSUME BackendInv, Mount \/ ReceiveStatus
  PROVE  BackendInv'
<1> USE DEF BackendInv, StatusTypeOK, MainTypeOK
<1>1. CASE Mount
  <2>1. SendTypes' /\ BoundaryTypes' /\ command' \in BOOLEAN
    BY <1>1 DEF Mount, SendTypes, ProcTypes, BoundaryTypes, modeVars
  <2> QED BY <1>1, <2>1, MainPartStays DEF Mount, modeVars
<1>2. CASE ReceiveStatus
  <2>1. Head(ipc) \in Statuses /\ Tail(ipc) \in Seq(Statuses)
    BY <1>2 DEF ReceiveStatus, SendTypes
  <2>2. SendTypes' /\ command' \in BOOLEAN
    BY <1>2, <2>1 DEF ReceiveStatus, SendTypes, ProcTypes, modeVars
  <2>3. BoundaryTypes'
    BY <1>2, <2>1, ShowTyped DEF ReceiveStatus, BoundaryTypes, Shown
  <2> QED BY <1>2, <2>2, <2>3, MainPartStays DEF ReceiveStatus, modeVars
<1> QED BY <1>1, <1>2

LEMMA CheckStep ==
  ASSUME BackendInv,
         CheckAnswered \/ CheckSucceeds \/ CheckFails \/ Tick \/ Visibility
  PROVE  BackendInv'
<1> USE DEF BackendInv, StatusTypeOK, MainTypeOK
<1>1. UNCHANGED mainVars
  BY DEF CheckAnswered, CheckSucceeds, CheckFails, Tick, Visibility
<1>2. BoundaryTypes'
  <2>1. CASE CheckAnswered \/ Tick \/ Visibility
    BY <2>1 DEF CheckAnswered, Tick, Visibility, BoundaryTypes
  <2>2. CASE CheckSucceeds
    <3>1. PICK s \in Fine : Show(s, TRUE, "none")
      BY <2>2 DEF CheckSucceeds
    <3>2. s \in Shown
      BY DEF Fine, Shown, Statuses
    <3>3. /\ shown' \in Shown /\ started' \in BOOLEAN
          /\ check' \in {"none", "sent", "answered"}
      BY <3>1, <3>2, ShowTyped DEF BoundaryTypes
    <3> QED BY <2>2, <3>3, FailuresAssumption DEF CheckSucceeds, BoundaryTypes
  <2>3. CASE CheckFails
    <3>1. failures' \in 0 .. MaxFailures
      BY <2>3, FailuresAssumption DEF CheckFails, BoundaryTypes
    <3>2. shown' \in Shown /\ started' \in BOOLEAN
          /\ check' \in {"none", "sent", "answered"} /\ hidden' \in BOOLEAN
      BY <2>3, ShowTyped DEF CheckFails, BoundaryTypes, Shown
    <3> QED BY <3>1, <3>2 DEF BoundaryTypes
  <2> QED BY <2>1, <2>2, <2>3
<1>3. SendTypes' /\ command' \in BOOLEAN
  BY <1>1 DEF mainVars, modeVars, sendVars, SendTypes, ProcTypes
<1> QED BY <1>1, <1>2, <1>3, MainPartStays DEF mainVars, modeVars

LEMMA ClearStep ==
  ASSUME BackendInv, ClearCommand
  PROVE  BackendInv'
<1>1. SendTypes' /\ BoundaryTypes' /\ command' \in BOOLEAN
  BY DEF ClearCommand, BackendInv, StatusTypeOK, MainTypeOK, SendTypes, BoundaryTypes,
         boundaryVars, sendVars
<1> QED BY <1>1, MainPartStays DEF ClearCommand

-----------------------------------------------------------------------------
(* The theorems *)

LEMMA InitInv ==
  ASSUME StatusInit
  PROVE  BackendInv
<1> USE MainAssumption, FailuresAssumption
    DEF StatusInit, MainInit, BackendInv, StatusTypeOK, MainTypeOK, Procs, NoProc, Alive
<1>1. ProcTypes /\ JobTypes
  BY DEF ProcTypes, JobTypes, Stages, Addresses
<1>2. SendTypes
  <2>1. ipc = <<>> /\ status = "loading" /\ listening = FALSE
    OBVIOUS
  <2>2. <<>> \in Seq(Statuses)
    OBVIOUS
  <2> QED BY <2>1, <2>2 DEF SendTypes, Statuses
<1>3. QuitTypes /\ BoundaryTypes
  <2>1. QuitTypes
    BY DEF QuitTypes
  <2>2. 0 \in 0 .. MaxFailures /\ "loading" \in Shown
    BY DEF Statuses, Shown
  <2> QED BY <2>1, <2>2 DEF BoundaryTypes
<1>4. NotYetBorn /\ Succession /\ CurrentIsLast
  BY DEF NotYetBorn, Succession, CurrentIsLast
<1>5. WaitsForCurrent /\ QuitFlag /\ QuitLeavesNoBackend
  BY DEF WaitsForCurrent, QuitFlag, QuitLeavesNoBackend
<1> QED BY <1>1, <1>2, <1>3, <1>4, <1>5

LEMMA NextInv ==
  ASSUME BackendInv, [StatusNext]_statusVars
  PROVE  BackendInv'
<1>1. CASE MainNext /\ UNCHANGED boundaryVars
  BY <1>1, StartCustomStep, StartPackagedStep, LaunchPackagedStep,
     RestartWakesStep, ParseStep, WaitStep, PrintStep, BecomesStep, ExitedStep,
     QuitStep, DialogStep, ShutdownEndsStep, ShutdownForcesStep
  DEF MainNext
<1>2. CASE Mount \/ ReceiveStatus
  BY <1>2, ReceiveStep
<1>3. CASE CheckAnswered \/ CheckSucceeds \/ CheckFails \/ Tick \/ Visibility
  BY <1>3, CheckStep
<1>4. CASE ClearCommand
  BY <1>4, ClearStep
<1>5. CASE UNCHANGED statusVars
  <2>1. SendTypes' /\ BoundaryTypes' /\ command' \in BOOLEAN
    BY <1>5 DEF statusVars, mainVars, modeVars, sendVars, boundaryVars, BackendInv,
                StatusTypeOK, MainTypeOK, ProcTypes, SendTypes, BoundaryTypes
  <2> QED BY <1>5, <2>1, MainPartStays DEF statusVars, mainVars, modeVars
<1> QED BY <1>1, <1>2, <1>3, <1>4, <1>5 DEF StatusNext

LEMMA AlwaysInv == StatusSpec => []BackendInv
<1>1. StatusInit => BackendInv
  BY InitInv
<1>2. BackendInv /\ [StatusNext]_statusVars => BackendInv'
  BY NextInv
<1> QED BY <1>1, <1>2, PTL DEF StatusSpec

\* The variables of the main process and of the window keep their types; among
\* them the count of restarts, which never passes its cap.
THEOREM BackendTypeCorrect == StatusSpec => []StatusTypeOK
<1>1. BackendInv => StatusTypeOK
  BY DEF BackendInv
<1> QED BY <1>1, AlwaysInv, PTL

\* However exits, restarts, time-outs and readiness interleave, no two backends
\* run at once.
THEOREM OneBackendAtATime == StatusSpec => []OneBackendRuns
<1>1. BackendInv => OneBackendRuns
  <2> SUFFICES ASSUME BackendInv, NEW p \in Procs, NEW q \in Procs,
                      proc[p] \in Alive, proc[q] \in Alive
               PROVE  p = q
    BY DEF OneBackendRuns
  <2> QED BY DEF BackendInv, CurrentIsLast
<1> QED BY <1>1, AlwaysInv, PTL

\* The application ends after its backend, but for the two cases that the
\* property names.
THEOREM QuitIsClean == StatusSpec => []QuitLeavesNoBackend
<1>1. BackendInv => QuitLeavesNoBackend
  BY DEF BackendInv
<1> QED BY <1>1, AlwaysInv, PTL
-----------------------------------------------------------------------------
(* The refinement of BackendLifetime *)

\* Only a custom command can be run again.
CommandIsCustom == command => custom

\* The window can forget the command; nothing sets one.
LEMMA CommandStep ==
  ASSUME CommandIsCustom, [StatusNext]_statusVars
  PROVE  CommandIsCustom'
<1>1. CASE UNCHANGED modeVars
  BY <1>1 DEF CommandIsCustom, modeVars
<1>2. CASE MainNext
  <2>1. CASE StartCustom \/ StartPackaged \/ LaunchPackaged
    BY <1>1, <2>1 DEF StartCustom, StartPackaged, LaunchPackaged
  <2>2. CASE Quit \/ CloseWindow \/ Cancel \/ Confirm \/ ShutdownEnds \/ ShutdownForces
    BY <1>1, <2>2 DEF Quit, CloseWindow, Cancel, Confirm, ShutdownEnds, ShutdownForces
  <2>3. ASSUME NEW n \in Procs,
               \/ RestartWakes(n) \/ Parsed(n) \/ ParseFails(n)
               \/ HealthAnswers(n) \/ Ready(n) \/ GivesUp(n)
        PROVE  CommandIsCustom'
    BY <1>1, <2>3 DEF RestartWakes, Parsed, ParseFails, HealthAnswers, Ready, GivesUp
  <2>4. ASSUME NEW n \in Procs,
               Announce(n) \/ Serve(n) \/ Hang(n) \/ Exit(n) \/ Exited(n)
        PROVE  CommandIsCustom'
    BY <1>1, <2>4 DEF Announce, Serve, Hang, Exit, Exited, Becomes
  <2> QED BY <1>2, <2>1, <2>2, <2>3, <2>4 DEF MainNext
<1>3. CASE Mount \/ ReceiveStatus
  BY <1>1, <1>3 DEF Mount, ReceiveStatus
<1>4. CASE CheckAnswered \/ CheckSucceeds \/ CheckFails \/ Tick \/ Visibility
  BY <1>1, <1>4 DEF CheckAnswered, CheckSucceeds, CheckFails, Tick, Visibility, mainVars
<1>5. CASE ClearCommand
  BY <1>5 DEF ClearCommand, CommandIsCustom
<1>6. CASE UNCHANGED statusVars
  BY <1>1, <1>6 DEF statusVars, mainVars
<1> QED BY <1>2, <1>3, <1>4, <1>5, <1>6 DEF StatusNext

LEMMA CommandInvariant == StatusSpec => []CommandIsCustom
<1>1. StatusInit => CommandIsCustom
  BY DEF StatusInit, MainInit, CommandIsCustom
<1>2. CommandIsCustom /\ [StatusNext]_statusVars => CommandIsCustom'
  BY CommandStep
<1> QED BY <1>1, <1>2, PTL DEF StatusSpec

\* What the abstract specification sees of the main process.
lifeVars == <<custom, proc, app, hurried, late>>

\* A step that leaves these alone is a stutter.
LEMMA LifeStays ==
  ASSUME UNCHANGED lifeVars
  PROVE  UNCHANGED Lifetime!vars
BY DEF lifeVars, Lifetime!vars

\* So is one in which a process that lives goes on living.
LEMMA LivingStays ==
  ASSUME ProcTypes, UNCHANGED <<custom, app, hurried, late>>,
         NEW p \in Procs, NEW s \in Alive,
         proc[p] \in Alive, proc' = [proc EXCEPT ![p] = s]
  PROVE  UNCHANGED Lifetime!vars
<1>1. \A q \in Procs : /\ proc'[q] \in Alive <=> proc[q] \in Alive
                       /\ proc'[q] = "unborn" <=> proc[q] = "unborn"
                       /\ proc'[q] = "gone" <=> proc[q] = "gone"
  BY DEF ProcTypes, Alive
<1> QED BY <1>1 DEF Lifetime!vars

\* A process is spawned where every other one is unborn or gone.
LEMMA SpawnStarts ==
  ASSUME ProcTypes, QuitFlag, app # "ended", UNCHANGED <<custom, app, hurried>>,
         NEW n \in Procs, proc[n] = "unborn",
         NEW s \in {"starting", "gone"}, proc' = [proc EXCEPT ![n] = s],
         \A p \in Procs : proc[p] \in {"unborn", "gone"},
         (\E p \in Procs : proc[p] = "gone") => custom /\ ~quitting,
         late' = (late \/ quitting), QuitTypes
  PROVE  Lifetime!Start(n)
<1> DEFINE S == {p \in Procs : proc[p] # "unborn"}
           R == {p \in Procs : proc[p] \in Alive}
           H == {p \in Procs : proc[p] = "gone"}
<1>1. n \notin S /\ S = H
  OBVIOUS
<1>2. S # {} => custom /\ app = "up"
  BY DEF QuitFlag
<1>3. S' = S \cup {n}
  BY DEF ProcTypes
<1>4. CASE s = "starting"
  <2>1. R' = R \cup {n} /\ H' = H
    BY <1>4 DEF ProcTypes, Alive
  <2> HIDE DEF S, R, H
  <2>2. (hurried' \/ late') = ((hurried \/ late) \/ app = "cleaning")
    BY DEF QuitFlag, QuitTypes
  <2> QED BY <1>1, <1>2, <1>3, <2>1, <2>2 DEF Lifetime!Start, S, R, H
<1>5. CASE s = "gone"
  <2>1. H' = H \cup {n} /\ R' = R
    BY <1>5 DEF ProcTypes, Alive
  <2> HIDE DEF S, R, H
  <2>2. (hurried' \/ late') = ((hurried \/ late) \/ app = "cleaning")
    BY DEF QuitFlag, QuitTypes
  <2> QED BY <1>1, <1>2, <1>3, <2>1, <2>2 DEF Lifetime!Start, S, R, H
<1> QED BY <1>4, <1>5

\* The first start, when nothing was spawned before.
LEMMA FirstStart ==
  ASSUME BackendInv, StartCustom \/ LaunchPackaged
  PROVE  Lifetime!Start(1)
<1>1. 1 \in Procs
  BY MainAssumption DEF Procs
<1>2. /\ job[1] \in {"idle", "launching"} /\ app # "ended"
      /\ UNCHANGED <<custom, app, hurried>> /\ late' = (late \/ quitting)
  BY DEF StartCustom, LaunchPackaged, Spawn, SpawnFails, modeVars, quitVars
<1>3. \E s \in {"starting", "gone"} : proc' = [proc EXCEPT ![1] = s]
  BY DEF StartCustom, LaunchPackaged, Spawn, SpawnFails
<1>4. proc[1] = "unborn"
  BY <1>1, <1>2 DEF BackendInv, NotYetBorn
<1>5. \A p \in Procs : proc[p] = "unborn"
  <2> SUFFICES ASSUME NEW p \in Procs, p # 1 PROVE proc[p] = "unborn"
    BY <1>4
  <2>1. 1 < p
    BY MainAssumption DEF Procs
  <2> QED BY <1>1, <1>4, <2>1 DEF BackendInv, Succession
<1> QED
  BY <1>1, <1>2, <1>3, <1>4, <1>5, SpawnStarts
  DEF BackendInv, StatusTypeOK, MainTypeOK

\* A restart, when everything before it has gone and nothing was spawned since.
LEMMA RestartStarts ==
  ASSUME BackendInv, CommandIsCustom, NEW n \in Procs, RestartWakes(n),
         ~UNCHANGED lifeVars
  PROVE  Lifetime!Start(n)
<1>1. /\ ~quitting /\ command /\ Spawn(n, NoUrl)
      /\ job[n] = "sleeping" /\ app # "ended"
      /\ UNCHANGED <<custom, app, hurried>>
  BY DEF RestartWakes, CalledOff, lifeVars, modeVars, procVars, quitVars
<1>2. proc[n] = "unborn"
  BY <1>1 DEF BackendInv, NotYetBorn
<1>3. ASSUME NEW p \in Procs PROVE proc[p] \in {"unborn", "gone"}
  <2>1. CASE p < n
    BY <1>1, <2>1 DEF BackendInv, Succession
  <2>2. CASE n < p
    BY <1>2, <2>2 DEF BackendInv, Succession
  <2>3. p < n \/ n < p \/ p = n
    BY DEF Procs
  <2> QED BY <1>2, <2>1, <2>2, <2>3
<1>4. proc' = [proc EXCEPT ![n] = "starting"] /\ late' = (late \/ quitting)
  BY <1>1 DEF Spawn
<1> QED
  BY <1>1, <1>2, <1>3, <1>4, SpawnStarts
  DEF BackendInv, StatusTypeOK, MainTypeOK, CommandIsCustom

\* A process exits, also after the application has ended.
LEMMA ExitExits ==
  ASSUME ProcTypes, NEW p \in Procs, Exit(p)
  PROVE  Lifetime!Exit(p)
<1>1. /\ proc[p] \in Alive /\ proc' = [proc EXCEPT ![p] = "dead"]
      /\ UNCHANGED <<custom, app, hurried, late>>
  BY DEF Exit, Becomes, modeVars, quitVars
<1>2. {q \in Procs : proc'[q] \in Alive} = {q \in Procs : proc[q] \in Alive} \ {p}
  BY <1>1 DEF ProcTypes, Alive
<1>3. {q \in Procs : proc'[q] # "unborn"} = {q \in Procs : proc[q] # "unborn"}
  BY <1>1 DEF ProcTypes, Alive
<1>4. {q \in Procs : proc'[q] = "gone"} = {q \in Procs : proc[q] = "gone"}
  BY <1>1 DEF ProcTypes, Alive
<1> QED BY <1>1, <1>2, <1>3, <1>4 DEF Lifetime!Exit

\* The exit event is what handles it.
LEMMA ExitedHandles ==
  ASSUME ProcTypes, NEW p \in Procs, Exited(p)
  PROVE  Lifetime!Handle(p)
<1>1. /\ app # "ended" /\ proc[p] = "dead" /\ proc' = [proc EXCEPT ![p] = "gone"]
      /\ UNCHANGED <<custom, app, hurried, late>>
  BY DEF Exited, modeVars, quitVars
<1>2. {q \in Procs : proc'[q] \in Alive} = {q \in Procs : proc[q] \in Alive}
  BY <1>1 DEF ProcTypes, Alive
<1>3. {q \in Procs : proc'[q] # "unborn"} = {q \in Procs : proc[q] # "unborn"}
  BY <1>1 DEF ProcTypes, Alive
<1>4. {q \in Procs : proc'[q] = "gone"} = {q \in Procs : proc[q] = "gone"} \cup {p}
  BY <1>1 DEF ProcTypes, Alive
<1> QED BY <1>1, <1>2, <1>3, <1>4 DEF Lifetime!Handle, Alive

\* The two ways to ask for the end: the first is held back, the second is not.
LEMMA QuitQuits ==
  ASSUME BackendInv, Quit \/ Confirm
  PROVE  [Lifetime!Next]_(Lifetime!vars)
<1>1. UNCHANGED <<custom, proc, late>> /\ app # "ended"
  BY DEF Quit, Confirm, modeVars
<1>2. app \in {"up", "cleaning", "ended"} /\ (quitting <=> app # "up")
  BY DEF BackendInv, StatusTypeOK, MainTypeOK, QuitTypes, QuitFlag
<1>3. CASE ~quitting
  <2>1. app = "up" /\ app' = "cleaning" /\ hurried' = hurried
    BY <1>2, <1>3 DEF Quit, Confirm, BeginShutdown
  <2> QED BY <1>1, <2>1 DEF Lifetime!Next, Lifetime!Quit
<1>4. CASE quitting /\ app' = "ended" /\ hurried' = TRUE
  <2>1. app = "cleaning"
    BY <1>1, <1>2, <1>4
  <2> QED BY <1>1, <1>4, <2>1 DEF Lifetime!Next, Lifetime!Insist
<1>5. CASE UNCHANGED <<app, hurried>>
  BY <1>1, <1>5, LifeStays DEF lifeVars
<1> QED BY <1>3, <1>4, <1>5 DEF Quit, Confirm

\* The application ends after its backend, or kills the one that may be left.
LEMMA ShutdownIsAnEnd ==
  ASSUME BackendInv, BackendInv', ShutdownEnds \/ ShutdownForces
  PROVE  Lifetime!End
<1> DEFINE R == {p \in Procs : proc[p] \in Alive}
<1>1. app = "cleaning" /\ app' = "ended" /\ UNCHANGED <<custom, hurried, late>>
  BY DEF ShutdownEnds, ShutdownForces, GraceIsOver, modeVars
<1>2. R' = {} \/ hurried \/ late
  BY <1>1 DEF BackendInv, QuitLeavesNoBackend
<1>3. ProcTypes
  BY DEF BackendInv, StatusTypeOK, MainTypeOK
<1>4. /\ {p \in Procs : proc'[p] # "unborn"} = {p \in Procs : proc[p] # "unborn"}
      /\ {p \in Procs : proc'[p] = "gone"} = {p \in Procs : proc[p] = "gone"}
  <2>1. CASE proc' = proc
    BY <2>1
  <2>2. CASE proc' = [proc EXCEPT ![current] = IF @ \in Alive THEN "dead" ELSE @]
    BY <1>3, <2>2 DEF ProcTypes, Alive
  <2> QED BY <2>1, <2>2 DEF ShutdownEnds, ShutdownForces, procVars
<1>5. R' \in {R, {}}
  <2>1. CASE ShutdownEnds
    BY <2>1 DEF ShutdownEnds, procVars
  <2>2. CASE ShutdownForces
    <3>1. \A p \in Procs : proc[p] \in Alive => p = current
      BY DEF BackendInv, CurrentIsLast
    <3>2. \A p \in Procs : proc'[p] \notin Alive
      BY <1>3, <2>2, <3>1 DEF ShutdownForces, ProcTypes, Alive
    <3> QED BY <3>2
  <2> QED BY <2>1, <2>2
<1> QED BY <1>1, <1>2, <1>4, <1>5 DEF Lifetime!End

\* What the main process does otherwise starts and ends nothing.
LEMMA RestStutters ==
  ASSUME \/ StartPackaged \/ CloseWindow \/ Cancel
         \/ \E n \in Procs : \/ Parsed(n) \/ ParseFails(n) \/ HealthAnswers(n)
                             \/ Ready(n) \/ GivesUp(n) \/ Announce(n)
  PROVE  UNCHANGED lifeVars
<1>1. CASE StartPackaged \/ CloseWindow \/ Cancel
  BY <1>1 DEF StartPackaged, CloseWindow, Cancel, lifeVars, modeVars, procVars, quitVars
<1>2. ASSUME NEW n \in Procs, Parsed(n) \/ ParseFails(n) \/ HealthAnswers(n)
      PROVE  UNCHANGED lifeVars
  BY <1>2 DEF Parsed, ParseFails, HealthAnswers, lifeVars, modeVars, procVars, quitVars
<1>3. ASSUME NEW n \in Procs, Ready(n) \/ GivesUp(n) \/ Announce(n)
      PROVE  UNCHANGED lifeVars
  BY <1>3 DEF Ready, GivesUp, Announce, lifeVars, modeVars, procVars, quitVars
<1> QED BY <1>1, <1>2, <1>3

\* Nor does the window.
LEMMA WindowStutters ==
  ASSUME \/ Mount \/ ReceiveStatus \/ CheckAnswered \/ CheckSucceeds \/ CheckFails
         \/ Tick \/ Visibility \/ ClearCommand \/ UNCHANGED statusVars
  PROVE  UNCHANGED lifeVars
<1> USE DEF lifeVars, modeVars, procVars, quitVars
<1>1. CASE Mount \/ ReceiveStatus \/ ClearCommand
  BY <1>1 DEF Mount, ReceiveStatus, ClearCommand
<1>2. CASE CheckAnswered \/ CheckSucceeds \/ CheckFails \/ Tick \/ Visibility
  BY <1>2 DEF CheckAnswered, CheckSucceeds, CheckFails, Tick, Visibility, mainVars
<1>3. CASE UNCHANGED statusVars
  BY <1>3 DEF statusVars, mainVars
<1> QED BY <1>1, <1>2, <1>3

\* Every step of the main process and its window is a step of BackendLifetime or
\* changes nothing there.
LEMMA LifetimeStep ==
  ASSUME BackendInv, BackendInv', CommandIsCustom, [StatusNext]_statusVars
  PROVE  [Lifetime!Next]_(Lifetime!vars)
<1>1. ProcTypes
  BY DEF BackendInv, StatusTypeOK, MainTypeOK
<1>2. CASE MainNext
  <2>1. CASE StartCustom \/ LaunchPackaged
    <3>1. 1 \in Procs
      BY MainAssumption DEF Procs
    <3> QED BY <2>1, <3>1, FirstStart DEF Lifetime!Next
  <2>2. ASSUME NEW n \in Procs, RestartWakes(n)
        PROVE  [Lifetime!Next]_(Lifetime!vars)
    BY <2>2, RestartStarts, LifeStays DEF Lifetime!Next
  <2>3. ASSUME NEW n \in Procs, Serve(n) \/ Hang(n)
        PROVE  [Lifetime!Next]_(Lifetime!vars)
    <3>1. /\ proc[n] \in Alive /\ UNCHANGED <<custom, app, hurried, late>>
          /\ \E s \in Alive : proc' = [proc EXCEPT ![n] = s]
      BY <2>3 DEF Serve, Hang, Becomes, Alive, modeVars, quitVars
    <3> QED BY <1>1, <3>1, LivingStays
  <2>4. ASSUME NEW n \in Procs, Exit(n) \/ Exited(n)
        PROVE  [Lifetime!Next]_(Lifetime!vars)
    BY <1>1, <2>4, ExitExits, ExitedHandles DEF Lifetime!Next
  <2>5. CASE Quit \/ Confirm
    BY <2>5, QuitQuits
  <2>6. CASE ShutdownEnds \/ ShutdownForces
    BY <2>6, ShutdownIsAnEnd DEF Lifetime!Next
  <2>7. CASE \/ StartPackaged \/ CloseWindow \/ Cancel
             \/ \E n \in Procs : \/ Parsed(n) \/ ParseFails(n) \/ HealthAnswers(n)
                                 \/ Ready(n) \/ GivesUp(n) \/ Announce(n)
    BY <2>7, RestStutters, LifeStays
  <2> QED BY <1>2, <2>1, <2>2, <2>3, <2>4, <2>5, <2>6, <2>7 DEF MainNext
<1>3. CASE \/ Mount \/ ReceiveStatus \/ CheckAnswered \/ CheckSucceeds \/ CheckFails
           \/ Tick \/ Visibility \/ ClearCommand \/ UNCHANGED statusVars
  BY <1>3, WindowStutters, LifeStays
<1> QED BY <1>2, <1>3 DEF StatusNext

\* The application starts with no backend, as BackendLifetime does.
LEMMA LifetimeInit ==
  ASSUME StatusInit
  PROVE  Lifetime!Init
<1>1. \A p \in Procs : proc[p] = "unborn"
  BY DEF StatusInit, MainInit
<1> QED BY <1>1 DEF StatusInit, MainInit, Alive, Lifetime!Init

\* The main process implements BackendLifetime: one backend at a time, restarted
\* only after the exit of the last is handled and by an application that does not
\* quit, and outlived by the application unless there is an excuse.
THEOREM LifetimeRefinement == StatusSpec => ImplementsLifetime
<1>1. /\ BackendInv /\ BackendInv' /\ CommandIsCustom /\ [StatusNext]_statusVars
      => [Lifetime!Next]_(Lifetime!vars)
  BY LifetimeStep
<1>2. StatusInit => Lifetime!Init
  BY LifetimeInit
<1> QED
  BY <1>1, <1>2, AlwaysInv, CommandInvariant, PTL
  DEF StatusSpec, ImplementsLifetime, Lifetime!Spec

\* A process that is born finds the application alive, and is the first one if
\* it finds it quitting.
BornInTime ==
  \A p \in Procs :
    proc[p] = "unborn" /\ proc'[p] # "unborn"
      => app # "ended" /\ (quitting => \A q \in Procs : proc[q] = "unborn")

\* What the promise says of the code: once an application has been asked to quit
\* it starts no backend but a first one that was under way, and none when it has
\* ended (restartCustomCommand, before-quit).
THEOREM QuitStartsNothing == StatusSpec => [][BornInTime]_statusVars
<1>1. ASSUME BackendInv, [Lifetime!Next]_(Lifetime!vars), NEW p \in Procs,
             proc[p] = "unborn", proc'[p] # "unborn"
      PROVE  app # "ended" /\ (quitting => \A q \in Procs : proc[q] = "unborn")
  <2> DEFINE born == {q \in Procs : proc[q] # "unborn"}
  <2>1. born' # born
    BY <1>1
  <2>2. \E b \in Procs : Lifetime!Start(b)
    BY <1>1, <2>1
    DEF Lifetime!Next, Lifetime!vars, Lifetime!Exit, Lifetime!Handle, Lifetime!Quit,
        Lifetime!Insist, Lifetime!End
  <2>3. app # "ended" /\ (born # {} => app = "up")
    BY <2>2 DEF Lifetime!Start
  <2> QED BY <1>1, <2>3 DEF BackendInv, QuitFlag
<1>2. /\ BackendInv /\ BackendInv' /\ CommandIsCustom /\ [StatusNext]_statusVars
      => [BornInTime]_statusVars
  BY <1>1, LifetimeStep DEF BornInTime
<1> QED BY <1>2, AlwaysInv, CommandInvariant, PTL DEF StatusSpec
=============================================================================
