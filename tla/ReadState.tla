----------------------------- MODULE ReadState -----------------------------
(***************************************************************************)
(* Read and unread, over the task store: the hook that marks the viewed     *)
(* agent read (at once when it comes into view, a second after each later   *)
(* update, and when the user leaves with an update still waiting), the      *)
(* "Mark as unread" of the user that it must not undo, and the dot that     *)
(* shows the result.                                                        *)
(***************************************************************************)
EXTENDS TaskStore

CONSTANT Nobody  \* no agent is in view

ASSUME NobodyAssumption == Nobody \notin Agents

VARIABLES
  viewed,   \* the agent the hook is mounted for, or Nobody
  noticed,  \* the updatedAt its effect last ran for, or Absent
  timer,    \* the debounced read is scheduled
  pending,  \* hasPendingReadRef
  wish      \* history: agents the user wants unread until their next turn

hookVars == <<viewed, noticed, timer, pending, wish>>
vars == <<storeVars, hookVars>>

\* task?.updatedAt of the agent in view.
UpdatedAt(a) ==
  IF a = Nobody \/ cache[a] \notin Views THEN Absent ELSE cache[a].turn

\* Mutant: the hook asks only for the run the override was made in.
UnreadForTheRun(a) ==
  cache[a] \in Views /\ override[a].on = "runCompletion"

\* isUnreadOverrideActive, for the latest view in the cache.
ExplicitlyUnread(a) == cache[a] \in Views /\ OverrideActive(a, cache[a])

\* Reading an override after the run it waited for has ended re-keys it.
Rekeyed(a) ==
  IF cache[a] \in Views /\ override[a].on = "runCompletion"
       /\ ~IsMidRun(cache[a])
  THEN [override EXCEPT ![a] = OverrideFor(cache[a])]
  ELSE override

(***************************************************************************)
(* The dot of an agent.                                                     *)
(***************************************************************************)
HasUnreadUpdate(view) == view.readAt < view.turn

BaseDot(view, isFocused) ==
  CASE view.status = "busy"   -> "running"
    [] isFocused /\ view.readAt # Never -> "read"
    [] HasUnreadUpdate(view)  -> "unread"
    [] OTHER                  -> "read"

Dot(a) ==
  LET base == BaseDot(cache[a], viewed = a)
  IN IF base = "read" /\ OverrideActive(a, cache[a]) THEN "unread" ELSE base

\* A dot is derived again; only a base of "read" looks at the override.
DeriveDot(a) ==
  /\ cache[a] \in Views
  /\ BaseDot(cache[a], viewed = a) = "read"
  /\ override' = Rekeyed(a) /\ override' # override
  /\ UNCHANGED <<server, stream, wire, drops, cache, ids, request, crossed,
                 unheard, hookVars>>

(***************************************************************************)
(* useMarkRead.                                                             *)
(***************************************************************************)
MarkRead(r, a, overrides) == Mutate(r, "read", a, NoTitle, overrides)

\* The agent comes into view: the override ends and the agent is read.  The
\* effect on updatedAt runs in the same commit, and returns at once when it is
\* the first of the mount.
Activate(r, a, isInitialMount) ==
  /\ viewed = Nobody
  /\ viewed' = a
  /\ noticed' = UpdatedAt(a)
  /\ IF cache[a] \in Views
     THEN /\ MarkRead(r, a, [override EXCEPT ![a] = NoOverride])
          /\ wish' = wish \ {a}
          /\ timer' = ~isInitialMount
          /\ pending' = ~isInitialMount
     ELSE UNCHANGED <<storeVars, timer, pending, wish>>

\* The agent's updatedAt has changed since the effect last ran.
Notice ==
  /\ viewed # Nobody /\ UpdatedAt(viewed) # noticed
  /\ noticed' = UpdatedAt(viewed)
  /\ timer' = (noticed' # Absent)
  /\ pending' = (pending \/ noticed' # Absent)
  /\ UNCHANGED <<storeVars, viewed, wish>>

\* A second has passed without a further update.
DebounceEnds(r) ==
  /\ timer /\ timer' = FALSE /\ pending' = FALSE
  /\ IF ExplicitlyUnread(viewed)
     THEN /\ override' = Rekeyed(viewed)
          /\ UNCHANGED <<server, stream, wire, drops, cache, ids, request,
                         crossed, unheard>>
     ELSE MarkRead(r, viewed, override)
  /\ UNCHANGED <<viewed, noticed, wish>>

\* The user turns away: a read that is still due is made now.
Leave(r) ==
  /\ viewed # Nobody
  /\ viewed' = Nobody /\ noticed' = Absent
  /\ timer' = FALSE /\ pending' = FALSE
  /\ IF ~pending THEN UNCHANGED storeVars
     ELSE IF ExplicitlyUnread(viewed)
     THEN /\ override' = Rekeyed(viewed)
          /\ UNCHANGED <<server, stream, wire, drops, cache, ids, request,
                         crossed, unheard>>
     ELSE MarkRead(r, viewed, override)
  /\ UNCHANGED wish

\* "Mark as unread", which does nothing for an agent the window has not got.
MarkUnread(r, a) ==
  /\ cache[a] \in Views
  /\ Mutate(r, "unread", a, NoTitle, override)
  /\ wish' = wish \cup {a}
  /\ UNCHANGED <<viewed, noticed, timer, pending>>

(***************************************************************************)
(* The wish ends with the first frame of the turn after the one it was      *)
(* made in, and with a request for it that fails.                           *)
(***************************************************************************)
NextTurnBegins(a, views) ==
  /\ a \in DOMAIN views
  /\ \/ cache[a] \notin Views \/ views[a] \notin Views
     \/ ~IsMidRun(cache[a]) /\ views[a].turn # cache[a].turn

Receive ==
  /\ Deliver
  /\ wish' = {a \in wish : ~NextTurnBegins(a, Head(wire).views)}
  /\ UNCHANGED <<viewed, noticed, timer, pending>>

Conclude(r) ==
  /\ Answer(r) \/ NetworkFailure(r) \/ TrackerTimeout(r)
  /\ wish' = IF request[r].kind = "unread" /\ ~Awaited(r)'
             THEN wish \ {request[r].agent} ELSE wish
  /\ UNCHANGED <<viewed, noticed, timer, pending>>

Init ==
  /\ StoreInit
  /\ viewed = Nobody /\ noticed = Absent
  /\ timer = FALSE /\ pending = FALSE /\ wish = {}

UserActs ==
  \E r \in Requests, a \in Agents :
    \/ \E first \in BOOLEAN : Activate(r, a, first)
    \/ Leave(r)
    \/ MarkUnread(r, a)
    \/ /\ \/ \E t \in Titles : Rename(r, a, t)
          \/ Delete(r, a)
       /\ UNCHANGED hookVars

WindowActs ==
  \/ Receive
  \/ Notice
  \/ \E a \in Agents : DeriveDot(a)
  \/ \E r \in Requests : DebounceEnds(r) \/ Conclude(r)

WorldActs ==
  /\ \/ \E r \in Requests : Commit(r) \/ Refuse(r)
     \/ \E a \in Agents : Work(a) \/ DeleteElsewhere(a)
     \/ Open \/ Close \/ Subscribe
  /\ UNCHANGED hookVars

Next == UserActs \/ WindowActs \/ WorldActs

Spec == Init /\ [][Next]_vars

-----------------------------------------------------------------------------
TypeOK ==
  /\ StoreTypeOK
  /\ viewed \in Agents \cup {Nobody}
  /\ noticed \in Turns \cup {Absent}
  /\ timer \in BOOLEAN /\ pending \in BOOLEAN
  /\ wish \subseteq Agents

AtRest ==
  /\ stream = "open" /\ wire = <<>>
  /\ \A r \in Requests : ~IsUnderWay(r)

\* Once nothing is under way and the stream has been handled to its end, what
\* the window shows is what the server has: the entry of every agent and its
\* place in the ids list, whatever was written ahead of the server, rolled
\* back, overtaken by a frame or lost with a connection.  Two exceptions are
\* the code's: writes that overlapped and failed with no frame in between
\* (each restores what it found, which may be the other's), and a deletion
\* whose tombstone was lost with the connection (the dump on reconnecting
\* has only live agents).
RestsOnTruth ==
  AtRest => \A a \in Agents \ crossed :
    /\ a \in ids <=> cache[a] \in Views
    /\ \/ cache[a] = server[a]
       \/ server[a] = Gone /\ (cache[a] = Absent \/ a \in unheard)

\* An agent the user has marked unread shows as unread until its next turn,
\* also while the user looks at it, and whatever the frames of the stream say
\* of it in the meantime: the override is keyed to outlive the run it was
\* made in and no more (unreadOverrides.ts).
UnreadShows ==
  \A a \in wish :
    cache[a] \in Views /\ cache[a].status = "idle" => Dot(a) = "unread"

\* The hook never takes it back by itself: neither the debounced read nor the
\* one made on leaving marks an agent read that the user wants unread.
NoReadAgainstTheWish ==
  [][\A r \in Requests :
       /\ request[r] = Fresh /\ request'[r] # Fresh
       /\ request'[r].kind = "read" /\ cache[request'[r].agent] \in Views
       => request'[r].agent \notin wish \/ viewed = Nobody]_vars

\* A caller that is told its request is done finds the result in the cache:
\* an acknowledgement is handled only after a frame with the agent.
AckFollowsView ==
  \A r \in Requests :
    IsUnderWay(r) /\ request[r].tracker = "acked" => request[r].touched
=============================================================================
