--------------------------- MODULE WorkspaceTabs ---------------------------
(***************************************************************************)
(* The workspaces and the tabs of one window (atoms/workspaces.ts): the     *)
(* entry of every workspace the stream has delivered, the persisted order   *)
(* of the tabs with its active pointer, the open and close intents that     *)
(* outlive their requests, and the optimistic deletion with its rollback.   *)
(*                                                                          *)
(* The server is a row per workspace.  The stream sends a dump of the       *)
(* workspaces that are not deleted when it connects, and then each change   *)
(* in a frame of its own, in the order of the commits.  Requests of the     *)
(* window may commit in any order, and may be given up by the window and    *)
(* commit later all the same.                                               *)
(***************************************************************************)
EXTENDS Integers, Sequences, SequencesExt, FiniteSets

CONSTANTS Workspaces,
          Requests,   \* request ids; each is used once
          Home,       \* a pseudo-tab
          MaxMoves,   \* bound: is_open set by other clients
          MaxDrops,   \* bound: how often the socket closes
          Fresh,      \* a request id not used yet
          Settled     \* a request id used up

ASSUME BoundsAssumption == MaxMoves \in Nat /\ MaxDrops \in Nat
ASSUME TabsAssumption == IsFiniteSet(Workspaces) /\ Home \notin Workspaces

VARIABLES
  row,           \* workspace -> "none", "open", "shut" or "deleted": the server
  linked,        \* whether the stream is up
  wire,          \* frames on their way
  moves, drops,  \* how much of MaxMoves and MaxDrops is used
  hydrated,      \* whether a frame has been handled
  ids,           \* workspaceIdsAtom
  entry,         \* workspaceAtomFamily: "never", "open", "shut" or "tomb"
  tabs,          \* tabsAtom
  pendingClose, pendingOpen,
  request,       \* request id -> Fresh, Settled or the request's state
  wish,          \* history: the user's standing wish for a tab
  unheard,       \* history: workspaces deleted of which no frame has told
  undone         \* history: workspaces with an intent undone and no frame since

serverVars == <<row, linked, wire, moves, drops>>
intentVars == <<pendingClose, pendingOpen>>
vars == <<serverVars, hydrated, ids, entry, tabs, intentVars, request, wish,
          unheard, undone>>

TabIds == Workspaces \cup {Home}
Live == {"open", "shut"}

\* The order without duplicates, and a pointer into it or 0, the sentinel
\* INVALID_ACTIVE_INDEX.
Holds(order, tab) == \E i \in DOMAIN order : order[i] = tab
TabStates == {ts \in [order : Seq(TabIds), active : Nat] :
                /\ ts.active <= Len(ts.order)
                /\ \A i, j \in DOMAIN ts.order :
                     ts.order[i] = ts.order[j] => i = j}

\* A request under way.  inserted: the opening added the tab; prev, touched:
\* the snapshot a deletion replaced and whether a frame has come since; had:
\* whether the tab was there (history).
UnderWay == [kind : {"open", "close", "delete"}, ws : Workspaces,
             inserted : BOOLEAN, prev : Live \cup {"nothing"},
             touched : BOOLEAN, had : BOOLEAN,
             web : {"pending", "done"},
             awaited : BOOLEAN]

\* The marks of a request id are not requests.
ASSUME MarksAssumption == Fresh \notin UnderWay /\ Settled \notin UnderWay

(***************************************************************************)
(* The tabs.                                                                *)
(***************************************************************************)
Place(order, tab) == CHOOSE i \in DOMAIN order : order[i] = tab
Spliced(order, i) == SubSeq(order, 1, i - 1) \o SubSeq(order, i + 1, Len(order))

\* Mutant: with the active tab the pointer goes.
CloseToNone(ts, tab) ==
  IF ~Holds(ts.order, tab) THEN ts
  ELSE LET i == Place(ts.order, tab)
       IN [order |-> Spliced(ts.order, i),
           active |-> IF ts.active = i THEN 0
                      ELSE IF ts.active > i THEN ts.active - 1 ELSE ts.active]

\* applyClose: the neighbour takes over from an active tab that is closed.
Close(ts, tab) ==
  IF ~Holds(ts.order, tab) THEN ts
  ELSE LET i == Place(ts.order, tab)
           order == Spliced(ts.order, i)
       IN [order |-> order,
           active |-> IF ts.active > i \/ ts.active > Len(order)
                      THEN ts.active - 1 ELSE ts.active]

\* applyOpen, which no caller asks to move the pointer.
Add(ts, tab) ==
  IF Holds(ts.order, tab) THEN ts
  ELSE [order |-> Append(ts.order, tab), active |-> ts.active]

\* applySetActive.
Point(ts, tab) ==
  IF Holds(ts.order, tab)
  THEN [order |-> ts.order, active |-> Place(ts.order, tab)] ELSE ts

\* convertHomeTabToWorkspaceAtom: the workspace takes the place of Home.
HomeBecomes(ts, w) ==
  IF Holds(ts.order, Home)
  THEN LET rest == Close(ts, w)
       IN [order |-> [rest.order EXCEPT ![Place(rest.order, Home)] = w],
           active |-> rest.active]
  ELSE Add(ts, w)

\* Mutant: a tab waits for the frame that says it is open.
ShownByFrames(tab) ==
  /\ Holds(tabs.order, tab) /\ tab \notin pendingClose
  /\ tab = Home \/ (tab \in ids /\ entry[tab] = "open")

\* effectiveOpenTabIdsAtom.
Shown(tab) ==
  /\ Holds(tabs.order, tab) /\ tab \notin pendingClose
  /\ \/ tab = Home
     \/ tab \in pendingOpen
     \/ tab \in ids /\ entry[tab] = "open"

(***************************************************************************)
(* Requests of the window.                                                  *)
(***************************************************************************)
Sent(r, kind, w, inserted, prev, had) ==
  /\ request[r] = Fresh
  /\ request' = [request EXCEPT ![r] =
       [kind |-> kind, ws |-> w, inserted |-> inserted, prev |-> prev,
        touched |-> FALSE, had |-> had, web |-> "pending", awaited |-> TRUE]]

\* A request whose answer means nothing to the window (any more).
Unawaited(kind, w) ==
  [kind |-> kind, ws |-> w, inserted |-> FALSE, prev |-> "nothing",
   touched |-> FALSE, had |-> FALSE, web |-> "pending", awaited |-> FALSE]

IsUnderWay(r) == request[r] \notin {Fresh, Settled}
Awaited(r) == IsUnderWay(r) /\ request[r].awaited

\* The rows of the lists: one that is being deleted takes no clicks.
Clickable(w) == row[w] # "none" /\ entry[w] # "tomb"

\* openWorkspaceTabAtom, from the palette, the cycling keys and the lists.
OpenTab(r, w) ==
  /\ Clickable(w)
  /\ pendingClose' = pendingClose \ {w}
  /\ pendingOpen' = pendingOpen \cup {w}
  /\ tabs' = Add(tabs, w)
  /\ Sent(r, "open", w, ~Holds(tabs.order, w), "nothing", FALSE)
  /\ wish' = [wish EXCEPT ![w] = "open"]
  /\ UNCHANGED <<serverVars, hydrated, ids, entry, unheard, undone>>

\* closeWorkspaceTabAtom on a workspace: the tab keeps its place, hidden.
CloseTab(r, w) ==
  /\ Shown(w)
  /\ pendingOpen' = pendingOpen \ {w}
  /\ pendingClose' = pendingClose \cup {w}
  /\ Sent(r, "close", w, FALSE, "nothing", FALSE)
  /\ wish' = [wish EXCEPT ![w] = "shut"]
  /\ UNCHANGED <<serverVars, hydrated, ids, entry, tabs, unheard, undone>>

\* closeWorkspaceTabAtom on a pseudo-tab.
CloseHome ==
  /\ Holds(tabs.order, Home)
  /\ tabs' = Close(tabs, Home)
  /\ UNCHANGED <<serverVars, hydrated, ids, entry, intentVars, request, wish,
                 unheard, undone>>

\* ensurePseudoTabAtom.
EnsureHome ==
  /\ ~Holds(tabs.order, Home)
  /\ tabs' = Add(tabs, Home)
  /\ UNCHANGED <<serverVars, hydrated, ids, entry, intentVars, request, wish,
                 unheard, undone>>

\* convertHomeTabToWorkspaceAtom.  Only a workspace the window holds for closed
\* is opened on the server, and nobody waits for that request.
ConvertHome(r, w) ==
  /\ Clickable(w)
  /\ tabs' = HomeBecomes(tabs, w)
  /\ IF entry[w] = "shut"
     THEN /\ pendingClose' = pendingClose \ {w}
          /\ pendingOpen' = pendingOpen \cup {w}
          /\ request[r] = Fresh
          /\ request' = [request EXCEPT ![r] = Unawaited("open", w)]
          /\ wish' = [wish EXCEPT ![w] = "open"]
     ELSE UNCHANGED <<intentVars, request, wish>>
  /\ UNCHANGED <<serverVars, hydrated, ids, entry, unheard, undone>>

\* setActiveTabByIdAtom, on every navigation.
SetActive(tab) ==
  /\ tabs' = Point(tabs, tab)
  /\ tabs' # tabs
  /\ UNCHANGED <<serverVars, hydrated, ids, entry, intentVars, request, wish,
                 unheard, undone>>

\* removeTabFromOrderAtom: the page of a workspace the window does not know.
StaleRoute(w) ==
  /\ hydrated /\ w \notin ids /\ Holds(tabs.order, w)
  /\ tabs' = Close(tabs, w)
  /\ wish' = [wish EXCEPT ![w] = "none"]
  /\ UNCHANGED <<serverVars, hydrated, ids, entry, intentVars, request, unheard, undone>>

\* optimisticDeleteWorkspaceAtom and the DELETE; the id stays in ids.
Delete(r, w) ==
  /\ Clickable(w)
  /\ IF entry[w] \in Live
     THEN /\ Sent(r, "delete", w, FALSE, entry[w], Holds(tabs.order, w))
          /\ entry' = [entry EXCEPT ![w] = "tomb"]
          /\ tabs' = Close(tabs, w)
          /\ wish' = [wish EXCEPT ![w] = "none"]
     ELSE /\ Sent(r, "delete", w, FALSE, "nothing", FALSE)
          /\ UNCHANGED <<entry, tabs, wish>>
  /\ UNCHANGED <<serverVars, hydrated, ids, intentVars, unheard, undone>>

(***************************************************************************)
(* The server and the stream.                                               *)
(***************************************************************************)
Push(frame) == IF linked THEN Append(wire, frame) ELSE wire
Change(w, state) == [v \in {w} |-> state]

\* A request commits.  A workspace that is gone is a success for its deletion
\* and a failure for the others.
Commit(r) ==
  /\ IsUnderWay(r) /\ request[r].web = "pending"
  /\ LET q == request[r]
         w == q.ws
         state == CASE q.kind = "open"   -> "open"
                    [] q.kind = "close"  -> "shut"
                    [] q.kind = "delete" -> "deleted"
     IN /\ request' = [request EXCEPT ![r] =
                         IF q.awaited THEN [q EXCEPT !.web = "done"] ELSE Settled]
        /\ IF row[w] # "deleted"
           THEN /\ row' = [row EXCEPT ![w] = state]
                /\ wire' = Push(Change(w, state))
                /\ unheard' = IF q.kind = "delete" THEN unheard \cup {w}
                                                   ELSE unheard
           ELSE /\ q.kind = "delete" \/ ~q.awaited
                /\ UNCHANGED <<row, wire, unheard>>
  /\ UNCHANGED <<linked, moves, drops, hydrated, ids, entry, tabs, intentVars,
                 wish, undone>>

\* Other clients: a workspace is created, opened or closed, or deleted.
Elsewhere(w) ==
  /\ \E state \in Live \cup {"deleted"} :
       /\ \/ row[w] = "none" /\ state = "open" /\ moves' = moves
          \/ row[w] \in Live /\ state = "deleted" /\ moves' = moves
          \/ /\ row[w] \in Live /\ state \in Live \ {row[w]}
             /\ moves < MaxMoves /\ moves' = moves + 1
       /\ row' = [row EXCEPT ![w] = state]
       /\ wire' = Push(Change(w, state))
       /\ unheard' = IF state = "deleted" THEN unheard \cup {w} ELSE unheard
  /\ UNCHANGED <<linked, drops, hydrated, ids, entry, tabs, intentVars, request,
                 wish, undone>>

Connect ==
  /\ ~linked
  /\ linked' = TRUE
  /\ wire' = <<[w \in {v \in Workspaces : row[v] \in Live} |-> row[w]]>>
  /\ UNCHANGED <<row, moves, drops, hydrated, ids, entry, tabs, intentVars,
                 request, wish, unheard, undone>>

Drop ==
  /\ linked /\ drops < MaxDrops
  /\ linked' = FALSE
  /\ wire' = <<>>
  /\ drops' = drops + 1
  /\ UNCHANGED <<row, moves, hydrated, ids, entry, tabs, intentVars, request,
                 wish, unheard, undone>>

(***************************************************************************)
(* updateWorkspacesAtom.                                                    *)
(***************************************************************************)
\* The sync version of every workspace in the frame goes up.
Touched(carried) ==
  [r \in Requests |->
     IF IsUnderWay(r) /\ request[r].ws \in carried
     THEN [request[r] EXCEPT !.touched = request[r].prev # "nothing"]
     ELSE request[r]]

\* The user's intent overrides the frame.
OpenAsMeant(w, state) ==
  IF w \in pendingClose THEN "shut"
  ELSE IF w \in pendingOpen THEN "open" ELSE state

\* A change, or the dump, of workspaces that are there.  news is the order in
\* which the frame lists those that get a tab: after the first frame the new
\* ones that are open, with the first frame all of the open ones, if no tab of
\* a workspace was stored.
Deliver ==
  /\ wire # <<>>
  /\ "deleted" \notin {Head(wire)[w] : w \in DOMAIN Head(wire)}
  /\ LET frame == Head(wire)
         told == [w \in Workspaces |->
                    IF w \in DOMAIN frame THEN OpenAsMeant(w, frame[w])
                                          ELSE entry[w]]
         fresh == DOMAIN frame \ ids
         adds == IF hydrated THEN {w \in fresh : told[w] = "open"}
                 ELSE {w \in DOMAIN frame : told[w] = "open" /\
                         \A v \in Workspaces : ~Holds(tabs.order, v)}
     IN /\ entry' = told
        /\ ids' = ids \cup DOMAIN frame
        /\ request' = Touched(DOMAIN frame)
        /\ \E news \in SetToSeqs({w \in adds : ~Holds(tabs.order, w)}) :
             tabs' = [order |-> tabs.order \o news, active |-> tabs.active]
  /\ hydrated' = TRUE
  /\ wire' = Tail(wire)
  /\ undone' = undone \ DOMAIN Head(wire)
  /\ UNCHANGED <<row, linked, moves, drops, intentVars, wish, unheard>>

\* The frame of a deletion.
DeliverDeletion(w) ==
  /\ wire # <<>> /\ Head(wire) = Change(w, "deleted")
  /\ ids' = ids \ {w}
  /\ entry' = [entry EXCEPT ![w] = "tomb"]
  /\ tabs' = Close(tabs, w)
  /\ request' = Touched({w})
  /\ wish' = [wish EXCEPT ![w] = "none"]
  /\ unheard' = unheard \ {w}
  /\ undone' = undone \ {w}
  /\ hydrated' = TRUE
  /\ wire' = Tail(wire)
  /\ UNCHANGED <<row, linked, moves, drops, intentVars>>

(***************************************************************************)
(* The answers.                                                             *)
(***************************************************************************)
Succeed(r) ==
  /\ Awaited(r)
  /\ request[r].web = "done"
  /\ request' = [request EXCEPT ![r] = Settled]
  /\ LET w == request[r].ws
     IN IF request[r].kind = "delete"    \* finalizeDeleteWorkspaceAtom
        THEN /\ pendingClose' = pendingClose \ {w}
             /\ pendingOpen' = pendingOpen \ {w}
             /\ wish' = [wish EXCEPT ![w] = "none"]
        ELSE UNCHANGED <<intentVars, wish>>
  /\ UNCHANGED <<serverVars, hydrated, ids, entry, tabs, unheard, undone>>

\* Mutant: a rollback does not yield to a frame.
RestoresAlways(q) == q.prev # "nothing"

\* rollbackDeleteWorkspaceAtom: unless nothing was applied or a frame came.
Restores(q) == q.prev # "nothing" /\ ~q.touched

\* What a failed closing leaves of the close intents.
WithoutClose(q) == pendingClose \ {q.ws}

\* The answer is an error, or does not come, and the server may carry it out all
\* the same: the .catch of an opening and of a closing undoes the intent, the
\* onError of a deletion rolls it back.
Fail(r) ==
  /\ Awaited(r)
  /\ LET q == request[r]
         w == q.ws
     IN /\ \/ request' = [request EXCEPT ![r] = Settled]
           \/ /\ q.web = "pending"
              /\ request' = [request EXCEPT ![r] = Unawaited(q.kind, w)]
        /\ undone' = IF q.kind = "delete" THEN undone ELSE undone \cup {w}
        /\ \/ /\ q.kind = "open"
              /\ pendingOpen' = pendingOpen \ {w}
              /\ tabs' = IF q.inserted THEN Close(tabs, w) ELSE tabs
              /\ wish' = [wish EXCEPT ![w] = IF @ = "open" THEN "none" ELSE @]
              /\ UNCHANGED <<pendingClose, entry>>
           \/ /\ q.kind = "close"
              /\ pendingClose' = WithoutClose(q)
              /\ wish' = [wish EXCEPT ![w] = IF @ = "shut" THEN "none" ELSE @]
              /\ UNCHANGED <<pendingOpen, entry, tabs>>
           \/ /\ q.kind = "delete"
              /\ entry' = IF Restores(q) THEN [entry EXCEPT ![w] = q.prev]
                                         ELSE entry
              /\ tabs' = IF Restores(q) THEN Add(tabs, w) ELSE tabs
              /\ UNCHANGED <<intentVars, wish>>
  /\ UNCHANGED <<serverVars, hydrated, ids, unheard>>

(***************************************************************************)
(* The specification.  The tabs are what an earlier session has stored.     *)
(***************************************************************************)
StoredOrders == UNION {SetToSeqs(S) : S \in SUBSET TabIds}

Init ==
  /\ row \in [Workspaces -> {"none", "open", "shut"}]
  /\ linked = FALSE /\ wire = <<>> /\ moves = 0 /\ drops = 0
  /\ hydrated = FALSE /\ ids = {}
  /\ entry = [w \in Workspaces |-> "never"]
  /\ tabs \in [order : StoredOrders, active : 0 .. Cardinality(TabIds)]
  /\ tabs.active <= Len(tabs.order)
  /\ \A w \in Workspaces : Holds(tabs.order, w) => row[w] # "none"
  /\ pendingClose = {} /\ pendingOpen = {}
  /\ request = [r \in Requests |-> Fresh]
  /\ wish = [w \in Workspaces |-> "none"]
  /\ unheard = {} /\ undone = {}

TabActs ==
  \/ \E r \in Requests, w \in Workspaces :
       \/ OpenTab(r, w)
       \/ CloseTab(r, w)
       \/ ConvertHome(r, w)
       \/ Delete(r, w)
  \/ CloseHome
  \/ EnsureHome
  \/ \E tab \in TabIds : SetActive(tab)
  \/ \E w \in Workspaces : StaleRoute(w)

WorldActs ==
  \/ \E r \in Requests : Commit(r)
  \/ \E w \in Workspaces : Elsewhere(w)
  \/ Connect
  \/ Drop

WindowActs ==
  \/ Deliver
  \/ \E w \in Workspaces : DeliverDeletion(w)
  \/ \E r \in Requests : Succeed(r) \/ Fail(r)

Next == TabActs \/ WorldActs \/ WindowActs

Spec == Init /\ [][Next]_vars

(***************************************************************************)
(* Properties.                                                              *)
(***************************************************************************)
ServerTypes ==
  /\ row \in [Workspaces -> Live \cup {"none", "deleted"}]
  /\ linked \in BOOLEAN
  /\ wire \in Seq(UNION {[S -> Live \cup {"deleted"}] : S \in SUBSET Workspaces})
  /\ moves \in 0 .. MaxMoves /\ drops \in 0 .. MaxDrops

StoreTypes ==
  /\ hydrated \in BOOLEAN
  /\ ids \subseteq Workspaces
  /\ entry \in [Workspaces -> Live \cup {"never", "tomb"}]

IntentTypes ==
  /\ pendingClose \subseteq Workspaces /\ pendingOpen \subseteq Workspaces
  /\ pendingClose \cap pendingOpen = {}

HistoryTypes ==
  /\ wish \in [Workspaces -> Live \cup {"none"}]
  /\ unheard \subseteq Workspaces /\ undone \subseteq Workspaces

\* Type correctness.  Above all the tabs: no tab twice in the order, the
\* active pointer into the order or the sentinel; and never both intents for
\* one workspace.
TypeOK ==
  /\ ServerTypes /\ StoreTypes /\ tabs \in TabStates /\ IntentTypes
  /\ request \in [Requests -> UnderWay \cup {Fresh, Settled}] /\ HistoryTypes

ActiveTab == IF tabs.active = 0 THEN Home ELSE tabs.order[tabs.active]

ActiveStays ==
  /\ tabs.active # 0 /\ tabs'.order # <<>> => tabs'.active # 0
  /\ tabs.active # 0 /\ Holds(tabs'.order, ActiveTab)
       /\ (\A tab \in TabIds : ~SetActive(tab))
       /\ (ActiveTab = Home \/ tabs' # HomeBecomes(tabs, ActiveTab))
     => ActiveTab' = ActiveTab

\* Whatever is closed, opened, converted, deleted or restored around it, the
\* active pointer stays on its tab until the user goes to another one or the
\* tab itself leaves the order, or moves to the place of Home; and then it lands
\* on a tab that is left.
ActiveKeepsItsTab == [][ActiveStays]_vars

\* The last thing the user asked of a tab, to be open or to be closed, is what
\* the window shows, whatever the frames say and in whatever order the requests
\* commit, until that wish fails or the workspace goes.
IntentHolds ==
  \A w \in Workspaces :
    /\ wish[w] = "open" => Shown(w)
    /\ wish[w] = "shut" => ~Shown(w)

AtRest == linked /\ wire = <<>> /\ \A r \in Requests : ~IsUnderWay(r)

\* At rest the window holds every workspace the server has, open or closed as
\* the server says unless an intent stands (or stood, and no frame has come
\* since), and shows no tab of one that is deleted, unless the deletion fell
\* into a time without a stream.
StoreFollowsServer ==
  AtRest => \A w \in Workspaces \ unheard :
    /\ row[w] \in Live =>
         /\ w \in ids /\ entry[w] \in Live
         /\ entry[w] = row[w] \/ w \in pendingOpen \cup pendingClose \cup undone
    /\ row[w] = "deleted" => w \notin ids /\ ~Shown(w)

\* A failed deletion "puts the UI back precisely where it was": a workspace that
\* had a tab when its deletion began and is there again when it has failed has
\* its tab again.
FailedDeleteRestores ==
  [][\A r \in Requests :
       /\ Fail(r) /\ request[r].kind = "delete" /\ request[r].had
       /\ entry'[request[r].ws] \in Live
       => Holds(tabs'.order, request[r].ws)]_vars
=============================================================================
