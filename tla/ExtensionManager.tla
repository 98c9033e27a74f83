-------------------------- MODULE ExtensionManager --------------------------
(***************************************************************************)
(* The lifecycle of the extensions of one window (extensionManager.tsx):    *)
(* sources that are fetched, claim the extension id of their manifest, are  *)
(* activated and register contributions, while the user and agents add,     *)
(* remove, reload, enable and disable sources and the bootstrap resolves    *)
(* the sources it found against each other.                                 *)
(*                                                                          *)
(* A load attempt is a task of its own that waits for the network twice.    *)
(* The sequence token of a source is kept as the flag "current" of its      *)
(* attempts: raising the token makes them all stale.                        *)
(***************************************************************************)
EXTENDS Integers, Sequences, SequencesExt, FiniteSets

CONSTANTS Urls, Locals, Builtins,   \* sources, by their kind
          OffByDefault,             \* built-ins shipped disabled
          Ids,                      \* extension ids
          Attempts,                 \* interactive loads; each is used once
          NoId, Nobody, NoTask,     \* no extension id, no source, no load
          NotBegun, Over            \* a load before and after it runs

Sources == Urls \cup Locals \cup Builtins

ASSUME KindsAssumption ==
  /\ IsFiniteSet(Sources)
  /\ Urls \cap Locals = {} /\ (Urls \cup Locals) \cap Builtins = {}
  /\ OffByDefault \subseteq Builtins
  /\ Attempts \cap Sources = {}

VARIABLES
  listed,     \* extensionSourcesAtom, persisted
  disabled,   \* extensionDisabledSourcesAtom, persisted
  enabled,    \* extensionEnabledSourcesAtom, persisted
  disk,       \* the sources in the extensions directory
  known,      \* localSources
  status,     \* extensionSourceStatesAtom
  task,       \* the load attempts
  owner,      \* activeByExtensionId
  claim,      \* extensionIdBySource
  disposers,  \* disposersBySource: whose registrations a source holds
  panel,      \* extension id -> the contribution on display: its load, its source
  boot,       \* the bootstrap
  refresh,    \* the re-scan of the extensions directory
  off,        \* history: sources turned off, with no load asked for since
  meddled     \* history: sources acted upon while the bootstrap was running

choiceVars == <<listed, disabled, enabled, disk>>
claimVars == <<owner, claim>>
liveVars == <<disposers, panel>>
vars == <<choiceVars, known, status, task, claimVars, liveVars, boot, refresh,
          off, meddled>>

\* The bootstrap loads each source at most once: that load bears its name.
Tasks == Attempts \cup Sources

Running == [source : Sources, phase : {"fetching", "activating"},
            id : Ids \cup {NoId}, current : BOOLEAN]

ASSUME NullsAssumption ==
  /\ NoId \notin Ids /\ Nobody \notin Sources /\ NoTask \notin Tasks
  /\ NotBegun \notin Running /\ Over \notin Running /\ NotBegun # Over

IsRunning(t) == task[t] \notin {NotBegun, Over}

Status(is, id, by) == [is |-> is, id |-> id, by |-> by]
Plain(is) == Status(is, NoId, Nobody)
Rows == [is : {"none", "loading", "loaded", "error", "shadowed", "disabled",
               "missing"}, id : Ids \cup {NoId}, by : Sources \cup {Nobody}]

\* KIND_PRIORITY.
Rank(s) == IF s \in Locals THEN 0 ELSE IF s \in Urls THEN 1 ELSE 2

IsDisabled(s) ==
  \/ s \in disabled
  \/ s \notin enabled /\ s \in OffByDefault

(***************************************************************************)
(* bumpSeq, release and unloadSource.                                       *)
(***************************************************************************)
\* Mutant: unloading leaves the token where it was.
KeepGoing(tasks, S) == tasks

Superseded(tasks, S) ==
  [t \in Tasks |-> IF tasks[t] \notin {NotBegun, Over} /\ tasks[t].source \in S
                   THEN [tasks[t] EXCEPT !.current = FALSE] ELSE tasks[t]]

ReleasedOwner(S) ==
  [i \in Ids |-> IF \E s \in S : claim[s] = i /\ owner[i] = s
                 THEN Nobody ELSE owner[i]]
ReleasedClaim(S) == [s \in Sources |-> IF s \in S THEN NoId ELSE claim[s]]

NoPanel == [load |-> NoTask, source |-> Nobody]

\* Mutant: what never came to be loaded is not rolled back.
UndoneIfLoaded(ts) ==
  [i \in Ids |->
     IF /\ panel[i] # NoPanel /\ panel[i].load \in ts
        /\ status[panel[i].source].is = "loaded"
     THEN NoPanel ELSE panel[i]]

\* The undo of a contribution removes its own instance, no later one.
Undone(ts) == [i \in Ids |-> IF panel[i].load \in ts THEN NoPanel ELSE panel[i]]

\* unloadSource for each of S: claims, registrations and disposers go.
UnloadState(S) ==
  /\ owner' = ReleasedOwner(S)
  /\ claim' = ReleasedClaim(S)
  /\ panel' = Undone({disposers[s] : s \in S})
  /\ disposers' = [s \in Sources |-> IF s \in S THEN NoTask ELSE disposers[s]]

Started(s) == [source |-> s, phase |-> "fetching", id |-> NoId, current |-> TRUE]
Activating(s, i) ==
  [source |-> s, phase |-> "activating", id |-> i, current |-> TRUE]

\* loadSource, up to its first await.
Load(t, s) ==
  /\ task[t] = NotBegun
  /\ task' = [Superseded(task, {s}) EXCEPT ![t] = Started(s)]
  /\ status' = [status EXCEPT ![s] = Plain("loading")]

Asked(s) == off' = off \ {s}
TurnedOff(S) == off' = off \cup S
Meddle(S) ==
  meddled' = IF boot.stage \in {"idle", "done"} THEN meddled ELSE meddled \cup S

(***************************************************************************)
(* The user, in the settings.                                               *)
(***************************************************************************)
\* The row is locked while another version is active or about to be.
Blocked(s) ==
  /\ status[s].is = "shadowed"
  /\ \/ \E o \in Sources : status[o].is = "loaded" /\ status[o].id = status[s].id
     \/ status[status[s].by].is \in {"loaded", "loading"}

\* setSourceEnabled(true): the switch is off for disabled and shadowed rows.
Enable(t, s) ==
  /\ status[s].is \in {"disabled", "shadowed"} /\ ~Blocked(s)
  /\ disabled' = disabled \ {s} /\ enabled' = enabled \cup {s}
  /\ Load(t, s)
  /\ Asked(s) /\ Meddle({s})
  /\ UNCHANGED <<listed, disk, known, claimVars, liveVars, boot, refresh>>

\* setSourceEnabled(false): the switch is on for the other rows.
Disable(s) ==
  /\ status[s].is \in {"loading", "loaded", "error"}
  /\ disabled' = disabled \cup {s} /\ enabled' = enabled \ {s}
  /\ UnloadState({s})
  /\ task' = Superseded(task, {s})
  /\ status' = [status EXCEPT ![s] = Plain("disabled")]
  /\ TurnedOff({s}) /\ Meddle({s})
  /\ UNCHANGED <<listed, disk, known, boot, refresh>>

AddSource(t, s) ==
  /\ s \in Urls \ listed
  /\ listed' = listed \cup {s}
  /\ Load(t, s)
  /\ Asked(s) /\ Meddle({s})
  /\ UNCHANGED <<disabled, enabled, disk, known, claimVars, liveVars, boot,
                 refresh>>

\* The rows of the user's own sources, and of local ones that are missing.
RemoveSource(s) ==
  /\ s \in listed \/ status[s].is = "missing"
  /\ listed' = listed \ {s}
  /\ disabled' = disabled \ {s} /\ enabled' = enabled \ {s}
  /\ known' = known \ {s}
  /\ UnloadState({s})
  /\ task' = Superseded(task, {s})
  /\ status' = [status EXCEPT ![s] = Plain("none")]
  /\ TurnedOff({s}) /\ Meddle({s})
  /\ UNCHANGED <<disk, boot, refresh>>

\* reloadSource: from a loaded or a failed row, or by an agent from any row.
Reload(t, s) ==
  /\ status[s].is # "none"
  /\ UnloadState({s})
  /\ Load(t, s)
  /\ Asked(s) /\ Meddle({s})
  /\ UNCHANGED <<choiceVars, known, boot, refresh>>

(***************************************************************************)
(* Agents: load of a path that is not loaded, and unload.  Their load of a  *)
(* URL is AddSource, their load of what is loaded Reload.                   *)
(***************************************************************************)
AgentLoad(t, s) ==
  /\ s \in Locals /\ status[s].is # "loaded"
  /\ known' = known \cup {s}
  /\ Load(t, s)
  /\ Asked(s) /\ Meddle({s})
  /\ UNCHANGED <<choiceVars, claimVars, liveVars, boot, refresh>>

\* extensionIdForState.
KnownAs(s) == IF status[s].id # NoId THEN status[s].id ELSE claim[s]

\* Every row that is known under the id goes.
AgentUnload(i) ==
  LET S == {s \in Sources : status[s].is # "none" /\ KnownAs(s) = i}
  IN /\ S # {}
     /\ UnloadState(S)
     /\ task' = Superseded(task, S)
     /\ status' = [s \in Sources |-> IF s \in S THEN Plain("none") ELSE status[s]]
     /\ TurnedOff(S) /\ Meddle(S)
     /\ UNCHANGED <<choiceVars, known, boot, refresh>>

(***************************************************************************)
(* A load attempt.                                                          *)
(***************************************************************************)
\* loadSource after its fetch: the manifest names an id, or is not to be had.
FetchEnds(t) ==
  /\ IsRunning(t) /\ task[t].phase = "fetching"
  /\ LET s == task[t].source
     IN \/ /\ ~task[t].current
           /\ task' = [task EXCEPT ![t] = Over]
           /\ UNCHANGED <<status, claimVars>>
        \/ /\ task[t].current
           /\ task' = [task EXCEPT ![t] = Over]
           /\ \E i \in Ids \cup {NoId} :
                status' = [status EXCEPT ![s] = Status("error", i, Nobody)]
           /\ UNCHANGED claimVars
        \/ \E i \in Ids :
             /\ task[t].current /\ owner[i] \notin {Nobody, s}
             /\ task' = [task EXCEPT ![t] = Over]
             /\ status' = [status EXCEPT ![s] = Status("shadowed", i, owner[i])]
             /\ UNCHANGED claimVars
        \/ \E i \in Ids :
             /\ task[t].current /\ owner[i] \in {Nobody, s}
             /\ task' = [task EXCEPT ![t] = Activating(s, i)]
             /\ owner' = [owner EXCEPT ![i] = s]
             /\ claim' = [claim EXCEPT ![s] = i]
             /\ UNCHANGED status
  /\ UNCHANGED <<choiceVars, known, liveVars, boot, refresh, off, meddled>>

\* activate() runs, stale or not: it registers a contribution, replacing the
\* one of that id.
Register(t) ==
  /\ IsRunning(t) /\ task[t].phase = "activating"
  /\ panel[task[t].id].load # t
  /\ panel' = [panel EXCEPT ![task[t].id] = [load |-> t, source |-> task[t].source]]
  /\ UNCHANGED <<choiceVars, known, status, task, claimVars, disposers, boot,
                 refresh, off, meddled>>

\* Mutant: resolveGroup ends with its winner.
RestWaitsOn(rows, i, s) == rows

\* resolveGroup: the rest of the group of a winner is shadowed.
ShadowRest(rows, i, s) ==
  [r \in Sources |-> IF \E k \in DOMAIN boot.queue[i] : boot.queue[i][k] = r
                     THEN Status("shadowed", i, s) ELSE rows[r]]

\* Mutant: a stale load commits.
NeverStale(t) == TRUE

\* Whether the load that ends is the last one asked for.
IsCurrent(t) == task[t].current

\* activateClaimed after its await: superseded, failed or loaded; and then
\* loadSource or resolveGroup.
ActivateEnds(t) ==
  /\ IsRunning(t) /\ task[t].phase = "activating"
  /\ \E ok \in BOOLEAN :
       LET s == task[t].source
           i == task[t].id
           current == IsCurrent(t)
           won == current /\ ok
           fails == current /\ ~ok
           next == IF t \in Sources /\ ~won /\ boot.queue[i] # <<>>
                   THEN {Head(boot.queue[i])} ELSE {}
           ended == [task EXCEPT ![t] = Over]
           rows == CASE won   -> [status EXCEPT ![s] = Status("loaded", i, Nobody)]
                     [] fails -> [status EXCEPT ![s] = Status("error", i, Nobody)]
                     [] ~current -> status
       IN /\ panel' = IF won THEN panel ELSE Undone({t})
          /\ disposers' = IF won THEN [disposers EXCEPT ![s] = t] ELSE disposers
          /\ status' = IF won /\ t \in Sources THEN ShadowRest(rows, i, s)
                                               ELSE rows
          /\ task' = [u \in Tasks |-> IF u \in next THEN Activating(u, i)
                                      ELSE Superseded(ended, next)[u]]
          /\ owner' = [j \in Ids |->
                         IF j = i /\ next # {} THEN Head(boot.queue[i])
                         ELSE IF fails THEN ReleasedOwner({s})[j] ELSE owner[j]]
          /\ claim' = [r \in Sources |->
                         IF r \in next THEN i
                         ELSE IF fails THEN ReleasedClaim({s})[r] ELSE claim[r]]
          /\ boot' = IF t \notin Sources THEN boot
                     ELSE [boot EXCEPT !.queue[i] =
                             IF won \/ next = {} THEN <<>> ELSE Tail(@)]
  /\ UNCHANGED <<choiceVars, known, refresh, off, meddled>>

(***************************************************************************)
(* The bootstrap.                                                           *)
(***************************************************************************)
NoQueues == [i \in Ids |-> <<>>]

\* bootstrap: the built-ins and the user's list are taken now.
Bootstrap ==
  /\ boot.stage = "idle"
  /\ boot' = [boot EXCEPT !.stage = "discovering", !.fetch = Builtins \cup listed]
  /\ UNCHANGED <<choiceVars, known, status, task, claimVars, liveVars, refresh,
                 off, meddled>>

\* The discovery has its answer, or fails; the rows of all candidates are set.
Discovered ==
  /\ boot.stage = "discovering"
  /\ \E found \in {disk, {}} :
       LET candidates == boot.fetch \cup found
       IN /\ known' = known \cup found
          /\ status' = [s \in Sources |->
               IF s \notin candidates THEN status[s]
               ELSE Plain(IF IsDisabled(s) THEN "disabled" ELSE "loading")]
          /\ boot' = [boot EXCEPT !.stage = "fetching",
                        !.fetch = {s \in candidates : ~IsDisabled(s)}]
  /\ UNCHANGED <<choiceVars, task, claimVars, liveVars, refresh, off, meddled>>

\* All manifests are there: per id, the first by priority claims it and is
\* activated, and the others wait.
Fetched ==
  /\ boot.stage = "fetching"
  /\ \E named \in [boot.fetch -> Ids \cup {NoId}] :
     \E group \in [Ids -> UNION {SetToSeqs(S) : S \in SUBSET boot.fetch}] :
       LET full == {i \in Ids : group[i] # <<>>}
           first == {Head(group[i]) : i \in full}
       IN /\ \A i \in Ids :
               /\ group[i] \in SetToSeqs({s \in boot.fetch : named[s] = i})
               /\ \A j, k \in DOMAIN group[i] :
                    j < k => Rank(group[i][j]) <= Rank(group[i][k])
          /\ status' = [s \in Sources |->
               IF s \in boot.fetch /\ named[s] = NoId THEN Plain("error")
               ELSE status[s]]
          /\ task' = [t \in Tasks |-> IF t \in first THEN Activating(t, named[t])
                                      ELSE Superseded(task, first)[t]]
          /\ owner' = [i \in Ids |-> IF i \in full THEN Head(group[i])
                                     ELSE owner[i]]
          /\ claim' = [s \in Sources |-> IF s \in first THEN named[s] ELSE claim[s]]
          /\ boot' = [stage |-> "resolving",
                      fetch |-> {},
                      queue |-> [i \in Ids |-> IF i \in full THEN Tail(group[i])
                                               ELSE <<>>]]
  /\ UNCHANGED <<choiceVars, known, liveVars, refresh, off, meddled>>

\* Nothing of the bootstrap is left to run.
Booted ==
  /\ boot.stage = "resolving" /\ boot.queue = NoQueues
  /\ \A s \in Sources : ~IsRunning(s)
  /\ boot' = [boot EXCEPT !.stage = "done"]
  /\ UNCHANGED <<choiceVars, known, status, task, claimVars, liveVars, refresh,
                 off, meddled>>

(***************************************************************************)
(* refreshLocalSources.                                                     *)
(***************************************************************************)
\* The directory is read; what is new, back or had failed is loaded.
Refresh ==
  /\ refresh.stage = "idle"
  /\ LET load == {s \in disk : status[s].is \in {"none", "missing", "error"}
                              /\ ~IsDisabled(s)}
     IN /\ known' = known \cup disk
        /\ \E with \in [load -> Attempts] :
             /\ \A s \in load : task[with[s]] = NotBegun
             /\ \A r, s \in load : with[r] = with[s] => r = s
             /\ task' = [t \in Tasks |->
                  IF \E s \in load : with[s] = t
                  THEN Started(CHOOSE s \in load : with[s] = t)
                  ELSE Superseded(task, load)[t]]
             /\ refresh' = [stage |-> "loading", seen |-> disk,
                            loads |-> {with[s] : s \in load}]
        /\ status' = [s \in Sources |->
             IF s \in load THEN Plain("loading")
             ELSE IF s \in disk /\ status[s].is \in {"none", "missing", "error"}
                  THEN Plain("disabled") ELSE status[s]]
        /\ off' = off \ load
        /\ Meddle(disk)
  /\ UNCHANGED <<choiceVars, claimVars, liveVars, boot>>

\* All of its loads have ended: local sources that were not seen and are not
\* running go, or stay as missing when the user has a choice for them.
RefreshEnds ==
  /\ refresh.stage = "loading"
  /\ \A t \in refresh.loads : ~IsRunning(t)
  /\ LET gone == {s \in known \ refresh.seen : status[s].is # "loaded"}
         kept == gone \cap (disabled \cup enabled)
     IN /\ UnloadState(gone)
        /\ task' = Superseded(task, gone)
        /\ known' = known \ (gone \ kept)
        /\ status' = [s \in Sources |-> IF s \in kept THEN Plain("missing")
                                        ELSE IF s \in gone THEN Plain("none")
                                        ELSE status[s]]
        /\ TurnedOff(gone) /\ Meddle(gone)
  /\ refresh' = [stage |-> "idle", seen |-> {}, loads |-> {}]
  /\ UNCHANGED <<choiceVars, boot>>

\* A directory appears or disappears.
DiskChanges(s) ==
  /\ disk' = IF s \in disk THEN disk \ {s} ELSE disk \cup {s}
  /\ UNCHANGED <<listed, disabled, enabled, known, status, task, claimVars,
                 liveVars, boot, refresh, off, meddled>>

(***************************************************************************)
(* The specification.  What is persisted is what an earlier session left.   *)
(***************************************************************************)
Init ==
  /\ listed \in SUBSET Urls /\ disk \in SUBSET Locals
  /\ disabled \in SUBSET (listed \cup Locals \cup Builtins)
  /\ enabled \in SUBSET (listed \cup Locals \cup Builtins)
  /\ disabled \cap enabled = {}
  /\ known = {}
  /\ status = [s \in Sources |-> Plain("none")]
  /\ task = [t \in Tasks |-> NotBegun]
  /\ owner = [i \in Ids |-> Nobody] /\ claim = [s \in Sources |-> NoId]
  /\ disposers = [s \in Sources |-> NoTask] /\ panel = [i \in Ids |-> NoPanel]
  /\ boot = [stage |-> "idle", fetch |-> {}, queue |-> NoQueues]
  /\ refresh = [stage |-> "idle", seen |-> {}, loads |-> {}]
  /\ off = {} /\ meddled = {}

\* Everything but the directory waits for the flag, and so for the bootstrap.
UserActs ==
  \/ \E s \in Locals : DiskChanges(s)
  \/ /\ boot.stage # "idle"
     /\ \/ \E t \in Attempts, s \in Sources :
             Enable(t, s) \/ AddSource(t, s) \/ Reload(t, s) \/ AgentLoad(t, s)
        \/ \E s \in Sources : Disable(s) \/ RemoveSource(s)
        \/ \E i \in Ids : AgentUnload(i)
        \/ Refresh

LoaderActs ==
  \/ \E t \in Tasks : FetchEnds(t) \/ Register(t) \/ ActivateEnds(t)
  \/ RefreshEnds
  \/ Bootstrap
  \/ Discovered
  \/ Fetched
  \/ Booted

Next == UserActs \/ LoaderActs

Spec == Init /\ [][Next]_vars

(***************************************************************************)
(* Properties.                                                              *)
(***************************************************************************)
ChoiceTypes ==
  /\ listed \subseteq Urls /\ disk \subseteq Locals /\ known \subseteq Locals
  /\ disabled \subseteq Sources /\ enabled \subseteq Sources
  /\ disabled \cap enabled = {}

LoadTypes ==
  /\ status \in [Sources -> Rows]
  /\ task \in [Tasks -> Running \cup {NotBegun, Over}]

ClaimTypes ==
  /\ owner \in [Ids -> Sources \cup {Nobody}]
  /\ claim \in [Sources -> Ids \cup {NoId}]

LiveTypes ==
  /\ disposers \in [Sources -> Tasks \cup {NoTask}]
  /\ panel \in [Ids -> [load : Tasks \cup {NoTask}, source : Sources \cup {Nobody}]]

BootTypes ==
  /\ boot \in [stage : {"idle", "discovering", "fetching", "resolving", "done"},
                fetch : SUBSET Sources, queue : [Ids -> Seq(Sources)]]
  /\ refresh \in [stage : {"idle", "loading"}, seen : SUBSET Locals,
                   loads : SUBSET Attempts]
  /\ off \subseteq Sources /\ meddled \subseteq Sources

\* Type correctness; the two choices about a source exclude each other.
TypeOK == ChoiceTypes /\ LoadTypes /\ ClaimTypes /\ LiveTypes /\ BootTypes

\* A source that is loaded is the one that owns its extension id, so that no
\* two are active for one id; as long as nobody acted upon it while the
\* bootstrap was running.
ActiveOwnsItsId ==
  \A s \in Sources \ meddled :
    status[s].is = "loaded" => owner[status[s].id] = s

\* A row that spins has a load under way that will settle it, or waits for the
\* bootstrap.
NoEndlessSpinner ==
  \A s \in Sources : status[s].is = "loading" =>
    \/ \E t \in Tasks : IsRunning(t) /\ task[t].source = s /\ task[t].current
    \/ boot.stage = "fetching" /\ s \in boot.fetch
    \/ \E i \in Ids : \E k \in DOMAIN boot.queue[i] : boot.queue[i][k] = s

\* Nothing stays registered of a load that failed or was superseded: what is on
\* display belongs to a source that can undo it or to an activation under way;
\* again for a source that nobody acted upon during the bootstrap, whose own
\* load forgets the registrations of an earlier one.
NothingLeftBehind ==
  \A i \in Ids : panel[i] # NoPanel =>
    \/ IsRunning(panel[i].load)
    \/ disposers[panel[i].source] = panel[i].load
    \/ panel[i].source \in meddled

\* A source that was turned off, "removed mid-load" above all, stays off until a
\* load is asked for: no load under way brings its row or its panel back; again
\* where nobody acted upon the source during the bootstrap, which does.
OffStaysOffLater ==
  \A s \in off \ meddled : status[s].is \notin {"loading", "loaded"}
=============================================================================
