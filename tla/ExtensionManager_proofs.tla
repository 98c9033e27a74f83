----------------------- MODULE ExtensionManager_proofs -----------------------
(***************************************************************************)
(* What holds of the extensions for every finite set of sources, every set  *)
(* of ids and any number of loads: the types, that no two sources are       *)
(* active for an id, that spinners have somebody to end them, that what a   *)
(* load has registered can be undone, and that what is off stays off.       *)
(***************************************************************************)
EXTENDS ExtensionManager, SequenceTheorems, FiniteSetTheorems, TLAPS

-----------------------------------------------------------------------------
(* The inductive invariant *)

\* Load t is the last one asked for of source s.
Current(t, s) == IsRunning(t) /\ task[t].source = s /\ task[t].current

Queued(s) == \E i \in Ids : s \in Range(boot.queue[i])

\* The bootstrap has the source in hand and no load of it.
Waiting(s) == (boot.stage = "fetching" /\ s \in boot.fetch) \/ Queued(s)

\* A load that activates knows its id; a source has one load that is current.
LoadsInv ==
  /\ \A t \in Tasks : IsRunning(t) /\ task[t].phase = "activating" => task[t].id \in Ids
  /\ \A t, u \in Tasks : \A s \in Sources : Current(t, s) /\ Current(u, s) => t = u

\* The loads of the bootstrap: of their own source, while it resolves, one per
\* id; the queues hold a source once, whose load is to come.
BootInv ==
  /\ boot.stage # "resolving" => boot.queue = NoQueues
  /\ boot.stage \notin {"resolving", "done"} => \A s \in Sources : task[s] = NotBegun
  /\ \A s \in Sources : Queued(s) => task[s] = NotBegun
  /\ \A s \in Sources : IsRunning(s) =>
       boot.stage = "resolving" /\ task[s].source = s /\ task[s].phase = "activating"
  /\ \A r, s \in Sources :
       IsRunning(r) /\ IsRunning(s) /\ task[r].id = task[s].id => r = s
  /\ \A i \in Ids : IsInjective(boot.queue[i])
  /\ \A i, j \in Ids : \A s \in Sources :
       s \in Range(boot.queue[i]) /\ s \in Range(boot.queue[j]) => i = j
  /\ refresh.stage = "loading" => boot.stage # "idle"

\* Nobody asked for a load before the bootstrap was done but of a source that
\* counts as meddled with.
MeddledInv ==
  boot.stage # "done" =>
    \A t \in Attempts : IsRunning(t) => task[t].source \in meddled

\* The row of a source says where it is.
RowInv ==
  \A s \in Sources \ meddled :
    /\ \A t \in Tasks : Current(t, s) => status[s].is = "loading"
    /\ Waiting(s) => status[s].is = "loading" /\ \A t \in Tasks : ~Current(t, s)
    /\ disposers[s] # NoTask => status[s].is = "loaded"
    /\ boot.stage \in {"idle", "discovering"} => status[s].is = "none"
    /\ boot.stage = "fetching" => status[s].is # "loaded"
    /\ s \in Urls \ listed =>
         /\ status[s].is = "none"
         /\ boot.stage \in {"discovering", "fetching"} => s \notin boot.fetch

\* Who is active, or about to be, owns the id; who waits for an id has nobody
\* active before it.
OwnerInv ==
  /\ \A s \in Sources \ meddled : \A t \in Tasks :
       Current(t, s) /\ task[t].phase = "activating" => owner[task[t].id] = s
  /\ \A i \in Ids : boot.queue[i] # <<>> =>
       \A s \in Sources \ meddled : status[s].is = "loaded" => status[s].id # i
  /\ \A s \in Sources : status[s].is = "loaded" => status[s].id \in Ids

\* What is on display was registered by a load of its source.
PanelInv ==
  \A i \in Ids : panel[i] # NoPanel =>
    /\ panel[i].load \in Tasks /\ panel[i].source \in Sources
    /\ task[panel[i].load] # NotBegun
    /\ panel[i].load \in Sources => panel[i].source = panel[i].load
    /\ IsRunning(panel[i].load) => /\ task[panel[i].load].source = panel[i].source
                                   /\ task[panel[i].load].phase = "activating"

\* Nothing counts as off before the bootstrap is done.
OffInv == \A s \in off \ meddled : boot.stage = "done"

ExtInv ==
  /\ TypeOK /\ LoadsInv /\ BootInv /\ MeddledInv /\ RowInv /\ OwnerInv /\ PanelInv
  /\ OffInv /\ ActiveOwnsItsId /\ NoEndlessSpinner /\ NothingLeftBehind
  /\ OffStaysOffLater

-----------------------------------------------------------------------------
(* Loads *)

\* A load after those of the sources S have been superseded.
Stale(a, S) ==
  IF a \notin {NotBegun, Over} /\ a.source \in S
  THEN [a EXCEPT !.current = FALSE] ELSE a

Loads == Running \cup {NotBegun, Over}

\* A load that is superseded goes on, and is current no more.
LEMMA StaleFacts ==
  ASSUME NEW a \in Loads, NEW S
  PROVE  /\ Stale(a, S) \in Loads
         /\ Stale(a, S) \notin {NotBegun, Over} <=> a \notin {NotBegun, Over}
         /\ Stale(a, S) = NotBegun <=> a = NotBegun
         /\ a \notin {NotBegun, Over} =>
              /\ Stale(a, S).source = a.source /\ Stale(a, S).phase = a.phase
              /\ Stale(a, S).id = a.id
              /\ Stale(a, S).current <=> a.current /\ a.source \notin S
<1>1. CASE a \in {NotBegun, Over} \/ (a \in Running /\ a.source \notin S)
  <2>1. Stale(a, S) = a
    BY <1>1 DEF Stale
  <2> QED BY <1>1, <2>1 DEF Loads, Running
<1>2. CASE a \in Running /\ a \notin {NotBegun, Over} /\ a.source \in S
  <2>1. Stale(a, S) = [source |-> a.source, phase |-> a.phase, id |-> a.id,
                       current |-> FALSE]
    BY <1>2 DEF Stale, Running
  <2>2. Stale(a, S) \in Running
    BY <1>2, <2>1 DEF Running
  <2>3. Stale(a, S) # NotBegun /\ Stale(a, S) # Over /\ Stale(a, S) \in Loads
    BY <2>2, NullsAssumption DEF Loads
  <2>4. /\ Stale(a, S).source = a.source /\ Stale(a, S).phase = a.phase
        /\ Stale(a, S).id = a.id /\ Stale(a, S).current = FALSE
    BY <2>1
  <2> QED BY <1>2, <2>3, <2>4
<1> QED BY <1>1, <1>2 DEF Loads

\* What superseding makes of each load.
LEMMA SupersededIs ==
  ASSUME NEW tasks \in [Tasks -> Loads], NEW S, NEW t \in Tasks
  PROVE  Superseded(tasks, S)[t] = Stale(tasks[t], S)
  BY DEF Superseded, Stale

\* A load under way has the type of one, and a source.
LEMMA RunningTyped ==
  ASSUME TypeOK, NEW t \in Tasks, IsRunning(t)
  PROVE  task[t] \in Running /\ task[t].source \in Sources
  BY DEF TypeOK, LoadTypes, IsRunning, Running

\* A load that is started or activated is a load under way.
LEMMA StartTyped ==
  ASSUME NEW s \in Sources
  PROVE  /\ Started(s) \in Loads /\ Started(s) \notin {NotBegun, Over}
         /\ \A i \in Ids : /\ Activating(s, i) \in Loads
                          /\ Activating(s, i) \notin {NotBegun, Over}
<1>1. Started(s) \in Running /\ \A i \in Ids : Activating(s, i) \in Running
  BY DEF Started, Activating, Running
<1> QED BY <1>1, NullsAssumption DEF Loads

\* The loads of S are superseded and nothing else happens to loads.
LEMMA StopLoads ==
  ASSUME TypeOK, NEW S, task' = Superseded(task, S)
  PROVE  /\ task' \in [Tasks -> Loads]
         /\ \A u \in Tasks :
              /\ IsRunning(u)' <=> IsRunning(u)
              /\ task'[u] = NotBegun <=> task[u] = NotBegun
              /\ IsRunning(u) => /\ task'[u].source = task[u].source
                                 /\ task'[u].phase = task[u].phase
                                 /\ task'[u].id = task[u].id
              /\ \A r \in Sources : Current(u, r)' <=> Current(u, r) /\ r \notin S
<1>1. task \in [Tasks -> Loads]
  BY DEF TypeOK, LoadTypes, Loads
<1>2. \A u \in Tasks : task'[u] = Stale(task[u], S) /\ task[u] \in Loads
  BY <1>1, SupersededIs
<1>3. task' \in [Tasks -> Loads]
  <2>1. \A u \in Tasks : task'[u] \in Loads
    BY <1>2, StaleFacts
  <2>2. task' = [u \in Tasks |-> task'[u]]
    BY DEF Superseded
  <2> QED BY <2>1, <2>2
<1>4. ASSUME NEW u \in Tasks
      PROVE  /\ IsRunning(u)' <=> IsRunning(u)
             /\ task'[u] = NotBegun <=> task[u] = NotBegun
             /\ IsRunning(u) => /\ task'[u].source = task[u].source
                                /\ task'[u].phase = task[u].phase
                                /\ task'[u].id = task[u].id
                                /\ task'[u].current <=> task[u].current
                                                        /\ task[u].source \notin S
  BY <1>2, StaleFacts DEF IsRunning
<1> QED BY <1>3, <1>4 DEF Current

\* Load t of source s begins: the other loads of s are superseded.
LEMMA LoadLoads ==
  ASSUME TypeOK, NEW t \in Tasks, NEW s \in Sources, Load(t, s)
  PROVE  /\ task' \in [Tasks -> Loads]
         /\ task'[t] = Started(s) /\ IsRunning(t)' /\ ~IsRunning(t)
         /\ task'[t].source = s /\ task'[t].phase = "fetching"
         /\ \A u \in Tasks \ {t} :
              /\ IsRunning(u)' <=> IsRunning(u)
              /\ task'[u] = NotBegun <=> task[u] = NotBegun
              /\ IsRunning(u) => /\ task'[u].source = task[u].source
                                 /\ task'[u].phase = task[u].phase
                                 /\ task'[u].id = task[u].id
         /\ \A u \in Tasks : \A r \in Sources :
              Current(u, r)' <=> (u = t /\ r = s) \/ (u # t /\ r # s /\ Current(u, r))
<1>1. task \in [Tasks -> Loads]
  BY DEF TypeOK, LoadTypes, Loads
<1>2. /\ task'[t] = Started(s) /\ task[t] = NotBegun
      /\ \A u \in Tasks \ {t} : task'[u] = Stale(task[u], {s}) /\ task[u] \in Loads
  BY <1>1, SupersededIs DEF Load, Superseded
<1>3. task' \in [Tasks -> Loads]
  <2>1. \A u \in Tasks : task'[u] \in Loads
    BY <1>2, StaleFacts, StartTyped
  <2>2. task' = [u \in Tasks |-> task'[u]]
    BY DEF Load, Superseded
  <2> QED BY <2>1, <2>2
<1>4. IsRunning(t)' /\ ~IsRunning(t)
  BY <1>2, StartTyped DEF IsRunning
<1>5. ASSUME NEW u \in Tasks \ {t}
      PROVE  /\ IsRunning(u)' <=> IsRunning(u)
             /\ task'[u] = NotBegun <=> task[u] = NotBegun
             /\ IsRunning(u) => /\ task'[u].source = task[u].source
                                /\ task'[u].phase = task[u].phase
                                /\ task'[u].id = task[u].id
                                /\ task'[u].current <=> task[u].current
                                                        /\ task[u].source \notin {s}
  BY <1>2, StaleFacts DEF IsRunning
<1>6. task'[t].source = s /\ task'[t].phase = "fetching" /\ task'[t].current
  BY <1>2 DEF Started
<1> QED BY <1>2, <1>3, <1>4, <1>5, <1>6 DEF Current

\* A current load belongs to its source alone, and loads nobody began are not
\* current.
LEMMA CurrentFacts ==
  ASSUME NEW u, NEW r, Current(u, r)
  PROVE  IsRunning(u) /\ task[u].source = r /\ task[u] # NotBegun
  BY DEF Current, IsRunning

-----------------------------------------------------------------------------
(* Unloading *)

\* What unloading the sources S leaves alone: the registrations and the id of
\* the others, and what is on display and can be undone.
Gentle(S) ==
  /\ ClaimTypes' /\ LiveTypes'
  /\ \A r \in Sources \ S : disposers'[r] = disposers[r]
  /\ \A r \in S : disposers'[r] = NoTask \/ r \in meddled
  /\ \A i \in Ids, r \in Sources \ S : owner[i] = r => owner'[i] = r
  /\ \A i \in Ids : panel'[i] # NoPanel =>
       /\ panel'[i] = panel[i]
       /\ \A r \in Sources : disposers[r] = panel[i].load => disposers'[r] = panel[i].load

\* Unloading a set of sources takes away only what their own loads registered.
LEMMA UnloadIsGentle ==
  ASSUME TypeOK, NEW S \in SUBSET Sources, UnloadState(S)
  PROVE  Gentle(S)
<1> USE DEF TypeOK, ClaimTypes, LiveTypes
<1>1. ClaimTypes'
  <2>1. \A i \in Ids : owner'[i] \in {owner[i], Nobody}
    BY DEF UnloadState, ReleasedOwner
  <2>2. \A r \in Sources : claim'[r] \in {claim[r], NoId}
    BY DEF UnloadState, ReleasedClaim
  <2>3. owner' = [i \in Ids |-> owner'[i]] /\ claim' = [r \in Sources |-> claim'[r]]
    BY DEF UnloadState, ReleasedOwner, ReleasedClaim
  <2>4. owner' \in [Ids -> Sources \cup {Nobody}]
    BY <2>1, <2>3
  <2>5. claim' \in [Sources -> Ids \cup {NoId}]
    BY <2>2, <2>3
  <2> QED BY <2>4, <2>5
<1>2. \A i \in Ids : /\ panel'[i] \in {panel[i], NoPanel}
                     /\ panel[i].load \in {disposers[r] : r \in S} => panel'[i] = NoPanel
  BY DEF UnloadState, Undone
<1>3. \A r \in Sources : disposers'[r] = IF r \in S THEN NoTask ELSE disposers[r]
  BY DEF UnloadState
<1>4. LiveTypes'
  <2>1. panel' = [i \in Ids |-> panel'[i]] /\ disposers' = [r \in Sources |-> disposers'[r]]
    BY DEF UnloadState, Undone
  <2>2. NoPanel \in [load : Tasks \cup {NoTask}, source : Sources \cup {Nobody}]
    BY DEF NoPanel
  <2>3. panel' \in [Ids -> [load : Tasks \cup {NoTask}, source : Sources \cup {Nobody}]]
    BY <1>2, <2>1, <2>2
  <2>4. disposers' \in [Sources -> Tasks \cup {NoTask}]
    BY <1>3, <2>1
  <2> QED BY <2>3, <2>4
<1>5. \A i \in Ids, r \in Sources \ S : owner[i] = r => owner'[i] = r
  BY DEF UnloadState, ReleasedOwner
<1>6. \A i \in Ids : panel'[i] # NoPanel =>
        /\ panel'[i] = panel[i]
        /\ \A r \in Sources : disposers[r] = panel[i].load => disposers'[r] = panel[i].load
  BY <1>2, <1>3
<1> QED BY <1>1, <1>3, <1>4, <1>5, <1>6 DEF Gentle

\* So is leaving alone a source without registrations.
LEMMA LeavingIsGentle ==
  ASSUME TypeOK, NEW s \in Sources, UNCHANGED <<claimVars, liveVars>>,
         disposers[s] = NoTask \/ s \in meddled
  PROVE  Gentle({s})
  BY DEF TypeOK, Gentle, claimVars, liveVars, ClaimTypes, LiveTypes

-----------------------------------------------------------------------------
(* A source is loaded on request *)

\* A load that a user or an agent asks for: enabling, adding and reloading are cases.
LEMMA LoadStep ==
  ASSUME ExtInv, NEW t \in Attempts, NEW s \in Sources, Load(t, s), Asked(s),
         Meddle({s}), UNCHANGED <<boot, refresh>>, boot.stage # "idle",
         ChoiceTypes', Gentle({s}), listed \subseteq listed',
         s \in Urls \ listed' => s \in meddled
  PROVE  ExtInv'
<1>0. /\ TypeOK /\ t \in Tasks /\ t \notin Sources
      /\ boot' = boot /\ refresh' = refresh /\ off' = off \ {s}
  BY KindsAssumption DEF ExtInv, Tasks, Asked
<1> DEFINE PMeddle == /\ meddled \subseteq meddled'
                      /\ s \notin meddled' => boot.stage = "done"
<1>1. PMeddle
  BY <1>0 DEF Meddle
<1> DEFINE PTask ==
         /\ task' \in [Tasks -> Loads]
         /\ task'[t] = Started(s) /\ IsRunning(t)' /\ ~IsRunning(t)
         /\ task'[t].source = s /\ task'[t].phase = "fetching"
         /\ \A u \in Tasks \ {t} :
              /\ IsRunning(u)' <=> IsRunning(u)
              /\ task'[u] = NotBegun <=> task[u] = NotBegun
              /\ IsRunning(u) => /\ task'[u].source = task[u].source
                                 /\ task'[u].phase = task[u].phase
                                 /\ task'[u].id = task[u].id
<1> DEFINE PCurrent == \A u \in Tasks : \A r \in Sources :
              Current(u, r)' <=> (u = t /\ r = s) \/ (u # t /\ r # s /\ Current(u, r))
<1>2. PTask /\ PCurrent /\ task[t] = NotBegun
  BY <1>0, LoadLoads DEF Load
<1> DEFINE PStatus == /\ status'[s] = Plain("loading")
                      /\ \A r \in Sources \ {s} : status'[r] = status[r]
<1>3. PStatus /\ status' \in [Sources -> Rows]
  <2>1. Plain("loading") \in Rows
    BY DEF Plain, Status, Rows
  <2> QED BY <1>0, <2>1 DEF Load, TypeOK, LoadTypes
<1>4. Plain("loading").is = "loading"
  BY DEF Plain, Status
<1>5. \A r \in Sources : (Queued(r)' <=> Queued(r)) /\ (Waiting(r)' <=> Waiting(r))
  BY <1>0 DEF Queued, Waiting
<1>6. boot.stage = "done" => \A r \in Sources : ~Waiting(r)
  BY DEF ExtInv, BootInv, Waiting, Queued, NoQueues, Range
<1> HIDE DEF PMeddle, PTask, PCurrent, PStatus
<1>7. TypeOK'
  <2>1. LoadTypes'
    BY <1>2, <1>3 DEF LoadTypes, PTask, Loads
  <2>2. BootTypes'
    <3>1. meddled' \subseteq Sources /\ off' \subseteq Sources
      BY <1>0 DEF TypeOK, BootTypes, Meddle
    <3> QED BY <1>0, <3>1 DEF TypeOK, BootTypes
  <2> QED BY <2>1, <2>2 DEF TypeOK, Gentle
<1>8. LoadsInv'
  <2>1. \A u \in Tasks : IsRunning(u)' /\ task'[u].phase = "activating" => task'[u].id \in Ids
    BY <1>2 DEF PTask, ExtInv, LoadsInv
  <2>2. \A u, v \in Tasks : \A r \in Sources : Current(u, r)' /\ Current(v, r)' => u = v
    BY <1>2 DEF PCurrent, ExtInv, LoadsInv
  <2> QED BY <2>1, <2>2 DEF LoadsInv
<1>9. BootInv'
  <2>1. \A r \in Sources : r \in Tasks \ {t}
    BY <1>0 DEF Tasks
  <2> QED BY <1>0, <1>2, <1>5, <2>1 DEF PTask, ExtInv, BootInv
<1>10. MeddledInv'
  <2> SUFFICES ASSUME boot.stage # "done", NEW u \in Attempts, IsRunning(u)'
               PROVE  task'[u].source \in meddled'
    BY <1>0 DEF MeddledInv
  <2>1. CASE u = t
    BY <1>1, <1>2, <2>1 DEF PMeddle, PTask
  <2>2. CASE u # t
    BY <1>1, <1>2, <2>2 DEF PMeddle, PTask, ExtInv, MeddledInv, Tasks
  <2> QED BY <2>1, <2>2
<1>11. RowInv'
  <2> SUFFICES ASSUME NEW r \in Sources \ meddled'
               PROVE /\ \A u \in Tasks : Current(u, r)' => status'[r].is = "loading"
                     /\ Waiting(r)' => status'[r].is = "loading" /\ \A u \in Tasks : ~Current(u, r)'
                     /\ disposers'[r] # NoTask => status'[r].is = "loaded"
                     /\ boot.stage \in {"idle", "discovering"} => status'[r].is = "none"
                     /\ boot.stage = "fetching" => status'[r].is # "loaded"
                     /\ r \in Urls \ listed' =>
                          /\ status'[r].is = "none"
                          /\ boot.stage \in {"discovering", "fetching"} => r \notin boot.fetch
    BY <1>0 DEF RowInv
  <2>0. r \in Sources \ meddled
    BY <1>1 DEF PMeddle
  <2>1. CASE r = s
    <3>1. boot.stage = "done" /\ ~Waiting(r)'
      BY <1>1, <1>5, <1>6, <2>1 DEF PMeddle
    <3>2. status'[r].is = "loading" /\ disposers'[r] = NoTask /\ r \notin Urls \ listed'
      BY <1>3, <1>4, <2>0, <2>1 DEF PStatus, Gentle
    <3> QED BY <3>1, <3>2
  <2>2. CASE r # s
    <3>1. \A u \in Tasks : Current(u, r)' => Current(u, r)
      BY <1>2, <2>2 DEF PCurrent
    <3>2. status'[r] = status[r] /\ disposers'[r] = disposers[r]
      BY <1>3, <2>2 DEF PStatus, Gentle
    <3> QED BY <1>5, <2>0, <3>1, <3>2 DEF ExtInv, RowInv
  <2> QED BY <2>1, <2>2
<1>12. OwnerInv'
  <2>1. ASSUME NEW r \in Sources \ meddled', NEW u \in Tasks, Current(u, r)',
               task'[u].phase = "activating"
        PROVE  owner'[task'[u].id] = r
    <3>1. u # t /\ r # s /\ Current(u, r) /\ IsRunning(u)
      BY <1>2, <2>1 DEF PTask, PCurrent, Current
    <3>2. task[u].phase = "activating" /\ task'[u].id = task[u].id
      BY <1>2, <2>1, <3>1 DEF PTask
    <3>3. owner[task[u].id] = r /\ task[u].id \in Ids
      BY <1>1, <3>1, <3>2 DEF PMeddle, ExtInv, OwnerInv, LoadsInv
    <3> QED BY <3>1, <3>2, <3>3 DEF Gentle
  <2>2. \A i \in Ids : boot.queue[i] # <<>> =>
          \A r \in Sources \ meddled' : status'[r].is = "loaded" => status'[r].id # i
    BY <1>1, <1>3, <1>4 DEF PMeddle, PStatus, ExtInv, OwnerInv
  <2>3. \A r \in Sources : status'[r].is = "loaded" => status'[r].id \in Ids
    BY <1>3, <1>4 DEF PStatus, ExtInv, OwnerInv
  <2> QED BY <1>0, <2>1, <2>2, <2>3 DEF OwnerInv
<1>13. PanelInv'
  <2> SUFFICES ASSUME NEW i \in Ids, panel'[i] # NoPanel
               PROVE /\ panel'[i].load \in Tasks /\ panel'[i].source \in Sources
                     /\ task'[panel'[i].load] # NotBegun
                     /\ panel'[i].load \in Sources => panel'[i].source = panel'[i].load
                     /\ task'[panel'[i].load] \notin {NotBegun, Over} =>
                          /\ task'[panel'[i].load].source = panel'[i].source
                          /\ task'[panel'[i].load].phase = "activating"
    BY DEF PanelInv, NoPanel, IsRunning
  <2>1. panel'[i] = panel[i]
    BY DEF Gentle
  <2>2. /\ panel[i].load \in Tasks /\ panel[i].source \in Sources
        /\ task[panel[i].load] # NotBegun
        /\ panel[i].load \in Sources => panel[i].source = panel[i].load
        /\ IsRunning(panel[i].load) => /\ task[panel[i].load].source = panel[i].source
                                       /\ task[panel[i].load].phase = "activating"
    BY <2>1 DEF ExtInv, PanelInv
  <2>3. panel[i].load # t
    BY <1>2, <2>2
  <2> QED BY <1>2, <2>1, <2>2, <2>3 DEF PTask, IsRunning
<1>14. OffInv'
  BY <1>0, <1>1 DEF PMeddle, ExtInv, OffInv
<1>15. ActiveOwnsItsId'
  <2> SUFFICES ASSUME NEW r \in Sources \ meddled', status'[r].is = "loaded"
               PROVE  owner'[status'[r].id] = r
    BY DEF ActiveOwnsItsId
  <2>1. r # s /\ status'[r] = status[r] /\ r \in Sources \ meddled
    BY <1>1, <1>3, <1>4 DEF PMeddle, PStatus
  <2>2. owner[status[r].id] = r /\ status[r].id \in Ids
    BY <2>1 DEF ExtInv, ActiveOwnsItsId, OwnerInv
  <2> QED BY <2>1, <2>2 DEF Gentle
<1>16. NoEndlessSpinner'
  <2> SUFFICES ASSUME NEW r \in Sources, status'[r].is = "loading"
               PROVE  (\E u \in Tasks : Current(u, r)') \/ Waiting(r)'
    BY DEF NoEndlessSpinner, Current, Waiting, Queued, Range
  <2>1. CASE r = s
    BY <1>0, <1>2, <2>1 DEF PCurrent
  <2>2. CASE r # s
    <3>1. (\E u \in Tasks : Current(u, r)) \/ Waiting(r)
      BY <1>3, <2>2 DEF PStatus, ExtInv, NoEndlessSpinner, Current, Waiting, Queued, Range
    <3>2. \A u \in Tasks : Current(u, r) => Current(u, r)'
      BY <1>2, <2>2, CurrentFacts DEF PCurrent
    <3> QED BY <1>5, <3>1, <3>2
  <2> QED BY <2>1, <2>2
<1>17. NothingLeftBehind'
  <2> SUFFICES ASSUME NEW i \in Ids, panel'[i] # NoPanel
               PROVE \/ task'[panel'[i].load] \notin {NotBegun, Over}
                     \/ disposers'[panel'[i].source] = panel'[i].load
                     \/ panel'[i].source \in meddled'
    BY DEF NothingLeftBehind, NoPanel, IsRunning
  <2>1. panel'[i] = panel[i]
    BY DEF Gentle
  <2>2. /\ panel[i].load \in Tasks /\ panel[i].source \in Sources
        /\ task[panel[i].load] # NotBegun
    BY <2>1 DEF ExtInv, PanelInv
  <2>3. CASE IsRunning(panel[i].load)
    BY <1>2, <2>1, <2>2, <2>3 DEF PTask, IsRunning
  <2>4. CASE disposers[panel[i].source] = panel[i].load
    BY <2>1, <2>2, <2>4 DEF Gentle
  <2>5. CASE panel[i].source \in meddled
    BY <1>1, <2>1, <2>5 DEF PMeddle
  <2> QED BY <2>1, <2>3, <2>4, <2>5 DEF ExtInv, NothingLeftBehind
<1>18. OffStaysOffLater'
  <2>1. \A r \in off' \ meddled' : r \in Sources \ {s} /\ r \in off \ meddled
    BY <1>0, <1>1 DEF PMeddle, TypeOK, BootTypes
  <2> QED BY <1>3, <2>1 DEF PStatus, ExtInv, OffStaysOffLater
<1> QED BY <1>7, <1>8, <1>9, <1>10, <1>11, <1>12, <1>13, <1>14, <1>15, <1>16,
           <1>17, <1>18 DEF ExtInv

-----------------------------------------------------------------------------
(* Sources are turned off *)

\* Sources that are unloaded on request: disabling and removing are cases.
LEMMA StopStep ==
  ASSUME ExtInv, NEW S \in SUBSET Sources, task' = Superseded(task, S),
         TurnedOff(S), Meddle(S), boot' = boot, boot.stage # "idle",
         ChoiceTypes', Gentle(S), status' \in [Sources -> Rows],
         refresh' \in [stage : {"idle", "loading"}, seen : SUBSET Locals,
                       loads : SUBSET Attempts],
         \A r \in Sources \ S : status'[r] = status[r],
         \A r \in S : status'[r].is \in {"none", "disabled", "missing"},
         (Urls \ listed') \ S \subseteq Urls \ listed,
         \A r \in (S \cap Urls) \ (listed' \cup meddled) : status'[r].is = "none"
  PROVE  ExtInv'
<1>0. /\ TypeOK
      /\ boot' = boot /\ off' = off \cup S
  BY DEF ExtInv, TurnedOff
<1> DEFINE PMeddle == /\ meddled \subseteq meddled'
                      /\ \A r \in S : r \notin meddled' => boot.stage = "done"
<1>1. PMeddle
  BY <1>0 DEF Meddle
<1> DEFINE PTask ==
         /\ task' \in [Tasks -> Loads]
         /\ \A u \in Tasks :
              /\ IsRunning(u)' <=> IsRunning(u)
              /\ task'[u] = NotBegun <=> task[u] = NotBegun
              /\ IsRunning(u) => /\ task'[u].source = task[u].source
                                 /\ task'[u].phase = task[u].phase
                                 /\ task'[u].id = task[u].id
<1> DEFINE PCurrent == \A u \in Tasks : \A r \in Sources :
              Current(u, r)' <=> Current(u, r) /\ r \notin S
<1>2. PTask /\ PCurrent
  BY <1>0, StopLoads
<1> DEFINE PStatus ==
      /\ \A r \in Sources \ S : status'[r] = status[r]
      /\ \A r \in S : status'[r].is \notin {"loading", "loaded"}
<1>3. PStatus /\ \A r \in (S \cap Urls) \ (listed' \cup meddled) : status'[r].is = "none"
  OBVIOUS
<1>5. \A r \in Sources : (Queued(r)' <=> Queued(r)) /\ (Waiting(r)' <=> Waiting(r))
  BY <1>0 DEF Queued, Waiting
<1>6. boot.stage = "done" => \A r \in Sources : ~Waiting(r)
  BY DEF ExtInv, BootInv, Waiting, Queued, NoQueues, Range
<1> HIDE DEF PMeddle, PTask, PCurrent, PStatus
<1>7. TypeOK'
  <2>1. LoadTypes'
    BY <1>2 DEF LoadTypes, PTask, Loads
  <2>2. BootTypes'
    <3>1. meddled' \subseteq Sources /\ off' \subseteq Sources
      BY <1>0 DEF TypeOK, BootTypes, Meddle
    <3> QED BY <1>0, <3>1 DEF TypeOK, BootTypes
  <2> QED BY <2>1, <2>2 DEF TypeOK, Gentle
<1>8. LoadsInv'
  <2>1. \A u \in Tasks : IsRunning(u)' /\ task'[u].phase = "activating" => task'[u].id \in Ids
    BY <1>2 DEF PTask, ExtInv, LoadsInv
  <2>2. \A u, v \in Tasks : \A r \in Sources : Current(u, r)' /\ Current(v, r)' => u = v
    BY <1>2 DEF PCurrent, ExtInv, LoadsInv
  <2> QED BY <2>1, <2>2 DEF LoadsInv
<1>9. BootInv'
  <2>1. \A r \in Sources : r \in Tasks
    BY DEF Tasks
  <2> QED BY <1>0, <1>2, <1>5, <2>1 DEF PTask, ExtInv, BootInv
<1>10. MeddledInv'
  BY <1>0, <1>1, <1>2 DEF PMeddle, PTask, ExtInv, MeddledInv, Tasks
<1>11. RowInv'
  <2> SUFFICES ASSUME NEW r \in Sources \ meddled'
               PROVE /\ \A u \in Tasks : Current(u, r)' => status'[r].is = "loading"
                     /\ Waiting(r)' => status'[r].is = "loading" /\ \A u \in Tasks : ~Current(u, r)'
                     /\ disposers'[r] # NoTask => status'[r].is = "loaded"
                     /\ boot.stage \in {"idle", "discovering"} => status'[r].is = "none"
                     /\ boot.stage = "fetching" => status'[r].is # "loaded"
                     /\ r \in Urls \ listed' =>
                          /\ status'[r].is = "none"
                          /\ boot.stage \in {"discovering", "fetching"} => r \notin boot.fetch
    BY <1>0 DEF RowInv
  <2>0. r \in Sources \ meddled
    BY <1>1 DEF PMeddle
  <2>1. CASE r \in S
    <3>1. boot.stage = "done" /\ ~Waiting(r)' /\ \A u \in Tasks : ~Current(u, r)'
      BY <1>1, <1>2, <1>5, <1>6, <2>1 DEF PMeddle, PCurrent
    <3>2. disposers'[r] = NoTask
      BY <2>0, <2>1 DEF Gentle
    <3>3. r \in Urls \ listed' => status'[r].is = "none"
      BY <1>3, <2>0, <2>1
    <3> QED BY <3>1, <3>2, <3>3
  <2>2. CASE r \notin S
    <3>1. \A u \in Tasks : Current(u, r)' => Current(u, r)
      BY <1>2, <2>2 DEF PCurrent
    <3>2. status'[r] = status[r] /\ disposers'[r] = disposers[r]
      BY <1>3, <2>2 DEF PStatus, Gentle
    <3>3. r \in Urls \ listed' => r \in Urls \ listed
      BY <2>2
    <3> QED BY <1>5, <2>0, <3>1, <3>2, <3>3 DEF ExtInv, RowInv
  <2> QED BY <2>1, <2>2
<1>12. OwnerInv'
  <2>1. ASSUME NEW r \in Sources \ meddled', NEW u \in Tasks, Current(u, r)',
               task'[u].phase = "activating"
        PROVE  owner'[task'[u].id] = r
    <3>1. r \notin S /\ Current(u, r) /\ IsRunning(u)
      BY <1>2, <2>1 DEF PCurrent, Current
    <3>2. task[u].phase = "activating" /\ task'[u].id = task[u].id
      BY <1>2, <2>1, <3>1 DEF PTask
    <3>3. owner[task[u].id] = r /\ task[u].id \in Ids
      BY <1>1, <3>1, <3>2 DEF PMeddle, ExtInv, OwnerInv, LoadsInv
    <3> QED BY <3>1, <3>2, <3>3 DEF Gentle
  <2>2. \A i \in Ids : boot.queue[i] # <<>> =>
          \A r \in Sources \ meddled' : status'[r].is = "loaded" => status'[r].id # i
    BY <1>1, <1>3 DEF PMeddle, PStatus, ExtInv, OwnerInv
  <2>3. \A r \in Sources : status'[r].is = "loaded" => status'[r].id \in Ids
    BY <1>3 DEF PStatus, ExtInv, OwnerInv
  <2> QED BY <1>0, <2>1, <2>2, <2>3 DEF OwnerInv
<1>13. PanelInv'
  <2> SUFFICES ASSUME NEW i \in Ids, panel'[i] # NoPanel
               PROVE /\ panel'[i].load \in Tasks /\ panel'[i].source \in Sources
                     /\ task'[panel'[i].load] # NotBegun
                     /\ panel'[i].load \in Sources => panel'[i].source = panel'[i].load
                     /\ task'[panel'[i].load] \notin {NotBegun, Over} =>
                          /\ task'[panel'[i].load].source = panel'[i].source
                          /\ task'[panel'[i].load].phase = "activating"
    BY DEF PanelInv, NoPanel, IsRunning
  <2>1. panel'[i] = panel[i]
    BY DEF Gentle
  <2>2. /\ panel[i].load \in Tasks /\ panel[i].source \in Sources
        /\ task[panel[i].load] # NotBegun
        /\ panel[i].load \in Sources => panel[i].source = panel[i].load
        /\ IsRunning(panel[i].load) => /\ task[panel[i].load].source = panel[i].source
                                       /\ task[panel[i].load].phase = "activating"
    BY <2>1 DEF ExtInv, PanelInv
  <2> QED BY <1>2, <2>1, <2>2 DEF PTask, IsRunning
<1>14. OffInv'
  BY <1>0, <1>1 DEF PMeddle, ExtInv, OffInv
<1>15. ActiveOwnsItsId'
  <2> SUFFICES ASSUME NEW r \in Sources \ meddled', status'[r].is = "loaded"
               PROVE  owner'[status'[r].id] = r
    BY DEF ActiveOwnsItsId
  <2>1. r \notin S /\ status'[r] = status[r] /\ r \in Sources \ meddled
    BY <1>1, <1>3 DEF PMeddle, PStatus
  <2>2. owner[status[r].id] = r /\ status[r].id \in Ids
    BY <2>1 DEF ExtInv, ActiveOwnsItsId, OwnerInv
  <2> QED BY <2>1, <2>2 DEF Gentle
<1>16. NoEndlessSpinner'
  <2> SUFFICES ASSUME NEW r \in Sources, status'[r].is = "loading"
               PROVE  (\E u \in Tasks : Current(u, r)') \/ Waiting(r)'
    BY DEF NoEndlessSpinner, Current, Waiting, Queued, Range
  <2>1. r \notin S /\ status[r].is = "loading"
    BY <1>3 DEF PStatus
  <2>2. (\E u \in Tasks : Current(u, r)) \/ Waiting(r)
    BY <2>1 DEF ExtInv, NoEndlessSpinner, Current, Waiting, Queued, Range
  <2> QED BY <1>2, <1>5, <2>1, <2>2 DEF PCurrent
<1>17. NothingLeftBehind'
  <2> SUFFICES ASSUME NEW i \in Ids, panel'[i] # NoPanel
               PROVE \/ task'[panel'[i].load] \notin {NotBegun, Over}
                     \/ disposers'[panel'[i].source] = panel'[i].load
                     \/ panel'[i].source \in meddled'
    BY DEF NothingLeftBehind, NoPanel, IsRunning
  <2>1. panel'[i] = panel[i]
    BY DEF Gentle
  <2>2. /\ panel[i].load \in Tasks /\ panel[i].source \in Sources
        /\ task[panel[i].load] # NotBegun
    BY <2>1 DEF ExtInv, PanelInv
  <2>3. CASE IsRunning(panel[i].load)
    BY <1>2, <2>1, <2>2, <2>3 DEF PTask, IsRunning
  <2>4. CASE disposers[panel[i].source] = panel[i].load
    BY <2>1, <2>2, <2>4 DEF Gentle
  <2>5. CASE panel[i].source \in meddled
    BY <1>1, <2>1, <2>5 DEF PMeddle
  <2> QED BY <2>1, <2>3, <2>4, <2>5 DEF ExtInv, NothingLeftBehind
<1>18. OffStaysOffLater'
  <2>1. \A r \in off' \ meddled' : r \in Sources /\ (r \in S \/ r \in off \ meddled)
    BY <1>0, <1>1 DEF PMeddle, TypeOK, BootTypes
  <2> QED BY <1>3, <2>1 DEF PStatus, ExtInv, OffStaysOffLater
<1> QED BY <1>7, <1>8, <1>9, <1>10, <1>11, <1>12, <1>13, <1>14, <1>15, <1>16,
           <1>17, <1>18 DEF ExtInv

-----------------------------------------------------------------------------
(* The user and the agents *)

\* A row that is not loaded has no registrations, one that is there is listed,
\* of a source that nobody acted upon during the bootstrap.
LEMMA RowFacts ==
  ASSUME ExtInv, NEW s \in Sources
  PROVE  /\ status[s].is # "loaded" => disposers[s] = NoTask \/ s \in meddled
         /\ s \in Urls \ listed => status[s].is = "none" \/ s \in meddled
  BY DEF ExtInv, RowInv

\* Enabling is a load on request (enableSource).
LEMMA EnableStep ==
  ASSUME ExtInv, NEW t \in Attempts, NEW s \in Sources, Enable(t, s),
         boot.stage # "idle"
  PROVE  ExtInv'
<1>1. TypeOK /\ status[s].is \in {"disabled", "shadowed"}
  BY DEF ExtInv, Enable
<1>2. Gentle({s})
  BY <1>1, RowFacts, LeavingIsGentle DEF Enable
<1>3. ChoiceTypes'
  BY <1>1 DEF TypeOK, ChoiceTypes, Enable
<1>4. listed' = listed /\ (s \in Urls \ listed' => s \in meddled)
  BY <1>1, RowFacts DEF Enable
<1> QED BY <1>2, <1>3, <1>4, LoadStep DEF Enable

\* Adding a url is a load on request (addSource).
LEMMA AddStep ==
  ASSUME ExtInv, NEW t \in Attempts, NEW s \in Sources, AddSource(t, s),
         boot.stage # "idle"
  PROVE  ExtInv'
<1>1. TypeOK /\ s \in Urls \ listed /\ listed' = listed \cup {s}
  BY DEF ExtInv, AddSource
<1>2. disposers[s] = NoTask \/ s \in meddled
  BY <1>1, RowFacts
<1>3. Gentle({s})
  BY <1>1, <1>2, LeavingIsGentle DEF AddSource
<1>4. ChoiceTypes'
  BY <1>1 DEF TypeOK, ChoiceTypes, AddSource
<1> QED BY <1>1, <1>3, <1>4, LoadStep DEF AddSource

\* Reloading is an unloading and a load on request (reloadSource).
LEMMA ReloadStep ==
  ASSUME ExtInv, NEW t \in Attempts, NEW s \in Sources, Reload(t, s),
         boot.stage # "idle"
  PROVE  ExtInv'
<1>1. TypeOK /\ status[s].is # "none"
  BY DEF ExtInv, Reload
<1>2. Gentle({s})
  BY <1>1, UnloadIsGentle DEF Reload
<1>3. ChoiceTypes'
  BY <1>1 DEF TypeOK, ChoiceTypes, Reload, choiceVars
<1>4. listed' = listed /\ (s \in Urls \ listed' => s \in meddled)
  BY <1>1, RowFacts DEF Reload, choiceVars
<1> QED BY <1>2, <1>3, <1>4, LoadStep DEF Reload

\* An agent's load command is a load on request.
LEMMA AgentLoadStep ==
  ASSUME ExtInv, NEW t \in Attempts, NEW s \in Sources, AgentLoad(t, s),
         boot.stage # "idle"
  PROVE  ExtInv'
<1>1. TypeOK /\ s \in Locals /\ s \notin Urls
  BY KindsAssumption DEF ExtInv, AgentLoad
<1>2. Gentle({s})
  BY <1>1, RowFacts, LeavingIsGentle DEF AgentLoad
<1>3. ChoiceTypes'
  BY <1>1 DEF TypeOK, ChoiceTypes, AgentLoad, choiceVars
<1>4. listed' = listed
  BY DEF AgentLoad, choiceVars
<1> QED BY <1>1, <1>2, <1>3, <1>4, LoadStep DEF AgentLoad

\* The rows that turning off leaves.
LEMMA PlainRows ==
  \A is \in {"none", "loading", "loaded", "error", "shadowed", "disabled", "missing"} :
    Plain(is) \in Rows /\ Plain(is).is = is
  BY DEF Plain, Status, Rows

\* Disabling is an unloading on request (disableSource).
LEMMA DisableStep ==
  ASSUME ExtInv, NEW s \in Sources, Disable(s), boot.stage # "idle"
  PROVE  ExtInv'
<1>1. TypeOK /\ status[s].is \in {"loading", "loaded", "error"}
  BY DEF ExtInv, Disable
<1>2. Gentle({s})
  BY <1>1, UnloadIsGentle DEF Disable
<1>3. ChoiceTypes' /\ listed' = listed
  BY <1>1 DEF TypeOK, ChoiceTypes, Disable
<1>4. /\ status' \in [Sources -> Rows] /\ status'[s].is = "disabled"
      /\ \A r \in Sources \ {s} : status'[r] = status[r]
  BY <1>1, PlainRows DEF TypeOK, LoadTypes, Disable
<1>5. s \in Urls => s \in listed' \cup meddled
  BY <1>1, <1>3, RowFacts
<1>6. /\ task' = Superseded(task, {s}) /\ TurnedOff({s}) /\ Meddle({s})
      /\ boot' = boot /\ refresh' = refresh
  BY DEF Disable
<1>7. refresh' \in [stage : {"idle", "loading"}, seen : SUBSET Locals,
                    loads : SUBSET Attempts]
  BY <1>1, <1>6 DEF TypeOK, BootTypes
<1> QED BY <1>2, <1>3, <1>4, <1>5, <1>6, <1>7, StopStep

\* Removing a url is an unloading on request (removeSource).
LEMMA RemoveStep ==
  ASSUME ExtInv, NEW s \in Sources, RemoveSource(s), boot.stage # "idle"
  PROVE  ExtInv'
<1>1. TypeOK
  BY DEF ExtInv
<1>2. Gentle({s})
  BY <1>1, UnloadIsGentle DEF RemoveSource
<1>3. ChoiceTypes' /\ listed' = listed \ {s}
  BY <1>1 DEF TypeOK, ChoiceTypes, RemoveSource
<1>4. /\ status' \in [Sources -> Rows] /\ status'[s].is = "none"
      /\ \A r \in Sources \ {s} : status'[r] = status[r]
  BY <1>1, PlainRows DEF TypeOK, LoadTypes, RemoveSource
<1>5. /\ task' = Superseded(task, {s}) /\ TurnedOff({s}) /\ Meddle({s})
      /\ boot' = boot /\ refresh' = refresh
  BY DEF RemoveSource
<1>6. refresh' \in [stage : {"idle", "loading"}, seen : SUBSET Locals,
                    loads : SUBSET Attempts]
  BY <1>1, <1>5 DEF TypeOK, BootTypes
<1> QED BY <1>2, <1>3, <1>4, <1>5, <1>6, StopStep

\* An agent's unload command unloads every source known by that id.
LEMMA AgentUnloadStep ==
  ASSUME ExtInv, NEW i \in Ids, AgentUnload(i), boot.stage # "idle"
  PROVE  ExtInv'
<1> DEFINE S == {s \in Sources : status[s].is # "none" /\ KnownAs(s) = i}
<1>1. TypeOK /\ S \in SUBSET Sources
  BY DEF ExtInv
<1>2. /\ UnloadState(S) /\ task' = Superseded(task, S) /\ TurnedOff(S) /\ Meddle(S)
      /\ status' = [s \in Sources |-> IF s \in S THEN Plain("none") ELSE status[s]]
      /\ UNCHANGED <<choiceVars, known, boot, refresh>>
  BY DEF AgentUnload
<1> HIDE DEF S
<1>3. Gentle(S)
  BY <1>1, <1>2, UnloadIsGentle
<1>4. ChoiceTypes' /\ listed' = listed /\ boot' = boot /\ refresh' = refresh
  BY <1>1, <1>2 DEF TypeOK, ChoiceTypes, choiceVars
<1>5. /\ status' \in [Sources -> Rows] /\ \A r \in S : status'[r].is = "none"
      /\ \A r \in Sources \ S : status'[r] = status[r]
  BY <1>1, <1>2, PlainRows DEF TypeOK, LoadTypes
<1>6. refresh' \in [stage : {"idle", "loading"}, seen : SUBSET Locals,
                    loads : SUBSET Attempts]
  BY <1>1, <1>4 DEF TypeOK, BootTypes
<1> QED BY <1>1, <1>2, <1>3, <1>4, <1>5, <1>6, StopStep

\* The end of a re-scan unloads what has left the directory.
LEMMA RefreshEndsStep ==
  ASSUME ExtInv, RefreshEnds
  PROVE  ExtInv'
<1> DEFINE S == {s \in known \ refresh.seen : status[s].is # "loaded"}
           kept == S \cap (disabled \cup enabled)
<1>1. TypeOK /\ S \in SUBSET Sources /\ S \subseteq Locals /\ S \cap Urls = {}
  BY KindsAssumption DEF ExtInv, TypeOK, ChoiceTypes, Sources
<1>2. /\ UnloadState(S) /\ task' = Superseded(task, S) /\ TurnedOff(S) /\ Meddle(S)
      /\ known' = known \ (S \ kept)
      /\ status' = [s \in Sources |-> IF s \in kept THEN Plain("missing")
                                      ELSE IF s \in S THEN Plain("none")
                                      ELSE status[s]]
      /\ refresh.stage = "loading"
      /\ refresh' = [stage |-> "idle", seen |-> {}, loads |-> {}]
      /\ UNCHANGED <<choiceVars, boot>>
  BY DEF RefreshEnds
<1>3. kept \subseteq S
  OBVIOUS
<1> HIDE DEF S, kept
<1>4. Gentle(S)
  BY <1>1, <1>2, UnloadIsGentle
<1>5. ChoiceTypes' /\ listed' = listed /\ boot' = boot
  BY <1>1, <1>2 DEF TypeOK, ChoiceTypes, choiceVars
<1>6. /\ status' \in [Sources -> Rows]
      /\ \A r \in S : status'[r].is \in {"none", "missing"}
      /\ \A r \in Sources \ S : status'[r] = status[r]
  BY <1>1, <1>2, <1>3, PlainRows DEF TypeOK, LoadTypes
<1>7. refresh' \in [stage : {"idle", "loading"}, seen : SUBSET Locals,
                    loads : SUBSET Attempts]
  BY <1>2
<1>8. boot.stage # "idle"
  BY <1>2 DEF ExtInv, BootInv
<1> QED BY <1>1, <1>2, <1>4, <1>5, <1>6, <1>7, <1>8, StopStep

-----------------------------------------------------------------------------
(* The re-scan of the extensions directory *)

\* A re-scan loads the sources it finds and marks the disabled ones.
LEMMA RefreshStep ==
  ASSUME ExtInv, Refresh, boot.stage # "idle"
  PROVE  ExtInv'
<1> DEFINE L == {s \in disk : status[s].is \in {"none", "missing", "error"} /\ ~IsDisabled(s)}
           D == {s \in disk : status[s].is \in {"none", "missing", "error"}} \ L
<1>0. /\ TypeOK /\ L \in SUBSET Sources /\ L \subseteq disk /\ D \subseteq disk
      /\ D \in SUBSET Sources /\ L \cap D = {} /\ disk \cap Urls = {}
      /\ disk \subseteq Sources
      /\ \A r \in L \cup D : status[r].is \in {"none", "missing", "error"}
  BY KindsAssumption DEF ExtInv, TypeOK, ChoiceTypes, Sources
<1>1. PICK with \in [L -> Attempts] :
        /\ \A s \in L : task[with[s]] = NotBegun
        /\ \A r, s \in L : with[r] = with[s] => r = s
        /\ task' = [t \in Tasks |-> IF \E s \in L : with[s] = t
                                    THEN Started(CHOOSE s \in L : with[s] = t)
                                    ELSE Superseded(task, L)[t]]
        /\ refresh' = [stage |-> "loading", seen |-> disk,
                       loads |-> {with[s] : s \in L}]
  BY DEF Refresh
<1>2. /\ known' = known \cup disk
      /\ status' = [s \in Sources |-> IF s \in L THEN Plain("loading")
                                      ELSE IF s \in D THEN Plain("disabled")
                                      ELSE status[s]]
      /\ off' = off \ L /\ Meddle(disk)
      /\ UNCHANGED <<choiceVars, claimVars, liveVars, boot>>
  BY DEF Refresh
<1> HIDE DEF L, D
<1>3. /\ boot' = boot /\ listed' = listed /\ owner' = owner /\ disposers' = disposers
      /\ panel' = panel /\ ChoiceTypes' /\ ClaimTypes' /\ LiveTypes'
  BY <1>0, <1>2 DEF choiceVars, claimVars, liveVars, TypeOK, ChoiceTypes, ClaimTypes,
                    LiveTypes
<1> DEFINE Begun(u) == \E s \in L : with[s] = u
<1>4. \A s \in L : with[s] \in Attempts /\ with[s] \in Tasks /\ with[s] \notin Sources
                   /\ ~IsRunning(with[s]) /\ task[with[s]] = NotBegun
  BY <1>1, KindsAssumption DEF Tasks, IsRunning
<1> DEFINE PMeddle == /\ meddled \subseteq meddled'
                      /\ \A r \in disk : r \notin meddled' => boot.stage = "done"
<1>5. PMeddle
  BY <1>2 DEF Meddle
<1> DEFINE PTask ==
         /\ task' \in [Tasks -> Loads]
         /\ \A s \in L : /\ IsRunning(with[s])' /\ task'[with[s]].source = s
                         /\ task'[with[s]].phase = "fetching"
         /\ \A u \in Tasks : ~Begun(u) =>
              /\ IsRunning(u)' <=> IsRunning(u)
              /\ task'[u] = NotBegun <=> task[u] = NotBegun
              /\ IsRunning(u) => /\ task'[u].source = task[u].source
                                 /\ task'[u].phase = task[u].phase
                                 /\ task'[u].id = task[u].id
<1> DEFINE PCurrent ==
      /\ \A s \in L : Current(with[s], s)'
      /\ \A u \in Tasks : \A r \in Sources :
           Current(u, r)' <=> (r \in L /\ u = with[r])
                              \/ (~Begun(u) /\ r \notin L /\ Current(u, r))
<1>6. PTask /\ PCurrent
  <2>1. task \in [Tasks -> Loads]
    BY <1>0 DEF TypeOK, LoadTypes, Loads
  <2>2. \A s \in L : task'[with[s]] = Started(s)
    <3> TAKE s \in L
    <3>1. (CHOOSE r \in L : with[r] = with[s]) = s
      BY <1>1
    <3> QED BY <1>1, <1>4, <3>1
  <2>3. \A u \in Tasks : ~Begun(u) => task'[u] = Stale(task[u], L) /\ task[u] \in Loads
    BY <1>1, <2>1, SupersededIs
  <2>4. task' \in [Tasks -> Loads]
    <3>1. \A u \in Tasks : Begun(u) => task'[u] \in Loads
      BY <1>0, <2>2, StartTyped
    <3>2. \A u \in Tasks : ~Begun(u) => task'[u] \in Loads
      BY <2>3, StaleFacts
    <3>3. task' = [u \in Tasks |-> task'[u]]
      BY <1>1
    <3> QED BY <3>1, <3>2, <3>3
  <2>5. \A s \in L : /\ task'[with[s]] \notin {NotBegun, Over}
                     /\ task'[with[s]].source = s
                     /\ task'[with[s]].phase = "fetching" /\ task'[with[s]].current
    <3> TAKE s \in L
    <3>1. task'[with[s]] = Started(s) /\ Started(s) \notin {NotBegun, Over}
      BY <1>0, <2>2, StartTyped
    <3>2. /\ Started(s).source = s /\ Started(s).phase = "fetching"
          /\ Started(s).current = TRUE
      BY DEF Started
    <3> QED BY <3>1, <3>2
  <2>6. ASSUME NEW u \in Tasks, ~Begun(u)
        PROVE  /\ IsRunning(u)' <=> IsRunning(u)
               /\ task'[u] = NotBegun <=> task[u] = NotBegun
               /\ IsRunning(u) => /\ task'[u].source = task[u].source
                                  /\ task'[u].phase = task[u].phase
                                  /\ task'[u].id = task[u].id
                                  /\ task'[u].current <=> task[u].current
                                                          /\ task[u].source \notin L
    BY <2>3, <2>6, StaleFacts DEF IsRunning
  <2>7. PTask
    BY <2>4, <2>5, <2>6 DEF IsRunning
  <2>8. \A s \in L : Current(with[s], s)'
    <3> TAKE s \in L
    <3>1. task'[with[s]] \notin {NotBegun, Over} /\ task'[with[s]].source = s
          /\ task'[with[s]].current
      BY <2>5
    <3> QED BY <3>1 DEF Current, IsRunning
  <2>9. ASSUME NEW u \in Tasks, NEW r \in Sources
        PROVE  Current(u, r)' <=> (r \in L /\ u = with[r])
                                  \/ (~Begun(u) /\ r \notin L /\ Current(u, r))
    <3>1. CASE ~Begun(u)
      BY <2>6, <3>1 DEF Current
    <3>2. CASE Begun(u)
      <4>1. PICK s \in L : with[s] = u
        BY <3>2
      <4>2. task'[u].source = s
        BY <2>5, <4>1
      <4> QED BY <2>8, <3>2, <4>1, <4>2 DEF Current
    <3> QED BY <3>1, <3>2
  <2> QED BY <2>7, <2>8, <2>9
<1> DEFINE PStatus ==
      /\ \A r \in L : status'[r].is = "loading"
      /\ \A r \in D : status'[r].is = "disabled"
      /\ \A r \in Sources \ (L \cup D) : status'[r] = status[r]
<1>7. PStatus /\ status' \in [Sources -> Rows]
  BY <1>0, <1>2, PlainRows DEF TypeOK, LoadTypes
<1>8. \A r \in Sources : (Queued(r)' <=> Queued(r)) /\ (Waiting(r)' <=> Waiting(r))
  BY <1>3 DEF Queued, Waiting
<1>9. boot.stage = "done" => \A r \in Sources : ~Waiting(r)
  BY DEF ExtInv, BootInv, Waiting, Queued, NoQueues, Range
<1> HIDE DEF PMeddle, PTask, PCurrent, PStatus
<1>10. TypeOK'
  <2>1. LoadTypes'
    BY <1>6, <1>7 DEF LoadTypes, PTask, Loads
  <2>2. BootTypes'
    <3>1. meddled' \subseteq Sources /\ off' \subseteq Sources
      BY <1>0, <1>2 DEF TypeOK, BootTypes, Meddle
    <3>2. {with[s] : s \in L} \subseteq Attempts /\ disk \subseteq Locals
      BY <1>0, <1>4 DEF TypeOK, ChoiceTypes
    <3> QED BY <1>0, <1>1, <1>3, <3>1, <3>2 DEF TypeOK, BootTypes
  <2> QED BY <1>3, <2>1, <2>2 DEF TypeOK
<1>11. LoadsInv'
  <2>1. ASSUME NEW u \in Tasks, IsRunning(u)', task'[u].phase = "activating"
        PROVE  task'[u].id \in Ids
    <3>1. ~Begun(u)
      BY <1>6, <2>1 DEF PTask
    <3> QED BY <1>6, <2>1, <3>1 DEF PTask, ExtInv, LoadsInv
  <2>2. \A u, v \in Tasks : \A r \in Sources : Current(u, r)' /\ Current(v, r)' => u = v
    BY <1>6 DEF PCurrent, ExtInv, LoadsInv
  <2> QED BY <2>1, <2>2 DEF LoadsInv
<1>12. BootInv'
  <2>1. \A r \in Sources : r \in Tasks /\ ~Begun(r)
    BY <1>4 DEF Tasks
  <2> QED BY <1>3, <1>6, <1>8, <2>1 DEF PTask, ExtInv, BootInv
<1>13. MeddledInv'
  <2> SUFFICES ASSUME boot.stage # "done", NEW u \in Attempts, IsRunning(u)'
               PROVE  task'[u].source \in meddled'
    BY <1>3 DEF MeddledInv
  <2>0. u \in Tasks
    BY DEF Tasks
  <2>1. CASE Begun(u)
    BY <1>0, <1>5, <1>6, <2>1 DEF PMeddle, PTask
  <2>2. CASE ~Begun(u)
    BY <1>5, <1>6, <2>0, <2>2 DEF PMeddle, PTask, ExtInv, MeddledInv
  <2> QED BY <2>1, <2>2
<1>14. RowInv'
  <2> SUFFICES ASSUME NEW r \in Sources \ meddled'
               PROVE /\ \A u \in Tasks : Current(u, r)' => status'[r].is = "loading"
                     /\ Waiting(r)' => status'[r].is = "loading" /\ \A u \in Tasks : ~Current(u, r)'
                     /\ disposers[r] # NoTask => status'[r].is = "loaded"
                     /\ boot.stage \in {"idle", "discovering"} => status'[r].is = "none"
                     /\ boot.stage = "fetching" => status'[r].is # "loaded"
                     /\ r \in Urls \ listed =>
                          /\ status'[r].is = "none"
                          /\ boot.stage \in {"discovering", "fetching"} => r \notin boot.fetch
    BY <1>3 DEF RowInv
  <2>0. r \in Sources \ meddled
    BY <1>5 DEF PMeddle
  <2>1. CASE r \in L \cup D
    <3>1. boot.stage = "done" /\ ~Waiting(r)' /\ r \notin Urls
      BY <1>0, <1>5, <1>8, <1>9, <2>1 DEF PMeddle
    <3>2. disposers[r] = NoTask
      BY <1>0, <2>0, <2>1 DEF ExtInv, RowInv
    <3>3. \A u \in Tasks : Current(u, r)' => status'[r].is = "loading"
      <4>1. CASE r \in L
        BY <1>7, <4>1 DEF PStatus
      <4>2. CASE r \in D
        BY <1>0, <1>6, <2>0, <4>2 DEF PCurrent, ExtInv, RowInv
      <4> QED BY <2>1, <4>1, <4>2
    <3> QED BY <3>1, <3>2, <3>3
  <2>2. CASE r \notin L \cup D
    <3>1. \A u \in Tasks : Current(u, r)' => Current(u, r)
      BY <1>6, <2>2 DEF PCurrent
    <3>2. status'[r] = status[r]
      BY <1>7, <2>2 DEF PStatus
    <3> QED BY <1>8, <2>0, <3>1, <3>2 DEF ExtInv, RowInv
  <2> QED BY <2>1, <2>2
<1>15. OwnerInv'
  <2>1. ASSUME NEW r \in Sources \ meddled', NEW u \in Tasks, Current(u, r)',
               task'[u].phase = "activating"
        PROVE  owner[task'[u].id] = r
    <3>1. ~Begun(u) /\ Current(u, r) /\ IsRunning(u)
      BY <1>6, <2>1 DEF PTask, PCurrent, Current
    <3>2. task[u].phase = "activating" /\ task'[u].id = task[u].id
      BY <1>6, <2>1, <3>1 DEF PTask
    <3> QED BY <1>5, <3>1, <3>2 DEF PMeddle, ExtInv, OwnerInv
  <2>2. \A i \in Ids : boot.queue[i] # <<>> =>
          \A r \in Sources \ meddled' : status'[r].is = "loaded" => status'[r].id # i
    BY <1>5, <1>7 DEF PMeddle, PStatus, ExtInv, OwnerInv
  <2>3. \A r \in Sources : status'[r].is = "loaded" => status'[r].id \in Ids
    BY <1>7 DEF PStatus, ExtInv, OwnerInv
  <2> QED BY <1>3, <2>1, <2>2, <2>3 DEF OwnerInv
<1>16. PanelInv'
  <2> SUFFICES ASSUME NEW i \in Ids, panel[i] # NoPanel
               PROVE /\ panel[i].load \in Tasks /\ panel[i].source \in Sources
                     /\ task'[panel[i].load] # NotBegun
                     /\ panel[i].load \in Sources => panel[i].source = panel[i].load
                     /\ task'[panel[i].load] \notin {NotBegun, Over} =>
                          /\ task'[panel[i].load].source = panel[i].source
                          /\ task'[panel[i].load].phase = "activating"
    BY <1>3 DEF PanelInv, NoPanel, IsRunning
  <2>2. /\ panel[i].load \in Tasks /\ panel[i].source \in Sources
        /\ task[panel[i].load] # NotBegun
        /\ panel[i].load \in Sources => panel[i].source = panel[i].load
        /\ IsRunning(panel[i].load) => /\ task[panel[i].load].source = panel[i].source
                                       /\ task[panel[i].load].phase = "activating"
    BY DEF ExtInv, PanelInv
  <2>3. ~Begun(panel[i].load)
    BY <1>4, <2>2
  <2> QED BY <1>6, <2>2, <2>3 DEF PTask, IsRunning
<1>17. OffInv'
  BY <1>2, <1>3, <1>5 DEF PMeddle, ExtInv, OffInv
<1>18. ActiveOwnsItsId'
  BY <1>3, <1>5, <1>7 DEF PMeddle, PStatus, ExtInv, ActiveOwnsItsId
<1>19. NoEndlessSpinner'
  <2> SUFFICES ASSUME NEW r \in Sources, status'[r].is = "loading"
               PROVE  (\E u \in Tasks : Current(u, r)') \/ Waiting(r)'
    BY DEF NoEndlessSpinner, Current, Waiting, Queued, Range
  <2>1. CASE r \in L
    BY <1>4, <1>6, <2>1 DEF PCurrent
  <2>2. CASE r \notin L
    <3>1. (\E u \in Tasks : Current(u, r)) \/ Waiting(r)
      BY <1>7, <2>2 DEF PStatus, ExtInv, NoEndlessSpinner, Current, Waiting, Queued, Range
    <3>2. \A u \in Tasks : Current(u, r) => ~Begun(u)
      BY <1>4, CurrentFacts
    <3> QED BY <1>6, <1>8, <2>2, <3>1, <3>2 DEF PCurrent
  <2> QED BY <2>1, <2>2
<1>20. NothingLeftBehind'
  <2> SUFFICES ASSUME NEW i \in Ids, panel[i] # NoPanel
               PROVE \/ task'[panel[i].load] \notin {NotBegun, Over}
                     \/ disposers[panel[i].source] = panel[i].load
                     \/ panel[i].source \in meddled'
    BY <1>3 DEF NothingLeftBehind, NoPanel, IsRunning
  <2>1. /\ panel[i].load \in Tasks /\ panel[i].source \in Sources
        /\ task[panel[i].load] # NotBegun
    BY DEF ExtInv, PanelInv
  <2>2. ~Begun(panel[i].load)
    BY <1>4, <2>1
  <2> QED BY <1>5, <1>6, <2>1, <2>2 DEF PMeddle, PTask, IsRunning, ExtInv, NothingLeftBehind
<1>21. OffStaysOffLater'
  <2>1. \A r \in off' \ meddled' : r \in Sources \ L /\ r \in off \ meddled
    BY <1>0, <1>2, <1>5 DEF PMeddle, TypeOK, BootTypes
  <2> QED BY <1>7, <2>1 DEF PStatus, ExtInv, OffStaysOffLater
<1> QED BY <1>10, <1>11, <1>12, <1>13, <1>14, <1>15, <1>16, <1>17, <1>18, <1>19,
           <1>20, <1>21 DEF ExtInv

-----------------------------------------------------------------------------
(* The fetch of a load ends *)

\* Load t is over; the others go on as they were.
LEMMA EndLoads ==
  ASSUME TypeOK, NEW t \in Tasks, task' = [task EXCEPT ![t] = Over]
  PROVE  /\ task' \in [Tasks -> Loads]
         /\ ~IsRunning(t)' /\ task'[t] # NotBegun
         /\ \A u \in Tasks \ {t} : task'[u] = task[u]
         /\ \A u \in Tasks, r \in Sources : Current(u, r)' <=> u # t /\ Current(u, r)
<1>1. task \in [Tasks -> Loads] /\ Over \in Loads
  BY DEF TypeOK, LoadTypes, Loads
<1>2. task' \in [Tasks -> Loads] /\ task'[t] = Over
      /\ \A u \in Tasks \ {t} : task'[u] = task[u]
  BY <1>1
<1> QED BY <1>2, NullsAssumption DEF IsRunning, Current

\* A current load of a source that nobody acted upon during the bootstrap finds
\* its row spinning and nothing registered.
LEMMA CurrentRow ==
  ASSUME ExtInv, NEW t \in Tasks, NEW s \in Sources \ meddled, Current(t, s)
  PROVE  /\ status[s].is = "loading" /\ disposers[s] = NoTask /\ ~Waiting(s)
         /\ boot.stage \notin {"idle", "discovering"} /\ s \notin Urls \ listed
  BY DEF ExtInv, RowInv

\* A load of its own is in its fetch: an interactive one.
LEMMA FetchingIsInteractive ==
  ASSUME ExtInv, NEW t \in Tasks, IsRunning(t), task[t].phase = "fetching"
  PROVE  t \in Attempts /\ t \notin Sources
  BY KindsAssumption DEF ExtInv, BootInv, Tasks

\* A load ends without its contributions, if it has any on display: superseded,
\* or with an error, or because another version is active.
LEMMA LoseStep ==
  ASSUME ExtInv, NEW t \in Tasks, IsRunning(t), task' = [task EXCEPT ![t] = Over],
         UNCHANGED <<choiceVars, known, disposers, boot, refresh, off, meddled>>,
         status' \in [Sources -> Rows], ClaimTypes', LiveTypes',
         \A j \in Ids : panel'[j] # NoPanel => panel'[j] = panel[j] /\ panel[j].load # t,
         \A j \in Ids, r \in Sources :
           owner[j] = r /\ ~Current(t, r) => owner'[j] = r,
         \A r \in Sources : \/ status'[r] = status[r] /\ ~Current(t, r)
                            \/ /\ status'[r].is \in {"error", "shadowed"}
                               /\ Current(t, r)
  PROVE  ExtInv'
<1>1. TypeOK
  BY DEF ExtInv
<1>2. /\ boot' = boot /\ refresh' = refresh /\ off' = off /\ meddled' = meddled
      /\ listed' = listed /\ disposers' = disposers /\ ChoiceTypes' /\ BootTypes'
  BY <1>1 DEF choiceVars, TypeOK, ChoiceTypes, BootTypes
<1> DEFINE PTask ==
         /\ task' \in [Tasks -> Loads] /\ ~IsRunning(t)' /\ task'[t] # NotBegun
         /\ \A u \in Tasks \ {t} : task'[u] = task[u] /\ (IsRunning(u)' <=> IsRunning(u))
         /\ \A u \in Tasks, r \in Sources : Current(u, r)' <=> u # t /\ Current(u, r)
<1>3. PTask
  BY <1>1, EndLoads DEF IsRunning
<1> DEFINE PStatus ==
      \A r \in Sources : \/ status'[r] = status[r] /\ ~Current(t, r)
                         \/ /\ status'[r].is \in {"error", "shadowed"}
                            /\ Current(t, r)
<1>4. PStatus
  OBVIOUS
<1>5. \A r \in Sources : (Queued(r)' <=> Queued(r)) /\ (Waiting(r)' <=> Waiting(r))
  BY <1>2 DEF Queued, Waiting
<1> HIDE DEF PTask, PStatus
<1>6. TypeOK'
  BY <1>2, <1>3 DEF TypeOK, LoadTypes, PTask, Loads
<1>7. LoadsInv'
  BY <1>3 DEF PTask, ExtInv, LoadsInv
<1>8. BootInv'
  <2>1. \A r \in Sources : /\ r \in Tasks /\ (IsRunning(r)' => IsRunning(r) /\ task'[r] = task[r])
                           /\ task[r] = NotBegun => task'[r] = NotBegun
    BY <1>3 DEF PTask, Tasks, IsRunning
  <2> QED BY <1>2, <1>5, <2>1 DEF ExtInv, BootInv
<1>9. MeddledInv'
  BY <1>2, <1>3 DEF PTask, ExtInv, MeddledInv, Tasks
<1>10. RowInv'
  <2> SUFFICES ASSUME NEW r \in Sources \ meddled
               PROVE /\ \A u \in Tasks : Current(u, r)' => status'[r].is = "loading"
                     /\ Waiting(r)' => status'[r].is = "loading" /\ \A u \in Tasks : ~Current(u, r)'
                     /\ disposers[r] # NoTask => status'[r].is = "loaded"
                     /\ boot.stage \in {"idle", "discovering"} => status'[r].is = "none"
                     /\ boot.stage = "fetching" => status'[r].is # "loaded"
                     /\ r \in Urls \ listed =>
                          /\ status'[r].is = "none"
                          /\ boot.stage \in {"discovering", "fetching"} => r \notin boot.fetch
    BY <1>2 DEF RowInv
  <2>1. CASE status'[r] = status[r]
    BY <1>3, <1>5, <2>1 DEF PTask, ExtInv, RowInv
  <2>2. CASE status'[r].is \in {"error", "shadowed"} /\ Current(t, r)
    <3>1. \A u \in Tasks : ~Current(u, r)'
      BY <1>3, <2>2 DEF PTask, ExtInv, LoadsInv
    <3> QED BY <1>5, <2>2, <3>1, CurrentRow
  <2> QED BY <1>4, <2>1, <2>2 DEF PStatus
<1>11. OwnerInv'
  <2>1. ASSUME NEW r \in Sources \ meddled, NEW u \in Tasks, Current(u, r)',
               task'[u].phase = "activating"
        PROVE  owner'[task'[u].id] = r
    <3>1. u # t /\ Current(u, r) /\ task'[u] = task[u] /\ IsRunning(u)
      BY <1>3, <2>1 DEF PTask, Current
    <3>2. owner[task[u].id] = r /\ task[u].id \in Ids /\ ~Current(t, r)
      BY <2>1, <3>1 DEF ExtInv, OwnerInv, LoadsInv
    <3> QED BY <3>1, <3>2
  <2>2. \A i \in Ids : boot.queue[i] # <<>> =>
          \A r \in Sources \ meddled : status'[r].is = "loaded" => status'[r].id # i
    BY <1>4 DEF PStatus, ExtInv, OwnerInv
  <2>3. \A r \in Sources : status'[r].is = "loaded" => status'[r].id \in Ids
    BY <1>4 DEF PStatus, ExtInv, OwnerInv
  <2> QED BY <1>2, <2>1, <2>2, <2>3 DEF OwnerInv
<1>13. PanelInv'
  <2> SUFFICES ASSUME NEW i \in Ids, panel'[i] # NoPanel, panel'[i] = panel[i],
                      panel[i].load # t
               PROVE /\ panel[i].load \in Tasks /\ panel[i].source \in Sources
                     /\ task'[panel[i].load] # NotBegun
                     /\ panel[i].load \in Sources => panel[i].source = panel[i].load
                     /\ task'[panel[i].load] \notin {NotBegun, Over} =>
                          /\ task'[panel[i].load].source = panel[i].source
                          /\ task'[panel[i].load].phase = "activating"
    BY <1>2 DEF PanelInv, NoPanel, IsRunning
  <2> QED BY <1>3 DEF PTask, IsRunning, ExtInv, PanelInv
<1>14. OffInv'
  BY <1>2 DEF ExtInv, OffInv
<1>15. ActiveOwnsItsId'
  <2> SUFFICES ASSUME NEW r \in Sources \ meddled, status'[r].is = "loaded"
               PROVE  owner'[status'[r].id] = r
    BY <1>2 DEF ActiveOwnsItsId
  <2>1. status'[r] = status[r] /\ ~Current(t, r)
    BY <1>4 DEF PStatus
  <2>2. owner[status[r].id] = r /\ status[r].id \in Ids
    BY <2>1 DEF ExtInv, ActiveOwnsItsId, OwnerInv
  <2> QED BY <2>1, <2>2
<1>16. NoEndlessSpinner'
  <2> SUFFICES ASSUME NEW r \in Sources, status'[r].is = "loading"
               PROVE  (\E u \in Tasks : Current(u, r)') \/ Waiting(r)'
    BY DEF NoEndlessSpinner, Current, Waiting, Queued, Range
  <2>1. status[r].is = "loading" /\ ~Current(t, r)
    BY <1>4 DEF PStatus
  <2>2. (\E u \in Tasks : Current(u, r)) \/ Waiting(r)
    BY <2>1 DEF ExtInv, NoEndlessSpinner, Current, Waiting, Queued, Range
  <2> QED BY <1>3, <1>5, <2>1, <2>2 DEF PTask
<1>17. NothingLeftBehind'
  <2> SUFFICES ASSUME NEW i \in Ids, panel'[i] # NoPanel, panel'[i] = panel[i],
                      panel[i].load # t
               PROVE \/ task'[panel[i].load] \notin {NotBegun, Over}
                     \/ disposers[panel[i].source] = panel[i].load
                     \/ panel[i].source \in meddled
    BY <1>2 DEF NothingLeftBehind, NoPanel, IsRunning
  <2>1. panel[i].load \in Tasks \ {t}
    BY DEF ExtInv, PanelInv
  <2> QED BY <1>3, <2>1 DEF PTask, IsRunning, ExtInv, NothingLeftBehind
<1>18. OffStaysOffLater'
  <2>1. off \subseteq Sources
    BY <1>1 DEF TypeOK, BootTypes
  <2> QED BY <1>2, <1>4, <2>1 DEF PStatus, ExtInv, OffStaysOffLater
<1> QED BY <1>6, <1>7, <1>8, <1>9, <1>10, <1>11, <1>13, <1>14, <1>15, <1>16, <1>17,
           <1>18 DEF ExtInv

\* A fetched manifest claims its id and begins to activate.
LEMMA FetchClaims ==
  ASSUME ExtInv, NEW t \in Tasks, IsRunning(t), task[t].phase = "fetching",
         NEW s \in Sources, s = task[t].source, NEW i \in Ids, task[t].current,
         owner[i] \in {Nobody, s}, task' = [task EXCEPT ![t] = Activating(s, i)],
         owner' = [owner EXCEPT ![i] = s], claim' = [claim EXCEPT ![s] = i],
         UNCHANGED <<choiceVars, known, status, liveVars, boot, refresh, off, meddled>>
  PROVE  ExtInv'
<1>1. /\ TypeOK /\ t \in Attempts /\ t \notin Sources /\ Current(t, s)
  BY FetchingIsInteractive DEF ExtInv, Current
<1>2. /\ boot' = boot /\ refresh' = refresh /\ off' = off /\ meddled' = meddled
      /\ listed' = listed /\ status' = status /\ disposers' = disposers
      /\ panel' = panel /\ ChoiceTypes' /\ LiveTypes' /\ BootTypes'
  BY <1>1 DEF choiceVars, liveVars, TypeOK, ChoiceTypes, LiveTypes, BootTypes
<1>3. /\ ClaimTypes' /\ owner'[i] = s
      /\ \A j \in Ids : owner'[j] = owner[j] \/ (j = i /\ owner[j] \in {Nobody, s})
      /\ \A r \in Sources, j \in Ids : owner[j] = r => owner'[j] = r
  BY <1>1, NullsAssumption DEF TypeOK, ClaimTypes
<1> DEFINE PTask ==
         /\ task' \in [Tasks -> Loads] /\ IsRunning(t)' /\ task'[t] # NotBegun
         /\ task'[t].source = s /\ task'[t].phase = "activating" /\ task'[t].id = i
         /\ \A u \in Tasks \ {t} : task'[u] = task[u] /\ (IsRunning(u)' <=> IsRunning(u))
         /\ \A u \in Tasks, r \in Sources : Current(u, r)' <=> Current(u, r)
<1>4. PTask
  <2>1. task \in [Tasks -> Loads] /\ Activating(s, i) \in Loads
        /\ Activating(s, i) \notin {NotBegun, Over}
    BY <1>1, StartTyped DEF TypeOK, LoadTypes, Loads
  <2>2. /\ task' \in [Tasks -> Loads] /\ task'[t] = Activating(s, i)
        /\ \A u \in Tasks \ {t} : task'[u] = task[u]
    BY <2>1
  <2>3. /\ Activating(s, i).source = s /\ Activating(s, i).phase = "activating"
        /\ Activating(s, i).id = i /\ Activating(s, i).current = TRUE
    BY DEF Activating
  <2>4. IsRunning(t)' /\ \A u \in Tasks \ {t} : IsRunning(u)' <=> IsRunning(u)
    BY <2>1, <2>2 DEF IsRunning
  <2>5. \A r \in Sources : Current(t, r)' <=> Current(t, r)
    BY <2>2, <2>3, <2>4 DEF Current
  <2> QED BY <2>1, <2>2, <2>3, <2>4, <2>5 DEF Current
<1>5. \A r \in Sources : (Queued(r)' <=> Queued(r)) /\ (Waiting(r)' <=> Waiting(r))
  BY <1>2 DEF Queued, Waiting
<1> HIDE DEF PTask
<1>6. TypeOK'
  BY <1>1, <1>2, <1>3, <1>4 DEF TypeOK, LoadTypes, PTask, Loads
<1>7. LoadsInv'
  BY <1>4 DEF PTask, ExtInv, LoadsInv
<1>8. BootInv'
  <2>1. \A r \in Sources : r \in Tasks \ {t}
    BY <1>1 DEF Tasks
  <2> QED BY <1>2, <1>4, <1>5, <2>1 DEF PTask, ExtInv, BootInv
<1>9. MeddledInv'
  <2>1. \A u \in Tasks : IsRunning(u)' => IsRunning(u) /\ task'[u].source = task[u].source
    BY <1>4 DEF PTask
  <2> QED BY <1>2, <2>1 DEF ExtInv, MeddledInv, Tasks
<1>10. RowInv'
  BY <1>2, <1>4, <1>5 DEF PTask, ExtInv, RowInv
<1>11. OwnerInv'
  <2>1. ASSUME NEW r \in Sources \ meddled, NEW u \in Tasks, Current(u, r)',
               task'[u].phase = "activating"
        PROVE  owner'[task'[u].id] = r
    <3>1. CASE u = t
      BY <1>3, <1>4, <2>1, <3>1 DEF PTask, Current
    <3>2. CASE u # t
      <4>1. /\ Current(u, r) /\ task'[u] = task[u] /\ IsRunning(u)
        BY <1>4, <2>1, <3>2 DEF PTask, Current
      <4>2. owner[task[u].id] = r /\ task[u].id \in Ids
        BY <2>1, <4>1 DEF ExtInv, OwnerInv, LoadsInv
      <4> QED BY <1>3, <4>1, <4>2
    <3> QED BY <3>1, <3>2
  <2> QED BY <1>2, <2>1 DEF ExtInv, OwnerInv
<1>12. PanelInv'
  <2> SUFFICES ASSUME NEW j \in Ids, panel[j] # NoPanel
               PROVE /\ panel[j].load \in Tasks /\ panel[j].source \in Sources
                     /\ task'[panel[j].load] # NotBegun
                     /\ panel[j].load \in Sources => panel[j].source = panel[j].load
                     /\ task'[panel[j].load] \notin {NotBegun, Over} =>
                          /\ task'[panel[j].load].source = panel[j].source
                          /\ task'[panel[j].load].phase = "activating"
    BY <1>2 DEF PanelInv, NoPanel, IsRunning
  <2>1. panel[j].load # t
    BY DEF ExtInv, PanelInv
  <2> QED BY <1>4, <2>1 DEF PTask, IsRunning, ExtInv, PanelInv
<1>13. OffInv'
  BY <1>2 DEF ExtInv, OffInv
<1>14. ActiveOwnsItsId'
  BY <1>2, <1>3 DEF ExtInv, ActiveOwnsItsId, OwnerInv
<1>15. NoEndlessSpinner'
  <2> SUFFICES ASSUME NEW r \in Sources, status[r].is = "loading"
               PROVE  (\E u \in Tasks : Current(u, r)') \/ Waiting(r)'
    BY <1>2 DEF NoEndlessSpinner, Current, Waiting, Queued, Range
  <2>2. (\E u \in Tasks : Current(u, r)) \/ Waiting(r)
    BY DEF ExtInv, NoEndlessSpinner, Current, Waiting, Queued, Range
  <2> QED BY <1>4, <1>5, <2>2 DEF PTask
<1>16. NothingLeftBehind'
  <2> SUFFICES ASSUME NEW j \in Ids, panel[j] # NoPanel
               PROVE \/ task'[panel[j].load] \notin {NotBegun, Over}
                     \/ disposers[panel[j].source] = panel[j].load
                     \/ panel[j].source \in meddled
    BY <1>2 DEF NothingLeftBehind, NoPanel, IsRunning
  <2>1. panel[j].load \in Tasks
    BY DEF ExtInv, PanelInv
  <2> QED BY <1>4, <2>1 DEF PTask, IsRunning, ExtInv, NothingLeftBehind
<1>17. OffStaysOffLater'
  BY <1>2 DEF ExtInv, OffStaysOffLater
<1> QED BY <1>6, <1>7, <1>8, <1>9, <1>10, <1>11, <1>12, <1>13, <1>14, <1>15, <1>16,
           <1>17 DEF ExtInv

\* A fetched manifest claims its id, or the load ends without it.
LEMMA FetchEndsStep ==
  ASSUME ExtInv, NEW t \in Tasks, FetchEnds(t)
  PROVE  ExtInv'
<1> DEFINE s == task[t].source
<1>1. /\ TypeOK /\ IsRunning(t) /\ task[t].phase = "fetching"
      /\ s \in Sources
      /\ \A r \in Sources : Current(t, r) <=> task[t].current /\ r = s
  BY RunningTyped DEF ExtInv, FetchEnds, Current
<1>2. UNCHANGED <<choiceVars, known, liveVars, boot, refresh, off, meddled>>
  BY DEF FetchEnds
<1>3. status \in [Sources -> Rows] /\ owner \in [Ids -> Sources \cup {Nobody}]
  BY <1>1 DEF TypeOK, LoadTypes, ClaimTypes
<1>a. UNCHANGED disposers /\ panel' = panel /\ LiveTypes'
  BY <1>1, <1>2 DEF liveVars, TypeOK, LiveTypes
<1>b. \A j \in Ids : panel'[j] # NoPanel => panel'[j] = panel[j] /\ panel[j].load # t
  BY <1>1, <1>a DEF ExtInv, PanelInv
<1>c. UNCHANGED claimVars =>
        /\ ClaimTypes'
        /\ \A j \in Ids, r \in Sources : owner[j] = r /\ ~Current(t, r) => owner'[j] = r
  BY <1>1 DEF claimVars, TypeOK, ClaimTypes
<1>4. CASE /\ ~task[t].current /\ task' = [task EXCEPT ![t] = Over]
           /\ UNCHANGED <<status, claimVars>>
  BY <1>1, <1>2, <1>3, <1>4, <1>a, <1>b, <1>c, LoseStep
<1>5. CASE /\ task[t].current /\ task' = [task EXCEPT ![t] = Over]
           /\ \E i \in Ids \cup {NoId} :
                status' = [status EXCEPT ![s] = Status("error", i, Nobody)]
           /\ UNCHANGED claimVars
  <2>1. \A i \in Ids \cup {NoId} : /\ Status("error", i, Nobody) \in Rows
                                   /\ Status("error", i, Nobody).is = "error"
    BY DEF Status, Rows
  <2>2. /\ status' \in [Sources -> Rows] /\ status'[s].is = "error"
        /\ \A r \in Sources \ {s} : status'[r] = status[r]
    BY <1>1, <1>3, <1>5, <2>1
  <2> QED BY <1>1, <1>2, <1>5, <1>a, <1>b, <1>c, <2>2, LoseStep
<1>6. CASE \E i \in Ids :
             /\ task[t].current /\ owner[i] \notin {Nobody, s}
             /\ task' = [task EXCEPT ![t] = Over]
             /\ status' = [status EXCEPT ![s] = Status("shadowed", i, owner[i])]
             /\ UNCHANGED claimVars
  <2>1. \A i \in Ids : /\ Status("shadowed", i, owner[i]) \in Rows
                       /\ Status("shadowed", i, owner[i]).is = "shadowed"
    BY <1>3 DEF Status, Rows
  <2>2. /\ status' \in [Sources -> Rows] /\ status'[s].is = "shadowed"
        /\ \A r \in Sources \ {s} : status'[r] = status[r]
    BY <1>1, <1>3, <1>6, <2>1
  <2> QED BY <1>1, <1>2, <1>6, <1>a, <1>b, <1>c, <2>2, LoseStep
<1>7. CASE \E i \in Ids :
             /\ task[t].current /\ owner[i] \in {Nobody, s}
             /\ task' = [task EXCEPT ![t] = Activating(s, i)]
             /\ owner' = [owner EXCEPT ![i] = s]
             /\ claim' = [claim EXCEPT ![s] = i]
             /\ UNCHANGED status
  BY <1>1, <1>2, <1>7, FetchClaims
<1> QED BY <1>4, <1>5, <1>6, <1>7 DEF FetchEnds

-----------------------------------------------------------------------------
(* Activation registers *)

\* An activating load registers a panel.
LEMMA RegisterStep ==
  ASSUME ExtInv, NEW t \in Tasks, Register(t)
  PROVE  ExtInv'
<1> DEFINE s == task[t].source
           i == task[t].id
           shown == [load |-> t, source |-> s]
<1>1. /\ TypeOK /\ IsRunning(t) /\ task[t].phase = "activating" /\ s \in Sources
      /\ i \in Ids
  BY RunningTyped DEF ExtInv, LoadsInv, Register
<1>2. /\ UNCHANGED <<choiceVars, known, status, task, claimVars, disposers, boot,
                     refresh, off, meddled>>
      /\ panel' = [panel EXCEPT ![i] = shown]
  BY DEF Register
<1>3. /\ boot' = boot /\ refresh' = refresh /\ off' = off /\ meddled' = meddled
      /\ listed' = listed /\ status' = status /\ disposers' = disposers /\ task' = task
      /\ owner' = owner /\ ChoiceTypes' /\ LoadTypes' /\ ClaimTypes' /\ BootTypes'
  BY <1>1, <1>2 DEF choiceVars, claimVars, TypeOK, ChoiceTypes, LoadTypes, ClaimTypes,
                    BootTypes
<1>4. /\ LiveTypes' /\ panel'[i] = shown /\ \A j \in Ids \ {i} : panel'[j] = panel[j]
  <2>1. shown \in [load : Tasks \cup {NoTask}, source : Sources \cup {Nobody}]
    BY <1>1
  <2> QED BY <1>1, <1>2, <1>3, <2>1 DEF TypeOK, LiveTypes
<1>5. \A r \in Sources : /\ (Queued(r)' <=> Queued(r)) /\ (Waiting(r)' <=> Waiting(r))
                         /\ \A u \in Tasks : Current(u, r)' <=> Current(u, r)
  BY <1>3 DEF Queued, Waiting, Current, IsRunning
<1>6. \A u \in Tasks : IsRunning(u)' <=> IsRunning(u)
  BY <1>3 DEF IsRunning
<1>7. TypeOK'
  BY <1>3, <1>4 DEF TypeOK
<1>8. LoadsInv' /\ MeddledInv' /\ OffInv' /\ ActiveOwnsItsId' /\ OffStaysOffLater'
  BY <1>3, <1>5, <1>6 DEF Tasks, ExtInv, LoadsInv, MeddledInv, OffInv, ActiveOwnsItsId,
                          OffStaysOffLater
<1>9. BootInv' /\ RowInv' /\ OwnerInv'
  BY <1>3, <1>5, <1>6 DEF Tasks, ExtInv, BootInv, RowInv, OwnerInv
<1>10. NoEndlessSpinner'
  BY <1>3, <1>5 DEF ExtInv, NoEndlessSpinner, IsRunning
<1>11. PanelInv'
  <2>1. t \in Sources => s = t
    BY <1>1 DEF ExtInv, BootInv
  <2>2. shown.load = t /\ shown.source = s /\ task[t] # NotBegun
    BY <1>1 DEF IsRunning
  <2> SUFFICES ASSUME NEW j \in Ids, panel'[j] # NoPanel
               PROVE /\ panel'[j].load \in Tasks /\ panel'[j].source \in Sources
                     /\ task[panel'[j].load] # NotBegun
                     /\ panel'[j].load \in Sources => panel'[j].source = panel'[j].load
                     /\ task[panel'[j].load] \notin {NotBegun, Over} =>
                          /\ task[panel'[j].load].source = panel'[j].source
                          /\ task[panel'[j].load].phase = "activating"
    BY <1>3 DEF PanelInv, NoPanel, IsRunning
  <2>3. CASE j = i
    BY <1>1, <1>4, <2>1, <2>2, <2>3
  <2>4. CASE j # i
    BY <1>4, <2>4 DEF ExtInv, PanelInv, IsRunning
  <2> QED BY <2>3, <2>4
<1>12. NothingLeftBehind'
  <2> SUFFICES ASSUME NEW j \in Ids, panel'[j] # NoPanel
               PROVE \/ task[panel'[j].load] \notin {NotBegun, Over}
                     \/ disposers[panel'[j].source] = panel'[j].load
                     \/ panel'[j].source \in meddled
    BY <1>3 DEF NothingLeftBehind, NoPanel, IsRunning
  <2>1. CASE j = i
    BY <1>1, <1>4, <2>1 DEF IsRunning
  <2>2. CASE j # i
    BY <1>4, <2>2 DEF ExtInv, NothingLeftBehind, IsRunning
  <2> QED BY <2>1, <2>2
<1> QED BY <1>7, <1>8, <1>9, <1>10, <1>11, <1>12 DEF ExtInv

-----------------------------------------------------------------------------
(* The bootstrap begins and ends, and directories change *)

\* The bootstrap begins.
LEMMA BootstrapStep ==
  ASSUME ExtInv, Bootstrap
  PROVE  ExtInv'
<1>1. /\ TypeOK /\ boot.stage = "idle"
      /\ boot' = [boot EXCEPT !.stage = "discovering", !.fetch = Builtins \cup listed]
      /\ UNCHANGED <<choiceVars, known, status, task, claimVars, liveVars, refresh,
                     off, meddled>>
  BY DEF ExtInv, Bootstrap
<1>2. /\ refresh' = refresh /\ off' = off /\ meddled' = meddled
      /\ listed' = listed /\ status' = status /\ disposers' = disposers /\ task' = task
      /\ owner' = owner /\ panel' = panel
      /\ ChoiceTypes' /\ LoadTypes' /\ ClaimTypes' /\ LiveTypes'
  BY <1>1 DEF choiceVars, claimVars, liveVars, TypeOK, ChoiceTypes, LoadTypes,
              ClaimTypes, LiveTypes
<1>3. /\ boot'.stage = "discovering" /\ boot'.queue = boot.queue
      /\ boot'.fetch = Builtins \cup listed /\ BootTypes'
  BY <1>1, <1>2 DEF TypeOK, BootTypes, ChoiceTypes, Sources
<1>4. boot.queue = NoQueues
  BY <1>1 DEF ExtInv, BootInv
<1>5. \A r \in Sources : /\ (Queued(r)' <=> Queued(r)) /\ ~Waiting(r)' /\ ~Waiting(r)
                         /\ \A u \in Tasks : Current(u, r)' <=> Current(u, r)
  BY <1>1, <1>2, <1>3, <1>4 DEF Queued, Waiting, Current, IsRunning, NoQueues, Range
<1>6. \A u \in Tasks : IsRunning(u)' <=> IsRunning(u)
  BY <1>2 DEF IsRunning
<1>7. TypeOK'
  BY <1>2, <1>3 DEF TypeOK
<1>8. LoadsInv' /\ MeddledInv' /\ ActiveOwnsItsId' /\ OffStaysOffLater'
  BY <1>1, <1>2, <1>5, <1>6 DEF Tasks, ExtInv, LoadsInv, MeddledInv, ActiveOwnsItsId,
                                OffStaysOffLater
<1>9. OffInv'
  BY <1>1, <1>2 DEF ExtInv, OffInv
<1>10. BootInv'
  BY <1>1, <1>2, <1>3, <1>4, <1>5, <1>6 DEF Tasks, ExtInv, BootInv
<1>11. RowInv'
  <2>1. \A r \in Urls \ listed : r \notin boot'.fetch
    BY <1>3, KindsAssumption
  <2> QED BY <1>1, <1>2, <1>3, <1>5, <2>1 DEF ExtInv, RowInv
<1>12. OwnerInv'
  BY <1>2, <1>3, <1>5 DEF ExtInv, OwnerInv
<1>13. NoEndlessSpinner'
  BY <1>1, <1>2, <1>3, <1>4 DEF ExtInv, NoEndlessSpinner, IsRunning, NoQueues
<1>14. PanelInv' /\ NothingLeftBehind'
  BY <1>2 DEF ExtInv, PanelInv, NothingLeftBehind, IsRunning, NoPanel
<1> QED BY <1>7, <1>8, <1>9, <1>10, <1>11, <1>12, <1>13, <1>14 DEF ExtInv

\* The bootstrap ends when nothing is queued or loading.
LEMMA BootedStep ==
  ASSUME ExtInv, Booted
  PROVE  ExtInv'
<1>1. /\ TypeOK /\ boot.stage = "resolving" /\ boot.queue = NoQueues
      /\ \A s \in Sources : ~IsRunning(s)
      /\ boot' = [boot EXCEPT !.stage = "done"]
      /\ UNCHANGED <<choiceVars, known, status, task, claimVars, liveVars, refresh,
                     off, meddled>>
  BY DEF ExtInv, Booted
<1>2. /\ refresh' = refresh /\ off' = off /\ meddled' = meddled
      /\ listed' = listed /\ status' = status /\ disposers' = disposers /\ task' = task
      /\ owner' = owner /\ panel' = panel
      /\ ChoiceTypes' /\ LoadTypes' /\ ClaimTypes' /\ LiveTypes'
  BY <1>1 DEF choiceVars, claimVars, liveVars, TypeOK, ChoiceTypes, LoadTypes,
              ClaimTypes, LiveTypes
<1>3. /\ boot'.stage = "done" /\ boot'.queue = boot.queue /\ BootTypes'
  BY <1>1, <1>2 DEF TypeOK, BootTypes
<1>5. \A r \in Sources : /\ (Queued(r)' <=> Queued(r)) /\ ~Waiting(r)' /\ ~Waiting(r)
                         /\ \A u \in Tasks : Current(u, r)' <=> Current(u, r)
  BY <1>1, <1>2, <1>3 DEF Queued, Waiting, Current, IsRunning, NoQueues, Range
<1>6. \A u \in Tasks : IsRunning(u)' <=> IsRunning(u)
  BY <1>2 DEF IsRunning
<1>7. TypeOK'
  BY <1>2, <1>3 DEF TypeOK
<1>8. LoadsInv' /\ MeddledInv' /\ ActiveOwnsItsId' /\ OffStaysOffLater'
  BY <1>2, <1>3, <1>5, <1>6 DEF ExtInv, LoadsInv, MeddledInv, ActiveOwnsItsId,
                                OffStaysOffLater
<1>9. OffInv'
  BY <1>3 DEF OffInv
<1>10. BootInv'
  BY <1>1, <1>2, <1>3, <1>5, <1>6 DEF Tasks, ExtInv, BootInv
<1>11. RowInv'
  BY <1>2, <1>3, <1>5 DEF ExtInv, RowInv
<1>12. OwnerInv'
  BY <1>2, <1>3, <1>5 DEF ExtInv, OwnerInv
<1>13. NoEndlessSpinner'
  BY <1>1, <1>2, <1>3 DEF ExtInv, NoEndlessSpinner, IsRunning, NoQueues
<1>14. PanelInv' /\ NothingLeftBehind'
  BY <1>2 DEF ExtInv, PanelInv, NothingLeftBehind, IsRunning, NoPanel
<1> QED BY <1>7, <1>8, <1>9, <1>10, <1>11, <1>12, <1>13, <1>14 DEF ExtInv

\* The directory changes, or nothing does.
LEMMA DiskStep ==
  ASSUME ExtInv, (\E s \in Locals : DiskChanges(s)) \/ UNCHANGED vars
  PROVE  ExtInv'
<1>1. UNCHANGED <<listed, disabled, enabled, known, status, task, claimVars, liveVars,
                  boot, refresh, off, meddled>>
  BY DEF DiskChanges, vars, choiceVars
<1>2. /\ boot' = boot /\ refresh' = refresh /\ off' = off /\ meddled' = meddled
      /\ listed' = listed /\ status' = status /\ disposers' = disposers /\ task' = task
      /\ owner' = owner /\ panel' = panel
      /\ LoadTypes' /\ ClaimTypes' /\ LiveTypes' /\ BootTypes'
  BY <1>1 DEF ExtInv, claimVars, liveVars, TypeOK, LoadTypes, ClaimTypes, LiveTypes,
              BootTypes
<1>3. ChoiceTypes'
  BY DEF ExtInv, TypeOK, ChoiceTypes, DiskChanges, vars, choiceVars
<1>4. TypeOK' /\ LoadsInv' /\ MeddledInv' /\ OffInv' /\ ActiveOwnsItsId'
      /\ OffStaysOffLater'
  BY <1>2, <1>3 DEF ExtInv, TypeOK, LoadsInv, MeddledInv, OffInv, ActiveOwnsItsId,
                    OffStaysOffLater, Current, IsRunning
<1>5. BootInv' /\ OwnerInv' /\ NoEndlessSpinner'
  BY <1>2 DEF ExtInv, BootInv, OwnerInv, NoEndlessSpinner, Queued, Current, IsRunning
<1>6. RowInv'
  BY <1>2 DEF ExtInv, RowInv, Queued, Waiting, Current, IsRunning
<1>7. PanelInv' /\ NothingLeftBehind'
  BY <1>2 DEF ExtInv, PanelInv, NothingLeftBehind, IsRunning, NoPanel
<1> QED BY <1>4, <1>5, <1>6, <1>7 DEF ExtInv

-----------------------------------------------------------------------------
(* The bootstrap has its candidates *)

\* The bootstrap has listed the sources it will fetch.
LEMMA DiscoveredStep ==
  ASSUME ExtInv, Discovered
  PROVE  ExtInv'
<1>1. PICK found \in {disk, {}} :
        LET candidates == boot.fetch \cup found
        IN /\ known' = known \cup found
           /\ status' = [s \in Sources |->
                IF s \notin candidates THEN status[s]
                ELSE Plain(IF IsDisabled(s) THEN "disabled" ELSE "loading")]
           /\ boot' = [boot EXCEPT !.stage = "fetching",
                         !.fetch = {s \in candidates : ~IsDisabled(s)}]
  BY DEF Discovered
<1> DEFINE candidates == boot.fetch \cup found
           fetch == {s \in candidates : ~IsDisabled(s)}
<1>2. /\ TypeOK /\ boot.stage = "discovering" /\ found \subseteq Locals
      /\ candidates \subseteq Sources /\ fetch \subseteq candidates
      /\ UNCHANGED <<choiceVars, task, claimVars, liveVars, refresh, off, meddled>>
  BY DEF ExtInv, Discovered, TypeOK, ChoiceTypes, BootTypes, Sources
<1>3. /\ refresh' = refresh /\ off' = off /\ meddled' = meddled
      /\ listed' = listed /\ disposers' = disposers /\ task' = task
      /\ owner' = owner /\ panel' = panel
      /\ ClaimTypes' /\ LiveTypes'
  BY <1>2 DEF choiceVars, claimVars, liveVars, TypeOK, ClaimTypes, LiveTypes
<1>4. /\ boot'.stage = "fetching" /\ boot'.queue = boot.queue /\ boot'.fetch = fetch
      /\ BootTypes'
  BY <1>1, <1>2, <1>3 DEF TypeOK, BootTypes
<1> DEFINE PStatus ==
      /\ \A r \in Sources \ candidates : status'[r] = status[r]
      /\ \A r \in candidates \ fetch : status'[r].is = "disabled"
      /\ \A r \in fetch : status'[r].is = "loading"
<1>5. PStatus /\ status' \in [Sources -> Rows]
  <2>1. \A r \in candidates : status'[r] = Plain(IF r \in fetch THEN "loading" ELSE "disabled")
    BY <1>1, <1>2
  <2>2. \A r \in Sources \ candidates : status'[r] = status[r]
    BY <1>1
  <2>3. status' = [r \in Sources |-> status'[r]]
    BY <1>1
  <2>4. \A r \in Sources : status'[r] \in Rows
    BY <1>2, <2>1, <2>2, PlainRows DEF TypeOK, LoadTypes
  <2>5. PStatus
    BY <1>2, <2>1, <2>2, PlainRows
  <2>6. status' \in [Sources -> Rows]
    BY <2>3, <2>4
  <2> QED BY <2>5, <2>6
<1>6. boot.queue = NoQueues
  BY <1>2 DEF ExtInv, BootInv
<1>7. \A r \in Sources : /\ ~Queued(r) /\ ~Queued(r)' /\ ~Waiting(r)
                         /\ Waiting(r)' <=> r \in fetch
                         /\ \A u \in Tasks : Current(u, r)' <=> Current(u, r)
  BY <1>2, <1>3, <1>4, <1>6 DEF Queued, Waiting, Current, IsRunning, NoQueues, Range
<1>8. \A u \in Tasks : IsRunning(u)' <=> IsRunning(u)
  BY <1>3 DEF IsRunning
<1>9. \A r \in Sources \ meddled :
        /\ status[r].is = "none" /\ disposers[r] = NoTask
        /\ \A u \in Tasks : ~Current(u, r)
        /\ r \in Urls \ listed => r \notin candidates
  <2> TAKE r \in Sources \ meddled
  <2>1. status[r].is = "none" /\ disposers[r] = NoTask
    BY <1>2 DEF ExtInv, RowInv
  <2>2. \A u \in Tasks : ~Current(u, r)
    BY <2>1 DEF ExtInv, RowInv
  <2>3. r \in Urls \ listed => r \notin candidates
    BY <1>2, KindsAssumption DEF ExtInv, RowInv
  <2> QED BY <2>1, <2>2, <2>3
<1> HIDE DEF candidates, fetch, PStatus
<1>10. TypeOK'
  <2>1. ChoiceTypes'
    BY <1>1, <1>2 DEF TypeOK, ChoiceTypes, choiceVars
  <2>2. LoadTypes'
    BY <1>2, <1>3, <1>5 DEF TypeOK, LoadTypes
  <2> QED BY <1>3, <1>4, <2>1, <2>2 DEF TypeOK
<1>11. LoadsInv'
  BY <1>3, <1>7, <1>8 DEF ExtInv, LoadsInv
<1>12. MeddledInv'
  BY <1>2, <1>3, <1>8 DEF Tasks, ExtInv, MeddledInv
<1>13. BootInv'
  BY <1>2, <1>3, <1>4, <1>6, <1>7, <1>8 DEF Tasks, ExtInv, BootInv
<1>14. RowInv'
  <2> SUFFICES ASSUME NEW r \in Sources \ meddled
               PROVE /\ ~(\E u \in Tasks : Current(u, r)')
                     /\ Waiting(r)' => status'[r].is = "loading"
                     /\ status'[r].is # "loaded"
                     /\ r \in Urls \ listed => status'[r].is = "none" /\ r \notin fetch
    BY <1>3, <1>4, <1>9 DEF RowInv
  <2>1. CASE r \in candidates
    BY <1>2, <1>5, <1>7, <1>9, <2>1 DEF PStatus
  <2>2. CASE r \notin candidates
    BY <1>2, <1>5, <1>7, <1>9, <2>2 DEF PStatus
  <2> QED BY <2>1, <2>2
<1>15. OwnerInv'
  <2>1. \A i \in Ids : boot'.queue[i] = <<>>
    BY <1>4, <1>6 DEF NoQueues
  <2>2. \A r \in Sources : status'[r].is = "loaded" => status'[r].id \in Ids
    BY <1>2, <1>5 DEF PStatus, ExtInv, OwnerInv
  <2> QED BY <1>3, <1>7, <1>9, <2>1, <2>2 DEF OwnerInv
<1>16. ActiveOwnsItsId'
  BY <1>2, <1>3, <1>5, <1>9 DEF PStatus, ActiveOwnsItsId
<1>17. PanelInv' /\ NothingLeftBehind'
  BY <1>3 DEF ExtInv, PanelInv, NothingLeftBehind, IsRunning, NoPanel
<1>18. OffInv' /\ OffStaysOffLater'
  BY <1>2, <1>3 DEF ExtInv, OffInv, OffStaysOffLater
<1>19. NoEndlessSpinner'
  <2> SUFFICES ASSUME NEW r \in Sources, status'[r].is = "loading"
               PROVE  (\E u \in Tasks : Current(u, r)') \/ Waiting(r)'
    BY DEF NoEndlessSpinner, Current, Waiting, Queued, Range
  <2>1. CASE r \in fetch
    BY <1>7, <2>1
  <2>2. CASE r \notin fetch
    <3>1. status[r].is = "loading"
      BY <1>5, <2>2 DEF PStatus
    <3>2. (\E u \in Tasks : Current(u, r)) \/ Waiting(r)
      BY <3>1 DEF ExtInv, NoEndlessSpinner, Current, Waiting, Queued, Range
    <3> QED BY <1>7, <3>2
  <2> QED BY <2>1, <2>2
<1> QED BY <1>10, <1>11, <1>12, <1>13, <1>14, <1>15, <1>16, <1>17, <1>18, <1>19
        DEF ExtInv

-----------------------------------------------------------------------------
(* The bootstrap has all manifests *)

\* A group names each of its sources once.
LEMMA GroupFacts ==
  ASSUME NEW S \in SUBSET Sources, NEW g \in SetToSeqs(S)
  PROVE  g \in Seq(Sources) /\ Range(g) = S /\ IsInjective(g)
<1>1. IsFiniteSet(S) /\ Cardinality(S) \in Nat
  BY KindsAssumption, FS_Subset, FS_CardinalityType
<1>2. /\ g \in [1..Cardinality(S) -> S]
      /\ \A i, j \in 1..Cardinality(S) : i # j => g[i] # g[j]
  BY DEF SetToSeqs
<1>3. IsInjective(g)
  BY <1>2 DEF IsInjective
<1>4. Cardinality(1..Cardinality(S)) = Cardinality(S)
  BY <1>1, FS_Interval
<1>5. g \in Injection(1..Cardinality(S), S)
  BY <1>2, <1>3 DEF Injection
<1>6. g \in Surjection(1..Cardinality(S), S)
  BY <1>1, <1>4, <1>5, FS_Injection
<1>7. Range(g) = S
  BY <1>2, <1>6 DEF Surjection, Range
<1>8. g \in Seq(Sources)
  BY <1>1, <1>2
<1> QED BY <1>3, <1>7, <1>8

\* The first of a group and the rest.
LEMMA RestFacts ==
  ASSUME NEW q \in Seq(Sources), q # <<>>, IsInjective(q)
  PROVE  /\ Head(q) \in Range(q) /\ Tail(q) \in Seq(Sources)
         /\ IsInjective(Tail(q)) /\ Range(Tail(q)) = Range(q) \ {Head(q)}
<1>1. /\ Len(q) \in Nat \ {0} /\ DOMAIN q = 1..Len(q) /\ Head(q) = q[1]
  OBVIOUS
<1>2. /\ Tail(q) \in Seq(Sources) /\ DOMAIN Tail(q) = 1..(Len(q) - 1)
      /\ \A k \in 1..(Len(q) - 1) : Tail(q)[k] = q[k + 1]
  BY <1>1
<1>3. \A k \in 1..(Len(q) - 1) : k + 1 \in DOMAIN q /\ k + 1 # 1
  BY <1>1
<1>4. \A k \in DOMAIN q : k = 1 \/ (k - 1 \in 1..(Len(q) - 1) /\ (k - 1) + 1 = k)
  BY <1>1
<1>5. IsInjective(Tail(q))
  <2>1. \A k, l \in 1..(Len(q) - 1) : k + 1 = l + 1 => k = l
    BY <1>1
  <2> QED BY <1>2, <1>3, <2>1 DEF IsInjective
<1>6. 1 \in DOMAIN q
  BY <1>1
<1>7. \A r \in Range(Tail(q)) : r \in Range(q) /\ r # Head(q)
  BY <1>1, <1>2, <1>3, <1>6 DEF IsInjective, Range
<1>8. \A r \in Range(q) \ {Head(q)} : r \in Range(Tail(q))
  BY <1>1, <1>2, <1>4 DEF Range
<1> QED BY <1>1, <1>2, <1>5, <1>6, <1>7, <1>8 DEF Range

\* The bootstrap has every manifest and queues the sources of each id.
LEMMA FetchedStep ==
  ASSUME ExtInv, Fetched
  PROVE  ExtInv'
<1>1. PICK named \in [boot.fetch -> Ids \cup {NoId}],
           group \in [Ids -> UNION {SetToSeqs(S) : S \in SUBSET boot.fetch}] :
        LET full == {i \in Ids : group[i] # <<>>}
            first == {Head(group[i]) : i \in full}
        IN /\ \A i \in Ids :
                /\ group[i] \in SetToSeqs({s \in boot.fetch : named[s] = i})
                /\ \A j, k \in DOMAIN group[i] :
                     j < k => Rank(group[i][j]) <= Rank(group[i][k])
           /\ status' = [s \in Sources |->
                IF s \in boot.fetch /\ named[s] = NoId THEN Plain("error")
                ELSE status[s]]
           /\ task' = [t \in Tasks |-> IF t \in first THEN Activating(t, named[t])
                                       ELSE Superseded(task, first)[t]]
           /\ owner' = [i \in Ids |-> IF i \in full THEN Head(group[i])
                                      ELSE owner[i]]
           /\ claim' = [s \in Sources |-> IF s \in first THEN named[s] ELSE claim[s]]
           /\ boot' = [stage |-> "resolving",
                       fetch |-> {},
                       queue |-> [i \in Ids |-> IF i \in full THEN Tail(group[i])
                                                ELSE <<>>]]
  BY DEF Fetched
<1> DEFINE full == {i \in Ids : group[i] # <<>>}
           first == {Head(group[i]) : i \in full}
<1>2. /\ TypeOK /\ boot.stage = "fetching" /\ boot.fetch \subseteq Sources
      /\ UNCHANGED <<choiceVars, known, liveVars, refresh, off, meddled>>
  BY DEF ExtInv, Fetched, TypeOK, BootTypes
<1>3. /\ refresh' = refresh /\ off' = off /\ meddled' = meddled
      /\ listed' = listed /\ disposers' = disposers /\ panel' = panel
      /\ ChoiceTypes' /\ LiveTypes'
  BY <1>2 DEF choiceVars, liveVars, TypeOK, ChoiceTypes, LiveTypes
<1> DEFINE Named(i) == {s \in boot.fetch : named[s] = i}
<1>4. \A i \in Ids : /\ group[i] \in Seq(Sources) /\ Range(group[i]) = Named(i)
                     /\ IsInjective(group[i])
  <2> TAKE i \in Ids
  <2>1. Named(i) \in SUBSET Sources /\ group[i] \in SetToSeqs(Named(i))
    BY <1>1, <1>2
  <2> HIDE DEF Named
  <2> QED BY <2>1, GroupFacts
<1>5. \A i \in full : /\ Head(group[i]) \in Named(i) /\ Tail(group[i]) \in Seq(Sources)
                      /\ IsInjective(Tail(group[i]))
                      /\ Range(Tail(group[i])) = Named(i) \ {Head(group[i])}
  <2> TAKE i \in full
  <2>1. /\ group[i] \in Seq(Sources) /\ group[i] # <<>> /\ IsInjective(group[i])
        /\ Range(group[i]) = Named(i)
    BY <1>4
  <2> HIDE DEF Named, full
  <2> QED BY <2>1, RestFacts
<1>6. /\ first \subseteq boot.fetch
      /\ \A r \in first : /\ named[r] \in Ids /\ named[r] \in full
                          /\ Head(group[named[r]]) = r
  BY <1>5
<1>7. \A i \in Ids \ full : Named(i) = {}
  <2> TAKE i \in Ids \ full
  <2>1. group[i] = <<>> /\ Range(group[i]) = Named(i)
    BY <1>4
  <2> QED BY <2>1 DEF Range
<1> DEFINE PQueue ==
      /\ boot'.stage = "resolving" /\ boot'.fetch = {} /\ boot'.queue \in [Ids -> Seq(Sources)]
      /\ \A i \in Ids : /\ IsInjective(boot'.queue[i])
                        /\ Range(boot'.queue[i]) = Named(i) \ first
<1>8. PQueue
  <2>1. /\ boot'.stage = "resolving" /\ boot'.fetch = {}
        /\ boot'.queue = [i \in Ids |-> IF i \in full THEN Tail(group[i]) ELSE <<>>]
    BY <1>1
  <2>2. <<>> \in Seq(Sources)
    OBVIOUS
  <2>3. boot'.queue \in [Ids -> Seq(Sources)]
    BY <1>5, <2>1, <2>2
  <2>4. ASSUME NEW i \in Ids
        PROVE  IsInjective(boot'.queue[i]) /\ Range(boot'.queue[i]) = Named(i) \ first
    <3>1. CASE i \in full
      <4>1. boot'.queue[i] = Tail(group[i])
        BY <2>1, <3>1
      <4>2. Head(group[i]) \in first /\ \A r \in Named(i) : r \in first => r = Head(group[i])
        BY <1>6, <3>1
      <4>3. Named(i) \ {Head(group[i])} = Named(i) \ first
        BY <4>2
      <4> QED BY <1>5, <3>1, <4>1, <4>3
    <3>2. CASE i \notin full
      <4>1. boot'.queue[i] = <<>> /\ Named(i) = {}
        BY <1>7, <2>1, <3>2
      <4>2. IsInjective(<<>>) /\ Range(<<>>) = {}
        BY DEF IsInjective, Range
      <4> QED BY <4>1, <4>2
    <3> QED BY <3>1, <3>2
  <2> QED BY <2>1, <2>3, <2>4
<1> DEFINE POwner == \A r \in first : owner'[named[r]] = r
<1>9. POwner /\ ClaimTypes'
  <2>1. owner \in [Ids -> Sources \cup {Nobody}] /\ claim \in [Sources -> Ids \cup {NoId}]
    BY <1>2 DEF TypeOK, ClaimTypes
  <2>2. POwner
    BY <1>1, <1>6
  <2>3. /\ owner' = [i \in Ids |-> IF i \in full THEN Head(group[i]) ELSE owner[i]]
        /\ claim' = [s \in Sources |-> IF s \in first THEN named[s] ELSE claim[s]]
    BY <1>1
  <2>4. \A i \in full : Head(group[i]) \in Sources
    BY <1>2, <1>5
  <2>5. owner' \in [Ids -> Sources \cup {Nobody}]
    BY <2>1, <2>3, <2>4
  <2>6. claim' \in [Sources -> Ids \cup {NoId}]
    BY <1>6, <2>1, <2>3
  <2> QED BY <2>2, <2>5, <2>6 DEF ClaimTypes
<1> DEFINE PStatus ==
      /\ \A r \in boot.fetch : named[r] = NoId => status'[r].is = "error"
      /\ \A r \in Sources : r \notin boot.fetch \/ named[r] \in Ids => status'[r] = status[r]
<1>10. PStatus /\ status' \in [Sources -> Rows]
  <2>1. status' = [s \in Sources |-> IF s \in boot.fetch /\ named[s] = NoId
                                     THEN Plain("error") ELSE status[s]]
    BY <1>1
  <2>2. status' \in [Sources -> Rows]
    BY <1>2, <2>1, PlainRows DEF TypeOK, LoadTypes
  <2>3. PStatus
    BY <1>2, <2>1, PlainRows, NullsAssumption
  <2> QED BY <2>2, <2>3
<1>11. \A s \in Sources : task[s] = NotBegun /\ ~IsRunning(s) /\ s \in Tasks
  BY <1>2 DEF ExtInv, BootInv, IsRunning, Tasks
<1> DEFINE PTask ==
      /\ task' \in [Tasks -> Loads]
      /\ \A r \in first : /\ IsRunning(r)' /\ task'[r].source = r
                          /\ task'[r].phase = "activating" /\ task'[r].id = named[r]
      /\ \A u \in Tasks \ first :
           /\ IsRunning(u)' <=> IsRunning(u)
           /\ task'[u] = NotBegun <=> task[u] = NotBegun
           /\ IsRunning(u) => /\ task'[u].source = task[u].source
                              /\ task'[u].phase = task[u].phase
                              /\ task'[u].id = task[u].id
<1> DEFINE PCurrent ==
      /\ \A r \in first : Current(r, r)'
      /\ \A u \in Tasks : \A r \in Sources :
           Current(u, r)' <=> (r \in first /\ u = r)
                              \/ (u \notin first /\ r \notin first /\ Current(u, r))
<1>12. first \subseteq Sources
  BY <1>2, <1>6
<1>13. /\ \A r \in first : task'[r] = Activating(r, named[r])
       /\ \A u \in Tasks \ first : task'[u] = Superseded(task, first)[u]
       /\ task' = [u \in Tasks |-> task'[u]]
  <2>1. task' = [t \in Tasks |-> IF t \in first THEN Activating(t, named[t])
                                 ELSE Superseded(task, first)[t]]
    BY <1>1
  <2> HIDE DEF first
  <2> QED BY <1>11, <1>12, <2>1
<1>14. \A r \in first : named[r] \in Ids
  BY <1>6
<1> HIDE DEF first
<1>15. PTask /\ PCurrent
  <2>1. task \in [Tasks -> Loads]
    BY <1>2 DEF TypeOK, LoadTypes, Loads
  <2>2. \A u \in Tasks \ first : task'[u] = Stale(task[u], first) /\ task[u] \in Loads
    BY <1>13, <2>1, SupersededIs
  <2>3. task' \in [Tasks -> Loads]
    <3>1. \A u \in first : task'[u] \in Loads
      BY <1>12, <1>13, <1>14, StartTyped
    <3>2. \A u \in Tasks \ first : task'[u] \in Loads
      BY <2>2, StaleFacts
    <3> QED BY <1>13, <3>1, <3>2
  <2>4. \A r \in first : /\ task'[r] \notin {NotBegun, Over}
                         /\ task'[r].source = r /\ task'[r].phase = "activating"
                         /\ task'[r].id = named[r] /\ task'[r].current
    <3> TAKE r \in first
    <3>1. task'[r] = Activating(r, named[r]) /\ task'[r] \notin {NotBegun, Over}
      BY <1>12, <1>13, <1>14, StartTyped
    <3>2. /\ Activating(r, named[r]).source = r
          /\ Activating(r, named[r]).phase = "activating"
          /\ Activating(r, named[r]).id = named[r]
          /\ Activating(r, named[r]).current = TRUE
      BY DEF Activating
    <3> QED BY <3>1, <3>2
  <2>5. ASSUME NEW u \in Tasks \ first
        PROVE  /\ IsRunning(u)' <=> IsRunning(u)
               /\ task'[u] = NotBegun <=> task[u] = NotBegun
               /\ IsRunning(u) => /\ task'[u].source = task[u].source
                                  /\ task'[u].phase = task[u].phase
                                  /\ task'[u].id = task[u].id
                                  /\ task'[u].current <=> task[u].current
                                                          /\ task[u].source \notin first
    BY <2>2, StaleFacts DEF IsRunning
  <2>6. PTask
    BY <2>3, <2>4, <2>5 DEF IsRunning
  <2>7. ASSUME NEW u \in Tasks, NEW r \in Sources
        PROVE  Current(u, r)' <=> (r \in first /\ u = r)
                                  \/ (u \notin first /\ r \notin first /\ Current(u, r))
    <3>1. CASE u \notin first
      BY <2>5, <3>1 DEF Current
    <3>2. CASE u \in first
      BY <2>4, <3>2 DEF Current, IsRunning
    <3> QED BY <3>1, <3>2
  <2>8. \A r \in first : Current(r, r)'
    BY <1>11, <1>12, <2>7
  <2> QED BY <2>6, <2>7, <2>8
<1>16. \A r \in Sources \ meddled :
         /\ \A u \in Tasks : ~Current(u, r)
         /\ disposers[r] = NoTask /\ status[r].is # "loaded"
         /\ r \in boot.fetch => status[r].is = "loading"
         /\ r \in Urls \ listed => status[r].is = "none" /\ r \notin boot.fetch
  <2> TAKE r \in Sources \ meddled
  <2>1. \A u \in Attempts : ~Current(u, r)
    BY <1>2 DEF ExtInv, MeddledInv, Current
  <2>2. \A u \in Sources : ~Current(u, r)
    BY <1>11 DEF Current
  <2>3. /\ status[r].is # "loaded" /\ disposers[r] = NoTask
        /\ r \in Urls \ listed => status[r].is = "none" /\ r \notin boot.fetch
    BY <1>2 DEF ExtInv, RowInv
  <2>4. r \in boot.fetch => status[r].is = "loading"
    BY <1>2 DEF ExtInv, RowInv, Waiting
  <2> QED BY <2>1, <2>2, <2>3, <2>4 DEF Tasks
<1>17. \A r \in Sources : /\ ~Queued(r)
                          /\ Queued(r)' <=> r \in boot.fetch /\ named[r] \in Ids /\ r \notin first
                          /\ Waiting(r)' <=> Queued(r)'
  <2> TAKE r \in Sources
  <2>1. boot.queue = NoQueues
    BY <1>2 DEF ExtInv, BootInv
  <2>2. ~Queued(r)
    BY <2>1 DEF Queued, NoQueues, Range
  <2>3. Queued(r)' <=> \E i \in Ids : r \in Named(i) \ first
    BY <1>8 DEF Queued
  <2>4. Waiting(r)' <=> Queued(r)'
    BY <1>8 DEF Waiting
  <2> QED BY <2>2, <2>3, <2>4
<1>18. \A i, j \in Ids : \A r \in Sources :
         r \in Range(boot'.queue[i]) /\ r \in Range(boot'.queue[j]) => i = j
  <2>1. \A i \in Ids : \A r \in Range(boot'.queue[i]) : r \in Named(i)
    <3> TAKE i \in Ids
    <3>1. Range(boot'.queue[i]) = Named(i) \ first
      BY <1>8
    <3> QED BY <3>1
  <2>2. \A i \in Ids : \A r \in Named(i) : named[r] = i
    OBVIOUS
  <2> QED BY <2>1, <2>2
<1>19. boot'.stage = "resolving" /\ boot'.fetch = {} /\ boot'.queue \in [Ids -> Seq(Sources)]
       /\ \A i \in Ids : IsInjective(boot'.queue[i])
  BY <1>8
<1>20. first \subseteq boot.fetch
  BY <1>6 DEF first
<1> HIDE DEF Named, PQueue, POwner, PStatus, PTask, PCurrent
<1>21. TypeOK'
  <2>1. LoadTypes'
    BY <1>10, <1>15 DEF LoadTypes, PTask, Loads
  <2>2. boot' = [stage |-> "resolving", fetch |-> {}, queue |-> boot'.queue]
    BY <1>1
  <2>3. BootTypes'
    BY <1>2, <1>3, <1>19, <2>2 DEF TypeOK, BootTypes
  <2> QED BY <1>3, <1>9, <2>1, <2>3 DEF TypeOK
<1>22. LoadsInv'
  <2>1. \A u \in Tasks : IsRunning(u)' /\ task'[u].phase = "activating" => task'[u].id \in Ids
    BY <1>14, <1>15 DEF PTask, ExtInv, LoadsInv
  <2>2. \A u, v \in Tasks : \A r \in Sources : Current(u, r)' /\ Current(v, r)' => u = v
    BY <1>15 DEF PCurrent, ExtInv, LoadsInv
  <2> QED BY <2>1, <2>2 DEF LoadsInv
<1>23. BootInv'
  <2>1. \A r \in Sources : IsRunning(r)' => r \in first
    BY <1>11, <1>15 DEF PTask
  <2>2. \A r \in Sources : IsRunning(r)' =>
          boot'.stage = "resolving" /\ task'[r].source = r /\ task'[r].phase = "activating"
    BY <1>15, <1>19, <2>1 DEF PTask
  <2>3. ASSUME NEW r \in Sources, NEW s \in Sources, IsRunning(r)', IsRunning(s)',
               task'[r].id = task'[s].id
        PROVE  r = s
    <3>1. r \in first /\ s \in first /\ named[r] = named[s]
      BY <1>15, <2>1, <2>3 DEF PTask
    <3> QED BY <1>9, <3>1 DEF POwner
  <2>4. \A r \in Sources : Queued(r)' => task'[r] = NotBegun
    BY <1>11, <1>15, <1>17 DEF PTask
  <2>5. refresh'.stage = "loading" => boot'.stage # "idle"
    BY <1>19
  <2> QED BY <1>18, <1>19, <2>2, <2>3, <2>4, <2>5 DEF BootInv
<1>24. MeddledInv'
  <2>1. \A u \in Attempts : u \in Tasks \ first
    BY <1>12, KindsAssumption DEF Tasks
  <2> QED BY <1>2, <1>3, <1>15, <2>1 DEF PTask, ExtInv, MeddledInv
<1>26. RowInv'
  <2> SUFFICES ASSUME NEW r \in Sources \ meddled
               PROVE /\ \A u \in Tasks : Current(u, r)' => status'[r].is = "loading"
                     /\ Waiting(r)' => status'[r].is = "loading" /\ \A u \in Tasks : ~Current(u, r)'
                     /\ r \in Urls \ listed => status'[r].is = "none"
    BY <1>3, <1>16, <1>19 DEF RowInv
  <2>1. CASE r \in first
    <3>1. status'[r].is = "loading" /\ ~Waiting(r)'
      BY <1>10, <1>14, <1>16, <1>17, <1>20, <2>1 DEF PStatus
    <3> QED BY <1>16, <1>20, <2>1, <3>1
  <2>2. CASE r \notin first
    <3>1. \A u \in Tasks : ~Current(u, r)'
      BY <1>15, <1>16, <2>2 DEF PCurrent
    <3>2. Waiting(r)' => status'[r].is = "loading"
      BY <1>10, <1>16, <1>17 DEF PStatus
    <3>3. r \in Urls \ listed => status'[r].is = "none"
      BY <1>10, <1>16 DEF PStatus
    <3> QED BY <3>1, <3>2, <3>3
  <2> QED BY <2>1, <2>2
<1>27. \A r \in Sources : status'[r].is = "loaded" => status'[r] = status[r]
  <2> TAKE r \in Sources
  <2>1. CASE r \in boot.fetch /\ named[r] = NoId
    BY <1>10, <2>1 DEF PStatus
  <2>2. CASE r \notin boot.fetch \/ named[r] \in Ids
    BY <1>10, <2>2 DEF PStatus
  <2> QED BY <2>1, <2>2
<1>28. OwnerInv'
  <2>1. ASSUME NEW r \in Sources \ meddled, NEW u \in Tasks, Current(u, r)'
        PROVE  owner'[task'[u].id] = r
    <3>1. r \in first /\ u = r
      BY <1>15, <1>16, <2>1 DEF PCurrent
    <3> QED BY <1>9, <1>15, <3>1 DEF POwner, PTask
  <2>2. \A r \in Sources \ meddled : status'[r].is # "loaded"
    BY <1>16, <1>27
  <2>3. \A r \in Sources : status'[r].is = "loaded" => status'[r].id \in Ids
    BY <1>27 DEF ExtInv, OwnerInv
  <2> QED BY <1>3, <2>1, <2>2, <2>3 DEF OwnerInv
<1>29. ActiveOwnsItsId'
  BY <1>3, <1>16, <1>27 DEF ActiveOwnsItsId
<1>30. \A i \in Ids : panel[i] # NoPanel =>
         panel[i].load \in Tasks \ first /\ panel[i].source \in Sources
         /\ task[panel[i].load] # NotBegun
  BY <1>11, <1>12 DEF ExtInv, PanelInv
<1>31. PanelInv'
  <2> SUFFICES ASSUME NEW i \in Ids, panel[i] # NoPanel
               PROVE /\ panel[i].load \in Tasks /\ panel[i].source \in Sources
                     /\ task'[panel[i].load] # NotBegun
                     /\ panel[i].load \in Sources => panel[i].source = panel[i].load
                     /\ task'[panel[i].load] \notin {NotBegun, Over} =>
                          /\ task'[panel[i].load].source = panel[i].source
                          /\ task'[panel[i].load].phase = "activating"
    BY <1>3 DEF PanelInv, NoPanel, IsRunning
  <2> QED BY <1>15, <1>30 DEF PTask, IsRunning, ExtInv, PanelInv
<1>32. NothingLeftBehind'
  <2> SUFFICES ASSUME NEW i \in Ids, panel[i] # NoPanel
               PROVE \/ task'[panel[i].load] \notin {NotBegun, Over}
                     \/ disposers[panel[i].source] = panel[i].load
                     \/ panel[i].source \in meddled
    BY <1>3 DEF NothingLeftBehind, NoPanel, IsRunning
  <2> QED BY <1>15, <1>30 DEF PTask, IsRunning, ExtInv, NothingLeftBehind
<1>33. OffInv' /\ OffStaysOffLater'
  BY <1>2, <1>3 DEF ExtInv, OffInv, OffStaysOffLater
<1>34. NoEndlessSpinner'
  <2> SUFFICES ASSUME NEW r \in Sources, status'[r].is = "loading"
               PROVE  (\E u \in Tasks : Current(u, r)') \/ Waiting(r)'
    BY DEF NoEndlessSpinner, Current, Waiting, Queued, Range
  <2>1. CASE r \in first
    BY <1>11, <1>15, <2>1 DEF PCurrent
  <2>2. CASE r \in boot.fetch \ first
    <3>1. named[r] \in Ids
      BY <1>10, <2>2 DEF PStatus
    <3> QED BY <1>17, <2>2, <3>1
  <2>3. CASE r \notin boot.fetch
    <3>1. status[r].is = "loading" /\ r \notin first
      BY <1>10, <1>20, <2>3 DEF PStatus
    <3>2. (\E u \in Tasks : Current(u, r)) \/ Waiting(r)
      BY <3>1 DEF ExtInv, NoEndlessSpinner, Current, Waiting, Queued, Range
    <3>3. ~Waiting(r)
      BY <1>17, <2>3 DEF Waiting
    <3>4. \A u \in Tasks : Current(u, r) => u \notin first
      BY <1>11, <1>12, CurrentFacts
    <3> QED BY <1>15, <3>1, <3>2, <3>3, <3>4 DEF PCurrent
  <2> QED BY <2>1, <2>2, <2>3
<1> QED BY <1>21, <1>22, <1>23, <1>24, <1>26, <1>28, <1>29, <1>31, <1>32, <1>33,
           <1>34 DEF ExtInv

-----------------------------------------------------------------------------
(* An activation ends *)

\* The spinners of the next state, in the terms of this module.
LEMMA NextSpinner ==
  (\A r \in Sources : status'[r].is = "loading" =>
     (\E u \in Tasks : Current(u, r)') \/ Waiting(r)')
  => NoEndlessSpinner'
  BY DEF NoEndlessSpinner, Current, Waiting, Queued, Range

\* The spinners of this state, in the same terms.
LEMMA NowSpinner ==
  ASSUME NoEndlessSpinner, NEW r \in Sources, status[r].is = "loading"
  PROVE  (\E u \in Tasks : Current(u, r)) \/ Waiting(r)
  BY DEF NoEndlessSpinner, Current, Waiting, Queued, Range

\* The rows of the next state, where the bootstrap stands where it stood.
LEMMA NextRow ==
  ASSUME boot'.stage = boot.stage, boot'.fetch = boot.fetch,
         listed' = listed, meddled' = meddled,
         \A r \in Sources \ meddled :
           /\ \A u \in Tasks : Current(u, r)' => status'[r].is = "loading"
           /\ Waiting(r)' => status'[r].is = "loading" /\ \A u \in Tasks : ~Current(u, r)'
           /\ disposers'[r] # NoTask => status'[r].is = "loaded"
           /\ boot.stage \in {"idle", "discovering"} => status'[r].is = "none"
           /\ boot.stage = "fetching" => status'[r].is # "loaded"
           /\ r \in Urls \ listed =>
                /\ status'[r].is = "none"
                /\ boot.stage \in {"discovering", "fetching"} => r \notin boot.fetch
  PROVE  RowInv'
  BY DEF RowInv

\* The load is the one that counts and has its contributions: its row is loaded
\* and the rest of its group, if it is the bootstrap's, is shadowed.
LEMMA WinStep ==
  ASSUME ExtInv, NEW t \in Tasks, IsRunning(t), task[t].phase = "activating",
         task[t].current, NEW s \in Sources, s = task[t].source,
         NEW i \in Ids, i = task[t].id, task' = [task EXCEPT ![t] = Over],
         panel' = panel, disposers' = [disposers EXCEPT ![s] = t],
         status' = IF t \in Sources
                   THEN ShadowRest([status EXCEPT ![s] = Status("loaded", i, Nobody)], i, s)
                   ELSE [status EXCEPT ![s] = Status("loaded", i, Nobody)],
         UNCHANGED claimVars,
         boot' = IF t \notin Sources THEN boot ELSE [boot EXCEPT !.queue[i] = <<>>],
         UNCHANGED <<choiceVars, known, refresh, off, meddled>>
  PROVE  ExtInv'
<1>1. TypeOK /\ Current(t, s) /\ (t \in Sources => s = t /\ boot.stage = "resolving")
  BY DEF ExtInv, Current, BootInv
<1>2. /\ refresh' = refresh /\ off' = off /\ meddled' = meddled
      /\ listed' = listed /\ owner' = owner /\ ChoiceTypes' /\ ClaimTypes'
  BY <1>1 DEF choiceVars, claimVars, TypeOK, ChoiceTypes, ClaimTypes
<1> DEFINE PTask ==
         /\ task' \in [Tasks -> Loads] /\ ~IsRunning(t)' /\ task'[t] # NotBegun
         /\ \A u \in Tasks \ {t} : task'[u] = task[u] /\ (IsRunning(u)' <=> IsRunning(u))
         /\ \A u \in Tasks, r \in Sources : Current(u, r)' <=> u # t /\ Current(u, r)
<1>3. PTask
  BY <1>1, EndLoads DEF IsRunning
\* The sources that wait behind the winner.
<1> DEFINE rest == IF t \in Sources THEN Range(boot.queue[i]) ELSE {}
<1> DEFINE PBoot ==
      /\ boot'.stage = boot.stage /\ boot'.fetch = boot.fetch /\ BootTypes'
      /\ \A j \in Ids : boot'.queue[j] = boot.queue[j]
                        \/ (boot'.queue[j] = <<>> /\ j = i)
      /\ t \in Sources => boot'.queue[i] = <<>>
      /\ boot.queue = NoQueues => boot'.queue = NoQueues
<1>4. PBoot
  <2>1. CASE t \notin Sources
    BY <1>1, <1>2, <2>1 DEF TypeOK, BootTypes
  <2>2. CASE t \in Sources
    <3>1. boot.queue \in [Ids -> Seq(Sources)] /\ <<>> \in Seq(Sources)
      BY <1>1 DEF TypeOK, BootTypes
    <3>2. boot' = [boot EXCEPT !.queue = [boot.queue EXCEPT ![i] = <<>>]]
      BY <1>1, <2>2 DEF TypeOK, BootTypes
    <3>3. /\ boot'.stage = boot.stage /\ boot'.fetch = boot.fetch
          /\ boot'.queue = [boot.queue EXCEPT ![i] = <<>>]
      BY <1>1, <3>2 DEF TypeOK, BootTypes
    <3>4. BootTypes'
      <4>1. boot'.queue \in [Ids -> Seq(Sources)]
        BY <3>1, <3>3
      <4>2. boot' = [stage |-> boot.stage, fetch |-> boot.fetch, queue |-> boot'.queue]
        BY <1>1, <3>2 DEF TypeOK, BootTypes
      <4> QED BY <1>1, <1>2, <4>1, <4>2 DEF TypeOK, BootTypes
    <3>5. boot.queue = NoQueues => boot'.queue = NoQueues
      BY <3>1, <3>3 DEF NoQueues
    <3> QED BY <3>1, <3>3, <3>4, <3>5
  <2> QED BY <2>1, <2>2
<1> DEFINE PStatus ==
      /\ \A r \in rest : status'[r].is = "shadowed"
      /\ s \notin rest => status'[s].is = "loaded" /\ status'[s].id = i
      /\ \A r \in Sources \ rest : r # s => status'[r] = status[r]
<1>5. PStatus /\ status' \in [Sources -> Rows]
  <2> DEFINE rows == [status EXCEPT ![s] = Status("loaded", i, Nobody)]
  <2>1. /\ Status("loaded", i, Nobody) \in Rows /\ Status("shadowed", i, s) \in Rows
        /\ Status("loaded", i, Nobody).is = "loaded"
        /\ Status("loaded", i, Nobody).id = i
        /\ Status("shadowed", i, s).is = "shadowed"
    BY DEF Status, Rows
  <2>2. /\ rows \in [Sources -> Rows] /\ rows[s] = Status("loaded", i, Nobody)
        /\ \A r \in Sources \ {s} : rows[r] = status[r]
    BY <1>1, <2>1 DEF TypeOK, LoadTypes
  <2> HIDE DEF rows
  <2>3. status' = [r \in Sources |-> IF r \in rest THEN Status("shadowed", i, s) ELSE rows[r]]
    <3>1. CASE t \notin Sources
      BY <2>2, <3>1 DEF rows
    <3>2. CASE t \in Sources
      BY <3>2 DEF rows, ShadowRest, Range
    <3> QED BY <3>1, <3>2
  <2>4. rest \subseteq Sources
    <3>1. boot.queue[i] \in Seq(Sources)
      BY <1>1 DEF TypeOK, BootTypes
    <3> QED BY <3>1 DEF Range
  <2> HIDE DEF rest
  <2>5. status' \in [Sources -> Rows]
    BY <2>1, <2>2, <2>3
  <2>6. PStatus
    BY <2>1, <2>2, <2>3, <2>4
  <2> QED BY <2>5, <2>6
<1>6. LiveTypes' /\ disposers'[s] = t /\ \A r \in Sources \ {s} : disposers'[r] = disposers[r]
  BY <1>1 DEF TypeOK, LiveTypes
<1>7. \A r \in Sources : /\ Queued(r)' <=> Queued(r) /\ r \notin rest
                         /\ Waiting(r)' => Waiting(r) /\ r \notin rest
                         /\ Waiting(r) /\ r \notin rest => Waiting(r)'
  <2> TAKE r \in Sources
  <2>1. CASE t \notin Sources
    BY <2>1 DEF Queued, Waiting
  <2>2. CASE t \in Sources
    <3>1. \A j \in Ids \ {i} : boot'.queue[j] = boot.queue[j]
      BY <1>4
    <3>2. Range(boot'.queue[i]) = {} /\ rest = Range(boot.queue[i])
      BY <1>4, <2>2 DEF Range
    <3>3. \A j \in Ids : r \in Range(boot.queue[j]) /\ r \in rest => j = i
      BY <3>2 DEF ExtInv, BootInv
    <3>4. Queued(r)' <=> Queued(r) /\ r \notin rest
      BY <3>1, <3>2, <3>3 DEF Queued
    <3>5. ~(boot'.stage = "fetching") /\ ~(boot.stage = "fetching")
      BY <1>1, <1>4, <2>2
    <3> QED BY <3>4, <3>5 DEF Waiting
  <2> QED BY <2>1, <2>2
<1>8. \A r \in rest : r \in Sources => Waiting(r) /\ boot.stage = "resolving"
  BY <1>1 DEF Waiting, Queued
<1>9. s \notin meddled =>
        /\ status[s].is = "loading" /\ disposers[s] = NoTask /\ ~Waiting(s)
        /\ boot.stage \notin {"idle", "discovering", "fetching"} /\ s \notin Urls \ listed
        /\ s \notin rest /\ owner[i] = s /\ s \notin off
        /\ t \notin Sources => boot.queue = NoQueues
  <2> SUFFICES ASSUME s \notin meddled
               PROVE  /\ status[s].is = "loading" /\ disposers[s] = NoTask /\ ~Waiting(s)
                      /\ boot.stage \notin {"idle", "discovering", "fetching"}
                      /\ s \notin Urls \ listed
                      /\ s \notin rest /\ owner[i] = s /\ s \notin off
                      /\ t \notin Sources => boot.queue = NoQueues
    OBVIOUS
  <2>1. /\ status[s].is = "loading" /\ disposers[s] = NoTask /\ ~Waiting(s)
        /\ s \notin Urls \ listed
    BY <1>1, CurrentRow
  <2>2. s \notin rest
    BY <1>8, <2>1
  <2>3. owner[i] = s
    BY <1>1 DEF ExtInv, OwnerInv
  <2>4. s \notin off
    BY <2>1 DEF ExtInv, OffStaysOffLater
  <2>5. t \notin Sources => boot.stage = "done"
    BY DEF ExtInv, MeddledInv, Tasks
  <2>6. boot.stage \notin {"idle", "discovering", "fetching"}
    BY <1>1, <2>5
  <2>7. boot.stage = "done" => boot.queue = NoQueues
    BY DEF ExtInv, BootInv
  <2> QED BY <2>1, <2>2, <2>3, <2>4, <2>5, <2>6, <2>7
<1> HIDE DEF PTask, PBoot, PStatus, rest
<1>10. TypeOK'
  BY <1>2, <1>3, <1>4, <1>5, <1>6 DEF TypeOK, LoadTypes, PTask, PBoot, Loads
<1>11. LoadsInv'
  BY <1>3 DEF PTask, ExtInv, LoadsInv
<1>12. BootInv'
  <2>1. \A r \in Sources : /\ r \in Tasks /\ (IsRunning(r)' => IsRunning(r) /\ task'[r] = task[r])
                           /\ task[r] = NotBegun => task'[r] = NotBegun
    BY <1>3 DEF PTask, Tasks, IsRunning
  <2>2. \A j \in Ids : IsInjective(boot'.queue[j])
    <3>1. IsInjective(<<>>)
      BY DEF IsInjective
    <3> QED BY <1>4, <3>1 DEF PBoot, ExtInv, BootInv
  <2>3. \A j, k \in Ids : \A r \in Sources :
          r \in Range(boot'.queue[j]) /\ r \in Range(boot'.queue[k]) => j = k
    <3>1. Range(<<>>) = {}
      BY DEF Range
    <3>2. \A j \in Ids : Range(boot'.queue[j]) \subseteq Range(boot.queue[j])
      BY <1>4, <3>1 DEF PBoot
    <3> QED BY <3>2 DEF ExtInv, BootInv
  <2>4. \A r \in Sources : Queued(r)' => task'[r] = NotBegun
    BY <1>7, <2>1 DEF ExtInv, BootInv
  <2>5. boot'.stage \notin {"resolving", "done"} => \A r \in Sources : task'[r] = NotBegun
    BY <1>4, <2>1 DEF PBoot, ExtInv, BootInv
  <2>6. /\ boot'.stage # "resolving" => boot'.queue = NoQueues
        /\ refresh'.stage = "loading" => boot'.stage # "idle"
    BY <1>2, <1>4 DEF PBoot, ExtInv, BootInv
  <2>7. \A r \in Sources : IsRunning(r)' =>
          boot'.stage = "resolving" /\ task'[r].source = r /\ task'[r].phase = "activating"
    BY <1>4, <2>1 DEF PBoot, ExtInv, BootInv
  <2>8. \A r, q \in Sources :
          IsRunning(r)' /\ IsRunning(q)' /\ task'[r].id = task'[q].id => r = q
    BY <2>1 DEF ExtInv, BootInv
  <2> QED BY <2>2, <2>3, <2>4, <2>5, <2>6, <2>7, <2>8 DEF BootInv
<1>13. MeddledInv'
  BY <1>2, <1>3, <1>4 DEF PTask, PBoot, ExtInv, MeddledInv, Tasks
<1>14. RowInv'
  <2> SUFFICES ASSUME NEW r \in Sources \ meddled
               PROVE /\ \A u \in Tasks : Current(u, r)' => status'[r].is = "loading"
                     /\ Waiting(r)' => status'[r].is = "loading" /\ \A u \in Tasks : ~Current(u, r)'
                     /\ disposers'[r] # NoTask => status'[r].is = "loaded"
                     /\ boot.stage \in {"idle", "discovering"} => status'[r].is = "none"
                     /\ boot.stage = "fetching" => status'[r].is # "loaded"
                     /\ r \in Urls \ listed =>
                          /\ status'[r].is = "none"
                          /\ boot.stage \in {"discovering", "fetching"} => r \notin boot.fetch
    <3>1. /\ boot'.stage = boot.stage /\ boot'.fetch = boot.fetch
          /\ listed' = listed /\ meddled' = meddled
      BY <1>2, <1>4 DEF PBoot
    <3> QED BY <3>1, NextRow
  <2>1. CASE r = s
    <3>1. \A u \in Tasks : ~Current(u, r)'
      BY <1>1, <1>3, <2>1 DEF PTask, ExtInv, LoadsInv
    <3> QED BY <1>5, <1>7, <1>9, <2>1, <3>1 DEF PStatus
  <2>2. CASE r # s /\ r \in rest
    <3>1. Waiting(r) /\ boot.stage = "resolving" /\ ~Waiting(r)'
      BY <1>7, <1>8, <2>2
    <3>2. status[r].is = "loading" /\ \A u \in Tasks : ~Current(u, r)
      BY <3>1 DEF ExtInv, RowInv
    <3>3. disposers'[r] = NoTask /\ r \notin Urls \ listed
      BY <1>6, <2>2, <3>2 DEF ExtInv, RowInv
    <3> QED BY <1>3, <3>1, <3>2, <3>3 DEF PTask
  <2>3. CASE r # s /\ r \notin rest
    <3>1. status'[r] = status[r] /\ disposers'[r] = disposers[r] /\ (Waiting(r)' => Waiting(r))
      BY <1>5, <1>6, <1>7, <2>3 DEF PStatus
    <3>2. \A u \in Tasks : Current(u, r)' => Current(u, r)
      BY <1>3 DEF PTask
    <3>3. /\ \A u \in Tasks : Current(u, r) => status[r].is = "loading"
          /\ Waiting(r) => status[r].is = "loading" /\ \A u \in Tasks : ~Current(u, r)
          /\ disposers[r] # NoTask => status[r].is = "loaded"
          /\ boot.stage \in {"idle", "discovering"} => status[r].is = "none"
          /\ boot.stage = "fetching" => status[r].is # "loaded"
          /\ r \in Urls \ listed =>
               /\ status[r].is = "none"
               /\ boot.stage \in {"discovering", "fetching"} => r \notin boot.fetch
      BY DEF ExtInv, RowInv
    <3> QED BY <3>1, <3>2, <3>3
  <2> QED BY <2>1, <2>2, <2>3
<1>15. OwnerInv'
  <2>1. \A r \in Sources \ meddled : \A u \in Tasks :
          Current(u, r)' /\ task'[u].phase = "activating" => owner[task'[u].id] = r
    BY <1>3 DEF PTask, ExtInv, OwnerInv
  <2>2. ASSUME NEW j \in Ids, boot'.queue[j] # <<>>, NEW r \in Sources \ meddled,
               status'[r].is = "loaded"
        PROVE  status'[r].id # j
    <3>1. boot.queue[j] # <<>>
      BY <1>4, <2>2 DEF PBoot
    <3>2. CASE r = s
      <4>0. boot.queue # NoQueues
        BY <3>1 DEF NoQueues
      <4>1. t \in Sources /\ status'[r].id = i
        BY <1>5, <1>9, <2>2, <3>2, <4>0 DEF PStatus
      <4> QED BY <1>4, <2>2, <4>1 DEF PBoot
    <3>3. CASE r # s
      <4>1. status'[r] = status[r]
        BY <1>5, <2>2, <3>3 DEF PStatus
      <4> QED BY <2>2, <3>1, <4>1 DEF ExtInv, OwnerInv
    <3> QED BY <3>2, <3>3
  <2>3. ASSUME NEW r \in Sources, status'[r].is = "loaded"
        PROVE  status'[r].id \in Ids
    <3>1. r \notin rest /\ (r = s => status'[r].id = i)
      BY <1>5, <2>3 DEF PStatus
    <3>2. r # s => status'[r] = status[r]
      BY <1>5, <3>1 DEF PStatus
    <3> QED BY <2>3, <3>1, <3>2 DEF ExtInv, OwnerInv
  <2> QED BY <1>2, <2>1, <2>2, <2>3 DEF OwnerInv
<1>16. PanelInv'
  <2> SUFFICES ASSUME NEW j \in Ids, panel[j] # NoPanel
               PROVE /\ panel[j].load \in Tasks /\ panel[j].source \in Sources
                     /\ task'[panel[j].load] # NotBegun
                     /\ panel[j].load \in Sources => panel[j].source = panel[j].load
                     /\ task'[panel[j].load] \notin {NotBegun, Over} =>
                          /\ task'[panel[j].load].source = panel[j].source
                          /\ task'[panel[j].load].phase = "activating"
    BY DEF PanelInv, NoPanel, IsRunning
  <2> QED BY <1>3 DEF PTask, IsRunning, ExtInv, PanelInv
<1>17. OffInv'
  BY <1>2, <1>4 DEF PBoot, ExtInv, OffInv
<1>18. ActiveOwnsItsId'
  <2> SUFFICES ASSUME NEW r \in Sources \ meddled, status'[r].is = "loaded"
               PROVE  owner[status'[r].id] = r
    BY <1>2 DEF ActiveOwnsItsId
  <2>1. CASE r = s
    <3>1. s \notin rest /\ owner[i] = s
      BY <1>9, <2>1
    <3>2. status'[s].id = i
      BY <1>5, <3>1 DEF PStatus
    <3> QED BY <2>1, <3>1, <3>2
  <2>2. CASE r # s
    <3>1. status'[r] = status[r]
      BY <1>5, <2>2 DEF PStatus
    <3> QED BY <3>1 DEF ExtInv, ActiveOwnsItsId
  <2> QED BY <2>1, <2>2
<1>19. NoEndlessSpinner'
  <2> SUFFICES ASSUME NEW r \in Sources, status'[r].is = "loading"
               PROVE  (\E u \in Tasks : Current(u, r)') \/ Waiting(r)'
    BY NextSpinner
  <2>0. r \notin rest /\ r # s
    BY <1>5 DEF PStatus
  <2>a. status'[r] = status[r]
    BY <1>5, <2>0 DEF PStatus
  <2>1. r \notin rest /\ r # s /\ status[r].is = "loading"
    BY <2>0, <2>a
  <2>2. (\E u \in Tasks : Current(u, r)) \/ Waiting(r)
    BY <2>1 DEF ExtInv, NoEndlessSpinner, Current, Waiting, Queued, Range
  <2>3. \A u \in Tasks : Current(u, r) => u # t
    BY <2>1, CurrentFacts
  <2> QED BY <1>3, <1>7, <2>1, <2>2, <2>3 DEF PTask
<1>20. NothingLeftBehind'
  <2> SUFFICES ASSUME NEW j \in Ids, panel[j] # NoPanel
               PROVE \/ task'[panel[j].load] \notin {NotBegun, Over}
                     \/ disposers'[panel[j].source] = panel[j].load
                     \/ panel[j].source \in meddled
    BY <1>2 DEF NothingLeftBehind, NoPanel, IsRunning
  <2>1. /\ panel[j].load \in Tasks /\ panel[j].source \in Sources
        /\ panel[j].load = t => panel[j].source = s
    BY DEF ExtInv, PanelInv
  <2>2. CASE panel[j].load = t
    BY <1>6, <2>1, <2>2
  <2>3. CASE panel[j].load # t /\ panel[j].source = s
    <3>1. disposers[s] = NoTask => disposers[s] # panel[j].load
      BY <2>1, NullsAssumption
    <3> QED BY <1>3, <1>9, <2>1, <2>3, <3>1 DEF PTask, IsRunning, ExtInv, NothingLeftBehind
  <2>4. CASE panel[j].load # t /\ panel[j].source # s
    BY <1>3, <1>6, <2>1, <2>4 DEF PTask, IsRunning, ExtInv, NothingLeftBehind
  <2> QED BY <2>2, <2>3, <2>4
<1>21. OffStaysOffLater'
  <2>1. \A r \in off \ meddled : r \in Sources /\ r # s
    BY <1>1, <1>9 DEF TypeOK, BootTypes
  <2>2. \A r \in off \ meddled : status'[r].is = "shadowed" \/ status'[r] = status[r]
    BY <1>5, <2>1 DEF PStatus
  <2> QED BY <1>2, <2>2 DEF ExtInv, OffStaysOffLater
<1> QED BY <1>10, <1>11, <1>12, <1>13, <1>14, <1>15, <1>16, <1>17, <1>18, <1>19,
           <1>20, <1>21 DEF ExtInv

\* The queue of an id moves on to the rest of it.
Advances(i) ==
  /\ boot'.stage = boot.stage /\ BootTypes'
  /\ boot'.queue[i] = Tail(boot.queue[i])
  /\ \A j \in Ids \ {i} : boot'.queue[j] = boot.queue[j]

\* Taking the head of one queue leaves the others.
LEMMA QueueAdvances ==
  ASSUME TypeOK, NEW i \in Ids, boot.queue[i] # <<>>,
         boot' = [boot EXCEPT !.queue[i] = Tail(@)],
         UNCHANGED <<refresh, off, meddled>>
  PROVE  Advances(i)
<1> DEFINE q == boot.queue[i]
<1>1. boot.queue \in [Ids -> Seq(Sources)] /\ q \in Seq(Sources) /\ q # <<>>
  BY DEF TypeOK, BootTypes
<1>2. Tail(q) \in Seq(Sources)
  <2> HIDE DEF q
  <2> QED BY <1>1
<1>3. boot' = [boot EXCEPT !.queue = [boot.queue EXCEPT ![i] = Tail(q)]]
  BY DEF TypeOK, BootTypes
<1>4. /\ boot'.stage = boot.stage /\ boot'.queue = [boot.queue EXCEPT ![i] = Tail(q)]
      /\ boot' = [stage |-> boot.stage, fetch |-> boot.fetch, queue |-> boot'.queue]
  BY <1>3 DEF TypeOK, BootTypes
<1>5. boot'.queue \in [Ids -> Seq(Sources)]
  BY <1>1, <1>2, <1>4
<1>6. BootTypes'
  BY <1>4, <1>5 DEF TypeOK, BootTypes
<1> QED BY <1>1, <1>4, <1>6 DEF Advances

\* The turn goes from the load of t to that of h, which activates for i.
Turns(t, h, i) ==
  /\ task' \in [Tasks -> Loads]
  /\ IsRunning(h)' /\ task'[h] # NotBegun /\ task'[h].source = h
  /\ task'[h].phase = "activating" /\ task'[h].id = i
  /\ ~IsRunning(t)' /\ task'[t] # NotBegun
  /\ \A u \in Tasks \ {t, h} :
       /\ IsRunning(u)' <=> IsRunning(u)
       /\ task'[u] = NotBegun <=> task[u] = NotBegun
       /\ IsRunning(u) => /\ task'[u].source = task[u].source
                          /\ task'[u].phase = task[u].phase
                          /\ task'[u].id = task[u].id
  /\ \A u \in Tasks : \A r \in Sources :
       Current(u, r)' <=> (u = h /\ r = h) \/ (u \notin {t, h} /\ r # h /\ Current(u, r))

\* A load ends and the next one of its queue takes over.
LEMMA LoadsTurn ==
  ASSUME TypeOK, NEW t \in Tasks, NEW h \in Sources, h # t, NEW i \in Ids,
         NEW ended, ended = [task EXCEPT ![t] = Over],
         task' = [u \in Tasks |-> IF u \in {h} THEN Activating(u, i)
                                  ELSE Superseded(ended, {h})[u]]
  PROVE  Turns(t, h, i)
<1>1. task \in [Tasks -> Loads] /\ Over \in Loads /\ h \in Tasks
  BY DEF TypeOK, LoadTypes, Loads, Tasks
<1>2. /\ ended \in [Tasks -> Loads] /\ ended[t] = Over
      /\ \A u \in Tasks \ {t} : ended[u] = task[u]
  BY <1>1
<1>3. /\ task'[h] = Activating(h, i) /\ task' = [u \in Tasks |-> task'[u]]
      /\ \A u \in Tasks \ {h} : task'[u] = Superseded(ended, {h})[u]
  BY <1>1
<1>4. \A u \in Tasks \ {h} : task'[u] = Stale(ended[u], {h}) /\ ended[u] \in Loads
  BY <1>2, <1>3, SupersededIs
<1>5. task' \in [Tasks -> Loads]
  <2>1. task'[h] \in Loads
    BY <1>3, StartTyped
  <2>2. \A u \in Tasks \ {h} : task'[u] \in Loads
    <3> TAKE u \in Tasks \ {h}
    <3>1. task'[u] = Stale(ended[u], {h}) /\ ended[u] \in Loads
      BY <1>4
    <3> QED BY <3>1, StaleFacts
  <2>3. \A u \in Tasks : task'[u] \in Loads
    BY <2>1, <2>2
  <2>4. task' = [u \in Tasks |-> task'[u]]
    BY <1>3
  <2> QED BY <2>3, <2>4
<1>6. /\ task'[h] \notin {NotBegun, Over} /\ task'[h].source = h
      /\ task'[h].phase = "activating" /\ task'[h].id = i /\ task'[h].current
  <2>1. /\ task'[h] = Activating(h, i) /\ task'[h] \notin {NotBegun, Over}
    BY <1>3, StartTyped
  <2>2. /\ Activating(h, i).source = h /\ Activating(h, i).phase = "activating"
        /\ Activating(h, i).id = i /\ Activating(h, i).current = TRUE
    BY DEF Activating
  <2> QED BY <2>1, <2>2
<1>7. ASSUME NEW u \in Tasks \ {t, h}
      PROVE  /\ IsRunning(u)' <=> IsRunning(u)
             /\ task'[u] = NotBegun <=> task[u] = NotBegun
             /\ IsRunning(u) => /\ task'[u].source = task[u].source
                                /\ task'[u].phase = task[u].phase
                                /\ task'[u].id = task[u].id
                                /\ task'[u].current <=> task[u].current
                                                        /\ task[u].source \notin {h}
  <2>1. task'[u] = Stale(task[u], {h}) /\ task[u] \in Loads
    BY <1>2, <1>4
  <2> PICK a \in Loads : a = task[u]
    BY <2>1
  <2>2. /\ task'[u] \notin {NotBegun, Over} <=> a \notin {NotBegun, Over}
        /\ task'[u] = NotBegun <=> a = NotBegun
        /\ a \notin {NotBegun, Over} =>
             /\ task'[u].source = a.source /\ task'[u].phase = a.phase
             /\ task'[u].id = a.id
             /\ task'[u].current <=> a.current /\ a.source \notin {h}
    <3>1. task'[u] = Stale(a, {h})
      BY <2>1
    <3> QED BY <3>1, StaleFacts
  <2> QED BY <2>2 DEF IsRunning
<1>8. ~IsRunning(t)' /\ task'[t] # NotBegun
  <2>1. task'[t] = Stale(Over, {h})
    BY <1>2, <1>4
  <2>2. task'[t] = Over
    BY <2>1 DEF Stale
  <2> QED BY <2>2, NullsAssumption DEF IsRunning
<1>9. ASSUME NEW u \in Tasks, NEW r \in Sources
      PROVE  Current(u, r)' <=> (u = h /\ r = h)
                                \/ (u \notin {t, h} /\ r # h /\ Current(u, r))
  <2>1. CASE u \notin {t, h}
    <3>1. IsRunning(u)' <=> IsRunning(u)
      BY <1>7, <2>1
    <3>2. IsRunning(u) => /\ task'[u].source = task[u].source
                          /\ task'[u].current <=> task[u].current /\ task[u].source \notin {h}
      BY <1>7, <2>1
    <3> QED BY <2>1, <3>1, <3>2 DEF Current
  <2>2. CASE u = h
    BY <1>6, <2>2 DEF Current, IsRunning
  <2>3. CASE u = t
    BY <1>8, <2>3 DEF Current
  <2> QED BY <2>1, <2>2, <2>3
<1>10. IsRunning(h)' /\ task'[h] # NotBegun
  BY <1>6 DEF IsRunning
<1> QED BY <1>5, <1>6, <1>7, <1>8, <1>9, <1>10 DEF Turns

\* The load of the bootstrap that ends without its contributions gives the turn to
\* the next source of its group, which claims the id.
LEMMA TurnStep ==
  ASSUME ExtInv, NEW t \in Sources, IsRunning(t), NEW i \in Ids, i = task[t].id,
         boot.queue[i] # <<>>, NEW h \in Sources, h \in Range(boot.queue[i]),
         IsInjective(boot'.queue[i]),
         Range(boot'.queue[i]) = Range(boot.queue[i]) \ {h},
         Advances(i), Turns(t, h, i), owner'[i] = h,
         UNCHANGED <<choiceVars, known, disposers, refresh, off, meddled>>,
         status' \in [Sources -> Rows], ClaimTypes', LiveTypes',
         \A j \in Ids : panel'[j] # NoPanel => panel'[j] = panel[j] /\ panel[j].load # t,
         \A j \in Ids \ {i}, r \in Sources :
           owner[j] = r /\ ~Current(t, r) => owner'[j] = r,
         \A r \in Sources : \/ status'[r] = status[r] /\ ~Current(t, r)
                            \/ status'[r].is = "error" /\ Current(t, r)
  PROVE  ExtInv'
<1>1. /\ TypeOK /\ t \in Tasks /\ boot.stage = "resolving" /\ task[t].source = t
      /\ boot'.stage = "resolving"
  BY DEF ExtInv, BootInv, Tasks, Advances
<1>2. /\ refresh' = refresh /\ off' = off /\ meddled' = meddled
      /\ listed' = listed /\ disposers' = disposers /\ ChoiceTypes'
  BY <1>1 DEF choiceVars, TypeOK, ChoiceTypes
<1>5. h \in Tasks /\ Queued(h)
  BY DEF Queued, Tasks
<1>6. task[h] = NotBegun /\ ~IsRunning(h) /\ h # t
  BY <1>5 DEF ExtInv, BootInv, IsRunning
<1>9. \A r \in Sources : /\ Queued(r)' <=> Queued(r) /\ r # h
                         /\ Waiting(r)' <=> Waiting(r) /\ r # h
  <2> TAKE r \in Sources
  <2>1. \A j \in Ids \ {i} : h \notin Range(boot'.queue[j])
    BY DEF ExtInv, BootInv, Advances
  <2>2. Queued(r)' <=> \E j \in Ids : r \in Range(boot'.queue[j])
    BY DEF Queued
  <2>3. \A j \in Ids : r \in Range(boot'.queue[j]) <=> r \in Range(boot.queue[j]) /\ r # h
    <3> TAKE j \in Ids
    <3>1. CASE j = i
      BY <3>1
    <3>2. CASE j # i
      BY <2>1, <3>2 DEF Advances
    <3> QED BY <3>1, <3>2
  <2>4. Queued(r)' <=> Queued(r) /\ r # h
    BY <2>2, <2>3 DEF Queued
  <2> QED BY <1>1, <2>4 DEF Waiting
<1> DEFINE PStatus ==
      \A r \in Sources : \/ status'[r] = status[r] /\ ~Current(t, r)
                         \/ status'[r].is = "error" /\ Current(t, r)
<1>10. PStatus
  OBVIOUS
<1>11. \A r \in Sources : Current(t, r) => r = t
  BY <1>1 DEF Current
<1> HIDE DEF PStatus
<1>12. TypeOK'
  BY <1>2 DEF TypeOK, LoadTypes, Turns, Advances, Loads
<1>13. LoadsInv'
  <2>1. \A u \in Tasks : IsRunning(u)' /\ task'[u].phase = "activating" => task'[u].id \in Ids
    BY DEF Turns, ExtInv, LoadsInv
  <2>2. \A u, v \in Tasks : \A r \in Sources : Current(u, r)' /\ Current(v, r)' => u = v
    BY DEF Turns, ExtInv, LoadsInv
  <2> QED BY <2>1, <2>2 DEF LoadsInv
<1>14. BootInv'
  <2>1. \A r \in Sources : r \in Tasks /\ (IsRunning(r)' => r = h \/ (IsRunning(r) /\ r \notin {t, h}))
    BY DEF Turns, Tasks
  <2>2. \A j \in Ids : IsInjective(boot'.queue[j])
    <3> TAKE j \in Ids
    <3>1. CASE j = i
      BY <3>1
    <3>2. CASE j # i
      BY <3>2 DEF Advances, ExtInv, BootInv
    <3> QED BY <3>1, <3>2
  <2>3. \A j, k \in Ids : \A r \in Sources :
          r \in Range(boot'.queue[j]) /\ r \in Range(boot'.queue[k]) => j = k
    <3>1. \A j \in Ids : Range(boot'.queue[j]) \subseteq Range(boot.queue[j])
      <4> TAKE j \in Ids
      <4>1. CASE j = i
        BY <4>1
      <4>2. CASE j # i
        BY <4>2 DEF Advances
      <4> QED BY <4>1, <4>2
    <3> QED BY <3>1 DEF ExtInv, BootInv
  <2>4. \A r \in Sources : Queued(r)' => task'[r] = NotBegun
    <3> SUFFICES ASSUME NEW r \in Sources, Queued(r)'
                 PROVE  task'[r] = NotBegun
      OBVIOUS
    <3>1. task[r] = NotBegun /\ r # h
      BY <1>9 DEF ExtInv, BootInv
    <3>2. r # t
      BY <3>1 DEF IsRunning
    <3> QED BY <2>1, <3>1, <3>2 DEF Turns
  <2>5. \A r \in Sources : IsRunning(r)' =>
          boot'.stage = "resolving" /\ task'[r].source = r /\ task'[r].phase = "activating"
    BY <1>1, <2>1 DEF Turns, ExtInv, BootInv
  <2>6. ASSUME NEW r \in Sources, NEW s \in Sources, IsRunning(r)', IsRunning(s)',
               task'[r].id = task'[s].id
        PROVE  r = s
    <3>1. \A p \in Sources : p # h /\ IsRunning(p)' =>
            IsRunning(p) /\ task'[p].id = task[p].id /\ task[p].id # i
      <4> SUFFICES ASSUME NEW p \in Sources, p # h, IsRunning(p)'
                   PROVE  IsRunning(p) /\ task'[p].id = task[p].id /\ task[p].id # i
        OBVIOUS
      <4>1. IsRunning(p) /\ task'[p].id = task[p].id /\ p # t
        BY <2>1 DEF Turns
      <4>2. task[p].id # i
        BY <4>1 DEF ExtInv, BootInv
      <4> QED BY <4>1, <4>2
    <3>2. task'[h].id = i
      BY DEF Turns
    <3>3. CASE r = h \/ s = h
      BY <2>6, <3>1, <3>2, <3>3
    <3>4. CASE r # h /\ s # h
      BY <2>6, <3>1, <3>4 DEF ExtInv, BootInv
    <3> QED BY <3>3, <3>4
  <2> QED BY <1>1, <2>2, <2>3, <2>4, <2>5, <2>6 DEF BootInv
<1>15. MeddledInv'
  <2>1. \A u \in Attempts : u \in Tasks \ {t, h}
    BY <1>5, KindsAssumption DEF Tasks
  <2> QED BY <1>1, <1>2, <2>1 DEF Turns, ExtInv, MeddledInv
<1>16. RowInv'
  <2> SUFFICES ASSUME NEW r \in Sources \ meddled
               PROVE /\ \A u \in Tasks : Current(u, r)' => status'[r].is = "loading"
                     /\ Waiting(r)' => status'[r].is = "loading" /\ \A u \in Tasks : ~Current(u, r)'
                     /\ disposers[r] # NoTask => status'[r].is = "loaded"
                     /\ r \in Urls \ listed => status'[r].is = "none"
    BY <1>1, <1>2 DEF RowInv
  <2>0. Queued(r) <=> Waiting(r)
    BY <1>1 DEF Waiting
  <2>1. CASE r = h
    <3>1. status'[r] = status[r]
      BY <1>6, <1>10, <1>11, <2>1 DEF PStatus
    <3>2. status[r].is = "loading"
      BY <1>5, <2>0, <2>1 DEF ExtInv, RowInv
    <3> QED BY <1>9, <2>1, <3>1, <3>2 DEF ExtInv, RowInv
  <2>2. CASE r # h /\ status'[r] = status[r]
    BY <1>9, <2>2 DEF Turns, ExtInv, RowInv
  <2>3. CASE r # h /\ status'[r].is = "error" /\ Current(t, r)
    <3>1. \A u \in Tasks : ~Current(u, r)'
      BY <1>1, <2>3 DEF Turns, ExtInv, LoadsInv
    <3>2. disposers[r] = NoTask /\ ~Waiting(r) /\ r \notin Urls \ listed
      BY <1>1, <2>3, CurrentRow
    <3> QED BY <1>9, <3>1, <3>2
  <2> QED BY <1>10, <2>1, <2>2, <2>3 DEF PStatus
<1>17. \A r \in Sources : status'[r].is = "loaded" => status'[r] = status[r] /\ ~Current(t, r)
  BY <1>10 DEF PStatus
<1>18. OwnerInv'
  <2>1. ASSUME NEW r \in Sources \ meddled, NEW u \in Tasks, Current(u, r)',
               task'[u].phase = "activating"
        PROVE  owner'[task'[u].id] = r
    <3>1. CASE u = h
      BY <2>1, <3>1 DEF Turns
    <3>2. CASE u # h
      <4>1. /\ u \notin {t, h} /\ r # h /\ Current(u, r) /\ IsRunning(u)
            /\ task[u].phase = "activating" /\ task'[u].id = task[u].id
        BY <2>1, <3>2 DEF Turns, Current
      <4>2. owner[task[u].id] = r /\ task[u].id \in Ids /\ ~Current(t, r)
        BY <1>1, <2>1, <4>1 DEF ExtInv, OwnerInv, LoadsInv
      <4>3. u \in Sources
        <5>1. u \in Attempts => r \in meddled
          BY <1>1, <4>1 DEF ExtInv, MeddledInv, Current
        <5> QED BY <2>1, <5>1 DEF Tasks
      <4>4. task[u].id # i
        BY <4>1, <4>3 DEF ExtInv, BootInv
      <4> QED BY <4>1, <4>2, <4>4
    <3> QED BY <3>1, <3>2
  <2>2. ASSUME NEW j \in Ids, boot'.queue[j] # <<>>, NEW r \in Sources \ meddled,
               status'[r].is = "loaded"
        PROVE  status'[r].id # j
    <3>1. boot.queue[j] # <<>>
      BY <2>2 DEF Advances
    <3> QED BY <1>17, <2>2, <3>1 DEF ExtInv, OwnerInv
  <2>3. \A r \in Sources : status'[r].is = "loaded" => status'[r].id \in Ids
    BY <1>17 DEF ExtInv, OwnerInv
  <2> QED BY <1>2, <2>1, <2>2, <2>3 DEF OwnerInv
<1>19. PanelInv'
  <2> SUFFICES ASSUME NEW j \in Ids, panel'[j] # NoPanel, panel'[j] = panel[j],
                      panel[j].load # t
               PROVE /\ panel[j].load \in Tasks /\ panel[j].source \in Sources
                     /\ task'[panel[j].load] # NotBegun
                     /\ panel[j].load \in Sources => panel[j].source = panel[j].load
                     /\ task'[panel[j].load] \notin {NotBegun, Over} =>
                          /\ task'[panel[j].load].source = panel[j].source
                          /\ task'[panel[j].load].phase = "activating"
    BY DEF PanelInv, NoPanel, IsRunning
  <2>1. panel[j].load \in Tasks \ {t, h}
    BY <1>6 DEF ExtInv, PanelInv
  <2> QED BY <2>1 DEF Turns, IsRunning, ExtInv, PanelInv
<1>20. OffInv'
  BY <1>1, <1>2 DEF ExtInv, OffInv
<1>21. ActiveOwnsItsId'
  <2> SUFFICES ASSUME NEW r \in Sources \ meddled, status'[r].is = "loaded"
               PROVE  owner'[status'[r].id] = r
    BY <1>2 DEF ActiveOwnsItsId
  <2>1. status'[r] = status[r] /\ ~Current(t, r)
    BY <1>17
  <2>2. owner[status[r].id] = r /\ status[r].id \in Ids /\ status[r].id # i
    BY <2>1 DEF ExtInv, ActiveOwnsItsId, OwnerInv
  <2> QED BY <2>1, <2>2
<1>22. NoEndlessSpinner'
  <2> SUFFICES ASSUME NEW r \in Sources, status'[r].is = "loading"
               PROVE  (\E u \in Tasks : Current(u, r)') \/ Waiting(r)'
    BY NextSpinner
  <2>1. CASE r = h
    BY <1>5, <2>1 DEF Turns
  <2>2. CASE r # h
    <3>1. status[r].is = "loading" /\ ~Current(t, r)
      BY <1>10 DEF PStatus
    <3>2. (\E u \in Tasks : Current(u, r)) \/ Waiting(r)
      BY <3>1, NowSpinner DEF ExtInv
    <3>3. \A u \in Tasks : Current(u, r) => u \notin {t, h}
      BY <1>6, <3>1, CurrentFacts
    <3> QED BY <1>9, <2>2, <3>2, <3>3 DEF Turns
  <2> QED BY <2>1, <2>2
<1>23. NothingLeftBehind'
  <2> SUFFICES ASSUME NEW j \in Ids, panel'[j] # NoPanel, panel'[j] = panel[j],
                      panel[j].load # t
               PROVE \/ task'[panel[j].load] \notin {NotBegun, Over}
                     \/ disposers[panel[j].source] = panel[j].load
                     \/ panel[j].source \in meddled
    BY <1>2 DEF NothingLeftBehind, NoPanel, IsRunning
  <2>1. panel[j].load \in Tasks \ {t, h}
    BY <1>6 DEF ExtInv, PanelInv
  <2> QED BY <2>1 DEF Turns, IsRunning, ExtInv, NothingLeftBehind
<1>24. OffStaysOffLater'
  <2>1. off \subseteq Sources
    BY <1>1 DEF TypeOK, BootTypes
  <2> QED BY <1>2, <1>10, <2>1 DEF PStatus, ExtInv, OffStaysOffLater
<1> QED BY <1>12, <1>13, <1>14, <1>15, <1>16, <1>18, <1>19, <1>20, <1>21, <1>22,
           <1>23, <1>24 DEF ExtInv

\* Releasing a source that fails takes the id of no other, and undoing its load
\* leaves the rest on display.
LEMMA FailFacts ==
  ASSUME TypeOK, NEW t \in Tasks, NEW S \in SUBSET Sources, panel' = Undone({t}),
         UNCHANGED disposers
  PROVE  /\ LiveTypes'
         /\ \A j \in Ids : panel'[j] # NoPanel => panel'[j] = panel[j] /\ panel[j].load # t
         /\ \A j \in Ids : /\ ReleasedOwner(S)[j] \in Sources \cup {Nobody}
                           /\ \A r \in Sources \ S : owner[j] = r => ReleasedOwner(S)[j] = r
         /\ \A r \in Sources : ReleasedClaim(S)[r] \in Ids \cup {NoId}
<1> USE DEF TypeOK, ClaimTypes, LiveTypes
<1>1. \A j \in Ids : panel'[j] = IF panel[j].load \in {t} THEN NoPanel ELSE panel[j]
  BY DEF Undone
<1>2. panel' = [j \in Ids |-> panel'[j]]
  BY DEF Undone
<1>3. NoPanel \in [load : Tasks \cup {NoTask}, source : Sources \cup {Nobody}]
  BY DEF NoPanel
<1>4. panel' \in [Ids -> [load : Tasks \cup {NoTask}, source : Sources \cup {Nobody}]]
  BY <1>1, <1>2, <1>3
<1>5. \A j \in Ids : /\ ReleasedOwner(S)[j] \in {owner[j], Nobody}
                     /\ \A r \in Sources \ S : owner[j] = r => ReleasedOwner(S)[j] = r
  BY DEF ReleasedOwner
<1>6. \A r \in Sources : ReleasedClaim(S)[r] \in Ids \cup {NoId}
  BY DEF ReleasedClaim
<1> QED BY <1>1, <1>4, <1>5, <1>6

\* An activation ends: it wins its id, loses it, or gives the next source its turn.
LEMMA ActivateEndsStep ==
  ASSUME ExtInv, NEW t \in Tasks, ActivateEnds(t)
  PROVE  ExtInv'
<1> DEFINE s == task[t].source
           i == task[t].id
           current == task[t].current
           q == boot.queue[i]
           ended == [task EXCEPT ![t] = Over]
<1>1. /\ TypeOK /\ IsRunning(t) /\ task[t].phase = "activating" /\ s \in Sources
      /\ i \in Ids /\ current \in BOOLEAN
      /\ \A r \in Sources : Current(t, r) <=> current /\ r = s
      /\ t \in Sources => s = t
  BY RunningTyped DEF ExtInv, LoadsInv, BootInv, ActivateEnds, Current, Running
<1>2. UNCHANGED <<choiceVars, known, refresh, off, meddled>>
  BY DEF ActivateEnds
<1>3. PICK ok \in BOOLEAN :
       LET won == current /\ ok
           fails == current /\ ~ok
           next == IF t \in Sources /\ ~won /\ q # <<>> THEN {Head(q)} ELSE {}
           rows == CASE won   -> [status EXCEPT ![s] = Status("loaded", i, Nobody)]
                     [] fails -> [status EXCEPT ![s] = Status("error", i, Nobody)]
                     [] ~current -> status
       IN /\ panel' = IF won THEN panel ELSE Undone({t})
          /\ disposers' = IF won THEN [disposers EXCEPT ![s] = t] ELSE disposers
          /\ status' = IF won /\ t \in Sources THEN ShadowRest(rows, i, s)
                                               ELSE rows
          /\ task' = [u \in Tasks |-> IF u \in next THEN Activating(u, i)
                                      ELSE Superseded(ended, next)[u]]
          /\ owner' = [j \in Ids |->
                         IF j = i /\ next # {} THEN Head(q)
                         ELSE IF fails THEN ReleasedOwner({s})[j] ELSE owner[j]]
          /\ claim' = [r \in Sources |->
                         IF r \in next THEN i
                         ELSE IF fails THEN ReleasedClaim({s})[r] ELSE claim[r]]
          /\ boot' = IF t \notin Sources THEN boot
                     ELSE [boot EXCEPT !.queue[i] =
                             IF won \/ next = {} THEN <<>> ELSE Tail(@)]
  BY DEF ActivateEnds, IsCurrent
<1> DEFINE won == current /\ ok
           fails == current /\ ~ok
           next == IF t \in Sources /\ ~won /\ q # <<>> THEN {Head(q)} ELSE {}
           lost == IF fails THEN [status EXCEPT ![s] = Status("error", i, Nobody)]
                   ELSE status
<1>4. /\ status \in [Sources -> Rows] /\ owner \in [Ids -> Sources \cup {Nobody}]
      /\ claim \in [Sources -> Ids \cup {NoId}]
      /\ task \in [Tasks -> Loads] /\ boot.queue \in [Ids -> Seq(Sources)]
  BY <1>1 DEF TypeOK, LoadTypes, ClaimTypes, BootTypes, Loads
<1>5. /\ task' = [u \in Tasks |-> IF u \in next THEN Activating(u, i)
                                  ELSE Superseded(ended, next)[u]]
      /\ owner' = [j \in Ids |->
                     IF j = i /\ next # {} THEN Head(q)
                     ELSE IF fails THEN ReleasedOwner({s})[j] ELSE owner[j]]
      /\ claim' = [r \in Sources |->
                     IF r \in next THEN i
                     ELSE IF fails THEN ReleasedClaim({s})[r] ELSE claim[r]]
  BY <1>3
<1>6. next = {} => task' = [task EXCEPT ![t] = Over]
  <2> SUFFICES ASSUME next = {}
               PROVE  task' = [task EXCEPT ![t] = Over]
    OBVIOUS
  <2>1. ended \in [Tasks -> Loads]
    BY <1>4 DEF Loads
  <2>2. task' = [u \in Tasks |-> Superseded(ended, {})[u]]
    BY <1>5
  <2> HIDE DEF ended
  <2>3. \A u \in Tasks : Superseded(ended, {})[u] = ended[u]
    BY DEF Superseded
  <2>4. task' = ended
    BY <2>1, <2>2, <2>3
  <2> QED BY <2>4 DEF ended
<1>7. CASE won
  <2>1. next = {} /\ ~fails /\ current
    BY <1>7
  <2>2. owner' = owner /\ claim' = claim
    BY <1>4, <1>5, <2>1
  <2>3. panel' = panel /\ disposers' = [disposers EXCEPT ![s] = t]
    BY <1>3, <1>7
  <2>4. status' = IF t \in Sources
                  THEN ShadowRest([status EXCEPT ![s] = Status("loaded", i, Nobody)], i, s)
                  ELSE [status EXCEPT ![s] = Status("loaded", i, Nobody)]
    BY <1>3, <1>7
  <2>5. boot' = IF t \notin Sources THEN boot ELSE [boot EXCEPT !.queue[i] = <<>>]
    BY <1>3, <1>7
  <2>6. task' = [task EXCEPT ![t] = Over] /\ UNCHANGED claimVars
    BY <1>6, <2>1, <2>2 DEF claimVars
  <2> HIDE DEF won, next
  <2> QED BY <1>1, <1>2, <2>1, <2>3, <2>4, <2>5, <2>6, WinStep
<1>8. CASE ~won
  <2>1. panel' = Undone({t}) /\ disposers' = disposers
    BY <1>3, <1>8
  <2>2. status' = lost
    <3>1. CASE fails
      BY <1>3, <1>8, <3>1
    <3>2. CASE ~fails
      <4>1. ~current
        BY <1>8, <3>2
      <4> QED BY <1>3, <1>8, <3>2, <4>1
    <3> QED BY <3>1, <3>2
  <2>3. /\ status' \in [Sources -> Rows]
        /\ \A r \in Sources : \/ status'[r] = status[r] /\ ~Current(t, r)
                              \/ status'[r].is = "error" /\ Current(t, r)
    <3>1. Status("error", i, Nobody) \in Rows /\ Status("error", i, Nobody).is = "error"
      BY <1>1 DEF Status, Rows
    <3>2. fails <=> current
      BY <1>8
    <3> QED BY <1>1, <1>4, <2>2, <3>1, <3>2
  <2>4. /\ LiveTypes'
        /\ \A j \in Ids : panel'[j] # NoPanel => panel'[j] = panel[j] /\ panel[j].load # t
        /\ \A j \in Ids : /\ ReleasedOwner({s})[j] \in Sources \cup {Nobody}
                          /\ \A r \in Sources \ {s} : owner[j] = r => ReleasedOwner({s})[j] = r
        /\ \A r \in Sources : ReleasedClaim({s})[r] \in Ids \cup {NoId}
    <3>1. {s} \in SUBSET Sources
      BY <1>1
    <3> HIDE DEF s
    <3> QED BY <1>1, <2>1, <3>1, FailFacts
  <2>5. /\ next \subseteq Sources
        /\ next # {} => Head(q) \in Sources
    BY <1>1, <1>4
  <2>6. ClaimTypes'
    <3> HIDE DEF next, fails, s, i, q
    <3>1. owner' \in [Ids -> Sources \cup {Nobody}]
      BY <1>4, <1>5, <2>4, <2>5
    <3>2. claim' \in [Sources -> Ids \cup {NoId}]
      BY <1>1, <1>4, <1>5, <2>4
    <3> QED BY <3>1, <3>2 DEF ClaimTypes
  <2>7. \A j \in Ids, r \in Sources :
          (j # i \/ next = {}) /\ owner[j] = r /\ ~Current(t, r) => owner'[j] = r
    <3> SUFFICES ASSUME NEW j \in Ids, NEW r \in Sources, j # i \/ next = {},
                        owner[j] = r, ~Current(t, r)
                 PROVE  owner'[j] = r
      OBVIOUS
    <3>1. owner'[j] = IF fails THEN ReleasedOwner({s})[j] ELSE owner[j]
      BY <1>5
    <3>2. fails => r # s
      BY <1>1
    <3> QED BY <2>4, <3>1, <3>2
  <2>8. CASE next = {}
    <3>1. boot' = boot
      <4>1. CASE t \notin Sources
        BY <1>3, <4>1
      <4>2. CASE t \in Sources
        <5>1. q = <<>> /\ boot' = [boot EXCEPT !.queue[i] = <<>>]
          BY <1>3, <1>8, <2>8, <4>2
        <5>2. boot' = [boot EXCEPT !.queue = [boot.queue EXCEPT ![i] = <<>>]]
          BY <1>1, <5>1 DEF TypeOK, BootTypes
        <5>3. [boot.queue EXCEPT ![i] = <<>>] = boot.queue
          BY <1>1, <1>4, <5>1
        <5> QED BY <1>1, <5>2, <5>3 DEF TypeOK, BootTypes
      <4> QED BY <4>1, <4>2
    <3>2. \A j \in Ids, r \in Sources :
            owner[j] = r /\ ~Current(t, r) => owner'[j] = r
      BY <2>7, <2>8
    <3>3. task' = [task EXCEPT ![t] = Over]
      BY <1>6, <2>8
    <3> HIDE DEF won, next
    <3> QED BY <1>1, <1>2, <2>1, <2>3, <2>4, <2>6, <3>1, <3>2, <3>3, LoseStep
  <2>9. CASE next # {}
    <3> DEFINE h == Head(q)
    <3>1. t \in Sources /\ q # <<>> /\ next = {h}
      BY <2>9
    <3>2. q \in Seq(Sources) /\ IsInjective(q)
      BY <1>1, <1>4 DEF ExtInv, BootInv
    <3>3. boot' = [boot EXCEPT !.queue[i] = Tail(@)]
      BY <1>3, <1>8, <2>9, <3>1
    <3>4. /\ h \in Range(q) /\ IsInjective(Tail(q)) /\ Range(Tail(q)) = Range(q) \ {h}
      <4> HIDE DEF q, next
      <4> QED BY <3>1, <3>2, RestFacts
    <3>5. h \in Sources
      BY <2>5, <2>9
    <3>6. Advances(i)
      BY <1>1, <1>2, <3>1, <3>3, QueueAdvances
    <3>7. boot'.queue[i] = Tail(q)
      BY <3>6 DEF Advances
    <3>8. h # t
      <4>1. Queued(h) /\ task[h] = NotBegun
        BY <1>1, <3>4, <3>5 DEF Queued, ExtInv, BootInv
      <4> QED BY <1>1, <4>1 DEF IsRunning
    <3>9. Turns(t, h, i)
      <4>1. task' = [u \in Tasks |-> IF u \in {h} THEN Activating(u, i)
                                     ELSE Superseded(ended, {h})[u]]
        BY <1>5, <3>1
      <4> HIDE DEF h, i, next
      <4> QED BY <1>1, <3>5, <3>8, <4>1, LoadsTurn
    <3>10. owner'[i] = h
      BY <1>1, <1>5, <2>9
    <3>11. /\ IsInjective(boot'.queue[i])
           /\ Range(boot'.queue[i]) = Range(boot.queue[i]) \ {h}
      BY <3>4, <3>7
    <3>12. \A j \in Ids \ {i}, r \in Sources :
             owner[j] = r /\ ~Current(t, r) => owner'[j] = r
      BY <2>7
    <3>13. /\ UNCHANGED <<choiceVars, known, disposers, refresh, off, meddled>>
           /\ boot.queue[i] # <<>> /\ h \in Range(boot.queue[i])
      BY <1>2, <2>1, <3>1, <3>4
    <3> HIDE DEF h, next, won, lost, ended
    <3> QED BY <1>1, <2>3, <2>4, <2>6, <3>1, <3>5, <3>6, <3>9, <3>10, <3>11, <3>12,
               <3>13, TurnStep
  <2> QED BY <2>8, <2>9
<1> QED BY <1>7, <1>8

-----------------------------------------------------------------------------
(* The theorems *)

\* The invariant holds at the start.
LEMMA ExtInit == Init => ExtInv
<1> SUFFICES ASSUME Init PROVE ExtInv
  OBVIOUS
<1>1. /\ status = [s \in Sources |-> Plain("none")]
      /\ task = [t \in Tasks |-> NotBegun]
      /\ owner = [i \in Ids |-> Nobody] /\ claim = [s \in Sources |-> NoId]
      /\ disposers = [s \in Sources |-> NoTask] /\ panel = [i \in Ids |-> NoPanel]
      /\ boot = [stage |-> "idle", fetch |-> {}, queue |-> NoQueues]
      /\ refresh = [stage |-> "idle", seen |-> {}, loads |-> {}]
      /\ off = {} /\ meddled = {} /\ known = {}
  BY DEF Init
<1>2. NoQueues \in [Ids -> Seq(Sources)] /\ \A i \in Ids : NoQueues[i] = <<>>
  <2>1. <<>> \in Seq(Sources)
    OBVIOUS
  <2> QED BY <2>1 DEF NoQueues
<1>3. TypeOK
  <2>1. ChoiceTypes
    BY DEF Init, ChoiceTypes, Sources
  <2>2. LoadTypes
    BY <1>1, PlainRows DEF LoadTypes
  <2>3. ClaimTypes
    BY <1>1 DEF ClaimTypes
  <2>4. LiveTypes
    BY <1>1 DEF LiveTypes, NoPanel
  <2>5. BootTypes
    BY <1>1, <1>2 DEF BootTypes
  <2> QED BY <2>1, <2>2, <2>3, <2>4, <2>5 DEF TypeOK
<1>4. \A t \in Tasks : ~IsRunning(t)
  BY <1>1 DEF IsRunning
<1>5. \A s \in Sources : ~Queued(s) /\ ~Waiting(s) /\ \A t \in Tasks : ~Current(t, s)
  BY <1>1, <1>2, <1>4 DEF Queued, Waiting, Current, Range
<1>6. \A s \in Sources : status[s].is = "none" /\ disposers[s] = NoTask /\ s \in Tasks
  BY <1>1, PlainRows DEF Tasks
<1>7. LoadsInv /\ MeddledInv /\ OffInv /\ OffStaysOffLater
  BY <1>1, <1>4, <1>5 DEF LoadsInv, MeddledInv, OffInv, OffStaysOffLater, Tasks
<1>8. BootInv
  <2>1. \A i \in Ids : IsInjective(boot.queue[i]) /\ Range(boot.queue[i]) = {}
    BY <1>1, <1>2 DEF IsInjective, Range
  <2> QED BY <1>1, <1>4, <1>5, <1>6, <2>1 DEF BootInv
<1>9. RowInv
  BY <1>1, <1>5, <1>6 DEF RowInv
<1>10. OwnerInv /\ ActiveOwnsItsId /\ NoEndlessSpinner
  BY <1>5, <1>6 DEF OwnerInv, ActiveOwnsItsId, NoEndlessSpinner
<1>11. PanelInv /\ NothingLeftBehind
  BY <1>1 DEF PanelInv, NothingLeftBehind
<1> QED BY <1>3, <1>7, <1>8, <1>9, <1>10, <1>11 DEF ExtInv

\* Every step keeps the invariant.
LEMMA ExtNext == ExtInv /\ [Next]_vars => ExtInv'
<1> SUFFICES ASSUME ExtInv, [Next]_vars PROVE ExtInv'
  OBVIOUS
<1>1. CASE UNCHANGED vars
  BY <1>1, DiskStep
<1>2. CASE UserActs
  <2>1. CASE \E s \in Locals : DiskChanges(s)
    BY <2>1, DiskStep
  <2>2. CASE /\ boot.stage # "idle"
             /\ \E t \in Attempts, s \in Sources :
                  Enable(t, s) \/ AddSource(t, s) \/ Reload(t, s) \/ AgentLoad(t, s)
    BY <2>2, EnableStep, AddStep, ReloadStep, AgentLoadStep
  <2>3. CASE boot.stage # "idle" /\ \E s \in Sources : Disable(s) \/ RemoveSource(s)
    BY <2>3, DisableStep, RemoveStep
  <2>4. CASE boot.stage # "idle" /\ \E i \in Ids : AgentUnload(i)
    BY <2>4, AgentUnloadStep
  <2>5. CASE boot.stage # "idle" /\ Refresh
    BY <2>5, RefreshStep
  <2> QED BY <1>2, <2>1, <2>2, <2>3, <2>4, <2>5 DEF UserActs
<1>3. CASE LoaderActs
  <2>1. CASE \E t \in Tasks : FetchEnds(t) \/ Register(t) \/ ActivateEnds(t)
    BY <2>1, FetchEndsStep, RegisterStep, ActivateEndsStep
  <2>2. CASE RefreshEnds \/ Bootstrap \/ Discovered \/ Fetched \/ Booted
    BY <2>2, RefreshEndsStep, BootstrapStep, DiscoveredStep, FetchedStep, BootedStep
  <2> QED BY <1>3, <2>1, <2>2 DEF LoaderActs
<1> QED BY <1>1, <1>2, <1>3 DEF Next

\* The invariant holds throughout: the conjuncts say where a source, a load, a claim
\* and a registration are while the others change.
THEOREM ExtInvariant == Spec => []ExtInv
  BY ExtInit, ExtNext, PTL DEF Spec

\* The loader keeps its types, and a source is never both disabled and enabled by
\* the user's choices.
THEOREM ExtensionsTypeCorrect == Spec => []TypeOK
<1>1. ExtInv => TypeOK
  BY DEF ExtInv
<1> QED BY <1>1, ExtInvariant, PTL

\* No two sources are active for one extension id: claims are taken before the
\* activation and given back when it fails (activateClaimed, release).
THEOREM OneActivePerId == Spec => []ActiveOwnsItsId
<1>1. ExtInv => ActiveOwnsItsId
  BY DEF ExtInv
<1> QED BY <1>1, ExtInvariant, PTL

\* Every row that spins has a load that settles it or waits for the bootstrap:
\* superseding a load (bumpSeq) always leaves another one or another row.
THEOREM SpinnersEnd == Spec => []NoEndlessSpinner
<1>1. ExtInv => NoEndlessSpinner
  BY DEF ExtInv
<1> QED BY <1>1, ExtInvariant, PTL

\* What a load has registered goes with the source: no contribution outlives the
\* unloading, the failure or the superseding of the load it came from.
THEOREM RegistrationsGo == Spec => []NothingLeftBehind
<1>1. ExtInv => NothingLeftBehind
  BY DEF ExtInv
<1> QED BY <1>1, ExtInvariant, PTL

\* A source that was turned off while it was being loaded is not brought back by
\* that load.
THEOREM OffIsOff == Spec => []OffStaysOffLater
<1>1. ExtInv => OffStaysOffLater
  BY DEF ExtInv
<1> QED BY <1>1, ExtInvariant, PTL
=============================================================================
