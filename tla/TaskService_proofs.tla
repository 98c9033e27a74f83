------------------------ MODULE TaskService_proofs ------------------------
(***************************************************************************)
(* What the task service keeps true for every set of tasks, of request     *)
(* threads and of runner slots, with no bound on requests or restarts that *)
(* the proofs depend on: TypeOK, AtMostOneRunner, ExitLeavesNoRunner,      *)
(* DeletionIsForever and the refinement of TaskLifecycle.                  *)
(***************************************************************************)
EXTENDS TaskService, TLAPS

-----------------------------------------------------------------------------
(* Rows *)

\* The rows the queries and writes of TaskRow make are rows.
LEMMA RowsAreRows ==
    /\ NoRow \in Row
    /\ NewRow \in Row
    /\ \A old, new \in Row : Upsert(old, new) \in Row
    /\ \A row \in Row : AsDeleted(row) \in Row
    /\ \A row \in Row, o \in Outcome : WithOutcome(row, o) \in Row
  BY DEF Row, NoRow, NewRow, Upsert, AsDeleted, WithOutcome, Outcome

\* The upsert latches both soft-delete columns.
LEMMA UpsertLatches ==
    ASSUME NEW old \in Row, NEW new \in Row
    PROVE  /\ old.isDeleted => Upsert(old, new).isDeleted
           /\ old.isDeleting => Upsert(old, new).isDeleting
           /\ Upsert(old, new).outcome = new.outcome
  BY DEF Row, Upsert

-----------------------------------------------------------------------------
(* Types *)

\* What a process holds in memory when it starts, and when it is gone.
LEMMA EmptyMemory ==
    /\ NoRequest \in Request
    /\ EmptyBatch \in [Task -> Row]
    /\ [c \in Client |-> NoRequest] \in [Client -> Request]
    /\ [t \in Task |-> [k \in Slot |-> "none"]] \in [Task -> [Slot -> ThreadPC]]
    /\ [t \in Task |-> [k \in Slot |-> NoRow]] \in [Task -> [Slot -> Row]]
  BY RowsAreRows DEF NoRequest, Request, RequestPC, EmptyBatch, ThreadPC

\* The initial state is well typed.
LEMMA TypeInit == Init => TypeOK
<1> SUFFICES ASSUME Init PROVE TypeOK
  OBVIOUS
<1>1. db \in [Task -> Row]
  BY RowsAreRows DEF Init
<1>2. requests \in Nat /\ restarts \in Nat
  BY DEF Init
<1> QED BY <1>1, <1>2, EmptyMemory DEF Init, FreshProcess, TypeOK, SpawnerPC

\* Steps of the process keep the types.
LEMMA TypeProcess ==
    ASSUME TypeOK,
           BootStep \/ Shutdown \/ Exit \/ Crash \/ Start
    PROVE  TypeOK'
<1>1. ASSUME NEW t \in Task, BootFinalize(t) PROVE TypeOK'
  BY <1>1, RowsAreRows DEF BootFinalize, TypeOK, disk, requestVars, spawnerVars, runnerVars, bounds
<1>2. CASE BootDone
  BY <1>2 DEF BootDone, TypeOK, SpawnerPC, disk, requestVars, runnerVars, bounds
<1>3. CASE Shutdown
  BY <1>3 DEF Shutdown, TypeOK, disk, requestVars, spawnerVars, runnerVars, bounds
<1>4. ASSUME LoseMemory, UNCHANGED <<disk, bounds>> PROVE TypeOK'
  BY <1>4, EmptyMemory DEF LoseMemory, TypeOK, disk, bounds, SpawnerPC
<1>5. CASE Start
  BY <1>5, ConstantsAssumption
     DEF Start, TypeOK, disk, requestVars, spawnerVars, runnerVars, bounds
<1> QED BY <1>1, <1>2, <1>3, <1>4, <1>5 DEF BootStep, Exit, Crash

\* Steps of a request thread keep the types.
LEMMA TypeRequest ==
    ASSUME TypeOK, NEW c \in Client,
           NewRequest(c) \/ RequestStep(c)
    PROVE  TypeOK'
<1> USE DEF disk, requestVars, spawnerVars, runnerVars, bounds
<1>1. ASSUME NEW pc \in RequestPC, NEW t \in Task \cup {NoTask}, NEW row \in Row,
             t = NoTask => pc \in {"idle", "cascade", "callbacks"},
             Serve(c, pc, t, row)
      PROVE  req' \in [Client -> Request]
  BY <1>1 DEF Serve, TypeOK, Request
<1>2. ASSUME Done(c) PROVE req' \in [Client -> Request]
  BY <1>2, EmptyMemory DEF Done, TypeOK
<1>3. ASSUME BeginRequest(c) PROVE requests' \in Nat
  BY <1>3 DEF BeginRequest, TypeOK
<1>4. /\ req[c].row \in Row
      /\ req[c].task \in Task \cup {NoTask}
      /\ req[c].task = NoTask => req[c].pc \in {"idle", "cascade", "callbacks"}
  BY DEF TypeOK, Request
<1>5. \A t \in Task : db[t] \in Row
  BY DEF TypeOK
<1>6. ASSUME NEW t \in Task \cup {NoTask}, NEW row \in Row,
             db' = [db EXCEPT ![t] = Upsert(@, row)]
      PROVE  db' \in [Task -> Row]
  BY <1>6, RowsAreRows, ConstantsAssumption DEF TypeOK
<1>10. ASSUME NEW t \in Task, CreateCheck(c, t) PROVE TypeOK'
  <2>1. req' \in [Client -> Request]
    BY <1>1, <1>10, RowsAreRows, ConstantsAssumption DEF CreateCheck, RequestPC
  <2> QED BY <1>3, <1>10, <2>1 DEF CreateCheck, TypeOK
<1>11. CASE CreateCommit(c)
  BY <1>2, <1>4, <1>11 DEF CreateCommit, TypeOK
<1>12. ASSUME NEW t \in Task, TouchRead(c, t) PROVE TypeOK'
  <2>1. req' \in [Client -> Request]
    BY <1>1, <1>5, <1>12, ConstantsAssumption DEF TouchRead, RequestPC
  <2> QED BY <1>3, <1>12, <2>1 DEF TouchRead, TypeOK
<1>13. CASE TouchCommit(c)
  BY <1>2, <1>4, <1>6, <1>13 DEF TouchCommit, TypeOK
<1>14. ASSUME NEW t \in Task, RestoreRead(c, t) PROVE TypeOK'
  <2>0. WithOutcome(db[t], "QUEUED") \in Row
    BY <1>5, RowsAreRows DEF Outcome
  <2>1. req' \in [Client -> Request]
    BY <1>1, <2>0, <1>14, ConstantsAssumption DEF RestoreRead, RequestPC
  <2> QED BY <1>3, <1>14, <2>1 DEF RestoreRead, TypeOK
<1>15. CASE RestoreCommit(c)
  <2>1. db' \in [Task -> Row]
    BY <1>4, <1>6, <1>15 DEF RestoreCommit, TypeOK
  <2> QED BY <1>2, <1>15, <2>1 DEF RestoreCommit, TypeOK
<1>16. ASSUME NEW t \in Task, DeleteRead(c, t) PROVE TypeOK'
  <2>1. req' \in [Client -> Request]
    BY <1>1, <1>5, <1>16, ConstantsAssumption DEF DeleteRead, RequestPC
  <2> QED BY <1>3, <1>16, <2>1 DEF DeleteRead, TypeOK
<1>17. CASE DeleteSignal(c)
  <2>1. req' \in [Client -> Request]
    BY <1>1, <1>4, <1>17 DEF DeleteSignal, RequestPC
  <2>2. stop' \in [Task -> [Slot -> BOOLEAN]]
    BY <1>17 DEF DeleteSignal, TypeOK
  <2> QED BY <1>17, <2>1, <2>2 DEF DeleteSignal, TypeOK
<1>18. CASE DeleteCommit(c)
  <2>1. [req[c].row EXCEPT !.isDeleting = TRUE] \in Row
    BY <1>4 DEF Row
  <2>2. db' \in [Task -> Row]
    BY <1>4, <1>6, <1>18, <2>1 DEF DeleteCommit
  <2> QED BY <1>2, <1>18, <2>2 DEF DeleteCommit, TypeOK
<1>19. CASE DeleteIdle(c)
  <2>1. req' \in [Client -> Request]
    BY <1>1, <1>4, <1>19, RowsAreRows DEF DeleteIdle, RequestPC
  <2>2. db' \in [Task -> Row]
    BY <1>4, <1>6, <1>19, RowsAreRows DEF DeleteIdle
  <2>3. cleanup' \in [Client -> SUBSET Task]
    BY <1>4, <1>19 DEF DeleteIdle, TypeOK
  <2> QED BY <1>19, <2>1, <2>2, <2>3 DEF DeleteIdle, TypeOK
<1>20. ASSUME NEW t \in Task, CleanupCaches(c, t) PROVE TypeOK'
  <2>1. req' \in [Client -> Request]
    BY <1>20, EmptyMemory DEF CleanupCaches, TypeOK
  <2> QED BY <1>20, <2>1 DEF CleanupCaches, TypeOK
<1>21. CASE CascadeBegin(c)
  <2>1. req' \in [Client -> Request]
    BY <1>1, <1>21, RowsAreRows DEF CascadeBegin, RequestPC
  <2> QED BY <1>3, <1>21, <2>1 DEF CascadeBegin, TypeOK
<1>22. CASE CascadeCommit(c)
  <2>1. req' \in [Client -> Request]
    BY <1>1, <1>2, <1>22, RowsAreRows DEF CascadeCommit, RequestPC
  <2>2. \A t \in Task : [db[t] EXCEPT !.isDeleting = TRUE] \in Row
    BY <1>5 DEF Row
  <2>3. db' \in [Task -> Row]
    BY <1>5, <1>22, <2>2, RowsAreRows DEF CascadeCommit
  <2>4. cleanup' \in [Client -> SUBSET Task]
    BY <1>22 DEF CascadeCommit, TypeOK
  <2> QED BY <1>22, <2>1, <2>3, <2>4 DEF CascadeCommit, TypeOK
<1> QED
  BY <1>10, <1>11, <1>12, <1>13, <1>14, <1>15, <1>16, <1>17, <1>18, <1>19,
     <1>20, <1>21, <1>22 DEF NewRequest, RequestStep

\* Steps of the spawner keep the types.
LEMMA TypeSpawner ==
    ASSUME TypeOK, SpawnerStep
    PROVE  TypeOK'
<1> USE DEF disk, requestVars, spawnerVars, runnerVars, bounds
<1>1. \A t \in Task : db[t] \in Row /\ batch[t] \in Row
  BY DEF TypeOK
<1>2. \A t \in Task, o \in Outcome : WithOutcome(db[t], o) \in Row
  BY <1>1, RowsAreRows
<1>3. ASSUME NEW next \in SpawnerPC, NEW onError \in SpawnerPC, WriteBatch(next, onError)
      PROVE  /\ spawner' \in SpawnerPC
             /\ batch' \in [Task -> Row]
             /\ db' \in [Task -> Row]
  <2>1. db' \in [Task -> Row]
    BY <1>1, <1>3, RowsAreRows DEF WriteBatch, TypeOK
  <2> QED BY <1>3, <2>1, EmptyMemory DEF WriteBatch, TypeOK
<1>10. CASE SpawnerLoop
  <2>1. batch' \in [Task -> Row]
    BY <1>2, <1>10, RowsAreRows DEF SpawnerLoop, TypeOK, Outcome
  <2> QED BY <1>10, <2>1 DEF SpawnerLoop, TypeOK, SpawnerPC
<1>11. CASE CleanPreviouslyRunning
  BY <1>3, <1>11 DEF CleanPreviouslyRunning, AfterError, TypeOK, SpawnerPC
<1>12. CASE CleanStopped
  <2>1. batch' \in [Task -> Row]
    BY <1>12, EmptyMemory DEF CleanStopped
  <2>2. thread' \in [Task -> [Slot -> ThreadPC]]
    BY <1>12 DEF CleanStopped, TypeOK, ThreadPC
  <2>3. stop' \in [Task -> [Slot -> BOOLEAN]]
    BY <1>12 DEF CleanStopped
  <2> QED BY <1>12, <2>1, <2>2, <2>3 DEF CleanStopped, TypeOK, SpawnerPC
<1>13. CASE PrepareRead
  <2>1. batch' \in [Task -> Row]
    BY <1>2, <1>13, RowsAreRows DEF PrepareRead, Outcome
  <2> QED BY <1>13, <2>1 DEF PrepareRead, TypeOK, SpawnerPC
<1>14. CASE PrepareCommit
  BY <1>3, <1>14 DEF PrepareCommit, AfterError, TypeOK, SpawnerPC
<1>15. ASSUME NEW t \in Task, Register(t) PROVE TypeOK'
  <2>1. batch' \in [Task -> Row]
    BY <1>15, RowsAreRows DEF Register, TypeOK
  <2>2. ASSUME NEW k \in Slot, thread' = [thread EXCEPT ![t][k] = "starting"]
        PROVE  thread' \in [Task -> [Slot -> ThreadPC]]
    <3>1. thread \in [Task -> [Slot -> ThreadPC]] /\ "starting" \in ThreadPC
      BY DEF TypeOK, ThreadPC
    <3> QED BY <2>2, <3>1
  <2>3. thread' \in [Task -> [Slot -> ThreadPC]]
    <3>1. CASE Registered(t)
      BY <1>15, <3>1 DEF Register, TypeOK, runnerVars
    <3>2. CASE ~Registered(t)
      BY <1>15, <2>2, <3>2 DEF Register
    <3> QED BY <3>1, <3>2
  <2>4. /\ runnerOf' \in [Task -> Slot \cup {NoSlot}]
        /\ held' = held /\ flagOf' = flagOf /\ stop' = stop
    <3>1. CASE Registered(t)
      BY <1>15, <3>1 DEF Register, TypeOK, runnerVars
    <3>2. CASE ~Registered(t)
      <4>1. PICK k \in Slot : runnerOf' = [runnerOf EXCEPT ![t] = k]
        BY <1>15, <3>2 DEF Register
      <4>2. held' = held /\ flagOf' = flagOf /\ stop' = stop
        BY <1>15, <3>2 DEF Register
      <4> QED BY <4>1, <4>2 DEF TypeOK
    <3> QED BY <3>1, <3>2
  <2>5. UNCHANGED <<disk, phase, requestVars, spawner, activated, shutdown, bounds>>
    BY <1>15 DEF Register
  <2> QED BY <2>1, <2>3, <2>4, <2>5 DEF TypeOK, disk, requestVars, bounds
<1>16. CASE RegisterDone
  BY <1>16 DEF RegisterDone, TypeOK, SpawnerPC
<1>17. CASE JoinRunners
  BY <1>17 DEF JoinRunners, TypeOK, SpawnerPC
<1> QED
  BY <1>10, <1>11, <1>12, <1>13, <1>14, <1>15, <1>16, <1>17 DEF SpawnerStep

\* Steps of a runner thread keep the types.
LEMMA TypeRunner ==
    ASSUME TypeOK, NEW t \in Task, NEW k \in Slot,
           RunnerStep(t, k) \/ AgentEnds(t, k)
    PROVE  TypeOK'
<1> USE DEF disk, requestVars, spawnerVars, runnerVars, bounds
<1>1. ASSUME NEW pc \in ThreadPC, Goto(t, k, pc)
      PROVE  thread' \in [Task -> [Slot -> ThreadPC]]
  BY <1>1 DEF Goto, TypeOK
<1>2. ASSUME NEW row \in Row, Hold(t, k, row)
      PROVE  held' \in [Task -> [Slot -> Row]]
  BY <1>2 DEF Hold, TypeOK
<1>3. ASSUME WriteDeleted(t, k)
      PROVE  /\ db' \in [Task -> Row]
             /\ thread' \in [Task -> [Slot -> ThreadPC]]
             /\ held' \in [Task -> [Slot -> Row]]
  BY <1>1, <1>3, RowsAreRows DEF WriteDeleted, TypeOK, ThreadPC
<1>10. CASE RegisterEvent(t, k)
  BY <1>1, <1>10 DEF RegisterEvent, TypeOK, ThreadPC
<1>11. CASE RunPauses(t, k)
  BY <1>1, <1>11 DEF RunPauses, TypeOK, ThreadPC
<1>12. CASE RunSucceeds(t, k)
  BY <1>1, <1>12 DEF RunSucceeds, TypeOK, ThreadPC
<1>13. CASE RunFails(t, k)
  BY <1>1, <1>13 DEF RunFails, TypeOK, ThreadPC
<1>14. CASE PausedRead(t, k)
  BY <1>1, <1>14 DEF PausedRead, TypeOK, ThreadPC
<1>15. CASE FinalizeDeleted(t, k)
  <2>1. thread' \in [Task -> [Slot -> ThreadPC]]
    BY <1>1, <1>3, <1>15 DEF FinalizeDeleted, ThreadPC
  <2> QED BY <1>3, <1>15, <2>1 DEF FinalizeDeleted, TypeOK
<1>16. CASE FinalizeRead(t, k)
  <2>1. thread' \in [Task -> [Slot -> ThreadPC]]
    BY <1>1, <1>3, <1>16 DEF FinalizeRead, ThreadPC
  <2>2. held' \in [Task -> [Slot -> Row]]
    BY <1>2, <1>3, <1>16 DEF FinalizeRead, TypeOK
  <2> QED BY <1>3, <1>16, <2>1, <2>2 DEF FinalizeRead, TypeOK
<1>17. CASE FinalizeWrite(t, k)
  <2>1. thread' \in [Task -> [Slot -> ThreadPC]]
    BY <1>1, <1>17 DEF FinalizeWrite, ThreadPC
  <2>2. held' \in [Task -> [Slot -> Row]]
    BY <1>2, <1>17, RowsAreRows DEF FinalizeWrite
  <2>3. WithOutcome(held[t][k], "QUEUED") \in Row
    BY RowsAreRows DEF TypeOK, Outcome
  <2>4. db' \in [Task -> Row]
    BY <1>17, <2>3, RowsAreRows DEF FinalizeWrite, TypeOK
  <2> QED BY <1>17, <2>1, <2>2, <2>4 DEF FinalizeWrite, TypeOK
<1>18. CASE FinalizeWithCallback(t, k)
  <2>1. thread' \in [Task -> [Slot -> ThreadPC]]
    BY <1>1, <1>3, <1>18 DEF FinalizeWithCallback, ThreadPC
  <2>2. \A pc : EndOutcome(pc) \in Outcome
    BY DEF EndOutcome, Outcome
  <2>3. db' \in [Task -> Row]
    BY <1>3, <1>18, <2>2, RowsAreRows DEF FinalizeWithCallback, TypeOK
  <2> QED BY <1>3, <1>18, <2>1, <2>3 DEF FinalizeWithCallback, TypeOK
<1>19. CASE RunnerCleanup(t, k)
  BY <1>1, <1>19 DEF RunnerCleanup, TypeOK, ThreadPC
<1> QED
  BY <1>10, <1>11, <1>12, <1>13, <1>14, <1>15, <1>16, <1>17, <1>18, <1>19
     DEF RunnerStep, AgentEnds

\* Every step keeps the types.
LEMMA TypeNext == TypeOK /\ [Next]_vars => TypeOK'
<1> SUFFICES ASSUME TypeOK, [Next]_vars PROVE TypeOK'
  OBVIOUS
<1>1. CASE UNCHANGED vars
  BY <1>1 DEF vars, TypeOK, disk, requestVars, spawnerVars, runnerVars, bounds
<1> QED BY <1>1, TypeProcess, TypeRequest, TypeSpawner, TypeRunner DEF Next

\* The variables keep their types in every behaviour.
THEOREM TypeCorrect == Spec => []TypeOK
  BY TypeInit, TypeNext, PTL DEF Spec

-----------------------------------------------------------------------------
(* At most one runner *)

\* A runner thread is the one _runner_by_id knows; CleanStopped forgets dead
\* ones only.
RunnersAreRegistered ==
    \A t \in Task, k \in Slot : Live(t, k) => runnerOf[t] = k

\* After the joins there is nobody left.
ExitedAlone == spawner = "exited" => AllJoined

\* Of the runner that a step is about, what it may change: only to die.
LEMMA RunnersOnlyAge ==
    ASSUME TypeOK, NEW t \in Task, NEW k \in Slot,
           RunnerStep(t, k) \/ AgentEnds(t, k)
    PROVE  /\ \A u \in Task, j \in Slot : Live(u, j)' => Live(u, j)
           /\ UNCHANGED spawnerVars
<1>1. ASSUME NEW pc, Goto(t, k, pc), Live(t, k)
      PROVE  \A u \in Task, j \in Slot : Live(u, j)' => Live(u, j)
  BY <1>1 DEF Goto, Live, TypeOK
<1>2. ASSUME WriteDeleted(t, k), Live(t, k)
      PROVE  \A u \in Task, j \in Slot : Live(u, j)' => Live(u, j)
  BY <1>1, <1>2 DEF WriteDeleted
<1>10. CASE RegisterEvent(t, k)
  BY <1>1, <1>10 DEF RegisterEvent, Live
<1>11. CASE RunPauses(t, k)
  BY <1>1, <1>11 DEF RunPauses, Live
<1>12. CASE RunSucceeds(t, k)
  BY <1>1, <1>12 DEF RunSucceeds, Live
<1>13. CASE RunFails(t, k)
  BY <1>1, <1>13 DEF RunFails, Live
<1>14. CASE PausedRead(t, k)
  BY <1>1, <1>14 DEF PausedRead, Live
<1>15. CASE FinalizeDeleted(t, k)
  BY <1>1, <1>2, <1>15 DEF FinalizeDeleted, Live
<1>16. CASE FinalizeRead(t, k)
  BY <1>1, <1>2, <1>16 DEF FinalizeRead, Live
<1>17. CASE FinalizeWrite(t, k)
  BY <1>1, <1>17 DEF FinalizeWrite, Live
<1>18. CASE FinalizeWithCallback(t, k)
  BY <1>1, <1>2, <1>18 DEF FinalizeWithCallback, Live
<1>19. CASE RunnerCleanup(t, k)
  BY <1>1, <1>19 DEF RunnerCleanup, Live
<1> QED
  BY <1>10, <1>11, <1>12, <1>13, <1>14, <1>15, <1>16, <1>17, <1>18, <1>19
     DEF RunnerStep, AgentEnds

\* A request touches neither the runner threads nor the spawner.
LEMMA RequestsLeaveRunners ==
    ASSUME NEW c \in Client, NewRequest(c) \/ RequestStep(c)
    PROVE  UNCHANGED <<spawnerVars, thread>>
  BY DEF NewRequest, RequestStep, CreateCheck, CreateCommit, TouchRead, TouchCommit,
         RestoreRead, RestoreCommit, DeleteRead, DeleteSignal, DeleteCommit, DeleteIdle,
         CleanupCaches, CascadeBegin, CascadeCommit, spawnerVars, runnerVars

\* A process that is gone, or that has yet to boot, has no threads.
LEMMA NoThreadsInFreshMemory ==
    ASSUME thread' = [t \in Task |-> [k \in Slot |-> "none"]]
    PROVE  \A t \in Task, k \in Slot : ~Live(t, k)'
  BY DEF Live

\* The registration of runners is inductive.
LEMMA RegistrationNext ==
    TypeOK /\ RunnersAreRegistered /\ ExitedAlone /\ [Next]_vars
        => RunnersAreRegistered' /\ ExitedAlone'
<1> SUFFICES ASSUME TypeOK, RunnersAreRegistered, ExitedAlone, [Next]_vars
             PROVE  RunnersAreRegistered' /\ ExitedAlone'
  OBVIOUS
<1> USE DEF disk, requestVars, spawnerVars, runnerVars, bounds
\* Steps that change no thread and no registration, and exit no spawner.
<1>1. ASSUME UNCHANGED <<thread, runnerOf>>, spawner' = "exited" => spawner = "exited"
      PROVE  RunnersAreRegistered' /\ ExitedAlone'
  BY <1>1 DEF RunnersAreRegistered, ExitedAlone, AllJoined, Live
<1>2. ASSUME LoseMemory PROVE RunnersAreRegistered' /\ ExitedAlone'
  BY <1>2, NoThreadsInFreshMemory DEF LoseMemory, RunnersAreRegistered, ExitedAlone
<1>3. ASSUME NEW t \in Task, BootFinalize(t) PROVE RunnersAreRegistered' /\ ExitedAlone'
  BY <1>1, <1>3 DEF BootFinalize
<1>4. CASE BootDone
  BY <1>1, <1>4 DEF BootDone
<1>5. CASE Shutdown
  BY <1>1, <1>5 DEF Shutdown
<1>6. CASE Start
  BY <1>1, <1>6 DEF Start
<1>7. ASSUME NEW c \in Client, NewRequest(c) \/ RequestStep(c)
      PROVE  RunnersAreRegistered' /\ ExitedAlone'
  BY <1>1, <1>7, RequestsLeaveRunners
<1>8. CASE SpawnerLoop
  BY <1>1, <1>8 DEF SpawnerLoop
<1>9. CASE CleanPreviouslyRunning
  BY <1>1, <1>9 DEF CleanPreviouslyRunning, WriteBatch, AfterError
<1>10. CASE CleanStopped
  <2>1. \A t \in Task, k \in Slot : Live(t, k)' => Live(t, k)
    BY <1>10 DEF CleanStopped, Live, TypeOK
  <2>2. \A t \in Task, k \in Slot : Live(t, k) => runnerOf'[t] = k
    BY <1>10 DEF CleanStopped, RunnersAreRegistered, TypeOK
  <2> QED BY <1>10, <2>1, <2>2 DEF CleanStopped, RunnersAreRegistered, ExitedAlone
<1>11. CASE PrepareRead
  BY <1>1, <1>11 DEF PrepareRead
<1>12. CASE PrepareCommit
  BY <1>1, <1>12 DEF PrepareCommit, WriteBatch, AfterError
<1>13. ASSUME NEW t \in Task, Register(t) PROVE RunnersAreRegistered' /\ ExitedAlone'
  <2>1. CASE Registered(t)
    BY <1>1, <1>13, <2>1 DEF Register
  <2>2. CASE ~Registered(t)
    <3>1. PICK k \in Slot : /\ runnerOf' = [runnerOf EXCEPT ![t] = k]
                            /\ thread' = [thread EXCEPT ![t][k] = "starting"]
      BY <1>13, <2>2 DEF Register
    <3>2. \A j \in Slot : ~Live(t, j)
      BY <2>2, ConstantsAssumption DEF Registered, RunnersAreRegistered
    <3>3. \A u \in Task, j \in Slot : Live(u, j)' => Live(u, j) \/ (u = t /\ j = k)
      BY <3>1 DEF Live, TypeOK
    <3>4. RunnersAreRegistered'
      BY <3>1, <3>2, <3>3 DEF RunnersAreRegistered, TypeOK
    <3> QED BY <1>13, <3>4 DEF Register, ExitedAlone
  <2> QED BY <2>1, <2>2
<1>14. CASE RegisterDone
  BY <1>1, <1>14 DEF RegisterDone
<1>15. CASE JoinRunners
  BY <1>15 DEF JoinRunners, RunnersAreRegistered, ExitedAlone, AllJoined, Live
<1>16. ASSUME NEW t \in Task, NEW k \in Slot, RunnerStep(t, k) \/ AgentEnds(t, k)
       PROVE  RunnersAreRegistered' /\ ExitedAlone'
  <2>1. /\ \A u \in Task, j \in Slot : Live(u, j)' => Live(u, j)
        /\ UNCHANGED spawnerVars
    BY <1>16, RunnersOnlyAge
  <2> QED BY <2>1, ConstantsAssumption
          DEF RunnersAreRegistered, ExitedAlone, AllJoined, TypeOK
<1>17. CASE UNCHANGED vars
  BY <1>1, <1>17 DEF vars
<1> QED
  BY <1>2, <1>3, <1>4, <1>5, <1>6, <1>7, <1>8, <1>9, <1>10, <1>11, <1>12, <1>13,
     <1>14, <1>15, <1>16, <1>17
     DEF Next, BootStep, Exit, Crash, SpawnerStep

\* Both hold of the initial state.
LEMMA RegistrationInit == Init => RunnersAreRegistered /\ ExitedAlone
  BY DEF Init, FreshProcess, RunnersAreRegistered, ExitedAlone, Live

\* Both hold in every behaviour.
LEMMA RegistrationInvariant == Spec => [](RunnersAreRegistered /\ ExitedAlone)
<1>1. TypeOK /\ (RunnersAreRegistered /\ ExitedAlone) /\ [Next]_vars
        => (RunnersAreRegistered /\ ExitedAlone)'
  BY RegistrationNext
<1> QED BY <1>1, RegistrationInit, TypeCorrect, PTL DEF Spec

\* No task ever has two runner threads: the registration names one.
THEOREM OneRunner == Spec => []AtMostOneRunner
<1>1. RunnersAreRegistered /\ ExitedAlone => AtMostOneRunner
  BY DEF RunnersAreRegistered, AtMostOneRunner
<1> QED BY <1>1, RegistrationInvariant, PTL

\* The spawner's exit leaves no runner thread: those it joined are all.
THEOREM ExitIsClean == Spec => []ExitLeavesNoRunner
<1>1. RunnersAreRegistered /\ ExitedAlone /\ TypeOK => ExitLeavesNoRunner
  BY ConstantsAssumption
     DEF RunnersAreRegistered, ExitedAlone, AllJoined, ExitLeavesNoRunner, TypeOK
<1> QED BY <1>1, RegistrationInvariant, TypeCorrect, PTL

-----------------------------------------------------------------------------
(* Every writer knows its row *)

\* Between its read and its commit a transaction holds a copy of a row that
\* exists (rows are never removed), or a new row for a task that has none and
\* that no other request is about.
Changing == {"touch", "restore", "delete", "signalled"}

RequestsKnowTheirRow ==
    \A c \in Client : req[c].pc \in Changing =>
        /\ Present(db[req[c].task])
        /\ Present(req[c].row)

CreatesAreFresh ==
    \A c \in Client : req[c].pc = "create" =>
        /\ db[req[c].task] = NoRow
        /\ req[c].row = NewRow
        /\ \A d \in Client : req[d].task = req[c].task => d = c

ThreadsKnowTheirRow ==
    /\ \A t \in Task : InBatch(t) => Present(db[t])
    /\ \A t \in Task, k \in Slot : Live(t, k) => Present(db[t])

AbsentIsNoRow == \A t \in Task : ~Present(db[t]) => db[t] = NoRow

Known ==
    /\ RequestsKnowTheirRow
    /\ CreatesAreFresh
    /\ ThreadsKnowTheirRow
    /\ AbsentIsNoRow

\* What a step may do to a stored row: rows stay, deletions stay, and only a
\* create makes one.
Keeps(t) ==
    /\ Present(db[t]) => Present(db'[t])
    /\ ~Present(db[t]) => db'[t] = db[t]
    /\ db[t].isDeleted => db'[t].isDeleted
    /\ db[t].isDeleting => db'[t].isDeleting

\* A write that leaves the other rows alone keeps all rows if it keeps this one.
LEMMA OneWrite ==
    ASSUME TypeOK, NEW t \in Task, NEW row \in Row,
           Present(db[t]), Present(row),
           db' = [db EXCEPT ![t] = Upsert(@, row)]
    PROVE  \A u \in Task : Keeps(u)
  BY UpsertLatches DEF Keeps, TypeOK, Present

LEMMA NoWrite ==
    ASSUME UNCHANGED db
    PROVE  \A u \in Task : Keeps(u)
  BY DEF Keeps

LEMMA PresentRows ==
    /\ ~Present(NoRow)
    /\ Present(NewRow)
    /\ \A row \in Row : Present(AsDeleted(row))
    /\ \A row \in Row, o \in Outcome \ {"ABSENT"} : Present(WithOutcome(row, o))
    /\ \A row \in Row : Visible(row) => Present(row)
    /\ \A row \in Row : Listed(row) => Visible(row)
    /\ \A row \in Row : StuckDeleting(row) => Visible(row)
  BY DEF Present, NoRow, NewRow, AsDeleted, WithOutcome, Visible, Listed, StuckDeleting, Row

\* Steps of a request, but for the commit of a create, keep every row.
LEMMA RequestsKeep ==
    ASSUME TypeOK, Known, NEW c \in Client,
           NewRequest(c) \/ RequestStep(c), ~CreateCommit(c)
    PROVE  \A u \in Task : Keeps(u)
<1> USE DEF disk, requestVars, spawnerVars, runnerVars, bounds
<1>1. ASSUME req[c].pc \in Changing
      PROVE  /\ req[c].task \in Task
             /\ req[c].row \in Row
             /\ Present(req[c].row)
             /\ Present(db[req[c].task])
  BY <1>1 DEF Known, RequestsKnowTheirRow, Changing, TypeOK, Request
<1>2. ASSUME UNCHANGED db PROVE \A u \in Task : Keeps(u)
  BY <1>2, NoWrite
<1>3. CASE NewRequest(c)
  BY <1>2, <1>3
     DEF NewRequest, CreateCheck, TouchRead, RestoreRead, DeleteRead, CascadeBegin
<1>4. CASE TouchCommit(c)
  BY <1>1, <1>4, OneWrite DEF TouchCommit, Changing
<1>5. CASE RestoreCommit(c)
  BY <1>1, <1>2, <1>5, OneWrite DEF RestoreCommit, Changing
<1>6. CASE DeleteSignal(c)
  BY <1>2, <1>6 DEF DeleteSignal
<1>7. CASE DeleteCommit(c)
  <2>1. req[c].pc \in Changing
    BY <1>7 DEF DeleteCommit, Changing
  <2>2. /\ [req[c].row EXCEPT !.isDeleting = TRUE] \in Row
        /\ Present([req[c].row EXCEPT !.isDeleting = TRUE])
    BY <1>1, <2>1 DEF Present, Row
  <2> QED BY <1>1, <1>7, <2>1, <2>2, OneWrite DEF DeleteCommit
<1>8. CASE DeleteIdle(c)
  <2>1. req[c].pc \in Changing
    BY <1>8 DEF DeleteIdle, Changing
  <2>2. AsDeleted(req[c].row) \in Row /\ Present(AsDeleted(req[c].row))
    BY <1>1, <2>1, RowsAreRows, PresentRows
  <2> QED BY <1>1, <1>8, <2>1, <2>2, OneWrite DEF DeleteIdle
<1>9. ASSUME NEW t \in Task, CleanupCaches(c, t) PROVE \A u \in Task : Keeps(u)
  BY <1>2, <1>9 DEF CleanupCaches
<1>10. CASE CascadeCommit(c)
  <2> SUFFICES ASSUME NEW u \in Task PROVE Keeps(u)
    OBVIOUS
  <2>1. db[u] \in Row
    BY DEF TypeOK
  <2>2. CASE Listed(db[u]) /\ db[u].outcome # "RUNNING"
    <3>1. db'[u] = Upsert(db[u], AsDeleted(db[u]))
      BY <1>10, <2>2 DEF CascadeCommit
    <3>2. AsDeleted(db[u]) \in Row /\ Present(AsDeleted(db[u])) /\ Present(db[u])
      BY <2>1, <2>2, RowsAreRows, PresentRows
    <3> QED BY <2>1, <3>1, <3>2, UpsertLatches DEF Keeps, Present
  <2>3. CASE Listed(db[u]) /\ db[u].outcome = "RUNNING"
    <3>1. db'[u] = [db[u] EXCEPT !.isDeleting = TRUE]
      BY <1>10, <2>3 DEF CascadeCommit
    <3>2. Present(db[u])
      BY <2>1, <2>3, PresentRows
    <3> QED BY <2>1, <3>1, <3>2 DEF Keeps, Present, Row
  <2>4. CASE ~Listed(db[u])
    <3>1. db'[u] = db[u]
      BY <1>10, <2>4 DEF CascadeCommit
    <3> QED BY <3>1 DEF Keeps
  <2> QED BY <2>2, <2>3, <2>4
<1> QED
  BY <1>3, <1>4, <1>5, <1>6, <1>7, <1>8, <1>9, <1>10 DEF RequestStep

\* The commit of a create makes one row, for a task that had none.
LEMMA CreateMakes ==
    ASSUME TypeOK, Known, NEW c \in Client, CreateCommit(c)
    PROVE  /\ req[c].task \in Task
           /\ db[req[c].task] = NoRow
           /\ db' = [db EXCEPT ![req[c].task] = NewRow]
  BY DEF CreateCommit, Known, CreatesAreFresh, TypeOK, Request

\* Steps of the spawner keep every row.
LEMMA SpawnerKeeps ==
    ASSUME TypeOK, Known, SpawnerStep
    PROVE  \A u \in Task : Keeps(u)
<1> USE DEF disk
<1>1. ASSUME NEW next, NEW onError, WriteBatch(next, onError)
      PROVE  \A u \in Task : Keeps(u)
  <2> SUFFICES ASSUME NEW u \in Task PROVE Keeps(u)
    OBVIOUS
  <2>1. CASE db'[u] = db[u]
    BY <2>1 DEF Keeps
  <2>2. CASE InBatch(u) /\ db'[u] = Upsert(db[u], batch[u])
    <3>1. db[u] \in Row /\ batch[u] \in Row /\ Present(db[u]) /\ Present(batch[u])
      BY <2>2 DEF Known, ThreadsKnowTheirRow, TypeOK, InBatch
    <3> QED BY <2>2, <3>1, UpsertLatches DEF Keeps, Present
  <2> QED BY <1>1, <2>1, <2>2 DEF WriteBatch, TypeOK
<1>2. ASSUME UNCHANGED db PROVE \A u \in Task : Keeps(u)
  BY <1>2, NoWrite
<1> QED
  BY <1>1, <1>2
     DEF SpawnerStep, SpawnerLoop, CleanPreviouslyRunning, CleanStopped, PrepareRead,
         PrepareCommit, Register, RegisterDone, JoinRunners

\* Steps of a runner thread keep every row.
LEMMA RunnersKeep ==
    ASSUME TypeOK, Known, NEW t \in Task, NEW k \in Slot,
           RunnerStep(t, k) \/ AgentEnds(t, k)
    PROVE  \A u \in Task : Keeps(u)
<1> USE DEF disk
<1>1. ASSUME UNCHANGED db PROVE \A u \in Task : Keeps(u)
  BY <1>1, NoWrite
<1>2. ASSUME Visible(db[t]), WriteDeleted(t, k) PROVE \A u \in Task : Keeps(u)
  <2>1. db[t] \in Row
    BY DEF TypeOK
  <2>2. AsDeleted(db[t]) \in Row /\ Present(AsDeleted(db[t])) /\ Present(db[t])
    BY <1>2, <2>1, RowsAreRows, PresentRows
  <2>3. db' = [db EXCEPT ![t] = Upsert(@, AsDeleted(db[t]))]
    BY <1>2 DEF WriteDeleted, TypeOK
  <2> QED BY <2>2, <2>3, OneWrite
<1>3. CASE FinalizeDeleted(t, k)
  BY <1>1, <1>2, <1>3 DEF FinalizeDeleted
<1>4. CASE FinalizeRead(t, k)
  BY <1>1, <1>2, <1>4 DEF FinalizeRead
<1>5. CASE FinalizeWrite(t, k)
  <2>1. Present(db[t])
    BY <1>5 DEF FinalizeWrite, Live, Known, ThreadsKnowTheirRow
  <2>2. held[t][k] \in Row
    BY DEF TypeOK
  <2>3. /\ WithOutcome(held[t][k], "QUEUED") \in Row
        /\ Present(WithOutcome(held[t][k], "QUEUED"))
    BY <2>2, RowsAreRows, PresentRows DEF Outcome
  <2> QED BY <1>1, <1>5, <2>1, <2>3, OneWrite DEF FinalizeWrite
<1>6. CASE FinalizeWithCallback(t, k)
  <2>1. CASE UNCHANGED db
    BY <1>1, <2>1
  <2>2. CASE /\ Listed(db[t])
             /\ db' = [db EXCEPT ![t] = WithOutcome(@, EndOutcome(thread[t][k]))]
    BY <2>2 DEF Keeps, TypeOK, Row, WithOutcome, EndOutcome, Present, Listed, Visible
  <2> QED BY <1>2, <1>6, <2>1, <2>2 DEF FinalizeWithCallback
<1> QED
  BY <1>1, <1>3, <1>4, <1>5, <1>6
     DEF RunnerStep, AgentEnds, RegisterEvent, RunPauses, RunSucceeds, RunFails,
         PausedRead, RunnerCleanup

\* What Known asks of the threads follows from rows that stay and threads that
\* take up no new row.
LEMMA ThreadsStayKnown ==
    ASSUME Known, \A u \in Task : Keeps(u),
           \A u \in Task : InBatch(u)' => InBatch(u) \/ Present(db'[u]),
           \A u \in Task, j \in Slot : Live(u, j)' => Live(u, j) \/ Present(db'[u])
    PROVE  ThreadsKnowTheirRow' /\ AbsentIsNoRow'
<1>1. ThreadsKnowTheirRow'
  BY DEF Known, ThreadsKnowTheirRow, Keeps
<1>2. AbsentIsNoRow'
  BY DEF Known, AbsentIsNoRow, Keeps
<1> QED BY <1>1, <1>2

\* Likewise for the requests, when none of them moves.
LEMMA RequestsStayKnown ==
    ASSUME TypeOK, Known, \A u \in Task : Keeps(u), UNCHANGED req
    PROVE  RequestsKnowTheirRow' /\ CreatesAreFresh'
<1>1. \A c \in Client : req[c].pc \in Changing \cup {"create"} => req[c].task \in Task
  BY DEF TypeOK, Request, Changing
<1>2. RequestsKnowTheirRow'
  BY <1>1 DEF Known, RequestsKnowTheirRow, Keeps
<1>3. CreatesAreFresh'
  BY <1>1, PresentRows DEF Known, CreatesAreFresh, Keeps
<1> QED BY <1>2, <1>3

\* What serving a request, or ending it, makes of it.
LEMMA Served ==
    ASSUME TypeOK, NEW c \in Client, NEW pc, NEW t, NEW row, Serve(c, pc, t, row)
    PROVE  /\ \A d \in Client \ {c} : req'[d] = req[d]
           /\ req'[c].pc = pc /\ req'[c].task = t /\ req'[c].row = row
  BY DEF Serve, TypeOK

LEMMA Ended ==
    ASSUME TypeOK, NEW c \in Client, req' = [req EXCEPT ![c] = NoRequest]
    PROVE  /\ \A d \in Client \ {c} : req'[d] = req[d]
           /\ req'[c].pc = "idle" /\ req'[c].task = NoTask
  BY DEF NoRequest, TypeOK

\* A request moves on: what it has to know of its row.
LEMMA RequestMovesOn ==
    ASSUME TypeOK, Known, NEW c \in Client, \A u \in Task : Keeps(u),
           \A d \in Client \ {c} : req'[d] = req[d],
           req'[c].pc # "create",
           req'[c].pc \in Changing =>
               Present(db'[req'[c].task]) /\ Present(req'[c].row),
           \/ req'[c].task \in {req[c].task, NoTask}
           \/ req'[c].task \in Task /\ Present(db[req'[c].task])
    PROVE  RequestsKnowTheirRow' /\ CreatesAreFresh'
<1>1. \A d \in Client : req[d].pc \in Changing \cup {"create"} => req[d].task \in Task
  BY DEF TypeOK, Request, Changing
<1>2. RequestsKnowTheirRow'
  BY <1>1 DEF Known, RequestsKnowTheirRow, Keeps
<1>3. CreatesAreFresh'
  BY <1>1, PresentRows, ConstantsAssumption DEF Known, CreatesAreFresh, Keeps
<1> QED BY <1>2, <1>3

\* Requests go on knowing their rows.
LEMMA KnownRequest ==
    ASSUME TypeOK, Known, NEW c \in Client,
           NewRequest(c) \/ RequestStep(c)
    PROVE  Known'
<1> USE DEF disk, requestVars, spawnerVars, runnerVars, bounds
<1> DEFINE Fine == RequestsKnowTheirRow' /\ CreatesAreFresh'
<1>1. UNCHANGED <<spawnerVars, thread>>
  BY RequestsLeaveRunners
<1>2. ASSUME Fine, \A u \in Task : Keeps(u) PROVE Known'
  <2>1. ThreadsKnowTheirRow' /\ AbsentIsNoRow'
    BY <1>1, <1>2, ThreadsStayKnown DEF InBatch, Live
  <2> QED BY <1>2, <2>1 DEF Known
<1>3. ASSUME req' = [req EXCEPT ![c] = NoRequest], \A u \in Task : Keeps(u)
      PROVE  Fine
  BY <1>3, Ended, RequestMovesOn DEF Changing
<1>4. CASE CreateCommit(c)
  <2>1. /\ req[c].task \in Task
        /\ db[req[c].task] = NoRow
        /\ db' = [db EXCEPT ![req[c].task] = NewRow]
    BY <1>4, CreateMakes
  <2>2. req' = [req EXCEPT ![c] = NoRequest]
    BY <1>4 DEF CreateCommit, Done
  <2>3. \A u \in Task : /\ Present(db[u]) => Present(db'[u])
                        /\ u # req[c].task => db'[u] = db[u]
                        /\ ~Present(db'[u]) => db'[u] = db[u]
    BY <2>1, PresentRows DEF TypeOK
  <2>4. \A d \in Client : req[d].pc \in Changing \cup {"create"} => req[d].task \in Task
    BY DEF TypeOK, Request, Changing
  <2>5. \A d \in Client : req'[d] = IF d = c THEN NoRequest ELSE req[d]
    BY <2>2 DEF TypeOK
  <2>6. req[c].pc = "create"
    BY <1>4 DEF CreateCommit
  <2>7. RequestsKnowTheirRow'
    BY <2>3, <2>4, <2>5 DEF Known, RequestsKnowTheirRow, NoRequest, Changing
  <2>8. CreatesAreFresh'
    BY <2>3, <2>4, <2>5, <2>6, ConstantsAssumption DEF Known, CreatesAreFresh, NoRequest
  <2>9. ThreadsKnowTheirRow'
    BY <1>1, <2>3 DEF Known, ThreadsKnowTheirRow, InBatch, Live
  <2>10. AbsentIsNoRow'
    BY <2>3 DEF Known, AbsentIsNoRow
  <2> QED BY <2>7, <2>8, <2>9, <2>10 DEF Known
<1>5. CASE ~CreateCommit(c)
  <2>1. \A u \in Task : Keeps(u)
    BY <1>5, RequestsKeep
  <2>2. \A t \in Task : db[t] \in Row
    BY DEF TypeOK
  <2>3. ASSUME NEW t \in Task, CreateCheck(c, t) PROVE Fine
    <3>1. /\ \A d \in Client \ {c} : req'[d] = req[d]
          /\ req'[c].pc = "create" /\ req'[c].task = t
          /\ req'[c].row = NewRow
      BY <2>3, Served DEF CreateCheck
    <3>2. db[t] = NoRow /\ db' = db /\ \A d \in Client : req[d].task # t
      BY <2>3 DEF CreateCheck, Known, AbsentIsNoRow
    <3>3. RequestsKnowTheirRow'
      BY <3>1, <3>2 DEF Known, RequestsKnowTheirRow, Changing
    <3>4. CreatesAreFresh'
      BY <3>1, <3>2 DEF Known, CreatesAreFresh
    <3> QED BY <3>3, <3>4
  <2>4. ASSUME NEW t \in Task, TouchRead(c, t) PROVE Fine
    <3>1. /\ \A d \in Client \ {c} : req'[d] = req[d]
          /\ req'[c].pc = "touch" /\ req'[c].task = t
          /\ req'[c].row = db[t]
      BY <2>4, Served DEF TouchRead
    <3>2. Present(db[t]) /\ db' = db
      BY <2>2, <2>4, PresentRows DEF TouchRead
    <3> QED BY <2>1, <3>1, <3>2, RequestMovesOn DEF Changing
  <2>5. ASSUME NEW t \in Task, RestoreRead(c, t) PROVE Fine
    <3>1. /\ \A d \in Client \ {c} : req'[d] = req[d]
          /\ req'[c].pc = "restore" /\ req'[c].task = t
          /\ req'[c].row = WithOutcome(db[t], "QUEUED")
      BY <2>5, Served DEF RestoreRead
    <3>2. Present(db[t]) /\ db' = db /\ Present(WithOutcome(db[t], "QUEUED"))
      BY <2>2, <2>5, PresentRows DEF RestoreRead, Outcome
    <3> QED BY <2>1, <3>1, <3>2, RequestMovesOn DEF Changing
  <2>6. ASSUME NEW t \in Task, DeleteRead(c, t) PROVE Fine
    <3>1. /\ \A d \in Client \ {c} : req'[d] = req[d]
          /\ req'[c].pc = "delete" /\ req'[c].task = t
          /\ req'[c].row = db[t]
      BY <2>6, Served DEF DeleteRead
    <3>2. Present(db[t]) /\ db' = db
      BY <2>2, <2>6, PresentRows DEF DeleteRead
    <3> QED BY <2>1, <3>1, <3>2, RequestMovesOn DEF Changing
  <2>7. ASSUME CascadeBegin(c) PROVE Fine
    <3>1. /\ \A d \in Client \ {c} : req'[d] = req[d]
          /\ req'[c].pc = "cascade" /\ req'[c].task = NoTask
          /\ req'[c].row = NoRow
      BY <2>7, Served DEF CascadeBegin
    <3> QED BY <2>1, <3>1, RequestMovesOn DEF Changing
  <2>8. ASSUME TouchCommit(c) PROVE Fine
    BY <1>3, <2>1, <2>8 DEF TouchCommit, Done
  <2>9. ASSUME RestoreCommit(c) PROVE Fine
    BY <1>3, <2>1, <2>9 DEF RestoreCommit, Done
  <2>10. ASSUME DeleteSignal(c) PROVE Fine
    <3>1. /\ \A d \in Client \ {c} : req'[d] = req[d]
          /\ req'[c].pc = "signalled" /\ req'[c].task = req[c].task
          /\ req'[c].row = req[c].row
      BY <2>10, Served DEF DeleteSignal
    <3>2. Present(db[req[c].task]) /\ db' = db /\ Present(req[c].row)
      BY <2>10 DEF DeleteSignal, Known, RequestsKnowTheirRow, Changing
    <3> QED BY <2>1, <3>1, <3>2, RequestMovesOn DEF Changing
  <2>11. ASSUME DeleteCommit(c) PROVE Fine
    BY <1>3, <2>1, <2>11 DEF DeleteCommit, Done
  <2>12. ASSUME DeleteIdle(c) PROVE Fine
    <3>1. /\ \A d \in Client \ {c} : req'[d] = req[d]
          /\ req'[c].pc = "callbacks" /\ req'[c].task = req[c].task
          /\ req'[c].row = NoRow
      BY <2>12, Served DEF DeleteIdle
    <3> QED BY <2>1, <3>1, RequestMovesOn DEF Changing
  <2>13. ASSUME NEW t \in Task, CleanupCaches(c, t) PROVE Fine
    <3>1. CASE UNCHANGED req
      BY <2>1, <3>1, RequestsStayKnown
    <3>2. CASE req' = [req EXCEPT ![c] = NoRequest]
      BY <1>3, <2>1, <3>2
    <3> QED BY <2>13, <3>1, <3>2 DEF CleanupCaches
  <2>14. ASSUME CascadeCommit(c) PROVE Fine
    <3>1. CASE Serve(c, "callbacks", NoTask, NoRow)
      <4>1. /\ \A d \in Client \ {c} : req'[d] = req[d]
            /\ req'[c].pc = "callbacks" /\ req'[c].task = NoTask
        BY <3>1, Served
      <4> QED BY <2>1, <4>1, RequestMovesOn DEF Changing
    <3>2. CASE Done(c)
      BY <1>3, <2>1, <3>2 DEF Done
    <3> QED BY <2>14, <3>1, <3>2 DEF CascadeCommit
  <2>15. Fine
    BY <1>5, <2>3, <2>4, <2>5, <2>6, <2>7, <2>8, <2>9, <2>10, <2>11, <2>12, <2>13, <2>14
       DEF NewRequest, RequestStep
  <2> QED BY <1>2, <2>1, <2>15
<1> QED BY <1>4, <1>5

\* The spawner takes up listed rows only.
LEMMA KnownSpawner ==
    ASSUME TypeOK, Known, SpawnerStep
    PROVE  Known'
<1> USE DEF disk, requestVars
<1>1. \A u \in Task : Keeps(u)
  BY SpawnerKeeps
<1>2. UNCHANGED req
  BY DEF SpawnerStep, SpawnerLoop, CleanPreviouslyRunning, CleanStopped, PrepareRead,
         PrepareCommit, Register, RegisterDone, JoinRunners
<1>3. RequestsKnowTheirRow' /\ CreatesAreFresh'
  BY <1>1, <1>2, RequestsStayKnown
<1>4. \A t \in Task : db[t] \in Row
  BY DEF TypeOK
<1>5. ASSUME UNCHANGED runnerVars,
             \A u \in Task : InBatch(u)' => InBatch(u) \/ (Present(db[u]) /\ db' = db)
      PROVE  Known'
  <2>1. ThreadsKnowTheirRow' /\ AbsentIsNoRow'
    BY <1>1, <1>5, ThreadsStayKnown DEF Live, runnerVars
  <2> QED BY <1>3, <2>1 DEF Known
<1>6. ASSUME UNCHANGED batch PROVE \A u \in Task : InBatch(u)' => InBatch(u)
  BY <1>6 DEF InBatch
<1>7. ASSUME batch' = EmptyBatch PROVE \A u \in Task : ~InBatch(u)'
  BY <1>7, PresentRows DEF InBatch, EmptyBatch
<1>8. ASSUME NEW next, NEW onError, WriteBatch(next, onError)
      PROVE  \A u \in Task : InBatch(u)' => InBatch(u)
  BY <1>6, <1>7, <1>8 DEF WriteBatch
<1>10. CASE SpawnerLoop
  <2>1. CASE UNCHANGED batch
    BY <1>5, <1>6, <1>10, <2>1 DEF SpawnerLoop
  <2>2. CASE batch' = [t \in Task |->
                          IF Listed(db[t]) /\ db[t].outcome = "RUNNING"
                          THEN WithOutcome(db[t], "QUEUED") ELSE NoRow]
    <3>1. \A u \in Task : InBatch(u)' => Present(db[u])
      BY <1>4, <2>2, PresentRows DEF InBatch
    <3> QED BY <1>5, <1>10, <3>1 DEF SpawnerLoop
  <2> QED BY <1>10, <2>1, <2>2 DEF SpawnerLoop
<1>11. CASE CleanPreviouslyRunning
  BY <1>5, <1>8, <1>11 DEF CleanPreviouslyRunning
<1>12. CASE CleanStopped
  <2>1. \A u \in Task, j \in Slot : Live(u, j)' => Live(u, j)
    BY <1>12 DEF CleanStopped, Live, TypeOK
  <2>2. \A u \in Task : ~InBatch(u)'
    BY <1>7, <1>12 DEF CleanStopped
  <2>3. ThreadsKnowTheirRow' /\ AbsentIsNoRow'
    BY <1>1, <2>1, <2>2, ThreadsStayKnown
  <2> QED BY <1>3, <2>3 DEF Known
<1>13. CASE PrepareRead
  <2>1. \A u \in Task : InBatch(u)' => Present(db[u])
    BY <1>4, <1>13, PresentRows DEF PrepareRead, InBatch
  <2> QED BY <1>5, <1>13, <2>1 DEF PrepareRead
<1>14. CASE PrepareCommit
  BY <1>5, <1>8, <1>14 DEF PrepareCommit
<1>15. ASSUME NEW t \in Task, Register(t) PROVE Known'
  <2>1. \A u \in Task : InBatch(u)' => InBatch(u)
    BY <1>15, PresentRows DEF Register, InBatch, TypeOK
  <2>2. Present(db[t]) /\ db' = db
    BY <1>15 DEF Register, Known, ThreadsKnowTheirRow
  <2>3. \A u \in Task, j \in Slot : Live(u, j)' => Live(u, j) \/ u = t
    BY <1>15 DEF Register, Live, TypeOK, runnerVars
  <2>4. ThreadsKnowTheirRow' /\ AbsentIsNoRow'
    BY <1>1, <2>1, <2>2, <2>3, ThreadsStayKnown
  <2> QED BY <1>3, <2>4 DEF Known
<1>16. CASE RegisterDone
  BY <1>5, <1>6, <1>16 DEF RegisterDone
<1>17. CASE JoinRunners
  BY <1>5, <1>6, <1>17 DEF JoinRunners
<1> QED
  BY <1>10, <1>11, <1>12, <1>13, <1>14, <1>15, <1>16, <1>17 DEF SpawnerStep

\* A runner takes up no row but its own.
LEMMA KnownRunner ==
    ASSUME TypeOK, Known, NEW t \in Task, NEW k \in Slot,
           RunnerStep(t, k) \/ AgentEnds(t, k)
    PROVE  Known'
<1>1. /\ \A u \in Task, j \in Slot : Live(u, j)' => Live(u, j)
      /\ UNCHANGED spawnerVars
  BY RunnersOnlyAge
<1>2. \A u \in Task : Keeps(u)
  BY RunnersKeep
<1>3. UNCHANGED req
  BY DEF RunnerStep, AgentEnds, RegisterEvent, RunPauses, RunSucceeds, RunFails,
         PausedRead, FinalizeDeleted, FinalizeRead, FinalizeWrite, FinalizeWithCallback,
         RunnerCleanup, requestVars
<1>4. RequestsKnowTheirRow' /\ CreatesAreFresh'
  BY <1>2, <1>3, RequestsStayKnown
<1>5. ThreadsKnowTheirRow' /\ AbsentIsNoRow'
  BY <1>1, <1>2, ThreadsStayKnown DEF InBatch, spawnerVars
<1> QED BY <1>4, <1>5 DEF Known

\* The first state: no request, no thread, rows absent or new.
LEMMA KnownInit == Init => Known
  BY PresentRows
     DEF Init, FreshProcess, Known, RequestsKnowTheirRow, CreatesAreFresh,
         ThreadsKnowTheirRow, AbsentIsNoRow, NoRequest, Changing, InBatch, EmptyBatch, Live

\* Steps of the process keep every row, and what the threads know of them.
LEMMA KnownProcess ==
    ASSUME TypeOK, Known, BootStep \/ Shutdown \/ Exit \/ Crash \/ Start
    PROVE  Known' /\ \A u \in Task : Keeps(u)
<1> USE DEF disk, requestVars, spawnerVars, runnerVars, bounds
<1>1. ASSUME NEW t \in Task, BootFinalize(t)
      PROVE  Known' /\ \A u \in Task : Keeps(u)
  <2>1. db[t] \in Row
    BY DEF TypeOK
  <2>2. AsDeleted(db[t]) \in Row /\ Present(AsDeleted(db[t])) /\ Present(db[t])
    BY <1>1, <2>1, RowsAreRows, PresentRows DEF BootFinalize
  <2>3. db' = [db EXCEPT ![t] = Upsert(@, AsDeleted(db[t]))]
    BY <1>1 DEF BootFinalize, TypeOK
  <2>4. \A u \in Task : Keeps(u)
    BY <2>2, <2>3, OneWrite
  <2>5. RequestsKnowTheirRow' /\ CreatesAreFresh'
    BY <1>1, <2>4, RequestsStayKnown DEF BootFinalize
  <2>6. ThreadsKnowTheirRow' /\ AbsentIsNoRow'
    BY <1>1, <2>4, ThreadsStayKnown DEF BootFinalize, InBatch, Live
  <2> QED BY <2>4, <2>5, <2>6 DEF Known
<1>2. ASSUME LoseMemory, UNCHANGED disk
      PROVE  Known' /\ \A u \in Task : Keeps(u)
  <2>1. \A u \in Task : Keeps(u)
    BY <1>2, NoWrite
  <2>2. RequestsKnowTheirRow' /\ CreatesAreFresh'
    BY <1>2 DEF LoseMemory, NoRequest, Changing, RequestsKnowTheirRow, CreatesAreFresh
  <2>3. ThreadsKnowTheirRow'
    BY <1>2, PresentRows
       DEF LoseMemory, ThreadsKnowTheirRow, InBatch, EmptyBatch, Live
  <2>4. AbsentIsNoRow'
    BY <1>2 DEF Known, AbsentIsNoRow
  <2> QED BY <2>1, <2>2, <2>3, <2>4 DEF Known
<1>3. ASSUME UNCHANGED <<db, req, batch, thread>>
      PROVE  Known' /\ \A u \in Task : Keeps(u)
  <2>1. \A u \in Task : Keeps(u)
    BY <1>3, NoWrite
  <2>2. RequestsKnowTheirRow' /\ CreatesAreFresh'
    BY <1>3, <2>1, RequestsStayKnown
  <2>3. ThreadsKnowTheirRow' /\ AbsentIsNoRow'
    BY <1>3, <2>1, ThreadsStayKnown DEF InBatch, Live
  <2> QED BY <2>1, <2>2, <2>3 DEF Known
<1>4. CASE BootDone
  BY <1>3, <1>4 DEF BootDone
<1>5. CASE Shutdown
  BY <1>3, <1>5 DEF Shutdown
<1>6. CASE Start
  BY <1>3, <1>6 DEF Start
<1> QED BY <1>1, <1>2, <1>4, <1>5, <1>6 DEF BootStep, Exit, Crash

\* Every step keeps what the writers know.
LEMMA KnownNext == TypeOK /\ Known /\ [Next]_vars => Known'
<1> SUFFICES ASSUME TypeOK, Known, [Next]_vars PROVE Known'
  OBVIOUS
<1>1. CASE UNCHANGED vars
  <2>1. \A u \in Task : Keeps(u)
    BY <1>1, NoWrite DEF vars, disk
  <2>2. RequestsKnowTheirRow' /\ CreatesAreFresh'
    BY <1>1, <2>1, RequestsStayKnown DEF vars, requestVars
  <2>3. ThreadsKnowTheirRow' /\ AbsentIsNoRow'
    BY <1>1, <2>1, ThreadsStayKnown DEF vars, spawnerVars, runnerVars, InBatch, Live
  <2> QED BY <2>2, <2>3 DEF Known
<1> QED BY <1>1, KnownProcess, KnownRequest, KnownSpawner, KnownRunner DEF Next

LEMMA KnownInvariant == Spec => []Known
  BY KnownInit, KnownNext, TypeCorrect, PTL DEF Spec

\* A committed deletion stays, whoever writes the row afterwards and however
\* old the row is that they write.
THEOREM DeletionStays == Spec => DeletionIsForever
<1> DEFINE Stays == \A t \in Task : /\ db[t].isDeleted => db'[t].isDeleted
                                    /\ db[t].isDeleting => db'[t].isDeleting
<1>1. ASSUME TypeOK, Known, Next PROVE Stays
  <2>1. ASSUME \A u \in Task : Keeps(u) PROVE Stays
    BY <2>1 DEF Keeps
  <2>2. ASSUME NEW c \in Client, CreateCommit(c) PROVE Stays
    <3>1. /\ req[c].task \in Task
          /\ db[req[c].task] = NoRow
          /\ db' = [db EXCEPT ![req[c].task] = NewRow]
      BY <1>1, <2>2, CreateMakes
    <3> QED BY <1>1, <3>1 DEF NoRow, NewRow, TypeOK
  <2> QED
    BY <1>1, <2>1, <2>2, KnownProcess, RequestsKeep, SpawnerKeeps, RunnersKeep DEF Next
<1>2. TypeOK /\ Known /\ [Next]_vars => [Stays]_vars
  BY <1>1
<1> QED BY <1>2, TypeCorrect, KnownInvariant, PTL DEF Spec, DeletionIsForever

-----------------------------------------------------------------------------
(* The refinement of TaskLifecycle *)

Grows(t) == Keeps(t) \/ (db[t] = NoRow /\ db'[t] = NewRow)

\* The spawner's batch takes up only rows that it finds listed.
BatchesListed(t) ==
    InBatch(t)' => InBatch(t) \/ (Listed(db[t]) /\ db'[t] = db[t])

\* A step in which no runner begins, rows only grow and the batch takes up
\* listed rows is, of the stages, an advance.
LEMMA StagesAdvance ==
    ASSUME TypeOK, Known, TypeOK', Known',
           \A u \in Task : Grows(u),
           \A u \in Task : BatchesListed(u),
           \A u \in Task, j \in Slot : Live(u, j)' => Live(u, j)
    PROVE  Lifecycle!Advance
<1>1. \A u \in Task : HasRunner(u)' => HasRunner(u)
  BY DEF HasRunner
<1>2. \A u \in Task : HasRunner(u)' => Present(db'[u])
  BY DEF HasRunner, Known, ThreadsKnowTheirRow
<1>3. \A u \in Task : db[u] \in Row /\ db'[u] \in Row
  BY DEF TypeOK
<1>4. \A u \in Task : StageOf(u) \in Lifecycle!Stage /\ StageOf(u)' \in Lifecycle!Stage
  BY DEF StageOf, Lifecycle!Stage
<1>5. ASSUME NEW u \in Task
      PROVE  StageOf(u)' = StageOf(u) \/ <<StageOf(u), StageOf(u)'>> \in Lifecycle!Later
  <2>1. CASE db[u] = NoRow /\ db'[u] = NewRow
    <3>1. StageOf(u) = "absent" /\ StageOf(u)' = "live"
      BY <2>1, PresentRows DEF StageOf, NewRow
    <3> QED BY <3>1 DEF Lifecycle!Later
  <2>2. CASE Keeps(u) /\ ~Present(db[u])
    BY <2>2 DEF Keeps, StageOf
  <2>3. CASE Keeps(u) /\ Present(db[u]) /\ ~db[u].isDeleting /\ ~db[u].isDeleted
    <3>1. StageOf(u) = "live" /\ StageOf(u)' \in {"live", "doomed", "over"}
      BY <2>3 DEF Keeps, StageOf
    <3> QED BY <3>1 DEF Lifecycle!Later
  <2>4. CASE Keeps(u) /\ Present(db[u]) /\ (db[u].isDeleting \/ db[u].isDeleted)
    <3>1. Present(db'[u]) /\ (db'[u].isDeleting \/ db'[u].isDeleted)
      BY <2>4 DEF Keeps
    <3>2. ~Listed(db[u])
      BY <2>4 DEF Listed, Visible
    <3>3. InBatch(u)' \/ HasRunner(u)' => InBatch(u) \/ HasRunner(u)
      BY <1>1, <3>2 DEF BatchesListed
    <3>4. /\ StageOf(u) = IF InBatch(u) \/ HasRunner(u) THEN "doomed" ELSE "over"
          /\ StageOf(u)' = IF InBatch(u)' \/ HasRunner(u)' THEN "doomed" ELSE "over"
      BY <2>4, <3>1 DEF StageOf
    <3> QED BY <3>3, <3>4 DEF Lifecycle!Later
  <2>5. Grows(u)
    OBVIOUS
  <2> QED BY <2>1, <2>2, <2>3, <2>4, <2>5 DEF Grows
<1>6. ASSUME NEW u \in Task, StageOf(u)' \in {"absent", "over"} PROVE ~HasRunner(u)'
  BY <1>2, <1>6 DEF StageOf
<1> QED BY <1>1, <1>4, <1>5, <1>6 DEF Lifecycle!Advance

\* A new registration is the beginning of a runner.
LEMMA RegisterBegins ==
    ASSUME TypeOK, Known, RunnersAreRegistered,
           NEW t \in Task, Register(t), ~Registered(t)
    PROVE  Lifecycle!Begin(t)
<1>1. PICK k \in Slot : thread' = [thread EXCEPT ![t][k] = "starting"]
  BY DEF Register
<1>2. db' = db /\ batch' = [batch EXCEPT ![t] = NoRow] /\ InBatch(t)
  BY DEF Register, disk
<1>3. ~HasRunner(t)
  BY ConstantsAssumption DEF Registered, RunnersAreRegistered, HasRunner
<1>4. HasRunner(t)'
  BY <1>1 DEF HasRunner, Live, TypeOK
<1>5. \A u \in Task \ {t} : HasRunner(u)' = HasRunner(u) /\ InBatch(u)' = InBatch(u)
  BY <1>1, <1>2 DEF HasRunner, Live, InBatch, TypeOK
<1>6. Present(db[t])
  BY <1>2 DEF Known, ThreadsKnowTheirRow
<1>7. StageOf(t) \in {"live", "doomed"} /\ StageOf(t)' = StageOf(t)
  BY <1>2, <1>4, <1>6 DEF StageOf
<1>8. \A u \in Task \ {t} : StageOf(u)' = StageOf(u)
  BY <1>2, <1>5 DEF StageOf
<1> QED BY <1>3, <1>4, <1>5, <1>7, <1>8 DEF Lifecycle!Begin

\* Every step of the service is a step of TaskLifecycle or changes nothing there.
LEMMA StepRefines ==
    ASSUME TypeOK, Known, RunnersAreRegistered, TypeOK', Known', [Next]_vars
    PROVE  [Lifecycle!Next]_(Lifecycle!vars)
<1>1. ASSUME \A u \in Task : Grows(u), \A u \in Task : BatchesListed(u),
             \A u \in Task, j \in Slot : Live(u, j)' => Live(u, j)
      PROVE  Lifecycle!Next
  BY <1>1, StagesAdvance DEF Lifecycle!Next
<1>2. ASSUME UNCHANGED batch PROVE \A u \in Task : BatchesListed(u)
  BY <1>2 DEF BatchesListed, InBatch
<1>3. ASSUME batch' = EmptyBatch PROVE \A u \in Task : BatchesListed(u)
  BY <1>3, PresentRows DEF BatchesListed, InBatch, EmptyBatch
<1>4. ASSUME \A u \in Task : Keeps(u) PROVE \A u \in Task : Grows(u)
  BY <1>4 DEF Grows
<1>5. ASSUME BootStep \/ Shutdown \/ Exit \/ Crash \/ Start PROVE Lifecycle!Next
  <2>1. \A u \in Task : Grows(u)
    BY <1>4, <1>5, KnownProcess
  <2>2. \A u \in Task : BatchesListed(u)
    BY <1>2, <1>3, <1>5
       DEF BootStep, BootFinalize, BootDone, Shutdown, Exit, Crash, Start, LoseMemory,
           spawnerVars
  <2>3. \A u \in Task, j \in Slot : Live(u, j)' => Live(u, j)
    <3>1. CASE UNCHANGED thread
      BY <3>1 DEF Live
    <3>2. CASE LoseMemory
      BY <3>2, NoThreadsInFreshMemory DEF LoseMemory
    <3> QED BY <1>5, <3>1, <3>2
            DEF BootStep, BootFinalize, BootDone, Shutdown, Exit, Crash, Start, runnerVars
  <2> QED BY <1>1, <2>1, <2>2, <2>3
<1>6. ASSUME NEW c \in Client, NewRequest(c) \/ RequestStep(c) PROVE Lifecycle!Next
  <2>1. \A u \in Task : Grows(u)
    <3>1. CASE CreateCommit(c)
      BY <3>1, CreateMakes DEF Grows, Keeps, TypeOK
    <3>2. CASE ~CreateCommit(c)
      BY <1>4, <1>6, <3>2, RequestsKeep
    <3> QED BY <3>1, <3>2
  <2>2. UNCHANGED <<spawnerVars, thread>>
    BY <1>6, RequestsLeaveRunners
  <2>3. \A u \in Task : BatchesListed(u)
    BY <1>2, <2>2 DEF spawnerVars
  <2>4. \A u \in Task, j \in Slot : Live(u, j)' => Live(u, j)
    BY <2>2 DEF Live
  <2> QED BY <1>1, <2>1, <2>3, <2>4
<1>7. ASSUME NEW t \in Task, Register(t) PROVE Lifecycle!Next
  <2>1. CASE Registered(t)
    <3>1. \A u \in Task : Grows(u)
      BY <1>4, <1>7, NoWrite DEF Register, disk
    <3>2. \A u \in Task : BatchesListed(u)
      BY <1>7, PresentRows DEF Register, BatchesListed, InBatch, TypeOK
    <3>3. \A u \in Task, j \in Slot : Live(u, j)' => Live(u, j)
      BY <1>7, <2>1 DEF Register, runnerVars, Live
    <3> QED BY <1>1, <3>1, <3>2, <3>3
  <2>2. CASE ~Registered(t)
    BY <1>7, <2>2, RegisterBegins DEF Lifecycle!Next
  <2> QED BY <2>1, <2>2
<1>8. ASSUME SpawnerStep, \A t \in Task : ~Register(t) PROVE Lifecycle!Next
  <2>1. \A u \in Task : Grows(u)
    BY <1>4, <1>8, SpawnerKeeps
  <2>2. \A u \in Task : BatchesListed(u)
    <3>1. ASSUME db' = db,
                 \A u \in Task : batch'[u] = NoRow \/ Listed(db[u])
          PROVE  \A u \in Task : BatchesListed(u)
      BY <3>1, PresentRows DEF BatchesListed, InBatch
    <3>2. CASE SpawnerLoop
      <4>1. CASE UNCHANGED batch
        BY <1>2, <4>1
      <4>2. CASE batch' = [t \in Task |->
                              IF Listed(db[t]) /\ db[t].outcome = "RUNNING"
                              THEN WithOutcome(db[t], "QUEUED") ELSE NoRow]
        BY <3>1, <3>2, <4>2 DEF SpawnerLoop, disk
      <4> QED BY <3>2, <4>1, <4>2 DEF SpawnerLoop
    <3>3. CASE PrepareRead
      BY <3>1, <3>3 DEF PrepareRead, disk
    <3>4. CASE UNCHANGED batch
      BY <1>2, <3>4
    <3>5. CASE batch' = EmptyBatch
      BY <1>3, <3>5
    <3> QED
      BY <1>8, <3>2, <3>3, <3>4, <3>5
         DEF SpawnerStep, CleanPreviouslyRunning, CleanStopped, PrepareCommit, WriteBatch,
             RegisterDone, JoinRunners
  <2>3. \A u \in Task, j \in Slot : Live(u, j)' => Live(u, j)
    <3>1. CASE CleanStopped
      BY <3>1 DEF CleanStopped, Live, TypeOK
    <3>2. CASE UNCHANGED thread
      BY <3>2 DEF Live
    <3> QED
      BY <1>8, <3>1, <3>2
         DEF SpawnerStep, SpawnerLoop, CleanPreviouslyRunning, PrepareRead, PrepareCommit,
             RegisterDone, JoinRunners, runnerVars
  <2> QED BY <1>1, <2>1, <2>2, <2>3
<1>9. ASSUME NEW t \in Task, NEW k \in Slot, RunnerStep(t, k) \/ AgentEnds(t, k)
      PROVE  Lifecycle!Next
  <2>1. \A u \in Task : Grows(u)
    BY <1>4, <1>9, RunnersKeep
  <2>2. /\ \A u \in Task, j \in Slot : Live(u, j)' => Live(u, j)
        /\ UNCHANGED spawnerVars
    BY <1>9, RunnersOnlyAge
  <2> QED BY <1>1, <1>2, <2>1, <2>2 DEF spawnerVars
<1>10. CASE UNCHANGED vars
  <2>1. UNCHANGED <<db, batch, thread>>
    BY <1>10 DEF vars, disk, spawnerVars, runnerVars
  <2>2. \A u \in Task : HasRunner(u)' = HasRunner(u) /\ StageOf(u)' = StageOf(u)
    BY <2>1 DEF HasRunner, StageOf, InBatch, Live
  <2> QED BY <2>2 DEF Lifecycle!vars
<1> QED BY <1>5, <1>6, <1>7, <1>8, <1>9, <1>10 DEF Next, SpawnerStep

\* The first state of the service is a first state of TaskLifecycle.
LEMMA InitRefines == Init => Lifecycle!Init
<1> SUFFICES ASSUME Init PROVE Lifecycle!Init
  OBVIOUS
<1>1. \A t \in Task : ~HasRunner(t)
  BY DEF Init, FreshProcess, HasRunner, Live
<1>2. \A t \in Task : StageOf(t) \in {"absent", "live"}
  BY PresentRows DEF Init, StageOf, NewRow
<1> QED BY <1>1, <1>2 DEF Lifecycle!Init

\* The service implements TaskLifecycle: a task whose deletion is committed and
\* that no thread holds is never run or listed again, in this process or after
\* a restart.
THEOREM Refinement == Spec => ImplementsLifecycle
<1>1. /\ TypeOK /\ Known /\ RunnersAreRegistered /\ TypeOK' /\ Known' /\ [Next]_vars
      => [Lifecycle!Next]_(Lifecycle!vars)
  BY StepRefines
<1>2. RunnersAreRegistered /\ ExitedAlone => RunnersAreRegistered
  OBVIOUS
<1> QED
  BY <1>1, <1>2, InitRefines, TypeCorrect, KnownInvariant, RegistrationInvariant, PTL
     DEF Spec, ImplementsLifecycle, Lifecycle!Spec

\* What the promise says of the code: a task whose deletion is committed and that
\* no thread holds is over for good.  No stale batch of the spawner, no request and
\* no later process runs it again or makes it live.
THEOREM OverIsForGood ==
    Spec => [][\A t \in Task : StageOf(t) = "over" => StageOf(t)' = "over" /\ ~HasRunner(t)']_vars
<1> DEFINE Stays == \A t \in Task : StageOf(t) = "over" => StageOf(t)' = "over" /\ ~HasRunner(t)'
<1>1. ASSUME [Lifecycle!Next]_(Lifecycle!vars), NEW t \in Task, StageOf(t) = "over"
      PROVE  StageOf(t)' = "over" /\ ~HasRunner(t)'
  <2>1. StageOf(t)' = "over"
    <3>1. CASE Lifecycle!Advance
      BY <1>1, <3>1 DEF Lifecycle!Advance, Lifecycle!Later
    <3>2. CASE (\E u \in Task : Lifecycle!Begin(u)) \/ UNCHANGED Lifecycle!vars
      <4>1. [u \in Task |-> StageOf(u)'] = [u \in Task |-> StageOf(u)]
        BY <3>2 DEF Lifecycle!Begin, Lifecycle!vars
      <4>2. [u \in Task |-> StageOf(u)'][t] = [u \in Task |-> StageOf(u)][t]
        BY <4>1
      <4> QED BY <1>1, <4>2
    <3> QED BY <1>1, <3>1, <3>2 DEF Lifecycle!Next
  <2> QED BY <2>1 DEF StageOf
<1>2. TypeOK /\ Known /\ RunnersAreRegistered /\ TypeOK' /\ Known' /\ [Next]_vars => [Stays]_vars
  BY <1>1, StepRefines
<1>3. RunnersAreRegistered /\ ExitedAlone => RunnersAreRegistered
  OBVIOUS
<1> QED
  BY <1>2, <1>3, TypeCorrect, KnownInvariant, RegistrationInvariant, PTL DEF Spec

=============================================================================
