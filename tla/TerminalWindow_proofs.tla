----------------------- MODULE TerminalWindow_proofs -----------------------
(***************************************************************************)
(* What a terminal panel and its backend keep true for every number of     *)
(* shells and sockets, every length of output and every size of the        *)
(* buffer: their types, that a shell which runs can be reached, that no    *)
(* answer goes to a program for a query in a replay, and that a connection *)
(* carries the output whole and in turn.                                   *)
(***************************************************************************)
EXTENDS TerminalWindow, TLAPS, SequenceTheorems, FiniteSetTheorems

-----------------------------------------------------------------------------
(* The inductive invariant *)

\* Only one terminal is made at a time, and only when none is registered.
LoopInv ==
  /\ loop.at \in {"spawning", "started"} => registry = Nobody /\ loop.manager \in Managers
  /\ loop.at = "spawning" => manager[loop.manager].shell # "up"
  /\ loop.at \in {"idle", "joining"} => loop.manager = Nobody

\* Closer and remover run at most once, and hold a manager only while they do.
ThreadInv ==
  /\ \A t \in Threads : IF thread[t].at \in {"stopping", "joining"}
                          THEN thread[t].manager \in Managers ELSE thread[t].manager = Nobody
  /\ configured => ~torn
  /\ ~torn => thread["remover"].at = "idle"
  /\ panel # "closed" => thread["closer"].at = "idle"

\* A reader leaves a shell that runs only when it is stopped.
ReaderInv == \A m \in Managers :
  manager[m].reader = "left" /\ ~manager[m].stop => manager[m].shell # "up"

HeldInv == NoOrphanShell /\ LoopInv /\ ThreadInv /\ ReaderInv

\* A socket that follows a manager holds it, and replays what it has kept.
FollowInv == \A c \in Sockets :
  /\ socket[c].at \in Serving \cup {"accepted"} => socket[c].manager \in Managers
  /\ socket[c].at = "replaying" => socket[c].upto <= Len(output[socket[c].manager])

\* Chunks that a program has just written.
Live(frame) == \A i \in DOMAIN frame : frame[i].live

Waiting(c) == socket[c].at \in {"asked", "accepted", "replaying"}

\* Nothing but acceptances is on the way, and nothing else has come.
Silent(c) == (\A i \in DOMAIN wire[c] : wire[c][i] = <<>>) /\ (c = ws => ~replayed)

\* Only the socket of the window has a link, and a retry comes after its end.
LinkInv ==
  /\ \A c \in Sockets : /\ socket[c].link # "up" => wire[c] = <<>>
                        /\ c # ws => socket[c].link # "up"
  /\ due /\ ws # NoSocket => socket[ws].link # "up"
  /\ panel # "mounted" => ws = NoSocket /\ ~due

\* The replay, if there is one, is the first output of a connection.
ReplayFirst(c) ==
  /\ Live(queue[c])
  /\ Waiting(c) => Silent(c)
  /\ \A j \in DOMAIN wire[c] :
       \/ Live(wire[c][j])
       \/ (\A i \in 1..j - 1 : wire[c][i] = <<>>) /\ (c = ws => ~replayed)

\* The event loop serves a handshake whose window has seen no output.
FrameInv ==
  /\ \A c \in Sockets : ReplayFirst(c)
  /\ loop.at # "idle" => socket[loop.socket].at = "asked"

TerminalInv ==
  TypeOK /\ HeldInv /\ FollowInv /\ LinkInv /\ FrameInv /\ AnswersAreLive

-----------------------------------------------------------------------------
(* The operators *)

\* What ends, sends, refuses and emits keeps its types.
LEMMA OverTyped ==
  ASSUME BackendTypeOK, NEW c \in Sockets, NEW end \in Ends, Over(c, end)
  PROVE  /\ socket' \in [Sockets -> SocketStates]
         /\ callbacks' \in [Managers -> SUBSET Sockets]
         /\ queue' \in [Sockets -> Seq(Chunks)]
<1>1. NewSocket("none", socket[c].link, end) \in SocketStates
  BY DEF NewSocket, SocketStates, Serving, ManagerOrNot, BackendTypeOK
<1>2. socket' \in [Sockets -> SocketStates]
  BY <1>1 DEF Over, BackendTypeOK
<1>3. callbacks' \in [Managers -> SUBSET Sockets] /\ queue' \in [Sockets -> Seq(Chunks)]
  BY DEF Over, BackendTypeOK
<1> QED BY <1>2, <1>3

LEMMA SentTyped ==
  ASSUME BackendTypeOK, NEW c \in Sockets, NEW frame \in Seq(Chunks), Sent(c, frame)
  PROVE  wire' \in [Sockets -> Seq(Seq(Chunks))]
  BY DEF Sent, BackendTypeOK

LEMMA RefuseTyped ==
  ASSUME BackendTypeOK, NEW c \in Sockets, NEW end \in Ends, Refuse(c, end)
  PROVE  /\ socket' \in [Sockets -> SocketStates]
         /\ callbacks' \in [Managers -> SUBSET Sockets]
         /\ queue' \in [Sockets -> Seq(Chunks)] /\ wire' \in [Sockets -> Seq(Seq(Chunks))]
<1>1. <<>> \in Seq(Chunks)
  OBVIOUS
<1>2. Over(c, end) /\ Sent(c, <<>>)
  BY DEF Refuse
<1> QED BY <1>1, <1>2, OverTyped, SentTyped

LEMMA EmitTyped ==
  ASSUME BackendTypeOK, NEW m \in Managers, NEW query \in BOOLEAN, Emit(m, query)
  PROVE  output' \in [Managers -> Seq(BOOLEAN)] /\ queue' \in [Sockets -> Seq(Chunks)]
<1>1. output' \in [Managers -> Seq(BOOLEAN)]
  BY DEF Emit, BackendTypeOK
<1>2. [n |-> Len(output[m]) + 1, query |-> query, live |-> TRUE] \in Chunks
  BY DEF BackendTypeOK, Chunks
<1>3. queue' \in [Sockets -> Seq(Chunks)]
  BY <1>2 DEF Emit, BackendTypeOK
<1> QED BY <1>1, <1>3

\* A record with a field changed is one of the records.
LEMMA ManagerFields ==
  ASSUME NEW r \in ManagerStates
  PROVE  /\ [r EXCEPT !.shell = "down"] \in ManagerStates
         /\ [r EXCEPT !.stop = TRUE] \in ManagerStates
         /\ [r EXCEPT !.reader = "left"] \in ManagerStates
         /\ [r EXCEPT !.reader = "done"] \in ManagerStates
         /\ [r EXCEPT !.reader = "closing"] \in ManagerStates
  BY DEF ManagerStates

LEMMA SocketFields ==
  ASSUME NEW r \in SocketStates
  PROVE  /\ [r EXCEPT !.at = "serving"] \in SocketStates
         /\ [r EXCEPT !.link = "lost"] \in SocketStates
         /\ [r EXCEPT !.link = "closed"] \in SocketStates
         /\ \A m \in ManagerOrNot : [r EXCEPT !.at = "accepted", !.manager = m] \in SocketStates
         /\ \A from \in Nat \ {0}, upto \in Nat :
              [r EXCEPT !.at = "replaying", !.from = from, !.upto = upto] \in SocketStates
<1>1. /\ [r EXCEPT !.at = "serving"] \in SocketStates
      /\ [r EXCEPT !.link = "lost"] \in SocketStates
      /\ [r EXCEPT !.link = "closed"] \in SocketStates
  BY DEF SocketStates, Serving
<1>2. ASSUME NEW m \in ManagerOrNot
      PROVE  [r EXCEPT !.at = "accepted", !.manager = m] \in SocketStates
  <2>1. [r EXCEPT !.at = "accepted"] \in SocketStates
    BY DEF SocketStates
  <2> QED BY <2>1 DEF SocketStates
<1>3. ASSUME NEW from \in Nat \ {0}, NEW upto \in Nat
      PROVE  [r EXCEPT !.at = "replaying", !.from = from, !.upto = upto] \in SocketStates
  <2>1. [r EXCEPT !.at = "replaying", !.from = from] \in SocketStates
    BY DEF SocketStates, Serving
  <2> QED BY <2>1 DEF SocketStates
<1> QED BY <1>1, <1>2, <1>3

LEMMA HeldFromTyped ==
  ASSUME BackendTypeOK, NEW m \in Managers
  PROVE  HeldFrom(m) \in Nat \ {0} /\ Len(output[m]) \in Nat
  BY TerminalAssumption DEF BackendTypeOK, HeldFrom

LEMMA ChunkTyped ==
  ASSUME BackendTypeOK, NEW m \in Managers, NEW n \in 1..Len(output[m]), NEW live \in BOOLEAN
  PROVE  Chunk(m, n, live) \in Chunks
<1>1. output[m] \in Seq(BOOLEAN) /\ output[m][n] \in BOOLEAN /\ n \in Nat
  BY DEF BackendTypeOK
<1> QED BY <1>1 DEF Chunk, Chunks

\* What a socket took is there to be sent.
LEMMA TakenTyped ==
  ASSUME BackendTypeOK, FollowInv, NEW c \in Sockets, socket[c].at = "replaying"
  PROVE  Taken(c) \in Seq(Chunks)
<1>1. /\ socket[c].manager \in Managers /\ socket[c].from \in Nat \ {0}
      /\ socket[c].upto \in Nat
      /\ socket[c].upto <= Len(output[socket[c].manager])
  BY DEF BackendTypeOK, FollowInv, Serving, SocketStates
<1>2. Len(output[socket[c].manager]) \in Nat
  BY <1>1 DEF BackendTypeOK
<1>3. ASSUME NEW i \in 1..socket[c].upto + 1 - socket[c].from
      PROVE  Chunk(socket[c].manager, socket[c].from + i - 1, FALSE) \in Chunks
  <2>0. \A from, upto, last, k \in Int :
           from >= 1 /\ upto <= last /\ k \in 1..upto + 1 - from => from + k - 1 \in 1..last
    OBVIOUS
  <2>1. socket[c].from + i - 1 \in 1..Len(output[socket[c].manager])
    <3>1. socket[c].from \in Int /\ socket[c].from >= 1 /\ socket[c].upto \in Int
      BY <1>1
    <3> QED BY <1>1, <1>2, <2>0, <3>1
  <2> QED BY <1>1, <2>1, ChunkTyped
<1>4. socket[c].upto + 1 - socket[c].from \in Int
  BY <1>1
<1>5. \A j \in Int : \A f \in [1..j -> Chunks] : f \in Seq(Chunks)
  OBVIOUS
<1>6. Taken(c) \in [1..socket[c].upto + 1 - socket[c].from -> Chunks]
  BY <1>3 DEF Taken
<1> QED BY <1>4, <1>5, <1>6

-----------------------------------------------------------------------------
(* The shells and those who hold them *)

\* Who holds which manager, action by action.
LEMMA HeldStep ==
  ASSUME TypeOK, HeldInv, [Next]_vars
  PROVE  HeldInv'
<1>1. ASSUME Spawned, UNCHANGED windowVars PROVE HeldInv'
  BY <1>1, TerminalAssumption DEF HeldInv, NoOrphanShell, LoopInv, ThreadInv, ReaderInv, TypeOK, BackendTypeOK, ManagerStates, LoopStates, ThreadStates, windowVars, registryVars, managerVars, socketVars, ManagerOrNot, Threads, Spawned, Started
<1>2. ASSUME SpawnFails, UNCHANGED windowVars PROVE HeldInv'
  BY <1>2, TerminalAssumption DEF HeldInv, NoOrphanShell, LoopInv, ThreadInv, ReaderInv, TypeOK, BackendTypeOK, ManagerStates, LoopStates, ThreadStates, windowVars, registryVars, managerVars, socketVars, ManagerOrNot, Threads, SpawnFails, Refuse, Over, Idle
<1>3. ASSUME Register, UNCHANGED windowVars PROVE HeldInv'
  BY <1>3, TerminalAssumption DEF HeldInv, NoOrphanShell, LoopInv, ThreadInv, ReaderInv, TypeOK, BackendTypeOK, ManagerStates, LoopStates, ThreadStates, windowVars, registryVars, managerVars, socketVars, ManagerOrNot, Threads, Register
<1>4. ASSUME Join, UNCHANGED windowVars PROVE HeldInv'
  BY <1>4, TerminalAssumption DEF HeldInv, NoOrphanShell, LoopInv, ThreadInv, ReaderInv, TypeOK, BackendTypeOK, ManagerStates, LoopStates, ThreadStates, windowVars, registryVars, managerVars, socketVars, ManagerOrNot, Threads, Join, Idle, Refuse, Over
<1>5. ASSUME NEW c \in Sockets, Handshake(c), UNCHANGED windowVars PROVE HeldInv'
  <2> DEFINE made == CHOOSE m \in Managers : Unheld(m)
  <2>1. CASE registry # Nobody
    <3>1. /\ loop'.at = "joining" /\ loop'.manager = Nobody /\ loop.manager = Nobody
          /\ UNCHANGED <<manager, registry, configured, torn, thread, panel>>
      BY <1>5, <2>1 DEF Handshake, LoopIsFree, Idle, HeldInv, LoopInv, registryVars, managerVars, windowVars
    <3> QED BY <3>1 DEF HeldInv, NoOrphanShell, LoopInv, ThreadInv, ReaderInv
  <2>2. CASE registry = Nobody /\ ~configured
    BY <1>5, <2>2, TerminalAssumption DEF HeldInv, NoOrphanShell, LoopInv, ThreadInv, ReaderInv, TypeOK, BackendTypeOK, ManagerStates, LoopStates, ThreadStates, ManagerOrNot, Threads, windowVars, registryVars, managerVars, socketVars, Handshake, LoopIsFree, Idle
  <2>3. CASE registry = Nobody /\ configured
    <3>1. /\ \E m \in Managers : Unheld(m)
          /\ loop' = [at |-> "spawning", socket |-> c, manager |-> made]
          /\ manager' = [manager EXCEPT ![made] = NoManager]
          /\ UNCHANGED <<registry, configured, torn, thread, panel>>
      BY <1>5, <2>3 DEF Handshake, registryVars, windowVars
    <3>2. made \in Managers /\ Unheld(made)
      BY <3>1
    <3> HIDE DEF made
    <3>3. manager'[made].shell = "none" /\ manager'[made].reader = "none"
      BY <3>1, <3>2 DEF NoManager, TypeOK, BackendTypeOK
    <3>4. \A m \in Managers \ {made} : manager'[m] = manager[m]
      BY <3>1 DEF TypeOK, BackendTypeOK
    <3>5. loop.manager = Nobody
      BY <1>5 DEF Handshake, LoopIsFree, HeldInv, LoopInv
    <3>6. NoOrphanShell'
      BY <3>1, <3>2, <3>3, <3>4, <3>5, TerminalAssumption DEF HeldInv, NoOrphanShell
    <3>7. LoopInv'
      BY <3>1, <3>2, <3>3, <2>3 DEF LoopInv
    <3>8. ThreadInv' /\ ReaderInv'
      BY <3>1, <3>3, <3>4 DEF HeldInv, ThreadInv, ReaderInv
    <3> QED BY <3>6, <3>7, <3>8 DEF HeldInv
  <2> QED BY <2>1, <2>2, <2>3
<1>6. ASSUME NEW c \in Sockets, Reject(c), UNCHANGED windowVars PROVE HeldInv'
  BY <1>6, TerminalAssumption DEF HeldInv, NoOrphanShell, LoopInv, ThreadInv, ReaderInv, TypeOK, BackendTypeOK, ManagerStates, LoopStates, ThreadStates, windowVars, registryVars, managerVars, socketVars, ManagerOrNot, Threads, Reject
<1>7. ASSUME NEW c \in Sockets, Subscribe(c), UNCHANGED windowVars PROVE HeldInv'
  BY <1>7, TerminalAssumption DEF HeldInv, NoOrphanShell, LoopInv, ThreadInv, ReaderInv, TypeOK, BackendTypeOK, ManagerStates, LoopStates, ThreadStates, windowVars, registryVars, managerVars, socketVars, ManagerOrNot, Threads, Subscribe
<1>8. ASSUME NEW c \in Sockets, SendReplay(c), UNCHANGED windowVars PROVE HeldInv'
  BY <1>8, TerminalAssumption DEF HeldInv, NoOrphanShell, LoopInv, ThreadInv, ReaderInv, TypeOK, BackendTypeOK, ManagerStates, LoopStates, ThreadStates, windowVars, registryVars, managerVars, socketVars, ManagerOrNot, Threads, SendReplay
<1>9. ASSUME NEW c \in Sockets, Flush(c), UNCHANGED windowVars PROVE HeldInv'
  BY <1>9, TerminalAssumption DEF HeldInv, NoOrphanShell, LoopInv, ThreadInv, ReaderInv, TypeOK, BackendTypeOK, ManagerStates, LoopStates, ThreadStates, windowVars, registryVars, managerVars, socketVars, ManagerOrNot, Threads, Flush
<1>10. ASSUME NEW c \in Sockets, Gone(c), UNCHANGED windowVars PROVE HeldInv'
  BY <1>10, TerminalAssumption DEF HeldInv, NoOrphanShell, LoopInv, ThreadInv, ReaderInv, TypeOK, BackendTypeOK, ManagerStates, LoopStates, ThreadStates, windowVars, registryVars, managerVars, socketVars, ManagerOrNot, Threads, Gone
<1>11. ASSUME NEW m \in Managers, ShellExits(m), UNCHANGED windowVars PROVE HeldInv'
  BY <1>11, TerminalAssumption DEF HeldInv, NoOrphanShell, LoopInv, ThreadInv, ReaderInv, TypeOK, BackendTypeOK, ManagerStates, LoopStates, ThreadStates, windowVars, registryVars, managerVars, socketVars, ManagerOrNot, Threads, ShellExits
<1>12. ASSUME NEW m \in Managers, NEW query \in BOOLEAN, ShellWrites(m, query), UNCHANGED windowVars PROVE HeldInv'
  BY <1>12, TerminalAssumption DEF HeldInv, NoOrphanShell, LoopInv, ThreadInv, ReaderInv, TypeOK, BackendTypeOK, ManagerStates, LoopStates, ThreadStates, windowVars, registryVars, managerVars, socketVars, ManagerOrNot, Threads, ShellWrites
<1>13. ASSUME NEW m \in Managers, ReaderLeaves(m), UNCHANGED windowVars PROVE HeldInv'
  BY <1>13, TerminalAssumption DEF HeldInv, NoOrphanShell, LoopInv, ThreadInv, ReaderInv, TypeOK, BackendTypeOK, ManagerStates, LoopStates, ThreadStates, windowVars, registryVars, managerVars, socketVars, ManagerOrNot, Threads, ReaderLeaves
<1>14. ASSUME NEW m \in Managers, ReaderUnregisters(m), UNCHANGED windowVars PROVE HeldInv'
  <2>1. /\ \A i \in Managers \ {m} : manager'[i] = manager[i]
        /\ manager'[m].reader # "left" /\ manager'[m].shell = manager[m].shell
    BY <1>14 DEF ReaderUnregisters, TypeOK, BackendTypeOK, ManagerStates
  <2>2. registry' = registry \/ (registry = m /\ manager[m].shell # "up" /\ registry' = Nobody)
    BY <1>14 DEF ReaderUnregisters, Unregister, Registered, HeldInv, ReaderInv
  <2>3. UNCHANGED <<loop, thread, configured, torn, panel>>
    BY <1>14 DEF ReaderUnregisters, windowVars
  <2>4. NoOrphanShell'
    BY <2>1, <2>2, <2>3 DEF HeldInv, NoOrphanShell
  <2>5. LoopInv'
    <3>1. loop.at = "spawning" => loop.manager \in Managers /\ manager'[loop.manager].shell # "up"
      BY <2>1 DEF HeldInv, LoopInv
    <3> QED BY <3>1, <2>2, <2>3 DEF HeldInv, LoopInv
  <2>6. ThreadInv' /\ ReaderInv'
    BY <2>1, <2>3 DEF HeldInv, ThreadInv, ReaderInv
  <2> QED BY <2>4, <2>5, <2>6 DEF HeldInv
<1>15. ASSUME NEW m \in Managers, ReaderCloses(m), UNCHANGED windowVars PROVE HeldInv'
  BY <1>15, TerminalAssumption DEF HeldInv, NoOrphanShell, LoopInv, ThreadInv, ReaderInv, TypeOK, BackendTypeOK, ManagerStates, LoopStates, ThreadStates, windowVars, registryVars, managerVars, socketVars, ManagerOrNot, Threads, ReaderCloses, Closed
<1>16. ASSUME CloserPops, UNCHANGED windowVars PROVE HeldInv'
  BY <1>16, TerminalAssumption DEF HeldInv, NoOrphanShell, LoopInv, ThreadInv, ReaderInv, TypeOK, BackendTypeOK, ManagerStates, LoopStates, ThreadStates, windowVars, registryVars, managerVars, socketVars, ManagerOrNot, Threads, CloserPops, Resting
<1>17. ASSUME NEW t \in Threads, StopSignals(t), UNCHANGED windowVars PROVE HeldInv'
  BY <1>17, TerminalAssumption DEF HeldInv, NoOrphanShell, LoopInv, ThreadInv, ReaderInv, TypeOK, BackendTypeOK, ManagerStates, LoopStates, ThreadStates, windowVars, registryVars, managerVars, socketVars, ManagerOrNot, Threads, StopSignals, Unregister, Registered
<1>18. ASSUME NEW t \in Threads, StopCloses(t), UNCHANGED windowVars PROVE HeldInv'
  BY <1>18, TerminalAssumption DEF HeldInv, NoOrphanShell, LoopInv, ThreadInv, ReaderInv, TypeOK, BackendTypeOK, ManagerStates, LoopStates, ThreadStates, windowVars, registryVars, managerVars, socketVars, ManagerOrNot, Threads, StopCloses, Closed, Resting
<1>19. ASSUME StartWorkspace, UNCHANGED windowVars PROVE HeldInv'
  BY <1>19, TerminalAssumption DEF HeldInv, NoOrphanShell, LoopInv, ThreadInv, ReaderInv, TypeOK, BackendTypeOK, ManagerStates, LoopStates, ThreadStates, windowVars, registryVars, managerVars, socketVars, ManagerOrNot, Threads, StartWorkspace
<1>20. ASSUME TearDown, UNCHANGED windowVars PROVE HeldInv'
  BY <1>20, TerminalAssumption DEF HeldInv, NoOrphanShell, LoopInv, ThreadInv, ReaderInv, TypeOK, BackendTypeOK, ManagerStates, LoopStates, ThreadStates, windowVars, registryVars, managerVars, socketVars, ManagerOrNot, Threads, TearDown, Resting
<1>21. ASSUME Mount PROVE HeldInv'
  BY <1>21, TerminalAssumption DEF HeldInv, NoOrphanShell, LoopInv, ThreadInv, ReaderInv, TypeOK, BackendTypeOK, ManagerStates, LoopStates, ThreadStates, windowVars, registryVars, managerVars, socketVars, ManagerOrNot, Threads, Mount, backendVars
<1>22. ASSUME Unmount PROVE HeldInv'
  BY <1>22, TerminalAssumption DEF HeldInv, NoOrphanShell, LoopInv, ThreadInv, ReaderInv, TypeOK, BackendTypeOK, ManagerStates, LoopStates, ThreadStates, windowVars, registryVars, managerVars, socketVars, ManagerOrNot, Threads, Unmount, Leave
<1>23. ASSUME ConfirmClose PROVE HeldInv'
  BY <1>23, TerminalAssumption DEF HeldInv, NoOrphanShell, LoopInv, ThreadInv, ReaderInv, TypeOK, BackendTypeOK, ManagerStates, LoopStates, ThreadStates, windowVars, registryVars, managerVars, socketVars, ManagerOrNot, Threads, ConfirmClose, Leave
<1>24. ASSUME Connect PROVE HeldInv'
  BY <1>24, TerminalAssumption DEF HeldInv, NoOrphanShell, LoopInv, ThreadInv, ReaderInv, TypeOK, BackendTypeOK, ManagerStates, LoopStates, ThreadStates, windowVars, registryVars, managerVars, socketVars, ManagerOrNot, Threads, Connect
<1>25. ASSUME Receive PROVE HeldInv'
  BY <1>25, TerminalAssumption DEF HeldInv, NoOrphanShell, LoopInv, ThreadInv, ReaderInv, TypeOK, BackendTypeOK, ManagerStates, LoopStates, ThreadStates, windowVars, registryVars, managerVars, socketVars, ManagerOrNot, Threads, Receive
<1>26. ASSUME QueryAges PROVE HeldInv'
  BY <1>26, TerminalAssumption DEF HeldInv, NoOrphanShell, LoopInv, ThreadInv, ReaderInv, TypeOK, BackendTypeOK, ManagerStates, LoopStates, ThreadStates, windowVars, registryVars, managerVars, socketVars, ManagerOrNot, Threads, QueryAges, backendVars
<1>27. ASSUME Break PROVE HeldInv'
  BY <1>27, TerminalAssumption DEF HeldInv, NoOrphanShell, LoopInv, ThreadInv, ReaderInv, TypeOK, BackendTypeOK, ManagerStates, LoopStates, ThreadStates, windowVars, registryVars, managerVars, socketVars, ManagerOrNot, Threads, Break
<1>28. ASSUME SocketCloses PROVE HeldInv'
  BY <1>28, TerminalAssumption DEF HeldInv, NoOrphanShell, LoopInv, ThreadInv, ReaderInv, TypeOK, BackendTypeOK, ManagerStates, LoopStates, ThreadStates, windowVars, registryVars, managerVars, socketVars, ManagerOrNot, Threads, SocketCloses
<1>29. CASE UNCHANGED vars
  BY <1>29 DEF HeldInv, NoOrphanShell, LoopInv, ThreadInv, ReaderInv, TypeOK, BackendTypeOK, ManagerStates, LoopStates, ThreadStates, windowVars, registryVars, managerVars, socketVars, ManagerOrNot, Threads, vars, backendVars
<1> QED BY <1>1, <1>2, <1>3, <1>4, <1>5, <1>6, <1>7, <1>8, <1>9, <1>10, <1>11, <1>12, <1>13, <1>14, <1>15, <1>16, <1>17, <1>18, <1>19, <1>20, <1>21, <1>22, <1>23, <1>24, <1>25, <1>26, <1>27, <1>28, <1>29 DEF Next, BackendNext, LoopStep, ShellStep, ReaderStep, StopStep, WorkspaceStep, WindowNext

-----------------------------------------------------------------------------
(* The types *)

\* The types, action by action.
LEMMA TypeStep ==
  ASSUME TypeOK, HeldInv, FollowInv, [Next]_vars
  PROVE  TypeOK'
<1>1. ASSUME Spawned, UNCHANGED windowVars PROVE TypeOK'
  <2>1. loop' \in LoopStates /\ (loop'.at # "idle" => loop'.socket \in Sockets)
    BY <1>1 DEF TypeOK, BackendTypeOK, Spawned, LoopStates
  <2>2. manager' \in [Managers -> ManagerStates]
    BY <1>1 DEF TypeOK, BackendTypeOK, Spawned, Started, ManagerStates
  <2>3. UNCHANGED <<registry, configured, torn, output, callbacks, thread, socket, queue, wire, troubles, windowVars>>
    BY <1>1 DEF Spawned, registryVars, managerVars, socketVars, windowVars
  <2> QED BY <2>1, <2>2, <2>3 DEF TypeOK, BackendTypeOK, windowVars
<1>2. ASSUME SpawnFails, UNCHANGED windowVars PROVE TypeOK'
  <2>1. loop' \in LoopStates /\ (loop'.at # "idle" => loop'.socket \in Sockets)
    BY <1>2 DEF TypeOK, BackendTypeOK, SpawnFails, Idle, LoopStates, ManagerOrNot
  <2>2. socket' \in [Sockets -> SocketStates] /\ callbacks' \in [Managers -> SUBSET Sockets] /\ queue' \in [Sockets -> Seq(Chunks)] /\ wire' \in [Sockets -> Seq(Seq(Chunks))]
    BY <1>2, RefuseTyped DEF TypeOK, BackendTypeOK, SpawnFails, Ends
  <2>3. troubles' \in Nat
    BY <1>2 DEF TypeOK, BackendTypeOK, SpawnFails, Trouble
  <2>4. UNCHANGED <<registry, configured, torn, manager, output, thread, windowVars>>
    BY <1>2 DEF SpawnFails, registryVars, managerVars, socketVars, windowVars
  <2> QED BY <2>1, <2>2, <2>3, <2>4 DEF TypeOK, BackendTypeOK, windowVars
<1>3. ASSUME Register, UNCHANGED windowVars PROVE TypeOK'
  <2>1. loop' \in LoopStates /\ (loop'.at # "idle" => loop'.socket \in Sockets)
    BY <1>3 DEF TypeOK, BackendTypeOK, Register, LoopStates, ManagerOrNot
  <2>2. registry' \in ManagerOrNot
    BY <1>3 DEF TypeOK, BackendTypeOK, Register, LoopStates
  <2>3. UNCHANGED <<configured, torn, manager, output, callbacks, thread, socket, queue, wire, troubles, windowVars>>
    BY <1>3 DEF Register, registryVars, managerVars, socketVars, windowVars
  <2> QED BY <2>1, <2>2, <2>3 DEF TypeOK, BackendTypeOK, windowVars
<1>4. ASSUME Join, UNCHANGED windowVars PROVE TypeOK'
  <2>1. loop' \in LoopStates /\ (loop'.at # "idle" => loop'.socket \in Sockets)
    BY <1>4 DEF TypeOK, BackendTypeOK, Join, Idle, LoopStates, ManagerOrNot
  <2>2. socket' \in [Sockets -> SocketStates] /\ callbacks' \in [Managers -> SUBSET Sockets] /\ queue' \in [Sockets -> Seq(Chunks)] /\ wire' \in [Sockets -> Seq(Seq(Chunks))]
    <3>1. loop.socket \in Sockets
      BY <1>4 DEF TypeOK, BackendTypeOK, Join
    <3>2. CASE registry = Nobody
      BY <1>4, <3>1, <3>2, RefuseTyped DEF Join, Ends, TypeOK
    <3>3. CASE registry # Nobody
      <4>1. <<>> \in Seq(Chunks)
        OBVIOUS
      <4>2. [socket[loop.socket] EXCEPT !.at = "accepted", !.manager = registry] \in SocketStates
        BY <3>1, SocketFields DEF TypeOK, BackendTypeOK
      <4>3. socket' \in [Sockets -> SocketStates] /\ callbacks' \in [Managers -> SUBSET Sockets] /\ queue' \in [Sockets -> Seq(Chunks)]
        BY <1>4, <3>1, <3>3, <4>2 DEF TypeOK, BackendTypeOK, Join
      <4>4. Sent(loop.socket, <<>>)
        BY <1>4, <3>3 DEF Join
      <4>5. wire' \in [Sockets -> Seq(Seq(Chunks))]
        BY <3>1, <4>1, <4>4, SentTyped DEF TypeOK
      <4> QED BY <4>3, <4>5
    <3> QED BY <3>2, <3>3
  <2>3. UNCHANGED <<registry, configured, torn, manager, output, thread, troubles, windowVars>>
    BY <1>4 DEF Join, registryVars, managerVars, socketVars, windowVars
  <2> QED BY <2>1, <2>2, <2>3 DEF TypeOK, BackendTypeOK, windowVars
<1>5. ASSUME NEW c \in Sockets, Handshake(c), UNCHANGED windowVars PROVE TypeOK'
  <2>1. UNCHANGED <<registry, configured, torn, thread, troubles, windowVars>>
    BY <1>5 DEF Handshake, registryVars, managerVars, socketVars, windowVars
  <2>2. CASE registry # Nobody
    <3>1. loop' \in LoopStates /\ (loop'.at # "idle" => loop'.socket \in Sockets)
      BY <1>5, <2>2 DEF TypeOK, BackendTypeOK, Handshake, LoopStates, ManagerOrNot
    <3>2. UNCHANGED <<manager, output, callbacks, socket, queue, wire>>
      BY <1>5, <2>2 DEF Handshake, managerVars, socketVars
    <3> QED BY <2>1, <3>1, <3>2 DEF TypeOK, BackendTypeOK, windowVars
  <2>3. CASE registry = Nobody /\ configured
    <3> DEFINE made == CHOOSE m \in Managers : Unheld(m)
    <3>1. /\ \E m \in Managers : Unheld(m)
          /\ loop' = [at |-> "spawning", socket |-> c, manager |-> made]
          /\ manager' = [manager EXCEPT ![made] = NoManager]
          /\ output' = [output EXCEPT ![made] = <<>>]
          /\ UNCHANGED <<callbacks, socket, queue, wire>>
      BY <1>5, <2>3 DEF Handshake, socketVars
    <3>2. made \in Managers
      BY <3>1
    <3> HIDE DEF made
    <3>3. loop' \in LoopStates /\ (loop'.at # "idle" => loop'.socket \in Sockets)
      BY <3>1, <3>2 DEF LoopStates, ManagerOrNot
    <3>4. manager' \in [Managers -> ManagerStates]
      BY <3>1 DEF TypeOK, BackendTypeOK, NoManager, ManagerStates
    <3>5. output' \in [Managers -> Seq(BOOLEAN)]
      <4>1. <<>> \in Seq(BOOLEAN)
        OBVIOUS
      <4> QED BY <3>1, <4>1 DEF TypeOK, BackendTypeOK
    <3> QED BY <2>1, <3>1, <3>3, <3>4, <3>5 DEF TypeOK, BackendTypeOK, windowVars
  <2>4. CASE registry = Nobody /\ ~configured
    <3>1. Refuse(c, "notFound") /\ UNCHANGED <<manager, output, loop>>
      BY <1>5, <2>4 DEF Handshake
    <3>2. socket' \in [Sockets -> SocketStates] /\ callbacks' \in [Managers -> SUBSET Sockets] /\ queue' \in [Sockets -> Seq(Chunks)] /\ wire' \in [Sockets -> Seq(Seq(Chunks))]
      BY <3>1, RefuseTyped DEF Ends, TypeOK
    <3> QED BY <2>1, <3>1, <3>2 DEF TypeOK, BackendTypeOK, windowVars
  <2> QED BY <2>2, <2>3, <2>4
<1>6. ASSUME NEW c \in Sockets, Reject(c), UNCHANGED windowVars PROVE TypeOK'
  <2>1. socket' \in [Sockets -> SocketStates] /\ callbacks' \in [Managers -> SUBSET Sockets] /\ queue' \in [Sockets -> Seq(Chunks)] /\ wire' \in [Sockets -> Seq(Seq(Chunks))]
    BY <1>6, RefuseTyped DEF Reject, Ends, TypeOK
  <2>2. troubles' \in Nat
    BY <1>6 DEF TypeOK, BackendTypeOK, Reject, Trouble
  <2>3. UNCHANGED <<registry, configured, torn, manager, output, loop, thread, windowVars>>
    BY <1>6 DEF Reject, registryVars, managerVars, socketVars, windowVars
  <2> QED BY <2>1, <2>2, <2>3 DEF TypeOK, BackendTypeOK, windowVars
<1>7. ASSUME NEW c \in Sockets, Subscribe(c), UNCHANGED windowVars PROVE TypeOK'
  <2>1. socket[c].manager \in Managers
    BY <1>7 DEF Subscribe, FollowInv
  <2> DEFINE m == socket[c].manager
             s == [socket[c] EXCEPT !.at = "replaying", !.from = HeldFrom(m), !.upto = Len(output[m])]
  <2>2. HeldFrom(m) \in Nat \ {0} /\ Len(output[m]) \in Nat
    BY <2>1, HeldFromTyped DEF TypeOK
  <2>3. s \in SocketStates
    BY <2>2, SocketFields DEF TypeOK, BackendTypeOK
  <2>4. socket' = [socket EXCEPT ![c] = s]
    BY <1>7 DEF Subscribe
  <2>5. callbacks' \in [Managers -> SUBSET Sockets]
    BY <1>7 DEF TypeOK, BackendTypeOK, Subscribe
  <2> HIDE DEF s
  <2>6. socket' \in [Sockets -> SocketStates]
    BY <2>3, <2>4 DEF TypeOK, BackendTypeOK
  <2>7. UNCHANGED <<registry, configured, torn, manager, output, loop, thread, queue, wire, troubles, windowVars>>
    BY <1>7 DEF Subscribe, registryVars, managerVars, socketVars, windowVars
  <2> QED BY <2>5, <2>6, <2>7 DEF TypeOK, BackendTypeOK, windowVars
<1>8. ASSUME NEW c \in Sockets, SendReplay(c), UNCHANGED windowVars PROVE TypeOK'
  <2>1. socket' \in [Sockets -> SocketStates]
    BY <1>8, SocketFields DEF TypeOK, BackendTypeOK, SendReplay
  <2>2. wire' \in [Sockets -> Seq(Seq(Chunks))]
    BY <1>8, TakenTyped, SentTyped DEF TypeOK, BackendTypeOK, SendReplay
  <2>3. UNCHANGED <<registry, configured, torn, manager, output, callbacks, loop, thread, queue, troubles, windowVars>>
    BY <1>8 DEF SendReplay, registryVars, managerVars, socketVars, windowVars
  <2> QED BY <2>1, <2>2, <2>3 DEF TypeOK, BackendTypeOK, windowVars
<1>9. ASSUME NEW c \in Sockets, Flush(c), UNCHANGED windowVars PROVE TypeOK'
  <2>1. queue' \in [Sockets -> Seq(Chunks)]
    BY <1>9 DEF TypeOK, BackendTypeOK, Flush
  <2>2. wire' \in [Sockets -> Seq(Seq(Chunks))]
    BY <1>9, SentTyped DEF TypeOK, BackendTypeOK, Flush
  <2>3. UNCHANGED <<registry, configured, torn, manager, output, callbacks, loop, thread, socket, troubles, windowVars>>
    BY <1>9 DEF Flush, registryVars, managerVars, socketVars, windowVars
  <2> QED BY <2>1, <2>2, <2>3 DEF TypeOK, BackendTypeOK, windowVars
<1>10. ASSUME NEW c \in Sockets, Gone(c), UNCHANGED windowVars PROVE TypeOK'
  <2>1. socket' \in [Sockets -> SocketStates] /\ callbacks' \in [Managers -> SUBSET Sockets] /\ queue' \in [Sockets -> Seq(Chunks)]
    BY <1>10, OverTyped DEF Gone, Ends, TypeOK
  <2>2. UNCHANGED <<registry, configured, torn, manager, output, loop, thread, wire, troubles, windowVars>>
    BY <1>10 DEF Gone, registryVars, managerVars, socketVars, windowVars
  <2> QED BY <2>1, <2>2 DEF TypeOK, BackendTypeOK, windowVars
<1>11. ASSUME NEW m \in Managers, ShellExits(m), UNCHANGED windowVars PROVE TypeOK'
  <2>1. manager' \in [Managers -> ManagerStates]
    BY <1>11, ManagerFields DEF TypeOK, BackendTypeOK, ShellExits
  <2>2. troubles' \in Nat
    BY <1>11 DEF TypeOK, BackendTypeOK, ShellExits, Trouble
  <2>3. UNCHANGED <<registry, configured, torn, output, callbacks, loop, thread, socket, queue, wire, windowVars>>
    BY <1>11 DEF ShellExits, registryVars, managerVars, socketVars, windowVars
  <2> QED BY <2>1, <2>2, <2>3 DEF TypeOK, BackendTypeOK, windowVars
<1>12. ASSUME NEW m \in Managers, NEW query \in BOOLEAN, ShellWrites(m, query), UNCHANGED windowVars PROVE TypeOK'
  <2>1. output' \in [Managers -> Seq(BOOLEAN)] /\ queue' \in [Sockets -> Seq(Chunks)]
    BY <1>12, EmitTyped DEF TypeOK, ShellWrites
  <2>2. UNCHANGED <<registry, configured, torn, manager, callbacks, loop, thread, socket, wire, troubles, windowVars>>
    BY <1>12 DEF ShellWrites, registryVars, managerVars, socketVars, windowVars
  <2> QED BY <2>1, <2>2 DEF TypeOK, BackendTypeOK, windowVars
<1>13. ASSUME NEW m \in Managers, ReaderLeaves(m), UNCHANGED windowVars PROVE TypeOK'
  <2>1. output' \in [Managers -> Seq(BOOLEAN)] /\ queue' \in [Sockets -> Seq(Chunks)]
    BY <1>13, EmitTyped DEF TypeOK, ReaderLeaves
  <2>2. manager' \in [Managers -> ManagerStates]
    BY <1>13, ManagerFields DEF TypeOK, BackendTypeOK, ReaderLeaves
  <2>3. UNCHANGED <<registry, configured, torn, callbacks, loop, thread, socket, wire, troubles, windowVars>>
    BY <1>13 DEF ReaderLeaves, registryVars, managerVars, socketVars, windowVars
  <2> QED BY <2>1, <2>2, <2>3 DEF TypeOK, BackendTypeOK, windowVars
<1>14. ASSUME NEW m \in Managers, ReaderUnregisters(m), UNCHANGED windowVars PROVE TypeOK'
  <2>1. registry' \in ManagerOrNot
    BY <1>14 DEF TypeOK, BackendTypeOK, ReaderUnregisters, Unregister, ManagerOrNot
  <2>2. \/ manager' = [manager EXCEPT ![m] = [manager[m] EXCEPT !.reader = "done"]]
       \/ manager' = [manager EXCEPT ![m] = [manager[m] EXCEPT !.reader = "closing"]]
    BY <1>14 DEF ReaderUnregisters
  <2>3. manager[m] \in ManagerStates
    BY <1>14 DEF TypeOK, BackendTypeOK
  <2>4. manager' \in [Managers -> ManagerStates]
    BY <1>14, <2>2, <2>3, ManagerFields DEF TypeOK, BackendTypeOK
  <2>5. UNCHANGED <<configured, torn, output, callbacks, loop, thread, socket, queue, wire, troubles, windowVars>>
    BY <1>14 DEF ReaderUnregisters, registryVars, managerVars, socketVars, windowVars
  <2> QED BY <2>1, <2>2, <2>3, <2>4, <2>5 DEF TypeOK, BackendTypeOK, windowVars
<1>15. ASSUME NEW m \in Managers, ReaderCloses(m), UNCHANGED windowVars PROVE TypeOK'
  <2>1. manager' \in [Managers -> ManagerStates]
    BY <1>15 DEF TypeOK, BackendTypeOK, ReaderCloses, Closed, ManagerStates
  <2>2. socket' \in [Sockets -> SocketStates] /\ callbacks' \in [Managers -> SUBSET Sockets] /\ queue' \in [Sockets -> Seq(Chunks)]
    <3>1. CASE UNCHANGED <<callbacks, socket, queue>>
      BY <3>1 DEF TypeOK, BackendTypeOK
    <3>2. CASE ~UNCHANGED <<callbacks, socket, queue>>
      BY <1>15, <3>2, OverTyped DEF ReaderCloses, ClosePty, Ends, TypeOK
    <3> QED BY <3>1, <3>2
  <2>3. UNCHANGED <<registry, configured, torn, output, loop, thread, wire, troubles, windowVars>>
    BY <1>15 DEF ReaderCloses, registryVars, managerVars, socketVars, windowVars
  <2> QED BY <2>1, <2>2, <2>3 DEF TypeOK, BackendTypeOK, windowVars
<1>16. ASSUME CloserPops, UNCHANGED windowVars PROVE TypeOK'
  <2>1. registry' \in ManagerOrNot
    BY <1>16 DEF TypeOK, BackendTypeOK, CloserPops, ManagerOrNot
  <2>2. thread' \in [Threads -> ThreadStates]
    BY <1>16 DEF TypeOK, BackendTypeOK, CloserPops, ThreadStates, Resting, ManagerOrNot
  <2>3. UNCHANGED <<configured, torn, manager, output, callbacks, loop, socket, queue, wire, troubles, windowVars>>
    BY <1>16 DEF CloserPops, registryVars, managerVars, socketVars, windowVars
  <2> QED BY <2>1, <2>2, <2>3 DEF TypeOK, BackendTypeOK, windowVars
<1>17. ASSUME NEW t \in Threads, StopSignals(t), UNCHANGED windowVars PROVE TypeOK'
  <2>1. thread[t].manager \in Managers
    BY <1>17 DEF StopSignals, HeldInv, ThreadInv
  <2>2. registry' \in ManagerOrNot
    BY <1>17 DEF TypeOK, BackendTypeOK, StopSignals, Unregister, ManagerOrNot
  <2>3. manager' \in [Managers -> ManagerStates]
    BY <1>17, <2>1, ManagerFields DEF TypeOK, BackendTypeOK, StopSignals
  <2>4. thread' \in [Threads -> ThreadStates]
    BY <1>17 DEF TypeOK, BackendTypeOK, StopSignals, ThreadStates
  <2>5. UNCHANGED <<configured, torn, output, callbacks, loop, socket, queue, wire, troubles, windowVars>>
    BY <1>17 DEF StopSignals, registryVars, managerVars, socketVars, windowVars
  <2> QED BY <2>2, <2>3, <2>4, <2>5 DEF TypeOK, BackendTypeOK, windowVars
<1>18. ASSUME NEW t \in Threads, StopCloses(t), UNCHANGED windowVars PROVE TypeOK'
  <2>1. thread[t].manager \in Managers
    BY <1>18 DEF StopCloses, HeldInv, ThreadInv
  <2>2. manager' \in [Managers -> ManagerStates]
    BY <1>18, <2>1 DEF TypeOK, BackendTypeOK, StopCloses, Closed, ManagerStates
  <2>3. socket' \in [Sockets -> SocketStates] /\ callbacks' \in [Managers -> SUBSET Sockets] /\ queue' \in [Sockets -> Seq(Chunks)]
    <3>1. CASE UNCHANGED <<callbacks, socket, queue>>
      BY <3>1 DEF TypeOK, BackendTypeOK
    <3>2. CASE ~UNCHANGED <<callbacks, socket, queue>>
      BY <1>18, <3>2, OverTyped DEF StopCloses, ClosePty, Ends, TypeOK
    <3> QED BY <3>1, <3>2
  <2>4. thread' \in [Threads -> ThreadStates]
    BY <1>18 DEF TypeOK, BackendTypeOK, StopCloses, ThreadStates, Resting, ManagerOrNot
  <2>5. UNCHANGED <<registry, configured, torn, output, loop, wire, troubles, windowVars>>
    BY <1>18 DEF StopCloses, registryVars, managerVars, socketVars, windowVars
  <2> QED BY <2>2, <2>3, <2>4, <2>5 DEF TypeOK, BackendTypeOK, windowVars
<1>19. ASSUME StartWorkspace, UNCHANGED windowVars PROVE TypeOK'
  BY <1>19 DEF TypeOK, BackendTypeOK, windowVars, registryVars, managerVars, socketVars, StartWorkspace
<1>20. ASSUME TearDown, UNCHANGED windowVars PROVE TypeOK'
  <2>1. thread' \in [Threads -> ThreadStates]
    BY <1>20 DEF TypeOK, BackendTypeOK, TearDown, ThreadStates, Resting, ManagerOrNot
  <2>2. configured' \in BOOLEAN /\ torn' \in BOOLEAN
    BY <1>20 DEF TearDown
  <2>3. UNCHANGED <<registry, manager, output, callbacks, loop, socket, queue, wire, troubles, windowVars>>
    BY <1>20 DEF TearDown, registryVars, managerVars, socketVars, windowVars
  <2> QED BY <2>1, <2>2, <2>3 DEF TypeOK, BackendTypeOK, windowVars
<1>21. ASSUME Mount PROVE TypeOK'
  BY <1>21 DEF TypeOK, BackendTypeOK, windowVars, registryVars, managerVars, socketVars, Mount, backendVars
<1>22. ASSUME Unmount PROVE TypeOK'
  <2>1. socket' \in [Sockets -> SocketStates]
    BY <1>22, SocketFields DEF TypeOK, BackendTypeOK, Unmount, Leave
  <2>2. wire' \in [Sockets -> Seq(Seq(Chunks))]
    BY <1>22 DEF TypeOK, BackendTypeOK, Unmount, Leave
  <2>3. panel' \in {"unmounted", "closed"} /\ ws' = NoSocket /\ due' = FALSE /\ status' = "none"
    BY <1>22 DEF Unmount, Leave
  <2>4. replayed' = FALSE /\ recent' = FALSE /\ asked' = FALSE /\ seen' = 0
    BY <1>22 DEF Unmount, Leave
  <2>5. UNCHANGED <<registry, configured, torn, manager, output, callbacks, loop, queue, troubles, thread>>
    BY <1>22 DEF Unmount, registryVars, managerVars, socketVars, windowVars, Leave
  <2> QED BY <2>1, <2>2, <2>3, <2>4, <2>5 DEF TypeOK, BackendTypeOK, windowVars
<1>23. ASSUME ConfirmClose PROVE TypeOK'
  <2>1. socket' \in [Sockets -> SocketStates]
    BY <1>23, SocketFields DEF TypeOK, BackendTypeOK, ConfirmClose, Leave
  <2>2. wire' \in [Sockets -> Seq(Seq(Chunks))]
    BY <1>23 DEF TypeOK, BackendTypeOK, ConfirmClose, Leave
  <2>3. thread' \in [Threads -> ThreadStates]
    BY <1>23 DEF TypeOK, BackendTypeOK, ConfirmClose, ThreadStates, ManagerOrNot
  <2>4. panel' \in {"unmounted", "closed"} /\ ws' = NoSocket /\ due' = FALSE /\ status' = "none"
    BY <1>23 DEF ConfirmClose, Leave
  <2>5. replayed' = FALSE /\ recent' = FALSE /\ asked' = FALSE /\ seen' = 0
    BY <1>23 DEF ConfirmClose, Leave
  <2>6. UNCHANGED <<registry, configured, torn, manager, output, callbacks, loop, queue, troubles>>
    BY <1>23 DEF ConfirmClose, registryVars, managerVars, socketVars, windowVars, Leave
  <2> QED BY <2>1, <2>2, <2>3, <2>4, <2>5, <2>6 DEF TypeOK, BackendTypeOK, windowVars
<1>24. ASSUME Connect PROVE TypeOK'
  <2> DEFINE c == CHOOSE c \in Sockets : Free(c)
  <2>1. c \in Sockets
    BY <1>24 DEF Connect
  <2>2. ws' = c /\ socket' = [socket EXCEPT ![c] = NewSocket("asked", "up", "none")]
    BY <1>24 DEF Connect
  <2> HIDE DEF c
  <2>3. NewSocket("asked", "up", "none") \in SocketStates
    BY DEF NewSocket, SocketStates, Serving, Ends, ManagerOrNot
  <2>4. socket' \in [Sockets -> SocketStates]
    BY <2>2, <2>3 DEF TypeOK, BackendTypeOK
  <2>5. due' = FALSE /\ replayed' = FALSE /\ recent' = FALSE /\ asked' = FALSE /\ seen' = 0
    BY <1>24 DEF Connect
  <2>6. UNCHANGED <<registry, configured, torn, manager, output, callbacks, loop, thread, queue, wire, troubles, panel, status>>
    BY <1>24 DEF Connect, registryVars, managerVars, socketVars, windowVars
  <2> QED BY <2>1, <2>2, <2>4, <2>5, <2>6 DEF TypeOK, BackendTypeOK
<1>25. ASSUME Receive PROVE TypeOK'
  <2> DEFINE frame == Head(wire[ws])
  <2>1. ws \in Sockets /\ wire[ws] \in Seq(Seq(Chunks)) /\ wire[ws] # <<>>
    BY <1>25 DEF TypeOK, BackendTypeOK, Receive
  <2>2. frame \in Seq(Chunks) /\ Tail(wire[ws]) \in Seq(Seq(Chunks))
    BY <2>1
  <2>3. wire' \in [Sockets -> Seq(Seq(Chunks))]
    BY <1>25, <2>1, <2>2 DEF TypeOK, BackendTypeOK, Receive
  <2>4. frame # <<>> => frame[Len(frame)].n \in Nat
    <3>1. frame # <<>> => Len(frame) \in 1..Len(frame)
      BY <2>2
    <3>2. frame # <<>> => frame[Len(frame)] \in Chunks
      BY <2>2, <3>1
    <3> QED BY <3>2 DEF Chunks
  <2>5. status' \in {"none", status} /\ replayed' \in {TRUE, replayed}
    BY <1>25 DEF Receive
  <2>6. recent' \in BOOLEAN /\ asked' \in BOOLEAN
    BY <1>25, Zenon DEF TypeOK, BackendTypeOK, Receive
  <2>7. seen' \in Nat
    BY <1>25, <2>4 DEF TypeOK, BackendTypeOK, Receive
  <2>8. UNCHANGED <<registry, configured, torn, manager, output, callbacks, loop, thread, socket, queue, troubles, panel, ws, due>>
    BY <1>25 DEF Receive, registryVars, managerVars, socketVars, windowVars
  <2> QED BY <2>3, <2>5, <2>6, <2>7, <2>8 DEF TypeOK, BackendTypeOK
<1>26. ASSUME QueryAges PROVE TypeOK'
  BY <1>26 DEF TypeOK, BackendTypeOK, windowVars, registryVars, managerVars, socketVars, QueryAges, backendVars
<1>27. ASSUME Break PROVE TypeOK'
  <2>1. socket' \in [Sockets -> SocketStates]
    BY <1>27, SocketFields DEF TypeOK, BackendTypeOK, Break
  <2>2. wire' \in [Sockets -> Seq(Seq(Chunks))]
    BY <1>27 DEF TypeOK, BackendTypeOK, Break
  <2>3. troubles' \in Nat
    BY <1>27 DEF TypeOK, BackendTypeOK, Break, Trouble
  <2>4. UNCHANGED <<registry, configured, torn, manager, output, callbacks, loop, thread, queue, windowVars>>
    BY <1>27 DEF Break, registryVars, managerVars, socketVars, windowVars
  <2> QED BY <2>1, <2>2, <2>3, <2>4 DEF TypeOK, BackendTypeOK, windowVars
<1>28. ASSUME SocketCloses PROVE TypeOK'
  <2>1. socket' \in [Sockets -> SocketStates]
    BY <1>28, SocketFields DEF TypeOK, BackendTypeOK, SocketCloses
  <2>2. status' \in {"none", "reconnecting", "disconnected"} /\ due' \in BOOLEAN
    BY <1>28 DEF TypeOK, BackendTypeOK, SocketCloses
  <2>3. UNCHANGED <<registry, configured, torn, manager, output, callbacks, loop, thread, queue, wire, troubles, panel, ws, replayed, recent, asked, seen>>
    BY <1>28 DEF SocketCloses, registryVars, managerVars, socketVars, windowVars
  <2> QED BY <2>1, <2>2, <2>3 DEF TypeOK, BackendTypeOK, windowVars
<1>29. CASE UNCHANGED vars
  BY <1>29 DEF TypeOK, BackendTypeOK, windowVars, registryVars, managerVars, socketVars, vars, backendVars
<1> QED BY <1>1, <1>2, <1>3, <1>4, <1>5, <1>6, <1>7, <1>8, <1>9, <1>10, <1>11, <1>12, <1>13, <1>14, <1>15, <1>16, <1>17, <1>18, <1>19, <1>20, <1>21, <1>22, <1>23, <1>24, <1>25, <1>26, <1>27, <1>28, <1>29 DEF Next, BackendNext, LoopStep, ShellStep, ReaderStep, StopStep, WorkspaceStep, WindowNext

-----------------------------------------------------------------------------
(* The sockets and what they follow *)

\* A socket that is over follows nobody ...
LEMMA OverFollows ==
  ASSUME TypeOK, FollowInv, NEW c \in Sockets, NEW end \in Ends, Over(c, end), output' = output
  PROVE  FollowInv'
<1>1. /\ socket'[c].at = "none"
      /\ \A d \in Sockets \ {c} : socket'[d] = socket[d]
  BY DEF Over, NewSocket, TypeOK, BackendTypeOK
<1> QED BY <1>1 DEF FollowInv, Serving

\* ... more output is no less to replay ...
LEMMA EmitFollows ==
  ASSUME TypeOK, FollowInv, NEW m \in Managers, NEW query \in BOOLEAN, Emit(m, query), socket' = socket
  PROVE  FollowInv'
<1>1. \A i \in Managers : Len(output[i]) \in Nat /\ Len(output'[i]) >= Len(output[i])
  BY DEF Emit, TypeOK, BackendTypeOK
<1>2. ASSUME NEW c \in Sockets, socket[c].at = "replaying"
      PROVE  socket[c].upto <= Len(output'[socket[c].manager])
  <2>1. socket[c].manager \in Managers /\ socket[c].upto \in Nat
    BY <1>2 DEF FollowInv, TypeOK, BackendTypeOK, SocketStates, Serving
  <2> QED BY <1>1, <1>2, <2>1 DEF FollowInv
<1> QED BY <1>2 DEF FollowInv

\* The other end of a link changes nothing of what a socket follows.
LEMMA LinkFollows ==
  ASSUME FollowInv, output' = output,
         \A c \in Sockets : /\ socket'[c].at = socket[c].at
                            /\ socket'[c].manager = socket[c].manager
                            /\ socket'[c].upto = socket[c].upto
  PROVE  FollowInv'
  BY DEF FollowInv

\* What the sockets follow, action by action.
LEMMA FollowStep ==
  ASSUME TypeOK, FollowInv, [Next]_vars
  PROVE  FollowInv'
<1>1. ASSUME Spawned, UNCHANGED windowVars PROVE FollowInv'
  <2>1. UNCHANGED <<socket, output>>
    BY <1>1 DEF Spawned, registryVars, managerVars, socketVars, windowVars, backendVars
  <2> QED BY <2>1 DEF FollowInv
<1>2. ASSUME SpawnFails, UNCHANGED windowVars PROVE FollowInv'
  <2>1. loop.socket \in Sockets /\ Over(loop.socket, "notFound") /\ output' = output
    BY <1>2 DEF SpawnFails, Refuse, TypeOK, BackendTypeOK
  <2> QED BY <2>1, OverFollows DEF Ends
<1>3. ASSUME Register, UNCHANGED windowVars PROVE FollowInv'
  <2>1. UNCHANGED <<socket, output>>
    BY <1>3 DEF Register, registryVars, managerVars, socketVars, windowVars, backendVars
  <2> QED BY <2>1 DEF FollowInv
<1>4. ASSUME Join, UNCHANGED windowVars PROVE FollowInv'
  <2>1. loop.socket \in Sockets /\ output' = output
    BY <1>4 DEF Join, TypeOK, BackendTypeOK
  <2>2. CASE registry = Nobody
    BY <1>4, <2>1, <2>2, OverFollows DEF Join, Refuse, Ends
  <2>3. CASE registry # Nobody
    <3>1. socket' = [socket EXCEPT ![loop.socket] =
                       [@ EXCEPT !.at = "accepted", !.manager = registry]]
      BY <1>4, <2>3 DEF Join
    <3>2. /\ socket'[loop.socket].at = "accepted" /\ socket'[loop.socket].manager = registry
          /\ \A d \in Sockets \ {loop.socket} : socket'[d] = socket[d]
      BY <2>1, <3>1 DEF TypeOK, BackendTypeOK, SocketStates
    <3>3. registry \in Managers
      BY <2>3 DEF TypeOK, BackendTypeOK, ManagerOrNot
    <3> QED BY <2>1, <3>2, <3>3 DEF FollowInv
  <2> QED BY <2>2, <2>3
<1>5. ASSUME NEW c \in Sockets, Handshake(c), UNCHANGED windowVars PROVE FollowInv'
  <2>1. CASE registry # Nobody
    <3>1. UNCHANGED <<socket, output>>
      BY <1>5, <2>1 DEF Handshake, managerVars, socketVars
    <3> QED BY <3>1 DEF FollowInv
  <2>2. CASE registry = Nobody /\ configured
    <3> DEFINE made == CHOOSE m \in Managers : Unheld(m)
    <3>1. /\ \E m \in Managers : Unheld(m)
          /\ output' = [output EXCEPT ![made] = <<>>]
          /\ socket' = socket
      BY <1>5, <2>2 DEF Handshake, socketVars
    <3>2. \A d \in Sockets : socket[d].manager # made
      BY <3>1 DEF Unheld
    <3> HIDE DEF made
    <3>3. \A i \in Managers \ {made} : output'[i] = output[i]
      BY <3>1 DEF TypeOK, BackendTypeOK
    <3> QED BY <3>1, <3>2, <3>3 DEF FollowInv, Serving
  <2>3. CASE registry = Nobody /\ ~configured
    <3>1. Over(c, "notFound") /\ output' = output
      BY <1>5, <2>3 DEF Handshake, Refuse
    <3> QED BY <3>1, OverFollows DEF Ends
  <2> QED BY <2>1, <2>2, <2>3
<1>6. ASSUME NEW c \in Sockets, Reject(c), UNCHANGED windowVars PROVE FollowInv'
  <2>1. Over(c, "unauthorized") /\ output' = output
    BY <1>6 DEF Reject, Refuse
  <2> QED BY <2>1, OverFollows DEF Ends
<1>7. ASSUME NEW c \in Sockets, Subscribe(c), UNCHANGED windowVars PROVE FollowInv'
  <2>1. /\ output' = output
        /\ socket' = [socket EXCEPT ![c] =
                       [@ EXCEPT !.at = "replaying", !.from = HeldFrom(socket[c].manager),
                                 !.upto = Len(output[socket[c].manager])]]
    BY <1>7 DEF Subscribe
  <2>2. socket[c].manager \in Managers
    BY <1>7 DEF Subscribe, FollowInv
  <2>3. /\ socket'[c].at = "replaying" /\ socket'[c].manager = socket[c].manager
        /\ socket'[c].upto = Len(output[socket[c].manager])
        /\ \A d \in Sockets \ {c} : socket'[d] = socket[d]
    BY <2>1 DEF TypeOK, BackendTypeOK, SocketStates
  <2>4. Len(output[socket[c].manager]) \in Nat
    BY <2>2 DEF TypeOK, BackendTypeOK
  <2> QED BY <2>1, <2>2, <2>3, <2>4 DEF FollowInv
<1>8. ASSUME NEW c \in Sockets, SendReplay(c), UNCHANGED windowVars PROVE FollowInv'
  <2>1. /\ output' = output
        /\ socket'[c].at = "serving" /\ socket'[c].manager = socket[c].manager
        /\ \A d \in Sockets \ {c} : socket'[d] = socket[d]
    BY <1>8 DEF SendReplay, managerVars, TypeOK, BackendTypeOK, SocketStates
  <2>2. socket[c].manager \in Managers
    BY <1>8 DEF SendReplay, FollowInv, Serving
  <2> QED BY <2>1, <2>2 DEF FollowInv
<1>9. ASSUME NEW c \in Sockets, Flush(c), UNCHANGED windowVars PROVE FollowInv'
  <2>1. UNCHANGED <<socket, output>>
    BY <1>9 DEF Flush, registryVars, managerVars, socketVars, windowVars, backendVars
  <2> QED BY <2>1 DEF FollowInv
<1>10. ASSUME NEW c \in Sockets, Gone(c), UNCHANGED windowVars PROVE FollowInv'
  <2>1. Over(c, "none") /\ output' = output
    BY <1>10 DEF Gone
  <2> QED BY <2>1, OverFollows DEF Ends
<1>11. ASSUME NEW m \in Managers, ShellExits(m), UNCHANGED windowVars PROVE FollowInv'
  <2>1. UNCHANGED <<socket, output>>
    BY <1>11 DEF ShellExits, registryVars, managerVars, socketVars, windowVars, backendVars
  <2> QED BY <2>1 DEF FollowInv
<1>12. ASSUME NEW m \in Managers, NEW query \in BOOLEAN, ShellWrites(m, query), UNCHANGED windowVars PROVE FollowInv'
  BY <1>12, EmitFollows DEF ShellWrites
<1>13. ASSUME NEW m \in Managers, ReaderLeaves(m), UNCHANGED windowVars PROVE FollowInv'
  BY <1>13, EmitFollows DEF ReaderLeaves
<1>14. ASSUME NEW m \in Managers, ReaderUnregisters(m), UNCHANGED windowVars PROVE FollowInv'
  <2>1. UNCHANGED <<socket, output>>
    BY <1>14 DEF ReaderUnregisters, registryVars, managerVars, socketVars, windowVars, backendVars
  <2> QED BY <2>1 DEF FollowInv
<1>15. ASSUME NEW m \in Managers, ReaderCloses(m), UNCHANGED windowVars PROVE FollowInv'
  <2>1. output' = output
    BY <1>15 DEF ReaderCloses
  <2>2. CASE socket' = socket
    BY <2>1, <2>2 DEF FollowInv
  <2>3. CASE socket' # socket
    <3>1. \E c \in Sockets : Over(c, "raised")
      BY <1>15, <2>3 DEF ReaderCloses, ClosePty
    <3> QED BY <2>1, <3>1, OverFollows DEF Ends
  <2> QED BY <2>2, <2>3
<1>16. ASSUME CloserPops, UNCHANGED windowVars PROVE FollowInv'
  <2>1. UNCHANGED <<socket, output>>
    BY <1>16 DEF CloserPops, registryVars, managerVars, socketVars, windowVars, backendVars
  <2> QED BY <2>1 DEF FollowInv
<1>17. ASSUME NEW t \in Threads, StopSignals(t), UNCHANGED windowVars PROVE FollowInv'
  <2>1. UNCHANGED <<socket, output>>
    BY <1>17 DEF StopSignals, registryVars, managerVars, socketVars, windowVars, backendVars
  <2> QED BY <2>1 DEF FollowInv
<1>18. ASSUME NEW t \in Threads, StopCloses(t), UNCHANGED windowVars PROVE FollowInv'
  <2>1. output' = output
    BY <1>18 DEF StopCloses
  <2>2. CASE socket' = socket
    BY <2>1, <2>2 DEF FollowInv
  <2>3. CASE socket' # socket
    <3>1. \E c \in Sockets : Over(c, "raised")
      BY <1>18, <2>3 DEF StopCloses, ClosePty
    <3> QED BY <2>1, <3>1, OverFollows DEF Ends
  <2> QED BY <2>2, <2>3
<1>19. ASSUME StartWorkspace, UNCHANGED windowVars PROVE FollowInv'
  <2>1. UNCHANGED <<socket, output>>
    BY <1>19 DEF StartWorkspace, registryVars, managerVars, socketVars, windowVars, backendVars
  <2> QED BY <2>1 DEF FollowInv
<1>20. ASSUME TearDown, UNCHANGED windowVars PROVE FollowInv'
  <2>1. UNCHANGED <<socket, output>>
    BY <1>20 DEF TearDown, registryVars, managerVars, socketVars, windowVars, backendVars
  <2> QED BY <2>1 DEF FollowInv
<1>21. ASSUME Mount PROVE FollowInv'
  <2>1. UNCHANGED <<socket, output>>
    BY <1>21 DEF Mount, registryVars, managerVars, socketVars, windowVars, backendVars
  <2> QED BY <2>1 DEF FollowInv
<1>22. ASSUME Unmount PROVE FollowInv'
  <2>1. output' = output
    BY <1>22 DEF Unmount, Leave, managerVars
  <2>2. \A c \in Sockets : /\ socket'[c].at = socket[c].at
                          /\ socket'[c].manager = socket[c].manager
                          /\ socket'[c].upto = socket[c].upto
    BY <1>22 DEF Unmount, Leave, TypeOK, BackendTypeOK, SocketStates
  <2> QED BY <2>1, <2>2, LinkFollows
<1>23. ASSUME ConfirmClose PROVE FollowInv'
  <2>1. output' = output
    BY <1>23 DEF ConfirmClose, Leave, managerVars
  <2>2. \A c \in Sockets : /\ socket'[c].at = socket[c].at
                          /\ socket'[c].manager = socket[c].manager
                          /\ socket'[c].upto = socket[c].upto
    BY <1>23 DEF ConfirmClose, Leave, TypeOK, BackendTypeOK, SocketStates
  <2> QED BY <2>1, <2>2, LinkFollows
<1>24. ASSUME Connect PROVE FollowInv'
  <2> DEFINE c == CHOOSE c \in Sockets : Free(c)
  <2>1. c \in Sockets
    BY <1>24 DEF Connect
  <2>2. output' = output /\ socket' = [socket EXCEPT ![c] = NewSocket("asked", "up", "none")]
    BY <1>24 DEF Connect, managerVars
  <2> HIDE DEF c
  <2>3. socket'[c].at = "asked" /\ \A d \in Sockets \ {c} : socket'[d] = socket[d]
    BY <2>1, <2>2 DEF NewSocket, TypeOK, BackendTypeOK
  <2> QED BY <2>2, <2>3 DEF FollowInv, Serving
<1>25. ASSUME Receive PROVE FollowInv'
  <2>1. UNCHANGED <<socket, output>>
    BY <1>25 DEF Receive, registryVars, managerVars, socketVars, windowVars, backendVars
  <2> QED BY <2>1 DEF FollowInv
<1>26. ASSUME QueryAges PROVE FollowInv'
  <2>1. UNCHANGED <<socket, output>>
    BY <1>26 DEF QueryAges, registryVars, managerVars, socketVars, windowVars, backendVars
  <2> QED BY <2>1 DEF FollowInv
<1>27. ASSUME Break PROVE FollowInv'
  <2>1. output' = output
    BY <1>27 DEF Break, managerVars
  <2>2. \A c \in Sockets : /\ socket'[c].at = socket[c].at
                          /\ socket'[c].manager = socket[c].manager
                          /\ socket'[c].upto = socket[c].upto
    BY <1>27 DEF Break, TypeOK, BackendTypeOK, SocketStates
  <2> QED BY <2>1, <2>2, LinkFollows
<1>28. ASSUME SocketCloses PROVE FollowInv'
  <2>1. output' = output
    BY <1>28 DEF SocketCloses, managerVars
  <2>2. \A c \in Sockets : /\ socket'[c].at = socket[c].at
                          /\ socket'[c].manager = socket[c].manager
                          /\ socket'[c].upto = socket[c].upto
    BY <1>28 DEF SocketCloses, TypeOK, BackendTypeOK, SocketStates
  <2> QED BY <2>1, <2>2, LinkFollows
<1>29. CASE UNCHANGED vars
  BY <1>29 DEF FollowInv, vars, backendVars, managerVars, socketVars
<1> QED BY <1>1, <1>2, <1>3, <1>4, <1>5, <1>6, <1>7, <1>8, <1>9, <1>10, <1>11, <1>12, <1>13, <1>14, <1>15, <1>16, <1>17, <1>18, <1>19, <1>20, <1>21, <1>22, <1>23, <1>24, <1>25, <1>26, <1>27, <1>28, <1>29 DEF Next, BackendNext, LoopStep, ShellStep, ReaderStep, StopStep, WorkspaceStep, WindowNext

-----------------------------------------------------------------------------
(* The links *)

LEMMA OverKeepsLinks ==
  ASSUME TypeOK, NEW c \in Sockets, NEW end \in Ends, Over(c, end)
  PROVE  \A d \in Sockets : socket'[d].link = socket[d].link
  BY DEF Over, NewSocket, TypeOK, BackendTypeOK, SocketStates

LEMMA SentOverLinks ==
  ASSUME TypeOK, NEW c \in Sockets, NEW frame, Sent(c, frame)
  PROVE  \A d \in Sockets : socket[d].link # "up" => wire'[d] = wire[d]
  BY DEF Sent, TypeOK, BackendTypeOK

\* The backend ends no link, and sends nothing over one that is gone.
LEMMA BackendKeepsLinks ==
  ASSUME TypeOK, LinkInv, UNCHANGED windowVars,
         \A c \in Sockets : /\ socket'[c].link = socket[c].link
                            /\ socket[c].link # "up" => wire'[c] = wire[c]
  PROVE  LinkInv'
<1>1. UNCHANGED <<ws, due, panel>>
  BY DEF windowVars
<1>2. ws # NoSocket => ws \in Sockets
  BY DEF TypeOK
<1>3. \A c \in Sockets : /\ socket'[c].link # "up" => wire'[c] = <<>>
                         /\ c # ws' => socket'[c].link # "up"
  BY <1>1 DEF LinkInv
<1>4. due' /\ ws' # NoSocket => socket'[ws'].link # "up"
  BY <1>1, <1>2 DEF LinkInv
<1> QED BY <1>1, <1>3, <1>4 DEF LinkInv

\* The links, action by action.
LEMMA LinkStep ==
  ASSUME TypeOK, LinkInv, [Next]_vars
  PROVE  LinkInv'
<1>1. ASSUME Spawned, UNCHANGED windowVars PROVE LinkInv'
  <2>1. UNCHANGED <<socket, wire>>
    BY <1>1 DEF Spawned, registryVars, managerVars, socketVars, windowVars
  <2> QED BY <1>1, <2>1, BackendKeepsLinks
<1>2. ASSUME SpawnFails, UNCHANGED windowVars PROVE LinkInv'
  <2>1. loop.socket \in Sockets /\ Refuse(loop.socket, "notFound")
    BY <1>2 DEF SpawnFails, TypeOK, BackendTypeOK
  <2> QED BY <1>2, <2>1, OverKeepsLinks, SentOverLinks, BackendKeepsLinks DEF Refuse, Ends
<1>3. ASSUME Register, UNCHANGED windowVars PROVE LinkInv'
  <2>1. UNCHANGED <<socket, wire>>
    BY <1>3 DEF Register, registryVars, managerVars, socketVars, windowVars
  <2> QED BY <1>3, <2>1, BackendKeepsLinks
<1>4. ASSUME Join, UNCHANGED windowVars PROVE LinkInv'
  <2>1. loop.socket \in Sockets
    BY <1>4 DEF Join, TypeOK, BackendTypeOK
  <2>2. CASE registry = Nobody
    <3>1. Refuse(loop.socket, "notFound")
      BY <1>4, <2>2 DEF Join
    <3> QED BY <1>4, <2>1, <3>1, OverKeepsLinks, SentOverLinks, BackendKeepsLinks DEF Refuse, Ends
  <2>3. CASE registry # Nobody
    <3>1. /\ socket' = [socket EXCEPT ![loop.socket] =
                          [@ EXCEPT !.at = "accepted", !.manager = registry]]
          /\ Sent(loop.socket, <<>>)
      BY <1>4, <2>3 DEF Join
    <3>2. \A d \in Sockets : socket'[d].link = socket[d].link
      BY <2>1, <3>1 DEF TypeOK, BackendTypeOK, SocketStates
    <3> QED BY <1>4, <2>1, <3>1, <3>2, SentOverLinks, BackendKeepsLinks
  <2> QED BY <2>2, <2>3
<1>5. ASSUME NEW c \in Sockets, Handshake(c), UNCHANGED windowVars PROVE LinkInv'
  <2>1. CASE UNCHANGED socketVars
    <3>1. UNCHANGED <<socket, wire>>
      BY <2>1 DEF socketVars
    <3> QED BY <1>5, <3>1, BackendKeepsLinks
  <2>2. CASE Refuse(c, "notFound")
    BY <1>5, <2>2, OverKeepsLinks, SentOverLinks, BackendKeepsLinks DEF Refuse, Ends
  <2> QED BY <1>5, <2>1, <2>2 DEF Handshake
<1>6. ASSUME NEW c \in Sockets, Reject(c), UNCHANGED windowVars PROVE LinkInv'
  <2>1. c \in Sockets /\ Refuse(c, "unauthorized")
    BY <1>6 DEF Reject, TypeOK, BackendTypeOK
  <2> QED BY <1>6, <2>1, OverKeepsLinks, SentOverLinks, BackendKeepsLinks DEF Refuse, Ends
<1>7. ASSUME NEW c \in Sockets, Subscribe(c), UNCHANGED windowVars PROVE LinkInv'
  <2>1. wire' = wire /\ \A d \in Sockets : socket'[d].link = socket[d].link
    BY <1>7 DEF Subscribe, TypeOK, BackendTypeOK, SocketStates
  <2> QED BY <1>7, <2>1, BackendKeepsLinks
<1>8. ASSUME NEW c \in Sockets, SendReplay(c), UNCHANGED windowVars PROVE LinkInv'
  <2>1. \A d \in Sockets : socket'[d].link = socket[d].link
    BY <1>8 DEF SendReplay, TypeOK, BackendTypeOK, SocketStates
  <2>2. \A d \in Sockets : socket[d].link # "up" => wire'[d] = wire[d]
    <3>1. wire' = wire \/ Sent(c, Taken(c))
      BY <1>8 DEF SendReplay
    <3> QED BY <3>1, SentOverLinks
  <2> QED BY <1>8, <2>1, <2>2, BackendKeepsLinks
<1>9. ASSUME NEW c \in Sockets, Flush(c), UNCHANGED windowVars PROVE LinkInv'
  <2>1. socket' = socket /\ Sent(c, queue[c])
    BY <1>9 DEF Flush
  <2> QED BY <1>9, <2>1, SentOverLinks, BackendKeepsLinks
<1>10. ASSUME NEW c \in Sockets, Gone(c), UNCHANGED windowVars PROVE LinkInv'
  <2>1. wire' = wire /\ Over(c, "none")
    BY <1>10 DEF Gone
  <2> QED BY <1>10, <2>1, OverKeepsLinks, BackendKeepsLinks DEF Ends
<1>11. ASSUME NEW m \in Managers, ShellExits(m), UNCHANGED windowVars PROVE LinkInv'
  <2>1. UNCHANGED <<socket, wire>>
    BY <1>11 DEF ShellExits, registryVars, managerVars, socketVars, windowVars
  <2> QED BY <1>11, <2>1, BackendKeepsLinks
<1>12. ASSUME NEW m \in Managers, NEW query \in BOOLEAN, ShellWrites(m, query), UNCHANGED windowVars PROVE LinkInv'
  <2>1. UNCHANGED <<socket, wire>>
    BY <1>12 DEF ShellWrites, registryVars, managerVars, socketVars, windowVars
  <2> QED BY <1>12, <2>1, BackendKeepsLinks
<1>13. ASSUME NEW m \in Managers, ReaderLeaves(m), UNCHANGED windowVars PROVE LinkInv'
  <2>1. UNCHANGED <<socket, wire>>
    BY <1>13 DEF ReaderLeaves, registryVars, managerVars, socketVars, windowVars
  <2> QED BY <1>13, <2>1, BackendKeepsLinks
<1>14. ASSUME NEW m \in Managers, ReaderUnregisters(m), UNCHANGED windowVars PROVE LinkInv'
  <2>1. UNCHANGED <<socket, wire>>
    BY <1>14 DEF ReaderUnregisters, registryVars, managerVars, socketVars, windowVars
  <2> QED BY <1>14, <2>1, BackendKeepsLinks
<1>15. ASSUME NEW m \in Managers, ReaderCloses(m), UNCHANGED windowVars PROVE LinkInv'
  <2>1. wire' = wire
    BY <1>15 DEF ReaderCloses
  <2>2. CASE socket' = socket
    BY <1>15, <2>1, <2>2, BackendKeepsLinks
  <2>3. CASE socket' # socket
    <3>1. \E c \in Sockets : Over(c, "raised")
      BY <1>15, <2>3 DEF ReaderCloses, ClosePty
    <3> QED BY <1>15, <2>1, <3>1, OverKeepsLinks, BackendKeepsLinks DEF Ends
  <2> QED BY <2>2, <2>3
<1>16. ASSUME CloserPops, UNCHANGED windowVars PROVE LinkInv'
  <2>1. UNCHANGED <<socket, wire>>
    BY <1>16 DEF CloserPops, registryVars, managerVars, socketVars, windowVars
  <2> QED BY <1>16, <2>1, BackendKeepsLinks
<1>17. ASSUME NEW t \in Threads, StopSignals(t), UNCHANGED windowVars PROVE LinkInv'
  <2>1. UNCHANGED <<socket, wire>>
    BY <1>17 DEF StopSignals, registryVars, managerVars, socketVars, windowVars
  <2> QED BY <1>17, <2>1, BackendKeepsLinks
<1>18. ASSUME NEW t \in Threads, StopCloses(t), UNCHANGED windowVars PROVE LinkInv'
  <2>1. wire' = wire
    BY <1>18 DEF StopCloses
  <2>2. CASE socket' = socket
    BY <1>18, <2>1, <2>2, BackendKeepsLinks
  <2>3. CASE socket' # socket
    <3>1. \E c \in Sockets : Over(c, "raised")
      BY <1>18, <2>3 DEF StopCloses, ClosePty
    <3> QED BY <1>18, <2>1, <3>1, OverKeepsLinks, BackendKeepsLinks DEF Ends
  <2> QED BY <2>2, <2>3
<1>19. ASSUME StartWorkspace, UNCHANGED windowVars PROVE LinkInv'
  <2>1. UNCHANGED <<socket, wire>>
    BY <1>19 DEF StartWorkspace, registryVars, managerVars, socketVars, windowVars
  <2> QED BY <1>19, <2>1, BackendKeepsLinks
<1>20. ASSUME TearDown, UNCHANGED windowVars PROVE LinkInv'
  <2>1. UNCHANGED <<socket, wire>>
    BY <1>20 DEF TearDown, registryVars, managerVars, socketVars, windowVars
  <2> QED BY <1>20, <2>1, BackendKeepsLinks
<1>21. ASSUME Mount PROVE LinkInv'
  <2>1. UNCHANGED <<socket, wire, ws>> /\ panel = "unmounted" /\ panel' = "mounted"
    BY <1>21 DEF Mount, backendVars, socketVars
  <2> QED BY <2>1 DEF LinkInv
<1>22. ASSUME Unmount PROVE LinkInv'
  <2>1. ws' = NoSocket /\ due' = FALSE
    BY <1>22 DEF Unmount, Leave
  <2>2. \A c \in Sockets : IF c = ws THEN socket'[c].link = "closed" /\ wire'[c] = <<>>
                          ELSE socket'[c] = socket[c] /\ wire'[c] = wire[c]
    BY <1>22 DEF Unmount, Leave, TypeOK, BackendTypeOK, SocketStates
  <2> QED BY <2>1, <2>2 DEF LinkInv
<1>23. ASSUME ConfirmClose PROVE LinkInv'
  <2>1. ws' = NoSocket /\ due' = FALSE
    BY <1>23 DEF ConfirmClose, Leave
  <2>2. \A c \in Sockets : IF c = ws THEN socket'[c].link = "closed" /\ wire'[c] = <<>>
                          ELSE socket'[c] = socket[c] /\ wire'[c] = wire[c]
    BY <1>23 DEF ConfirmClose, Leave, TypeOK, BackendTypeOK, SocketStates
  <2> QED BY <2>1, <2>2 DEF LinkInv
<1>24. ASSUME Connect PROVE LinkInv'
  <2> DEFINE c == CHOOSE c \in Sockets : Free(c)
  <2>1. c \in Sockets /\ Free(c)
    BY <1>24 DEF Connect
  <2>2. /\ ws' = c /\ due /\ due' = FALSE /\ UNCHANGED <<wire, panel>>
        /\ socket' = [socket EXCEPT ![c] = NewSocket("asked", "up", "none")]
    BY <1>24 DEF Connect
  <2> HIDE DEF c
  <2>3. socket'[c].link = "up" /\ \A d \in Sockets \ {c} : socket'[d] = socket[d]
    BY <2>1, <2>2 DEF NewSocket, TypeOK, BackendTypeOK
  <2>4. \A d \in Sockets : socket[d].link # "up"
    BY <2>2, TerminalAssumption DEF LinkInv, TypeOK
  <2> QED BY <2>1, <2>2, <2>3, <2>4 DEF LinkInv
<1>25. ASSUME Receive PROVE LinkInv'
  <2>1. UNCHANGED <<socket, ws, due, panel>> /\ ws \in Sockets /\ wire[ws] # <<>>
    BY <1>25 DEF Receive, TypeOK
  <2>2. \A c \in Sockets \ {ws} : wire'[c] = wire[c]
    BY <1>25 DEF Receive, TypeOK, BackendTypeOK
  <2> QED BY <2>1, <2>2 DEF LinkInv
<1>26. ASSUME QueryAges PROVE LinkInv'
  <2>1. UNCHANGED <<socket, wire, ws, due, panel>>
    BY <1>26 DEF QueryAges, backendVars, socketVars
  <2> QED BY <2>1 DEF LinkInv
<1>27. ASSUME Break PROVE LinkInv'
  <2>1. /\ UNCHANGED <<ws, due, panel>> /\ ws \in Sockets
        /\ socket'[ws].link = "lost" /\ wire'[ws] = <<>>
        /\ \A d \in Sockets \ {ws} : socket'[d] = socket[d] /\ wire'[d] = wire[d]
    BY <1>27 DEF Break, windowVars, TypeOK, BackendTypeOK, SocketStates
  <2> QED BY <2>1 DEF LinkInv
<1>28. ASSUME SocketCloses PROVE LinkInv'
  <2>1. /\ UNCHANGED <<ws, panel, wire>> /\ ws \in Sockets
        /\ socket'[ws].link = "closed"
        /\ \A d \in Sockets \ {ws} : socket'[d] = socket[d]
    BY <1>28 DEF SocketCloses, TypeOK, BackendTypeOK, SocketStates
  <2>2. wire[ws] = <<>>
    BY <1>28, <2>1 DEF SocketCloses, LinkInv
  <2>3. panel # "mounted" => ws = NoSocket
    BY DEF LinkInv
  <2>4. panel = "mounted"
    BY <2>1, <2>3, TerminalAssumption
  <2> QED BY <2>1, <2>2, <2>4 DEF LinkInv
<1>29. CASE UNCHANGED vars
  BY <1>29 DEF LinkInv, vars, backendVars, socketVars, windowVars
<1> QED BY <1>1, <1>2, <1>3, <1>4, <1>5, <1>6, <1>7, <1>8, <1>9, <1>10, <1>11, <1>12, <1>13, <1>14, <1>15, <1>16, <1>17, <1>18, <1>19, <1>20, <1>21, <1>22, <1>23, <1>24, <1>25, <1>26, <1>27, <1>28, <1>29 DEF Next, BackendNext, LoopStep, ShellStep, ReaderStep, StopStep, WorkspaceStep, WindowNext

-----------------------------------------------------------------------------
(* The frames *)

\* Nothing is sent, and the socket waits no more than before.
LEMMA ReplayStaysFirst ==
  ASSUME NEW c \in Sockets, ReplayFirst(c), Live(queue'[c]), Waiting(c)' => Waiting(c),
         wire'[c] = wire[c] \/ wire'[c] = <<>>,
         ~replayed' \/ UNCHANGED <<ws, replayed>>
  PROVE  ReplayFirst(c)'
<1>1. CASE wire'[c] = <<>>
  <2>1. DOMAIN wire'[c] = {}
    BY <1>1
  <2>2. c = ws' => (Waiting(c)' => ~replayed')
    BY DEF ReplayFirst, Silent
  <2> QED BY <2>1, <2>2 DEF ReplayFirst, Silent
<1>2. CASE wire'[c] = wire[c]
  BY <1>2 DEF ReplayFirst, Silent
<1> QED BY <1>1, <1>2

\* A frame that is live, or that is the first output, may be sent.
LEMMA ReplayFirstSends ==
  ASSUME TypeOK, NEW c \in Sockets, ReplayFirst(c), NEW frame \in Seq(Chunks),
         Live(queue'[c]), Waiting(c)' => Waiting(c) /\ frame = <<>>,
         Live(frame) \/ Waiting(c),
         wire'[c] = Append(wire[c], frame), UNCHANGED <<ws, replayed>>
  PROVE  ReplayFirst(c)'
<1>1. /\ wire[c] \in Seq(Seq(Chunks)) /\ Len(wire[c]) \in Nat
      /\ DOMAIN wire[c] = 1..Len(wire[c]) /\ DOMAIN wire'[c] = 1..Len(wire[c]) + 1
      /\ wire'[c][Len(wire[c]) + 1] = frame
      /\ \A i \in 1..Len(wire[c]) : wire'[c][i] = wire[c][i]
  BY DEF TypeOK, BackendTypeOK
<1>2. Waiting(c)' => Silent(c)'
  BY <1>1 DEF ReplayFirst, Silent
<1>3. ASSUME NEW j \in DOMAIN wire'[c]
      PROVE  \/ Live(wire'[c][j])
             \/ (\A i \in 1..j - 1 : wire'[c][i] = <<>>) /\ (c = ws' => ~replayed')
  <2>1. CASE j \in 1..Len(wire[c])
    <3>1. \A i \in 1..j - 1 : i \in 1..Len(wire[c])
      BY <1>1, <2>1
    <3>2. \/ Live(wire[c][j])
          \/ (\A i \in 1..j - 1 : wire[c][i] = <<>>) /\ (c = ws => ~replayed)
      BY <1>1, <2>1 DEF ReplayFirst
    <3>3. wire'[c][j] = wire[c][j]
      BY <1>1, <2>1
    <3>4. CASE Live(wire[c][j])
      BY <3>3, <3>4
    <3>5. CASE (\A i \in 1..j - 1 : wire[c][i] = <<>>) /\ (c = ws => ~replayed)
      BY <1>1, <3>1, <3>5
    <3> QED BY <3>2, <3>4, <3>5
  <2>2. CASE j = Len(wire[c]) + 1
    <3>1. CASE Live(frame)
      BY <1>1, <2>2, <3>1
    <3>2. CASE Waiting(c)
      <4>1. 1..j - 1 = 1..Len(wire[c])
        BY <1>1, <2>2
      <4> QED BY <1>1, <3>2, <4>1 DEF ReplayFirst, Silent
    <3> QED BY <3>1, <3>2
  <2> QED BY <1>1, <2>1, <2>2
<1> QED BY <1>2, <1>3 DEF ReplayFirst

\* What a socket sends reaches the wire, or is lost with the link.
LEMMA SentReplayFirst ==
  ASSUME TypeOK, FrameInv, NEW c \in Sockets, NEW frame \in Seq(Chunks),
         Sent(c, frame), Live(frame) \/ Waiting(c),
         Waiting(c)' => Waiting(c) /\ frame = <<>>,
         Live(queue'[c]), UNCHANGED <<ws, replayed>>,
         \A d \in Sockets \ {c} : socket'[d] = socket[d] /\ queue'[d] = queue[d]
  PROVE  \A d \in Sockets : ReplayFirst(d)'
<1> TAKE d \in Sockets
<1>1. ReplayFirst(d) /\ Live(queue'[d])
  BY DEF FrameInv, ReplayFirst
<1>2. CASE wire'[d] = wire[d]
  <2>1. Waiting(d)' => Waiting(d)
    BY DEF Waiting
  <2> QED BY <1>1, <1>2, <2>1, ReplayStaysFirst
<1>3. CASE wire'[d] # wire[d]
  <2>1. d = c /\ wire'[c] = Append(wire[c], frame)
    BY <1>3 DEF Sent, TypeOK, BackendTypeOK
  <2> QED BY <1>1, <2>1, ReplayFirstSends
<1> QED BY <1>2, <1>3

LEMMA NothingIsLive ==
  Live(<<>>)
  BY DEF Live

LEMMA OverFields ==
  ASSUME TypeOK, NEW c \in Sockets, NEW end \in Ends, Over(c, end)
  PROVE  /\ ~Waiting(c)' /\ Live(queue'[c]) /\ socket'[c].at = "none"
         /\ \A d \in Sockets \ {c} : socket'[d] = socket[d] /\ queue'[d] = queue[d]
  BY NothingIsLive DEF Over, NewSocket, Waiting, TypeOK, BackendTypeOK

LEMMA RefuseReplayFirst ==
  ASSUME TypeOK, FrameInv, NEW c \in Sockets, NEW end \in Ends, Refuse(c, end),
         UNCHANGED <<ws, replayed>>
  PROVE  \A d \in Sockets : ReplayFirst(d)'
<1>1. <<>> \in Seq(Chunks) /\ Live(<<>>)
  BY NothingIsLive
<1>2. Over(c, end) /\ Sent(c, <<>>)
  BY DEF Refuse
<1> QED BY <1>1, <1>2, OverFields, SentReplayFirst

LEMMA OverReplayFirst ==
  ASSUME TypeOK, FrameInv, NEW c \in Sockets, NEW end \in Ends, Over(c, end),
         UNCHANGED <<ws, replayed, wire>>
  PROVE  \A d \in Sockets : ReplayFirst(d)'
<1> TAKE d \in Sockets
<1>1. ReplayFirst(d) /\ Live(queue'[d])
  BY OverFields DEF FrameInv, ReplayFirst
<1>2. Waiting(d)' => Waiting(d)
  BY OverFields DEF Waiting
<1> QED BY <1>1, <1>2, ReplayStaysFirst

LEMMA EmitReplayFirst ==
  ASSUME TypeOK, FrameInv, NEW m \in Managers, NEW query \in BOOLEAN, Emit(m, query),
         UNCHANGED <<ws, replayed, wire, socket>>
  PROVE  \A d \in Sockets : ReplayFirst(d)'
<1> TAKE d \in Sockets
<1>1. ReplayFirst(d) /\ queue[d] \in Seq(Chunks)
  BY DEF FrameInv, TypeOK, BackendTypeOK
<1> DEFINE new == [n |-> Len(output[m]) + 1, query |-> query, live |-> TRUE]
<1>2. queue'[d] = queue[d] \/ queue'[d] = Append(queue[d], new)
  BY DEF Emit
<1>3. Live(Append(queue[d], new))
  <2>1. new \in Chunks /\ new.live
    BY DEF Chunks, TypeOK, BackendTypeOK
  <2> HIDE DEF new
  <2>2. \A i \in DOMAIN Append(queue[d], new) :
           \/ Append(queue[d], new)[i] = new
           \/ i \in DOMAIN queue[d] /\ Append(queue[d], new)[i] = queue[d][i]
    BY <1>1, <2>1
  <2>3. \A i \in DOMAIN queue[d] : queue[d][i].live
    BY <1>1 DEF ReplayFirst, Live
  <2>4. \A i \in DOMAIN Append(queue[d], new) : Append(queue[d], new)[i].live
    BY <2>1, <2>2, <2>3
  <2> QED BY <2>4 DEF Live
<1>4. Live(queue'[d])
  BY <1>1, <1>2, <1>3 DEF ReplayFirst
<1>5. Waiting(d)' => Waiting(d)
  BY DEF Waiting
<1> QED BY <1>1, <1>4, <1>5, ReplayStaysFirst

\* A step that sends nothing and lets no socket wait anew.
LEMMA QuietReplayFirst ==
  ASSUME FrameInv, queue' = queue, ~replayed' \/ UNCHANGED <<ws, replayed>>,
         \A c \in Sockets : /\ Waiting(c)' => Waiting(c)
                            /\ wire'[c] = wire[c] \/ wire'[c] = <<>>
  PROVE  \A d \in Sockets : ReplayFirst(d)'
<1> TAKE d \in Sockets
<1>1. ReplayFirst(d) /\ Live(queue'[d])
  BY DEF FrameInv, ReplayFirst
<1> QED BY <1>1, ReplayStaysFirst

\* The order of the frames, action by action.
LEMMA FramesStep ==
  ASSUME TypeOK, FollowInv, LinkInv, FrameInv, [Next]_vars
  PROVE  \A d \in Sockets : ReplayFirst(d)'
<1>1. ASSUME Spawned, UNCHANGED windowVars PROVE \A d \in Sockets : ReplayFirst(d)'
  <2>1. UNCHANGED <<socket, queue, wire, ws, replayed>>
    BY <1>1 DEF Spawned, registryVars, managerVars, socketVars, windowVars
  <2> QED BY <2>1, QuietReplayFirst DEF Waiting
<1>2. ASSUME SpawnFails, UNCHANGED windowVars PROVE \A d \in Sockets : ReplayFirst(d)'
  <2>1. loop.socket \in Sockets /\ Refuse(loop.socket, "notFound") /\ UNCHANGED <<ws, replayed>>
    BY <1>2 DEF SpawnFails, TypeOK, BackendTypeOK, windowVars
  <2> QED BY <2>1, RefuseReplayFirst DEF Ends
<1>3. ASSUME Register, UNCHANGED windowVars PROVE \A d \in Sockets : ReplayFirst(d)'
  <2>1. UNCHANGED <<socket, queue, wire, ws, replayed>>
    BY <1>3 DEF Register, registryVars, managerVars, socketVars, windowVars
  <2> QED BY <2>1, QuietReplayFirst DEF Waiting
<1>4. ASSUME Join, UNCHANGED windowVars PROVE \A d \in Sockets : ReplayFirst(d)'
  <2>1. loop.socket \in Sockets /\ UNCHANGED <<ws, replayed>>
    BY <1>4 DEF Join, TypeOK, BackendTypeOK, windowVars
  <2>2. CASE registry = Nobody
    <3>1. Refuse(loop.socket, "notFound")
      BY <1>4, <2>2 DEF Join
    <3> QED BY <2>1, <3>1, RefuseReplayFirst DEF Ends
  <2>3. CASE registry # Nobody
    <3>1. /\ socket' = [socket EXCEPT ![loop.socket] =
                          [@ EXCEPT !.at = "accepted", !.manager = registry]]
          /\ Sent(loop.socket, <<>>) /\ queue' = queue
      BY <1>4, <2>3 DEF Join
    <3>2. \A d \in Sockets \ {loop.socket} : socket'[d] = socket[d] /\ queue'[d] = queue[d]
      BY <3>1 DEF TypeOK, BackendTypeOK
    <3>3. Waiting(loop.socket)
      BY <1>4 DEF Join, FrameInv, Waiting
    <3>4. <<>> \in Seq(Chunks) /\ Live(queue'[loop.socket])
      BY <2>1, <3>1 DEF FrameInv, ReplayFirst
    <3> QED BY <2>1, <3>1, <3>2, <3>3, <3>4, SentReplayFirst
  <2> QED BY <2>2, <2>3
<1>5. ASSUME NEW c \in Sockets, Handshake(c), UNCHANGED windowVars PROVE \A d \in Sockets : ReplayFirst(d)'
  <2>1. CASE UNCHANGED socketVars
    <3>1. UNCHANGED <<socket, queue, wire, ws, replayed>>
      BY <1>5, <2>1 DEF socketVars, windowVars
    <3> QED BY <3>1, QuietReplayFirst DEF Waiting
  <2>2. CASE Refuse(c, "notFound")
    BY <1>5, <2>2, RefuseReplayFirst DEF Ends, windowVars
  <2> QED BY <1>5, <2>1, <2>2 DEF Handshake
<1>6. ASSUME NEW c \in Sockets, Reject(c), UNCHANGED windowVars PROVE \A d \in Sockets : ReplayFirst(d)'
  <2>1. c \in Sockets /\ Refuse(c, "unauthorized") /\ UNCHANGED <<ws, replayed>>
    BY <1>6 DEF Reject, TypeOK, BackendTypeOK, windowVars
  <2> QED BY <2>1, RefuseReplayFirst DEF Ends
<1>7. ASSUME NEW c \in Sockets, Subscribe(c), UNCHANGED windowVars PROVE \A d \in Sockets : ReplayFirst(d)'
  <2>1. UNCHANGED <<queue, wire, ws, replayed>>
    BY <1>7 DEF Subscribe, windowVars
  <2>2. \A d \in Sockets \ {c} : socket'[d] = socket[d]
    BY <1>7 DEF Subscribe, TypeOK, BackendTypeOK
  <2>3. Waiting(c)
    BY <1>7 DEF Subscribe, Waiting
  <2> QED BY <2>1, <2>2, <2>3, QuietReplayFirst DEF Waiting
<1>8. ASSUME NEW c \in Sockets, SendReplay(c), UNCHANGED windowVars PROVE \A d \in Sockets : ReplayFirst(d)'
  <2>1. Waiting(c) /\ ~Waiting(c)' /\ Live(queue'[c]) /\ UNCHANGED <<ws, replayed>> /\ queue' = queue
    BY <1>8 DEF SendReplay, Waiting, windowVars, TypeOK, BackendTypeOK, SocketStates, FrameInv, ReplayFirst
  <2>2. \A d \in Sockets \ {c} : socket'[d] = socket[d] /\ queue'[d] = queue[d]
    BY <1>8, <2>1 DEF SendReplay, TypeOK, BackendTypeOK
  <2>3. CASE wire' = wire
    BY <2>1, <2>2, <2>3, QuietReplayFirst DEF Waiting
  <2>4. CASE Sent(c, Taken(c))
    <3>1. Taken(c) \in Seq(Chunks)
      BY <1>8, TakenTyped DEF SendReplay, TypeOK
    <3> QED BY <2>1, <2>2, <2>4, <3>1, SentReplayFirst
  <2> QED BY <1>8, <2>3, <2>4 DEF SendReplay
<1>9. ASSUME NEW c \in Sockets, Flush(c), UNCHANGED windowVars PROVE \A d \in Sockets : ReplayFirst(d)'
  <2>1. /\ Sent(c, queue[c]) /\ socket' = socket /\ queue' = [queue EXCEPT ![c] = <<>>]
        /\ ~Waiting(c) /\ UNCHANGED <<ws, replayed>>
    BY <1>9 DEF Flush, Waiting, windowVars
  <2>2. queue[c] \in Seq(Chunks) /\ Live(queue[c])
    BY DEF TypeOK, BackendTypeOK, FrameInv, ReplayFirst
  <2>3. Live(queue'[c]) /\ \A d \in Sockets \ {c} : queue'[d] = queue[d]
    BY <2>1, NothingIsLive DEF TypeOK, BackendTypeOK
  <2>4. ~Waiting(c)'
    BY <2>1 DEF Waiting
  <2> QED BY <2>1, <2>2, <2>3, <2>4, SentReplayFirst
<1>10. ASSUME NEW c \in Sockets, Gone(c), UNCHANGED windowVars PROVE \A d \in Sockets : ReplayFirst(d)'
  <2>1. UNCHANGED <<ws, replayed, wire>> /\ Over(c, "none")
    BY <1>10 DEF Gone, windowVars
  <2> QED BY <2>1, OverReplayFirst DEF Ends
<1>11. ASSUME NEW m \in Managers, ShellExits(m), UNCHANGED windowVars PROVE \A d \in Sockets : ReplayFirst(d)'
  <2>1. UNCHANGED <<socket, queue, wire, ws, replayed>>
    BY <1>11 DEF ShellExits, registryVars, managerVars, socketVars, windowVars
  <2> QED BY <2>1, QuietReplayFirst DEF Waiting
<1>12. ASSUME NEW m \in Managers, NEW query \in BOOLEAN, ShellWrites(m, query), UNCHANGED windowVars PROVE \A d \in Sockets : ReplayFirst(d)'
  <2>1. UNCHANGED <<ws, replayed, wire, socket>> /\ Emit(m, query)
    BY <1>12 DEF ShellWrites, windowVars
  <2> QED BY <2>1, EmitReplayFirst
<1>13. ASSUME NEW m \in Managers, ReaderLeaves(m), UNCHANGED windowVars PROVE \A d \in Sockets : ReplayFirst(d)'
  <2>1. UNCHANGED <<ws, replayed, wire, socket>> /\ Emit(m, FALSE)
    BY <1>13 DEF ReaderLeaves, windowVars
  <2> QED BY <2>1, EmitReplayFirst
<1>14. ASSUME NEW m \in Managers, ReaderUnregisters(m), UNCHANGED windowVars PROVE \A d \in Sockets : ReplayFirst(d)'
  <2>1. UNCHANGED <<socket, queue, wire, ws, replayed>>
    BY <1>14 DEF ReaderUnregisters, registryVars, managerVars, socketVars, windowVars
  <2> QED BY <2>1, QuietReplayFirst DEF Waiting
<1>15. ASSUME NEW m \in Managers, ReaderCloses(m), UNCHANGED windowVars PROVE \A d \in Sockets : ReplayFirst(d)'
  <2>1. UNCHANGED <<ws, replayed, wire>>
    BY <1>15 DEF ReaderCloses, windowVars
  <2>2. CASE UNCHANGED <<socket, queue>>
    BY <2>1, <2>2, QuietReplayFirst DEF Waiting
  <2>3. CASE ~UNCHANGED <<socket, queue>>
    <3>1. \E c \in Sockets : Over(c, "raised")
      BY <1>15, <2>3 DEF ReaderCloses, ClosePty
    <3> QED BY <2>1, <3>1, OverReplayFirst DEF Ends
  <2> QED BY <2>2, <2>3
<1>16. ASSUME CloserPops, UNCHANGED windowVars PROVE \A d \in Sockets : ReplayFirst(d)'
  <2>1. UNCHANGED <<socket, queue, wire, ws, replayed>>
    BY <1>16 DEF CloserPops, registryVars, managerVars, socketVars, windowVars
  <2> QED BY <2>1, QuietReplayFirst DEF Waiting
<1>17. ASSUME NEW t \in Threads, StopSignals(t), UNCHANGED windowVars PROVE \A d \in Sockets : ReplayFirst(d)'
  <2>1. UNCHANGED <<socket, queue, wire, ws, replayed>>
    BY <1>17 DEF StopSignals, registryVars, managerVars, socketVars, windowVars
  <2> QED BY <2>1, QuietReplayFirst DEF Waiting
<1>18. ASSUME NEW t \in Threads, StopCloses(t), UNCHANGED windowVars PROVE \A d \in Sockets : ReplayFirst(d)'
  <2>1. UNCHANGED <<ws, replayed, wire>>
    BY <1>18 DEF StopCloses, windowVars
  <2>2. CASE UNCHANGED <<socket, queue>>
    BY <2>1, <2>2, QuietReplayFirst DEF Waiting
  <2>3. CASE ~UNCHANGED <<socket, queue>>
    <3>1. \E c \in Sockets : Over(c, "raised")
      BY <1>18, <2>3 DEF StopCloses, ClosePty
    <3> QED BY <2>1, <3>1, OverReplayFirst DEF Ends
  <2> QED BY <2>2, <2>3
<1>19. ASSUME StartWorkspace, UNCHANGED windowVars PROVE \A d \in Sockets : ReplayFirst(d)'
  <2>1. UNCHANGED <<socket, queue, wire, ws, replayed>>
    BY <1>19 DEF StartWorkspace, registryVars, managerVars, socketVars, windowVars
  <2> QED BY <2>1, QuietReplayFirst DEF Waiting
<1>20. ASSUME TearDown, UNCHANGED windowVars PROVE \A d \in Sockets : ReplayFirst(d)'
  <2>1. UNCHANGED <<socket, queue, wire, ws, replayed>>
    BY <1>20 DEF TearDown, registryVars, managerVars, socketVars, windowVars
  <2> QED BY <2>1, QuietReplayFirst DEF Waiting
<1>21. ASSUME Mount PROVE \A d \in Sockets : ReplayFirst(d)'
  <2>1. UNCHANGED <<socket, queue, wire, ws, replayed>>
    BY <1>21 DEF Mount, registryVars, managerVars, socketVars, windowVars, backendVars
  <2> QED BY <2>1, QuietReplayFirst DEF Waiting
<1>22. ASSUME Unmount PROVE \A d \in Sockets : ReplayFirst(d)'
  <2>1. replayed' = FALSE /\ queue' = queue
    BY <1>22 DEF Unmount, Leave
  <2>2. \A c \in Sockets : socket'[c].at = socket[c].at /\ (wire'[c] = wire[c] \/ wire'[c] = <<>>)
    BY <1>22 DEF Unmount, Leave, TypeOK, BackendTypeOK, SocketStates
  <2> QED BY <2>1, <2>2, QuietReplayFirst DEF Waiting
<1>23. ASSUME ConfirmClose PROVE \A d \in Sockets : ReplayFirst(d)'
  <2>1. replayed' = FALSE /\ queue' = queue
    BY <1>23 DEF ConfirmClose, Leave
  <2>2. \A c \in Sockets : socket'[c].at = socket[c].at /\ (wire'[c] = wire[c] \/ wire'[c] = <<>>)
    BY <1>23 DEF ConfirmClose, Leave, TypeOK, BackendTypeOK, SocketStates
  <2> QED BY <2>1, <2>2, QuietReplayFirst DEF Waiting
<1>24. ASSUME Connect PROVE \A d \in Sockets : ReplayFirst(d)'
  <2>1. queue' = queue /\ wire' = wire /\ replayed' = FALSE /\ due
    BY <1>24 DEF Connect
  <2>2. \A d \in Sockets : wire[d] = <<>>
    BY <2>1, TerminalAssumption DEF LinkInv, TypeOK
  <2>3. \A d \in Sockets : DOMAIN wire'[d] = {}
    BY <2>1, <2>2
  <2> QED BY <2>1, <2>3 DEF FrameInv, ReplayFirst, Silent
<1>25. ASSUME Receive PROVE \A d \in Sockets : ReplayFirst(d)'
  <2> DEFINE frame == Head(wire[ws])
  <2>1. /\ ws \in Sockets /\ wire[ws] \in Seq(Seq(Chunks)) /\ wire[ws] # <<>>
        /\ UNCHANGED <<socket, queue, ws>>
    BY <1>25 DEF Receive, TypeOK, BackendTypeOK
  <2>2. /\ wire'[ws] = Tail(wire[ws])
        /\ \A d \in Sockets \ {ws} : wire'[d] = wire[d]
    BY <1>25 DEF Receive, TypeOK, BackendTypeOK
  <2>3. frame = <<>> => replayed' = replayed
    BY <1>25 DEF Receive
  <2>4. frame = wire[ws][1] /\ 1 \in DOMAIN wire[ws]
    BY <2>1
  <2>5. /\ DOMAIN wire'[ws] = 1..Len(wire[ws]) - 1
        /\ \A j \in DOMAIN wire'[ws] : j + 1 \in DOMAIN wire[ws] /\ wire'[ws][j] = wire[ws][j + 1]
    BY <2>1, <2>2
  <2> HIDE DEF frame
  <2>6. ReplayFirst(ws)
    BY <2>1 DEF FrameInv
  <2>7. Live(queue[ws])' /\ (Waiting(ws)' => Silent(ws)')
    BY <2>1, <2>3, <2>4, <2>5, <2>6 DEF ReplayFirst, Waiting, Silent
  <2>8. ASSUME NEW j \in DOMAIN wire'[ws], ~Live(wire'[ws][j])
        PROVE  (\A i \in 1..j - 1 : wire'[ws][i] = <<>>) /\ ~replayed'
    <3>1. j + 1 \in DOMAIN wire[ws] /\ ~Live(wire[ws][j + 1]) /\ j \in Nat \ {0}
      BY <2>1, <2>5, <2>8
    <3>2. (\A i \in 1..(j + 1) - 1 : wire[ws][i] = <<>>) /\ ~replayed
      BY <2>6, <3>1 DEF ReplayFirst
    <3>3. wire[ws][1] = <<>>
      BY <3>1, <3>2
    <3>4. \A i \in 1..j - 1 : i \in DOMAIN wire'[ws] /\ i + 1 \in 1..(j + 1) - 1
      BY <2>1, <2>5, <3>1
    <3> QED BY <2>3, <2>4, <2>5, <3>2, <3>3, <3>4
  <2>9. ReplayFirst(ws)'
    <3>1. \A j \in DOMAIN wire'[ws] :
             \/ Live(wire'[ws][j])
             \/ (\A i \in 1..j - 1 : wire'[ws][i] = <<>>) /\ ~replayed'
      BY <2>8
    <3>2. Live(queue[ws])' /\ (Waiting(ws)' => Silent(ws)') /\ ws' = ws
      BY <2>1, <2>7
    <3> QED BY <3>1, <3>2, Zenon DEF ReplayFirst
  <2>10. ASSUME NEW d \in Sockets \ {ws} PROVE ReplayFirst(d)'
    <3>1. wire'[d] = wire[d] /\ queue'[d] = queue[d] /\ d # ws' /\ (Waiting(d)' <=> Waiting(d))
      BY <2>1, <2>2 DEF Waiting
    <3>2. ReplayFirst(d)
      BY DEF FrameInv
    <3> QED BY <3>1, <3>2 DEF ReplayFirst, Silent
  <2> QED BY <2>9, <2>10, <2>1
<1>26. ASSUME QueryAges PROVE \A d \in Sockets : ReplayFirst(d)'
  <2>1. UNCHANGED <<socket, queue, wire, ws, replayed>>
    BY <1>26 DEF QueryAges, registryVars, managerVars, socketVars, windowVars, backendVars
  <2> QED BY <2>1, QuietReplayFirst DEF Waiting
<1>27. ASSUME Break PROVE \A d \in Sockets : ReplayFirst(d)'
  <2>1. UNCHANGED <<queue, ws, replayed>>
    BY <1>27 DEF Break, windowVars
  <2>2. \A c \in Sockets : socket'[c].at = socket[c].at /\ (wire'[c] = wire[c] \/ wire'[c] = <<>>)
    BY <1>27 DEF Break, TypeOK, BackendTypeOK, SocketStates
  <2> QED BY <2>1, <2>2, QuietReplayFirst DEF Waiting
<1>28. ASSUME SocketCloses PROVE \A d \in Sockets : ReplayFirst(d)'
  <2>1. UNCHANGED <<queue, wire, ws, replayed>>
    BY <1>28 DEF SocketCloses
  <2>2. \A c \in Sockets : socket'[c].at = socket[c].at
    BY <1>28 DEF SocketCloses, TypeOK, BackendTypeOK, SocketStates
  <2> QED BY <2>1, <2>2, QuietReplayFirst DEF Waiting
<1>29. CASE UNCHANGED vars
  BY <1>29, QuietReplayFirst DEF Waiting, vars, backendVars, socketVars, windowVars
<1> QED BY <1>1, <1>2, <1>3, <1>4, <1>5, <1>6, <1>7, <1>8, <1>9, <1>10, <1>11, <1>12, <1>13, <1>14, <1>15, <1>16, <1>17, <1>18, <1>19, <1>20, <1>21, <1>22, <1>23, <1>24, <1>25, <1>26, <1>27, <1>28, <1>29 DEF Next, BackendNext, LoopStep, ShellStep, ReaderStep, StopStep, WorkspaceStep, WindowNext

\* The handshake that the event loop serves, action by action.
LEMMA AskedStep ==
  ASSUME TypeOK, FrameInv, [Next]_vars
  PROVE  (loop.at # "idle" => socket[loop.socket].at = "asked")'
<1>1. ASSUME Spawned, UNCHANGED windowVars PROVE (loop.at # "idle" => socket[loop.socket].at = "asked")'
  <2>1. socket' = socket /\ loop'.socket = loop.socket /\ loop.at # "idle"
    BY <1>1 DEF Spawned, socketVars, TypeOK, BackendTypeOK, LoopStates
  <2> QED BY <2>1 DEF FrameInv
<1>2. ASSUME SpawnFails, UNCHANGED windowVars PROVE (loop.at # "idle" => socket[loop.socket].at = "asked")'
  BY <1>2 DEF SpawnFails, Idle
<1>3. ASSUME Register, UNCHANGED windowVars PROVE (loop.at # "idle" => socket[loop.socket].at = "asked")'
  <2>1. socket' = socket /\ loop'.socket = loop.socket /\ loop.at # "idle"
    BY <1>3 DEF Register, socketVars
  <2> QED BY <2>1 DEF FrameInv
<1>4. ASSUME Join, UNCHANGED windowVars PROVE (loop.at # "idle" => socket[loop.socket].at = "asked")'
  BY <1>4 DEF Join, Idle
<1>5. ASSUME NEW c \in Sockets, Handshake(c), UNCHANGED windowVars PROVE (loop.at # "idle" => socket[loop.socket].at = "asked")'
  <2>1. CASE UNCHANGED socketVars
    <3>1. socket' = socket /\ (loop' = loop \/ loop'.socket = c) /\ loop.at = "idle" /\ socket[c].at = "asked"
      BY <1>5, <2>1 DEF Handshake, socketVars, LoopIsFree
    <3> QED BY <3>1
  <2>2. CASE Refuse(c, "notFound") /\ loop' = loop
    BY <1>5, <2>2 DEF Handshake, LoopIsFree
  <2> QED BY <1>5, <2>1, <2>2 DEF Handshake
<1>6. ASSUME NEW c \in Sockets, Reject(c), UNCHANGED windowVars PROVE (loop.at # "idle" => socket[loop.socket].at = "asked")'
  BY <1>6 DEF Reject, LoopIsFree
<1>7. ASSUME NEW c \in Sockets, Subscribe(c), UNCHANGED windowVars PROVE (loop.at # "idle" => socket[loop.socket].at = "asked")'
  BY <1>7 DEF Subscribe, LoopIsFree
<1>8. ASSUME NEW c \in Sockets, SendReplay(c), UNCHANGED windowVars PROVE (loop.at # "idle" => socket[loop.socket].at = "asked")'
  BY <1>8 DEF SendReplay, LoopIsFree
<1>9. ASSUME NEW c \in Sockets, Flush(c), UNCHANGED windowVars PROVE (loop.at # "idle" => socket[loop.socket].at = "asked")'
  BY <1>9 DEF Flush, LoopIsFree
<1>10. ASSUME NEW c \in Sockets, Gone(c), UNCHANGED windowVars PROVE (loop.at # "idle" => socket[loop.socket].at = "asked")'
  BY <1>10 DEF Gone, LoopIsFree
<1>11. ASSUME NEW m \in Managers, ShellExits(m), UNCHANGED windowVars PROVE (loop.at # "idle" => socket[loop.socket].at = "asked")'
  <2>1. UNCHANGED <<loop, socket>>
    BY <1>11 DEF ShellExits, registryVars, managerVars, socketVars, windowVars, backendVars
  <2> QED BY <2>1 DEF FrameInv
<1>12. ASSUME NEW m \in Managers, NEW query \in BOOLEAN, ShellWrites(m, query), UNCHANGED windowVars PROVE (loop.at # "idle" => socket[loop.socket].at = "asked")'
  <2>1. UNCHANGED <<loop, socket>>
    BY <1>12 DEF ShellWrites, registryVars, managerVars, socketVars, windowVars, backendVars
  <2> QED BY <2>1 DEF FrameInv
<1>13. ASSUME NEW m \in Managers, ReaderLeaves(m), UNCHANGED windowVars PROVE (loop.at # "idle" => socket[loop.socket].at = "asked")'
  <2>1. UNCHANGED <<loop, socket>>
    BY <1>13 DEF ReaderLeaves, registryVars, managerVars, socketVars, windowVars, backendVars
  <2> QED BY <2>1 DEF FrameInv
<1>14. ASSUME NEW m \in Managers, ReaderUnregisters(m), UNCHANGED windowVars PROVE (loop.at # "idle" => socket[loop.socket].at = "asked")'
  <2>1. UNCHANGED <<loop, socket>>
    BY <1>14 DEF ReaderUnregisters, registryVars, managerVars, socketVars, windowVars, backendVars
  <2> QED BY <2>1 DEF FrameInv
<1>15. ASSUME NEW m \in Managers, ReaderCloses(m), UNCHANGED windowVars PROVE (loop.at # "idle" => socket[loop.socket].at = "asked")'
  <2>1. loop' = loop
    BY <1>15 DEF ReaderCloses
  <2>2. CASE socket' = socket
    BY <2>1, <2>2 DEF FrameInv
  <2>3. CASE socket' # socket
    BY <1>15, <2>1, <2>3 DEF ReaderCloses, ClosePty, LoopIsFree
  <2> QED BY <2>2, <2>3
<1>16. ASSUME CloserPops, UNCHANGED windowVars PROVE (loop.at # "idle" => socket[loop.socket].at = "asked")'
  <2>1. UNCHANGED <<loop, socket>>
    BY <1>16 DEF CloserPops, registryVars, managerVars, socketVars, windowVars, backendVars
  <2> QED BY <2>1 DEF FrameInv
<1>17. ASSUME NEW t \in Threads, StopSignals(t), UNCHANGED windowVars PROVE (loop.at # "idle" => socket[loop.socket].at = "asked")'
  <2>1. UNCHANGED <<loop, socket>>
    BY <1>17 DEF StopSignals, registryVars, managerVars, socketVars, windowVars, backendVars
  <2> QED BY <2>1 DEF FrameInv
<1>18. ASSUME NEW t \in Threads, StopCloses(t), UNCHANGED windowVars PROVE (loop.at # "idle" => socket[loop.socket].at = "asked")'
  <2>1. loop' = loop
    BY <1>18 DEF StopCloses
  <2>2. CASE socket' = socket
    BY <2>1, <2>2 DEF FrameInv
  <2>3. CASE socket' # socket
    BY <1>18, <2>1, <2>3 DEF StopCloses, ClosePty, LoopIsFree
  <2> QED BY <2>2, <2>3
<1>19. ASSUME StartWorkspace, UNCHANGED windowVars PROVE (loop.at # "idle" => socket[loop.socket].at = "asked")'
  <2>1. UNCHANGED <<loop, socket>>
    BY <1>19 DEF StartWorkspace, registryVars, managerVars, socketVars, windowVars, backendVars
  <2> QED BY <2>1 DEF FrameInv
<1>20. ASSUME TearDown, UNCHANGED windowVars PROVE (loop.at # "idle" => socket[loop.socket].at = "asked")'
  <2>1. UNCHANGED <<loop, socket>>
    BY <1>20 DEF TearDown, registryVars, managerVars, socketVars, windowVars, backendVars
  <2> QED BY <2>1 DEF FrameInv
<1>21. ASSUME Mount PROVE (loop.at # "idle" => socket[loop.socket].at = "asked")'
  <2>1. UNCHANGED <<loop, socket>>
    BY <1>21 DEF Mount, registryVars, managerVars, socketVars, windowVars, backendVars
  <2> QED BY <2>1 DEF FrameInv
<1>22. ASSUME Unmount PROVE (loop.at # "idle" => socket[loop.socket].at = "asked")'
  <2>1. loop' = loop
    BY <1>22 DEF Unmount, Leave
  <2>2. \A c \in Sockets : socket'[c].at = socket[c].at
    BY <1>22 DEF Unmount, Leave, TypeOK, BackendTypeOK, SocketStates
  <2> QED BY <2>1, <2>2 DEF FrameInv, TypeOK, BackendTypeOK
<1>23. ASSUME ConfirmClose PROVE (loop.at # "idle" => socket[loop.socket].at = "asked")'
  <2>1. loop' = loop
    BY <1>23 DEF ConfirmClose, Leave
  <2>2. \A c \in Sockets : socket'[c].at = socket[c].at
    BY <1>23 DEF ConfirmClose, Leave, TypeOK, BackendTypeOK, SocketStates
  <2> QED BY <2>1, <2>2 DEF FrameInv, TypeOK, BackendTypeOK
<1>24. ASSUME Connect PROVE (loop.at # "idle" => socket[loop.socket].at = "asked")'
  <2> DEFINE c == CHOOSE c \in Sockets : Free(c)
  <2>1. c \in Sockets
    BY <1>24 DEF Connect
  <2>2. loop' = loop /\ socket' = [socket EXCEPT ![c] = NewSocket("asked", "up", "none")]
    BY <1>24 DEF Connect
  <2> HIDE DEF c
  <2>3. socket'[c].at = "asked" /\ \A d \in Sockets \ {c} : socket'[d] = socket[d]
    BY <2>1, <2>2 DEF NewSocket, TypeOK, BackendTypeOK
  <2> QED BY <2>2, <2>3 DEF FrameInv, TypeOK, BackendTypeOK
<1>25. ASSUME Receive PROVE (loop.at # "idle" => socket[loop.socket].at = "asked")'
  <2>1. UNCHANGED <<loop, socket>>
    BY <1>25 DEF Receive, registryVars, managerVars, socketVars, windowVars, backendVars
  <2> QED BY <2>1 DEF FrameInv
<1>26. ASSUME QueryAges PROVE (loop.at # "idle" => socket[loop.socket].at = "asked")'
  <2>1. UNCHANGED <<loop, socket>>
    BY <1>26 DEF QueryAges, registryVars, managerVars, socketVars, windowVars, backendVars
  <2> QED BY <2>1 DEF FrameInv
<1>27. ASSUME Break PROVE (loop.at # "idle" => socket[loop.socket].at = "asked")'
  <2>1. loop' = loop
    BY <1>27 DEF Break
  <2>2. \A c \in Sockets : socket'[c].at = socket[c].at
    BY <1>27 DEF Break, TypeOK, BackendTypeOK, SocketStates
  <2> QED BY <2>1, <2>2 DEF FrameInv, TypeOK, BackendTypeOK
<1>28. ASSUME SocketCloses PROVE (loop.at # "idle" => socket[loop.socket].at = "asked")'
  <2>1. loop' = loop
    BY <1>28 DEF SocketCloses
  <2>2. \A c \in Sockets : socket'[c].at = socket[c].at
    BY <1>28 DEF SocketCloses, TypeOK, BackendTypeOK, SocketStates
  <2> QED BY <2>1, <2>2 DEF FrameInv, TypeOK, BackendTypeOK
<1>29. CASE UNCHANGED vars
  BY <1>29 DEF FrameInv, vars, backendVars, socketVars
<1> QED BY <1>1, <1>2, <1>3, <1>4, <1>5, <1>6, <1>7, <1>8, <1>9, <1>10, <1>11, <1>12, <1>13, <1>14, <1>15, <1>16, <1>17, <1>18, <1>19, <1>20, <1>21, <1>22, <1>23, <1>24, <1>25, <1>26, <1>27, <1>28, <1>29 DEF Next, BackendNext, LoopStep, ShellStep, ReaderStep, StopStep, WorkspaceStep, WindowNext

\* Answers are forwarded only after live queries, action by action.
LEMMA AnswersStep ==
  ASSUME TypeOK, FrameInv, AnswersAreLive, [Next]_vars
  PROVE  AnswersAreLive'
<1>1. ASSUME Spawned, UNCHANGED windowVars PROVE AnswersAreLive'
  BY <1>1 DEF Spawned, windowVars, AnswersAreLive
<1>2. ASSUME SpawnFails, UNCHANGED windowVars PROVE AnswersAreLive'
  BY <1>2 DEF SpawnFails, windowVars, AnswersAreLive
<1>3. ASSUME Register, UNCHANGED windowVars PROVE AnswersAreLive'
  BY <1>3 DEF Register, windowVars, AnswersAreLive
<1>4. ASSUME Join, UNCHANGED windowVars PROVE AnswersAreLive'
  BY <1>4 DEF Join, windowVars, AnswersAreLive
<1>5. ASSUME NEW c \in Sockets, Handshake(c), UNCHANGED windowVars PROVE AnswersAreLive'
  BY <1>5 DEF Handshake, windowVars, AnswersAreLive
<1>6. ASSUME NEW c \in Sockets, Reject(c), UNCHANGED windowVars PROVE AnswersAreLive'
  BY <1>6 DEF Reject, windowVars, AnswersAreLive
<1>7. ASSUME NEW c \in Sockets, Subscribe(c), UNCHANGED windowVars PROVE AnswersAreLive'
  BY <1>7 DEF Subscribe, windowVars, AnswersAreLive
<1>8. ASSUME NEW c \in Sockets, SendReplay(c), UNCHANGED windowVars PROVE AnswersAreLive'
  BY <1>8 DEF SendReplay, windowVars, AnswersAreLive
<1>9. ASSUME NEW c \in Sockets, Flush(c), UNCHANGED windowVars PROVE AnswersAreLive'
  BY <1>9 DEF Flush, windowVars, AnswersAreLive
<1>10. ASSUME NEW c \in Sockets, Gone(c), UNCHANGED windowVars PROVE AnswersAreLive'
  BY <1>10 DEF Gone, windowVars, AnswersAreLive
<1>11. ASSUME NEW m \in Managers, ShellExits(m), UNCHANGED windowVars PROVE AnswersAreLive'
  BY <1>11 DEF ShellExits, windowVars, AnswersAreLive
<1>12. ASSUME NEW m \in Managers, NEW query \in BOOLEAN, ShellWrites(m, query), UNCHANGED windowVars PROVE AnswersAreLive'
  BY <1>12 DEF ShellWrites, windowVars, AnswersAreLive
<1>13. ASSUME NEW m \in Managers, ReaderLeaves(m), UNCHANGED windowVars PROVE AnswersAreLive'
  BY <1>13 DEF ReaderLeaves, windowVars, AnswersAreLive
<1>14. ASSUME NEW m \in Managers, ReaderUnregisters(m), UNCHANGED windowVars PROVE AnswersAreLive'
  BY <1>14 DEF ReaderUnregisters, windowVars, AnswersAreLive
<1>15. ASSUME NEW m \in Managers, ReaderCloses(m), UNCHANGED windowVars PROVE AnswersAreLive'
  BY <1>15 DEF ReaderCloses, windowVars, AnswersAreLive
<1>16. ASSUME CloserPops, UNCHANGED windowVars PROVE AnswersAreLive'
  BY <1>16 DEF CloserPops, windowVars, AnswersAreLive
<1>17. ASSUME NEW t \in Threads, StopSignals(t), UNCHANGED windowVars PROVE AnswersAreLive'
  BY <1>17 DEF StopSignals, windowVars, AnswersAreLive
<1>18. ASSUME NEW t \in Threads, StopCloses(t), UNCHANGED windowVars PROVE AnswersAreLive'
  BY <1>18 DEF StopCloses, windowVars, AnswersAreLive
<1>19. ASSUME StartWorkspace, UNCHANGED windowVars PROVE AnswersAreLive'
  BY <1>19 DEF StartWorkspace, windowVars, AnswersAreLive
<1>20. ASSUME TearDown, UNCHANGED windowVars PROVE AnswersAreLive'
  BY <1>20 DEF TearDown, windowVars, AnswersAreLive
<1>21. ASSUME Mount PROVE AnswersAreLive'
  BY <1>21 DEF Mount, windowVars, AnswersAreLive
<1>22. ASSUME Unmount PROVE AnswersAreLive'
  BY <1>22 DEF Unmount, Leave, windowVars, AnswersAreLive
<1>23. ASSUME ConfirmClose PROVE AnswersAreLive'
  BY <1>23 DEF ConfirmClose, Leave, windowVars, AnswersAreLive
<1>24. ASSUME Connect PROVE AnswersAreLive'
  BY <1>24 DEF Connect, windowVars, AnswersAreLive
<1>25. ASSUME Receive PROVE AnswersAreLive'
  <2> DEFINE frame == Head(wire[ws])
  <2>1. CASE frame = <<>>
    BY <1>25, <2>1 DEF Receive, AnswersAreLive
  <2>2. CASE frame # <<>>
    <3>1. /\ ws \in Sockets /\ wire[ws] \in Seq(Seq(Chunks)) /\ wire[ws] # <<>>
          /\ recent' = (recent \/ LiveQuery(frame))
          /\ asked' = (asked \/ \E i \in DOMAIN frame : frame[i].query /\ frame[i].live)
      BY <1>25, <2>2 DEF Receive, TypeOK, BackendTypeOK
    <3>2. frame = wire[ws][1] /\ 1 \in DOMAIN wire[ws]
      BY <3>1
    <3> HIDE DEF frame
    <3>3. replayed => Live(frame)
      BY <3>1, <3>2 DEF FrameInv, ReplayFirst
    <3>4. LiveQuery(frame) => asked'
      BY <3>1, <3>3 DEF LiveQuery, HasQuery, Live
    <3> QED BY <3>1, <3>4 DEF AnswersAreLive
  <2> QED BY <2>1, <2>2
<1>26. ASSUME QueryAges PROVE AnswersAreLive'
  BY <1>26 DEF QueryAges, windowVars, AnswersAreLive
<1>27. ASSUME Break PROVE AnswersAreLive'
  BY <1>27 DEF Break, windowVars, AnswersAreLive
<1>28. ASSUME SocketCloses PROVE AnswersAreLive'
  BY <1>28 DEF SocketCloses, windowVars, AnswersAreLive
<1>29. CASE UNCHANGED vars
  BY <1>29 DEF AnswersAreLive, vars, windowVars
<1> QED BY <1>1, <1>2, <1>3, <1>4, <1>5, <1>6, <1>7, <1>8, <1>9, <1>10, <1>11, <1>12, <1>13, <1>14, <1>15, <1>16, <1>17, <1>18, <1>19, <1>20, <1>21, <1>22, <1>23, <1>24, <1>25, <1>26, <1>27, <1>28, <1>29 DEF Next, BackendNext, LoopStep, ShellStep, ReaderStep, StopStep, WorkspaceStep, WindowNext

-----------------------------------------------------------------------------
(* The theorems *)

LEMMA InitInv == Init => TerminalInv
<1> SUFFICES ASSUME Init PROVE TerminalInv
  OBVIOUS
<1>1. BackendInit
  BY DEF Init
<1>2. /\ NoManager \in ManagerStates /\ Idle \in LoopStates /\ Resting \in ThreadStates
      /\ NewSocket("none", "closed", "none") \in SocketStates
  BY DEF NoManager, ManagerStates, Idle, LoopStates, Resting, ThreadStates, NewSocket,
         SocketStates, Serving, Ends, ManagerOrNot
<1>3. /\ <<>> \in Seq(BOOLEAN) /\ <<>> \in Seq(Chunks) /\ <<>> \in Seq(Seq(Chunks))
  OBVIOUS
<1>4. TypeOK
  <2>1. configured \in BOOLEAN /\ torn \in BOOLEAN /\ registry \in ManagerOrNot /\ troubles \in Nat
    BY <1>1 DEF BackendInit, ManagerOrNot
  <2>2. /\ manager \in [Managers -> ManagerStates] /\ output \in [Managers -> Seq(BOOLEAN)]
        /\ callbacks \in [Managers -> SUBSET Sockets]
    BY <1>1, <1>2, <1>3 DEF BackendInit
  <2>3. /\ loop \in LoopStates /\ loop.at = "idle" /\ thread \in [Threads -> ThreadStates]
    BY <1>1, <1>2 DEF BackendInit, Idle
  <2>4. /\ socket \in [Sockets -> SocketStates] /\ queue \in [Sockets -> Seq(Chunks)]
        /\ wire \in [Sockets -> Seq(Seq(Chunks))]
    BY <1>1, <1>2, <1>3 DEF BackendInit
  <2> QED BY <2>1, <2>2, <2>3, <2>4 DEF Init, TypeOK, BackendTypeOK
<1>5. HeldInv
  <2>1. \A m \in Managers : manager[m].shell = "none" /\ manager[m].reader = "none"
    BY <1>1 DEF BackendInit, NoManager
  <2>2. \A t \in Threads : thread[t].at = "idle" /\ thread[t].manager = Nobody
    BY <1>1 DEF BackendInit, Resting
  <2>3. loop.at = "idle" /\ loop.manager = Nobody /\ configured = FALSE /\ torn = FALSE
    BY <1>1 DEF BackendInit, Idle
  <2> QED BY <2>1, <2>2, <2>3 DEF HeldInv, NoOrphanShell, LoopInv, ThreadInv, ReaderInv, Threads
<1>6. FollowInv
  BY <1>1 DEF BackendInit, FollowInv, NewSocket, Serving
<1>7. LinkInv
  <2>1. \A c \in Sockets : wire[c] = <<>> /\ socket[c].link = "closed"
    BY <1>1 DEF BackendInit, NewSocket
  <2> QED BY <2>1 DEF Init, LinkInv
<1>8. FrameInv
  <2>1. \A c \in Sockets : queue[c] = <<>> /\ wire[c] = <<>> /\ socket[c].at = "none"
    BY <1>1 DEF BackendInit, NewSocket
  <2>2. \A c \in Sockets : DOMAIN queue[c] = {} /\ DOMAIN wire[c] = {}
    BY <2>1
  <2>3. loop.at = "idle"
    BY <1>1 DEF BackendInit, Idle
  <2> QED BY <2>1, <2>2, <2>3 DEF FrameInv, ReplayFirst, Live, Waiting
<1>9. AnswersAreLive
  BY DEF Init, AnswersAreLive
<1> QED BY <1>4, <1>5, <1>6, <1>7, <1>8, <1>9 DEF TerminalInv

LEMMA NextInv ==
  ASSUME TerminalInv, [Next]_vars
  PROVE  TerminalInv'
<1>1. TypeOK' /\ HeldInv'
  BY TypeStep, HeldStep DEF TerminalInv
<1>2. FollowInv' /\ LinkInv'
  BY FollowStep, LinkStep DEF TerminalInv
<1>3. FrameInv'
  BY FramesStep, AskedStep DEF TerminalInv, FrameInv
<1>4. AnswersAreLive'
  BY AnswersStep DEF TerminalInv
<1> QED BY <1>1, <1>2, <1>3, <1>4 DEF TerminalInv

LEMMA AlwaysInv == Spec => []TerminalInv
<1>1. Init => TerminalInv
  BY InitInv
<1>2. TerminalInv /\ [Next]_vars => TerminalInv'
  BY NextInv
<1> QED BY <1>1, <1>2, PTL DEF Spec

\* The backend and the panel keep the types of their variables; among them, that
\* whatever a socket takes for its replay is there to be sent.
THEOREM TerminalTypeCorrect == Spec => []TypeOK
<1>1. TerminalInv => TypeOK
  BY DEF TerminalInv
<1> QED BY <1>1, AlwaysInv, PTL

\* However many shells are made, exit, fail to start, are closed or torn down, in
\* whatever order, the ones that run can be reached (local_terminal_manager.py).
THEOREM ShellsAreReachable == Spec => []NoOrphanShell
<1>1. TerminalInv => NoOrphanShell
  BY DEF TerminalInv, HeldInv
<1> QED BY <1>1, AlwaysInv, PTL

\* However the output, the replays and the reconnections interleave, an answer is
\* forwarded only after a query that came live (useTerminal.ts).
THEOREM AnswersStayLive == Spec => []AnswersAreLive
<1>1. TerminalInv => AnswersAreLive
  BY DEF TerminalInv
<1> QED BY <1>1, AlwaysInv, PTL

-----------------------------------------------------------------------------
(* Flattening: joining a sequence of sequences from the left *)

\* Induction, for a set of numbers: the step would be an injection of what it
\* has up to a number it has not into that without zero.
LEMMA SetInduction ==
  ASSUME NEW S, 0 \in S, \A n \in Nat : n \in S => n + 1 \in S
  PROVE  \A n \in Nat : n \in S
<1> SUFFICES ASSUME NEW k \in Nat, k \notin S PROVE FALSE
  OBVIOUS
<1> DEFINE D == {i \in 0 .. k : i \in S}
           f == [i \in D |-> i + 1]
<1>1. IsFiniteSet(D) /\ Cardinality(D) \in Nat
  <2>1. IsFiniteSet(0 .. k) /\ D \subseteq 0 .. k
    BY FS_Interval
  <2> HIDE DEF D
  <2> QED BY <2>1, FS_Subset, FS_CardinalityType
<1>2. f \in [D -> D \ {0}]
  OBVIOUS
<1>3. 0 \in D
  OBVIOUS
<1>4. \A x, y \in D : f[x] = f[y] => x = y
  OBVIOUS
<1> HIDE DEF D, f
<1>5. IsFiniteSet(D \ {0}) /\ Cardinality(D \ {0}) = Cardinality(D) - 1
  <2>1. IsFiniteSet(D)
    BY <1>1
  <2> QED BY <1>3, <2>1, FS_RemoveElement, Zenon
<1>6. Cardinality(D \ {0}) < Cardinality(D)
  BY <1>1, <1>5
<1>7. \E x, y \in D : x # y /\ f[x] = f[y]
  BY <1>1, <1>2, <1>5, <1>6, FS_PigeonHole, Zenon
<1> QED BY <1>4, <1>7

\* The function behind FlattenSeq.
Joined(s, n, g) == g = [i \in 1 .. n |-> IF i = 1 THEN s[i] ELSE g[i - 1] \o s[i]]

LEMMA JoinedExists ==
  ASSUME NEW s
  PROVE  \A n \in Nat : \E g : Joined(s, n, g)
<1> DEFINE S == {n \in Nat : \E g : Joined(s, n, g)}
<1>1. 0 \in S
  <2>1. Joined(s, 0, [i \in 1 .. 0 |-> 0])
    BY DEF Joined
  <2> QED BY <2>1
<1>2. ASSUME NEW n \in Nat, n \in S PROVE n + 1 \in S
  <2>1. PICK g : Joined(s, n, g)
    BY <1>2
  <2> DEFINE h == [i \in 1 .. n + 1 |->
                     IF i <= n THEN g[i] ELSE IF i = 1 THEN s[i] ELSE g[n] \o s[i]]
  <2>2. \A i \in 1 .. n + 1 : h[i] = IF i = 1 THEN s[i] ELSE h[i - 1] \o s[i]
    <3> TAKE i \in 1 .. n + 1
    <3>1. CASE i <= n
      <4>1. i \in 1 .. n /\ h[i] = g[i] /\ (i # 1 => i - 1 \in 1 .. n /\ h[i - 1] = g[i - 1])
        BY <3>1
      <4>2. g[i] = IF i = 1 THEN s[i] ELSE g[i - 1] \o s[i]
        BY <2>1, <4>1 DEF Joined
      <4> HIDE DEF h
      <4> QED BY <4>1, <4>2
    <3>2. CASE i = n + 1
      <4>1. h[i] = (IF i = 1 THEN s[i] ELSE g[n] \o s[i]) /\ i - 1 = n
        BY <3>2
      <4>2. i # 1 => n \in 1 .. n + 1 /\ h[n] = g[n]
        BY <3>2
      <4> HIDE DEF h
      <4> QED BY <4>1, <4>2
    <3> QED BY <3>1, <3>2
  <2>3. h = [i \in 1 .. n + 1 |-> h[i]]
    OBVIOUS
  <2> HIDE DEF h
  <2>4. Joined(s, n + 1, h)
    BY <2>2, <2>3 DEF Joined
  <2> QED BY <2>4
<1> HIDE DEF S
<1>3. \A n \in Nat : n \in S
  BY <1>1, <1>2, SetInduction
<1> QED BY <1>3 DEF S

Agree(s, t, n) == \A i \in 1 .. n : s[i] = t[i]

\* What it gives depends only on what it has joined.
LEMMA JoinedAgree ==
  ASSUME NEW s, NEW t, NEW n \in Nat, NEW m \in Nat, NEW g, NEW h,
         Joined(s, n, g), Joined(t, m, h), n <= m, Agree(s, t, n)
  PROVE  Agree(g, h, n)
<1> DEFINE S == {k \in Nat : k \in 1 .. n => g[k] = h[k]}
<1>1. 0 \in S
  OBVIOUS
<1>2. ASSUME NEW k \in Nat, k \in S PROVE k + 1 \in S
  <2> SUFFICES ASSUME k + 1 \in 1 .. n PROVE g[k + 1] = h[k + 1]
    OBVIOUS
  <2>1. /\ k + 1 \in 1 .. m /\ (k + 1) - 1 = k
        /\ k + 1 # 1 => k \in 1 .. n
    OBVIOUS
  <2>2. /\ g[k + 1] = IF k + 1 = 1 THEN s[k + 1] ELSE g[(k + 1) - 1] \o s[k + 1]
        /\ h[k + 1] = IF k + 1 = 1 THEN t[k + 1] ELSE h[(k + 1) - 1] \o t[k + 1]
    BY <2>1 DEF Joined
  <2>3. k + 1 # 1 => g[k] = h[k]
    BY <1>2, <2>1
  <2>4. s[k + 1] = t[k + 1]
    BY DEF Agree
  <2> QED BY <2>1, <2>2, <2>3, <2>4
<1> HIDE DEF S
<1>3. \A k \in Nat : k \in S
  BY <1>1, <1>2, SetInduction
<1> QED BY <1>3 DEF S, Agree

LEMMA FlattenIsJoined ==
  ASSUME NEW s, NEW n \in Nat, Len(s) = n, n # 0
  PROVE  \E g : Joined(s, n, g) /\ FlattenSeq(s) = g[n]
<1>1. PICK g : Joined(s, n, g)
  BY JoinedExists
<1> DEFINE f == CHOOSE f : f = [i \in 1 .. n |-> IF i = 1 THEN s[i] ELSE f[i - 1] \o s[i]]
<1>2. Joined(s, n, f)
  BY <1>1 DEF Joined
<1>3. FlattenSeq(s) = f[n]
  BY DEF FlattenSeq
<1> QED BY <1>2, <1>3

\* Flattening goes frame by frame, from either end.
LEMMA FlattenEmpty == FlattenSeq(<<>>) = <<>>
<1>1. Len(<<>>) = 0
  OBVIOUS
<1> QED BY <1>1 DEF FlattenSeq

LEMMA JoinedTyped ==
  ASSUME NEW C, NEW s \in Seq(Seq(C)), NEW g, Joined(s, Len(s), g)
  PROVE  \A i \in 1 .. Len(s) : g[i] \in Seq(C)
<1> DEFINE S == {k \in Nat : k \in 1 .. Len(s) => g[k] \in Seq(C)}
<1>1. 0 \in S
  OBVIOUS
<1>2. ASSUME NEW k \in Nat, k \in S PROVE k + 1 \in S
  <2> SUFFICES ASSUME k + 1 \in 1 .. Len(s) PROVE g[k + 1] \in Seq(C)
    OBVIOUS
  <2>1. g[k + 1] = IF k + 1 = 1 THEN s[k + 1] ELSE g[(k + 1) - 1] \o s[k + 1]
    BY DEF Joined
  <2>2. s[k + 1] \in Seq(C)
    BY ElementOfSeq
  <2>3. k + 1 # 1 => g[(k + 1) - 1] \in Seq(C)
    <3>1. (k + 1) - 1 = k /\ (k + 1 # 1 => k \in 1 .. Len(s))
      BY LenProperties
    <3> QED BY <1>2, <3>1
  <2>4. k + 1 # 1 => g[(k + 1) - 1] \o s[k + 1] \in Seq(C)
    BY <2>2, <2>3, ConcatProperties
  <2> QED BY <2>1, <2>2, <2>4
<1> HIDE DEF S
<1>3. \A k \in Nat : k \in S
  BY <1>1, <1>2, SetInduction
<1> QED BY <1>3, LenProperties DEF S

LEMMA FlattenTyped ==
  ASSUME NEW C, NEW s \in Seq(Seq(C))
  PROVE  FlattenSeq(s) \in Seq(C)
<1>1. Len(s) \in Nat /\ (Len(s) = 0 => s = <<>>)
  BY EmptySeq, LenProperties
<1>2. CASE Len(s) = 0
  BY <1>1, <1>2, FlattenEmpty, EmptySeq
<1>3. CASE Len(s) # 0
  <2>1. PICK g : Joined(s, Len(s), g) /\ FlattenSeq(s) = g[Len(s)]
    BY <1>1, <1>3, FlattenIsJoined
  <2>2. Len(s) \in 1 .. Len(s)
    BY <1>1, <1>3
  <2> QED BY <2>1, <2>2, JoinedTyped
<1> QED BY <1>2, <1>3

LEMMA FlattenAppend ==
  ASSUME NEW C, NEW s \in Seq(Seq(C)), NEW f \in Seq(C)
  PROVE  FlattenSeq(Append(s, f)) = FlattenSeq(s) \o f
<1> DEFINE t == Append(s, f)
           n == Len(s)
<1>1. /\ n \in Nat /\ Len(t) = n + 1 /\ t[n + 1] = f
      /\ \A i \in 1 .. n : s[i] = t[i]
      /\ n = 0 => s = <<>>
  BY EmptySeq
<1> HIDE DEF t, n
<1> PICK m \in Nat : m = n + 1
  BY <1>1
<1>2. PICK h : Joined(t, m, h) /\ FlattenSeq(t) = h[m]
  BY <1>1, FlattenIsJoined
<1>3. h[m] = IF m = 1 THEN t[m] ELSE h[m - 1] \o t[m]
  <2>1. m \in 1 .. m
    BY <1>1
  <2> QED BY <1>2, <2>1 DEF Joined
<1>4. CASE n = 0
  <2>1. FlattenSeq(t) = f
    BY <1>1, <1>2, <1>3, <1>4
  <2>2. FlattenSeq(s) \o f = f
    BY <1>1, <1>4, FlattenEmpty, ConcatEmptySeq
  <2> QED BY <2>1, <2>2 DEF t
<1>5. CASE n # 0
  <2>1. PICK g : Joined(s, n, g) /\ FlattenSeq(s) = g[n]
    BY <1>1, <1>5, FlattenIsJoined DEF n
  <2>2. \A i \in 1 .. n : g[i] = h[i]
    <3>1. n \in Nat /\ n <= m /\ Agree(s, t, n)
      BY <1>1 DEF Agree
    <3>2. Joined(s, n, g) /\ Joined(t, m, h)
      BY <1>2, <2>1
    <3>3. Agree(g, h, n)
      BY <3>1, <3>2, JoinedAgree
    <3> QED BY <3>3 DEF Agree
  <2>3. g[n] = h[n] /\ m - 1 = n /\ m # 1
    BY <1>1, <1>5, <2>2
  <2> QED BY <1>1, <1>2, <1>3, <2>1, <2>3 DEF t
<1> QED BY <1>4, <1>5

Associates(a, b, c) == (a \o b) \o c = a \o (b \o c)

LEMMA Associativity ==
  ASSUME NEW C
  PROVE  \A a, b, c \in Seq(C) : Associates(a, b, c)
  BY ConcatAssociative DEF Associates

LEMMA FlattenHead ==
  ASSUME NEW C, NEW s \in Seq(Seq(C)), s # <<>>
  PROVE  FlattenSeq(s) = Head(s) \o FlattenSeq(Tail(s))
<1> DEFINE t == Tail(s)
           n == Len(s)
<1>1. /\ n \in Nat /\ n # 0 /\ Len(t) = n - 1 /\ n - 1 \in Nat
      /\ t \in Seq(Seq(C)) /\ Head(s) \in Seq(C) /\ Head(s) = s[1]
      /\ \A i \in 1 .. n - 1 : t[i] = s[i + 1]
      /\ n - 1 = 0 => t = <<>>
  <2>1. /\ Head(s) \in Seq(C) /\ t \in Seq(Seq(C)) /\ Len(t) = Len(s) - 1
        /\ \A i \in 1 .. Len(t) : t[i] = s[i + 1]
    BY HeadTailProperties
  <2>2. n \in Nat \ {0}
    BY EmptySeq
  <2>3. Head(s) = s[1]
    OBVIOUS
  <2> HIDE DEF t
  <2>4. Len(t) = 0 => t = <<>>
    BY <2>1, EmptySeq
  <2> QED BY <2>1, <2>2, <2>3, <2>4
<1>2. \A i \in 1 .. n : s[i] \in Seq(C)
  BY ElementOfSeq
<1>3. PICK g : Joined(s, n, g) /\ FlattenSeq(s) = g[n]
  BY <1>1, FlattenIsJoined
<1>4. \A i \in 1 .. n : g[i] = IF i = 1 THEN s[i] ELSE g[i - 1] \o s[i]
  BY <1>3 DEF Joined
<1> HIDE DEF t
<1>7. \A a, b, c \in Seq(C) : Associates(a, b, c)
  BY Associativity, Zenon
<1>5. CASE n - 1 = 0
  <2>1. n = 1 /\ g[1] = s[1]
    BY <1>1, <1>4, <1>5
  <2>2. s[1] \o FlattenSeq(t) = s[1]
    BY <1>1, <1>5, FlattenEmpty, ConcatEmptySeq
  <2> QED BY <1>1, <1>3, <2>1, <2>2 DEF t
<1>6. CASE n - 1 # 0
  <2>1. PICK h : Joined(t, n - 1, h) /\ FlattenSeq(t) = h[n - 1]
    BY <1>1, <1>6, FlattenIsJoined
  <2>2. \A i \in 1 .. n - 1 : h[i] \in Seq(C)
    BY <1>1, <2>1, JoinedTyped
  <2>3. \A i \in 1 .. n - 1 : h[i] = IF i = 1 THEN t[i] ELSE h[i - 1] \o t[i]
    BY <2>1 DEF Joined
  <2> PICK m \in Nat : m = n - 1
    BY <1>1
  <2> DEFINE S == {k \in Nat : k \in 1 .. m => g[k + 1] = s[1] \o h[k]}
  <2>4. 0 \in S
    OBVIOUS
  <2>5. ASSUME NEW k \in Nat, k \in S PROVE k + 1 \in S
    <3>6. k + 1 \in Nat
      OBVIOUS
    <3> SUFFICES ASSUME k + 1 \in 1 .. m PROVE g[(k + 1) + 1] = s[1] \o h[k + 1]
      BY <3>6, Zenon
    <3> HIDE DEF n
    <3>0. k + 1 <= n - 1 /\ n - 1 \in Nat /\ n \in Nat
      BY <1>1
    <3>1. /\ k + 2 \in 1 .. n /\ (k + 2) - 1 = k + 1 /\ k + 2 # 1 /\ (k + 1) + 1 = k + 2
          /\ k + 1 \in 1 .. n /\ (k + 1) - 1 = k /\ 1 \in 1 .. n /\ k + 1 \in 1 .. n - 1
      BY <3>0
    <3>2. g[k + 2] = g[k + 1] \o s[k + 2] /\ t[k + 1] = s[k + 2]
      BY <1>1, <1>4, <3>1
    <3>3. CASE k = 0
      <4>1. g[k + 1] = s[1] /\ h[k + 1] = t[k + 1]
        BY <1>4, <2>3, <3>1, <3>3
      <4> QED BY <3>1, <3>2, <4>1
    <3>4. CASE k # 0
      <4>1. k \in 1 .. n - 1 /\ k + 1 # 1
        BY <1>1, <3>4
      <4>2. h[k + 1] = h[k] \o t[k + 1]
        BY <2>3, <3>1, <4>1
      <4>3. g[k + 1] = s[1] \o h[k]
        BY <2>5, <4>1
      <4>4. s[1] \in Seq(C) /\ h[k] \in Seq(C) /\ s[k + 2] \in Seq(C)
        BY <1>2, <2>2, <3>1, <4>1
      <4>5. (s[1] \o h[k]) \o s[k + 2] = s[1] \o (h[k] \o s[k + 2])
        BY <4>4, <1>7 DEF Associates
      <4> QED BY <3>1, <3>2, <4>2, <4>3, <4>5
    <3> QED BY <3>3, <3>4
  <2> HIDE DEF S, n
  <2>6. \A k \in Nat : k \in S
    BY <2>4, <2>5, SetInduction
  <2>7. g[n] = s[1] \o h[n - 1]
    <3>1. n - 1 \in Nat /\ n - 1 \in 1 .. n - 1 /\ (n - 1) + 1 = n
      BY <1>1, <1>6
    <3> QED BY <2>6, <3>1 DEF S
  <2> QED BY <1>1, <1>3, <2>1, <2>7 DEF t
<1> QED BY <1>5, <1>6

-----------------------------------------------------------------------------
(* The stream of a connection *)

\* Chunks a, a + 1 and so on, up to but not including b.
Whole(chunks, a, b) ==
  /\ chunks \in Seq(Chunks) /\ a \in Nat \ {0} /\ b = a + Len(chunks)
  /\ \A i \in 1 .. Len(chunks) : chunks[i].n = a + i - 1

\* A socket listens exactly to the manager it is served by, and nothing is
\* queued for one that is not served.
Attached == \A c \in Sockets :
  /\ \A m \in Managers :
       c \in callbacks[m] <=> socket[c].at \in Serving /\ socket[c].manager = m
  /\ socket[c].at \notin Serving => queue[c] = <<>>

\* What has come, what is on the way (frames), what is taken and what is queued
\* join, up to the last chunk there is.
Joins(s, came, frames, chunks, last) ==
  LET next == IF came = 0 THEN s.from ELSE came + 1
  IN /\ s.at \in {"asked", "accepted"} => frames = <<>> /\ came = 0
     /\ s.at = "replaying" =>
          /\ Whole(frames, next, s.from) /\ s.from <= s.upto + 1
          /\ Whole(chunks, s.upto + 1, last + 1)
     /\ s.at = "serving" =>
          \E j \in Nat : Whole(frames, next, j) /\ Whole(chunks, j, last + 1)

StreamOf(c) ==
  socket[c].link = "up" =>
    Joins(socket[c], seen, FlattenSeq(wire[c]), queue[c], Len(output[socket[c].manager]))

StreamInv == Attached /\ \A c \in Sockets : StreamOf(c)

-----------------------------------------------------------------------------
(* Runs of chunks *)

LEMMA WholeNone ==
  ASSUME NEW a \in Nat \ {0}
  PROVE  Whole(<<>>, a, a)
  BY DEF Whole

LEMMA WholeConcat ==
  ASSUME NEW s, NEW t, NEW a, NEW b, NEW z, Whole(s, a, b), Whole(t, b, z)
  PROVE  Whole(s \o t, a, z)
<1>1. s \in Seq(Chunks) /\ t \in Seq(Chunks) /\ a \in Nat \ {0} /\ b = a + Len(s) /\ z = b + Len(t)
  BY DEF Whole
<1>2. /\ s \o t \in Seq(Chunks) /\ Len(s \o t) = Len(s) + Len(t) /\ Len(s) \in Nat /\ Len(t) \in Nat
      /\ \A i \in 1 .. Len(s) + Len(t) :
           (s \o t)[i] = IF i <= Len(s) THEN s[i] ELSE t[i - Len(s)]
  BY <1>1, ConcatProperties, LenProperties
<1>3. ASSUME NEW i \in 1 .. Len(s) + Len(t) PROVE (s \o t)[i].n = a + i - 1
  <2>1. CASE i <= Len(s)
    <3>1. i \in 1 .. Len(s) /\ (s \o t)[i] = s[i]
      BY <1>2, <2>1
    <3> QED BY <3>1 DEF Whole
  <2>2. CASE i > Len(s)
    <3>1. i - Len(s) \in 1 .. Len(t) /\ (s \o t)[i] = t[i - Len(s)]
      BY <1>2, <2>2
    <3>2. t[i - Len(s)].n = b + (i - Len(s)) - 1
      BY <3>1 DEF Whole
    <3>3. \A p, q, r, u \in Int : p = q + r => p + (u - r) - 1 = q + u - 1
      OBVIOUS
    <3> QED BY <1>1, <1>2, <3>1, <3>2, <3>3
  <2> QED BY <1>2, <2>1, <2>2
<1> QED BY <1>1, <1>2, <1>3 DEF Whole

\* The first part of a run and the rest of it.
LEMMA WholeSplit ==
  ASSUME NEW s \in Seq(Chunks), NEW t \in Seq(Chunks), NEW a, NEW z, Whole(s \o t, a, z)
  PROVE  Whole(s, a, a + Len(s)) /\ Whole(t, a + Len(s), z)
<1>1. /\ a \in Nat \ {0} /\ z = a + Len(s \o t)
      /\ \A i \in 1 .. Len(s \o t) : (s \o t)[i].n = a + i - 1
  BY DEF Whole
<1>2. /\ Len(s \o t) = Len(s) + Len(t) /\ Len(s) \in Nat /\ Len(t) \in Nat
      /\ \A i \in 1 .. Len(s) + Len(t) :
           (s \o t)[i] = IF i <= Len(s) THEN s[i] ELSE t[i - Len(s)]
  BY ConcatProperties, LenProperties
<1>3. ASSUME NEW i \in 1 .. Len(s) PROVE s[i].n = a + i - 1
  <2>1. i \in 1 .. Len(s) + Len(t) /\ i <= Len(s)
    BY <1>2
  <2> QED BY <1>1, <1>2, <2>1
<1>4. ASSUME NEW i \in 1 .. Len(t) PROVE t[i].n = (a + Len(s)) + i - 1
  <2>1. /\ i + Len(s) \in 1 .. Len(s) + Len(t) /\ ~(i + Len(s) <= Len(s))
        /\ (i + Len(s)) - Len(s) = i
    BY <1>2
  <2>2. t[i].n = a + (i + Len(s)) - 1
    BY <1>1, <1>2, <2>1
  <2>3. a + (i + Len(s)) - 1 = (a + Len(s)) + i - 1
    BY <1>1, <1>2
  <2> QED BY <2>2, <2>3
<1>5. a + Len(s) \in Nat \ {0} /\ z = (a + Len(s)) + Len(t)
  BY <1>1, <1>2
<1> QED BY <1>1, <1>3, <1>4, <1>5 DEF Whole

LEMMA WholeAppend ==
  ASSUME NEW s, NEW a, NEW b, Whole(s, a, b), NEW e \in Chunks, e.n = b
  PROVE  Whole(Append(s, e), a, b + 1)
<1>1. s \in Seq(Chunks) /\ a \in Nat \ {0} /\ b = a + Len(s) /\ Len(s) \in Nat
  BY LenProperties DEF Whole
<1>2. /\ Append(s, e) \in Seq(Chunks) /\ Len(Append(s, e)) = Len(s) + 1
      /\ Append(s, e)[Len(s) + 1] = e
      /\ \A i \in 1 .. Len(s) : Append(s, e)[i] = s[i]
  BY <1>1, AppendProperties
<1>3. ASSUME NEW i \in 1 .. Len(s) + 1 PROVE Append(s, e)[i].n = a + i - 1
  <2>1. CASE i \in 1 .. Len(s)
    BY <1>2, <2>1 DEF Whole
  <2>2. CASE i = Len(s) + 1
    <3>1. a + i - 1 = b
      BY <1>1, <2>2
    <3> QED BY <1>2, <2>2, <3>1
  <2> QED BY <1>1, <2>1, <2>2
<1>4. b + 1 = a + Len(Append(s, e))
  BY <1>1, <1>2
<1> QED BY <1>1, <1>2, <1>3, <1>4 DEF Whole

\* What a socket took is a run.
LEMMA TakenWhole ==
  ASSUME BackendTypeOK, FollowInv, NEW c \in Sockets, socket[c].at = "replaying",
         socket[c].from <= socket[c].upto + 1
  PROVE  Whole(Taken(c), socket[c].from, socket[c].upto + 1)
<1>1. Taken(c) \in Seq(Chunks)
  BY TakenTyped
<1>2. socket[c].from \in Nat \ {0} /\ socket[c].upto \in Nat
  BY DEF BackendTypeOK, SocketStates
<1> PICK from, upto \in Nat : from = socket[c].from /\ upto = socket[c].upto
  BY <1>2
<1>3. upto + 1 - from \in Nat /\ upto + 1 = from + (upto + 1 - from) /\ from # 0
  BY <1>2
<1>4. Taken(c) = [i \in 1 .. upto + 1 - from |-> Chunk(socket[c].manager, from + i - 1, FALSE)]
  BY DEF Taken
<1>5. Len(Taken(c)) = upto + 1 - from
  BY <1>1, <1>3, <1>4, LenProperties
<1>6. ASSUME NEW i \in 1 .. upto + 1 - from PROVE Taken(c)[i].n = from + i - 1
  BY <1>4 DEF Chunk
<1> QED BY <1>1, <1>2, <1>3, <1>5, <1>6 DEF Whole

-----------------------------------------------------------------------------
(* Who listens to whom *)

\* A step after which the same sockets listen to the same managers.
LEMMA StaysAttached ==
  ASSUME Attached, callbacks' = callbacks,
         \A c \in Sockets :
           /\ socket'[c].at \in Serving <=> socket[c].at \in Serving
           /\ socket[c].at \in Serving => socket'[c].manager = socket[c].manager
           /\ socket[c].at \in Serving \/ queue'[c] = queue[c]
  PROVE  Attached'
  BY DEF Attached

LEMMA OverAttached ==
  ASSUME TypeOK, Attached, NEW c \in Sockets, NEW end \in Ends, Over(c, end)
  PROVE  Attached'
<1>1. /\ socket'[c].at = "none" /\ queue'[c] = <<>>
      /\ \A d \in Sockets \ {c} : socket'[d] = socket[d] /\ queue'[d] = queue[d]
      /\ \A m \in Managers : callbacks'[m] = callbacks[m] \ {c}
  BY DEF Over, NewSocket, TypeOK, BackendTypeOK
<1>2. "none" \notin Serving
  BY DEF Serving
<1>3. ASSUME NEW d \in Sockets \ {c}
      PROVE  /\ \A m \in Managers :
                  d \in callbacks'[m] <=> socket'[d].at \in Serving /\ socket'[d].manager = m
             /\ socket'[d].at \notin Serving => queue'[d] = <<>>
  BY <1>1, <1>3 DEF Attached
<1> QED BY <1>1, <1>2, <1>3 DEF Attached

LEMMA EmitAttached ==
  ASSUME TypeOK, Attached, NEW m \in Managers, NEW query, Emit(m, query),
         UNCHANGED <<socket, callbacks>>
  PROVE  Attached'
<1>1. ASSUME NEW c \in Sockets PROVE socket[c].at \in Serving \/ queue'[c] = queue[c]
  <2>1. c \in callbacks[m] => socket[c].at \in Serving
    BY DEF Attached
  <2> QED BY <2>1 DEF Emit, Listening
<1> QED BY <1>1, StaysAttached

LEMMA AttachedStep ==
  ASSUME TypeOK, FollowInv, FrameInv, Attached, [Next]_vars
  PROVE  Attached'
<1>1. ASSUME UNCHANGED <<socket, callbacks, queue>> PROVE Attached'
  BY <1>1, StaysAttached
<1>2. ASSUME NEW c \in Sockets, NEW end \in Ends, Refuse(c, end) PROVE Attached'
  BY <1>2, OverAttached DEF Refuse
<1>3. ASSUME Spawned \/ Register PROVE Attached'
  BY <1>1, <1>3 DEF Spawned, Register, managerVars, socketVars
<1>4. ASSUME SpawnFails PROVE Attached'
  <2>1. loop.socket \in Sockets /\ Refuse(loop.socket, "notFound")
    BY <1>4 DEF SpawnFails, TypeOK, BackendTypeOK
  <2> QED BY <1>2, <2>1 DEF Ends
<1>5. ASSUME Join PROVE Attached'
  <2>1. loop.socket \in Sockets /\ socket[loop.socket].at = "asked"
    BY <1>5 DEF Join, TypeOK, BackendTypeOK, FrameInv
  <2>2. CASE registry = Nobody
    <3>1. Refuse(loop.socket, "notFound")
      BY <1>5, <2>2 DEF Join
    <3> QED BY <1>2, <2>1, <3>1 DEF Ends
  <2>3. CASE registry # Nobody
    <3>1. /\ socket' = [socket EXCEPT ![loop.socket] =
                          [@ EXCEPT !.at = "accepted", !.manager = registry]]
          /\ callbacks' = callbacks /\ queue' = queue
      BY <1>5, <2>3 DEF Join
    <3>2. \A d \in Sockets \ {loop.socket} : socket'[d] = socket[d]
      BY <3>1 DEF TypeOK, BackendTypeOK
    <3>3. socket'[loop.socket].at = "accepted"
      BY <2>1, <3>1 DEF TypeOK, BackendTypeOK, SocketStates
    <3>4. "accepted" \notin Serving /\ "asked" \notin Serving
      BY DEF Serving
    <3>5. ASSUME NEW c \in Sockets
          PROVE  /\ socket'[c].at \in Serving <=> socket[c].at \in Serving
                 /\ socket[c].at \in Serving => socket'[c].manager = socket[c].manager
      BY <2>1, <3>2, <3>3, <3>4
    <3> QED BY <3>1, <3>5, StaysAttached
  <2> QED BY <2>2, <2>3
<1>6. ASSUME NEW c \in Sockets, Handshake(c) PROVE Attached'
  <2>1. CASE UNCHANGED <<callbacks, socketVars>>
    BY <1>1, <2>1 DEF socketVars
  <2>2. CASE Refuse(c, "notFound")
    BY <1>2, <2>2 DEF Ends
  <2> QED BY <1>6, <2>1, <2>2 DEF Handshake, managerVars
<1>7. ASSUME NEW c \in Sockets, Reject(c) PROVE Attached'
  BY <1>2, <1>7 DEF Reject, Ends
<1>8. ASSUME NEW c \in Sockets, Subscribe(c) PROVE Attached'
  <2>1. /\ socket[c].at = "accepted" /\ socket[c].manager \in Managers
        /\ callbacks' = [callbacks EXCEPT ![socket[c].manager] = @ \cup {c}]
        /\ socket' = [socket EXCEPT ![c] =
                  [@ EXCEPT !.at = "replaying", !.from = HeldFrom(socket[c].manager),
                            !.upto = Len(output[socket[c].manager])]]
        /\ queue' = queue
    BY <1>8 DEF Subscribe, FollowInv
  <2>2. \A d \in Sockets \ {c} : socket'[d] = socket[d]
    BY <2>1 DEF TypeOK, BackendTypeOK
  <2>3. socket'[c].at = "replaying" /\ socket'[c].manager = socket[c].manager
    BY <2>1 DEF TypeOK, BackendTypeOK, SocketStates
  <2>4. \A m \in Managers :
           callbacks'[m] = IF m = socket[c].manager THEN callbacks[m] \cup {c} ELSE callbacks[m]
    BY <2>1 DEF TypeOK, BackendTypeOK
  <2>5. "accepted" \notin Serving /\ "replaying" \in Serving
    BY DEF Serving
  <2>8. socket[c].at \notin Serving
    BY <2>1, <2>5
  <2>6. \A m \in Managers : c \in callbacks'[m] <=> m = socket[c].manager
    <3>1. \A m \in Managers : c \notin callbacks[m]
      BY <2>8 DEF Attached
    <3> QED BY <2>4, <3>1
  <2>7. \A m \in Managers, d \in Sockets \ {c} : d \in callbacks'[m] <=> d \in callbacks[m]
    BY <2>4
  <2>9. ASSUME NEW d \in Sockets
        PROVE  /\ \A m \in Managers :
                    d \in callbacks'[m] <=> socket'[d].at \in Serving /\ socket'[d].manager = m
               /\ socket'[d].at \notin Serving => queue'[d] = <<>>
    <3>1. CASE d = c
      BY <2>3, <2>5, <2>6, <3>1
    <3>2. CASE d # c
      <4>1. socket'[d] = socket[d] /\ queue'[d] = queue[d]
        BY <2>1, <2>2, <3>2
      <4>2. \A m \in Managers : d \in callbacks'[m] <=> d \in callbacks[m]
        BY <2>7, <3>2
      <4> QED BY <4>1, <4>2 DEF Attached
    <3> QED BY <3>1, <3>2
  <2> QED BY <2>9 DEF Attached
<1>9. ASSUME NEW c \in Sockets, SendReplay(c) PROVE Attached'
  <2>1. /\ socket[c].at = "replaying" /\ socket' = [socket EXCEPT ![c] = [@ EXCEPT !.at = "serving"]]
        /\ callbacks' = callbacks /\ queue' = queue
    BY <1>9 DEF SendReplay, managerVars
  <2>2. /\ \A d \in Sockets \ {c} : socket'[d] = socket[d]
        /\ socket'[c].at = "serving" /\ socket'[c].manager = socket[c].manager
    BY <2>1 DEF TypeOK, BackendTypeOK, SocketStates
  <2>3. "serving" \in Serving /\ "replaying" \in Serving
    BY DEF Serving
  <2>4. ASSUME NEW d \in Sockets
        PROVE  /\ socket'[d].at \in Serving <=> socket[d].at \in Serving
               /\ socket[d].at \in Serving => socket'[d].manager = socket[d].manager
    <3>1. CASE d = c
      BY <2>1, <2>2, <2>3, <3>1
    <3>2. CASE d # c
      BY <2>2, <3>2
    <3> QED BY <3>1, <3>2
  <2> QED BY <2>1, <2>4, StaysAttached
<1>10. ASSUME NEW c \in Sockets, Flush(c) PROVE Attached'
  <2>1. /\ socket[c].at = "serving" /\ UNCHANGED <<socket, callbacks>>
        /\ queue' = [queue EXCEPT ![c] = <<>>]
    BY <1>10 DEF Flush, managerVars
  <2>2. \A d \in Sockets : socket[d].at \in Serving \/ queue'[d] = queue[d]
    BY <2>1 DEF Serving, TypeOK, BackendTypeOK
  <2> QED BY <2>1, <2>2, StaysAttached
<1>11. ASSUME NEW c \in Sockets, Gone(c) PROVE Attached'
  BY <1>11, OverAttached DEF Gone, Ends
<1>12. ASSUME ShellStep PROVE Attached'
  <2>1. ASSUME NEW m \in Managers, ShellExits(m) PROVE Attached'
    BY <1>1, <2>1 DEF ShellExits, socketVars
  <2>2. ASSUME NEW m \in Managers, NEW query \in BOOLEAN, ShellWrites(m, query) PROVE Attached'
    BY <2>2, EmitAttached DEF ShellWrites
  <2> QED BY <1>12, <2>1, <2>2 DEF ShellStep
<1>13. ASSUME NEW m, ClosePty(m) PROVE Attached'
  <2>1. CASE UNCHANGED <<callbacks, socket, queue>>
    BY <1>1, <2>1
  <2>2. ASSUME NEW c \in Sockets, Over(c, "raised") PROVE Attached'
    BY <2>2, OverAttached DEF Ends
  <2> QED BY <1>13, <2>1, <2>2 DEF ClosePty
<1>14. ASSUME ReaderStep PROVE Attached'
  <2>1. ASSUME NEW m \in Managers, ReaderLeaves(m) PROVE Attached'
    BY <2>1, EmitAttached DEF ReaderLeaves
  <2>2. ASSUME NEW m \in Managers, ReaderUnregisters(m) PROVE Attached'
    BY <1>1, <2>2 DEF ReaderUnregisters, socketVars
  <2>3. ASSUME NEW m \in Managers, ReaderCloses(m) PROVE Attached'
    BY <1>13, <2>3 DEF ReaderCloses
  <2> QED BY <1>14, <2>1, <2>2, <2>3 DEF ReaderStep
<1>15. ASSUME StopStep PROVE Attached'
  <2>1. ASSUME CloserPops PROVE Attached'
    BY <1>1, <2>1 DEF CloserPops, managerVars, socketVars
  <2>2. ASSUME NEW t \in Threads, StopSignals(t) PROVE Attached'
    BY <1>1, <2>2 DEF StopSignals, socketVars
  <2>3. ASSUME NEW t \in Threads, StopCloses(t) PROVE Attached'
    BY <1>13, <2>3 DEF StopCloses
  <2> QED BY <1>15, <2>1, <2>2, <2>3 DEF StopStep
<1>16. ASSUME WorkspaceStep PROVE Attached'
  BY <1>1, <1>16 DEF WorkspaceStep, StartWorkspace, TearDown, managerVars, socketVars
<1>17. ASSUME Mount \/ QueryAges \/ Receive \/ UNCHANGED vars PROVE Attached'
  BY <1>1, <1>17 DEF Mount, QueryAges, Receive, vars, backendVars, managerVars, socketVars
<1>18. ASSUME /\ callbacks' = callbacks /\ queue' = queue
              /\ \A c \in Sockets : socket'[c].at = socket[c].at /\ socket'[c].manager = socket[c].manager
       PROVE  Attached'
  BY <1>18, StaysAttached
<1>19. ASSUME Unmount \/ ConfirmClose PROVE Attached'
  <2>1. Leave
    BY <1>19 DEF Unmount, ConfirmClose
  <2>2. \A c \in Sockets : socket'[c].at = socket[c].at /\ socket'[c].manager = socket[c].manager
    BY <2>1 DEF Leave, TypeOK, BackendTypeOK, SocketStates
  <2> QED BY <1>18, <2>1, <2>2 DEF Leave, managerVars
<1>20. ASSUME Connect PROVE Attached'
  <2> DEFINE c == CHOOSE c \in Sockets : Free(c)
  <2>1. c \in Sockets /\ socket[c].at = "none"
    BY <1>20 DEF Connect, Free
  <2>2. /\ socket' = [socket EXCEPT ![c] = NewSocket("asked", "up", "none")]
        /\ callbacks' = callbacks /\ queue' = queue
    BY <1>20 DEF Connect, managerVars
  <2> HIDE DEF c
  <2>3. /\ \A d \in Sockets \ {c} : socket'[d] = socket[d]
        /\ socket'[c].at = "asked"
    BY <2>1, <2>2 DEF NewSocket, TypeOK, BackendTypeOK
  <2>4. "none" \notin Serving /\ "asked" \notin Serving
    BY DEF Serving
  <2>5. ASSUME NEW d \in Sockets
        PROVE  /\ socket'[d].at \in Serving <=> socket[d].at \in Serving
               /\ socket[d].at \in Serving => socket'[d].manager = socket[d].manager
    BY <2>1, <2>3, <2>4
  <2> QED BY <2>2, <2>5, StaysAttached
<1>21. ASSUME Break \/ SocketCloses PROVE Attached'
  <2>1. \A c \in Sockets : socket'[c].at = socket[c].at /\ socket'[c].manager = socket[c].manager
    <3>1. ws \in Sockets /\ \E link : socket' = [socket EXCEPT ![ws] = [@ EXCEPT !.link = link]]
      BY <1>21 DEF Break, SocketCloses, TypeOK
    <3> PICK link : socket' = [socket EXCEPT ![ws] = [@ EXCEPT !.link = link]]
      BY <3>1
    <3> QED BY <3>1 DEF TypeOK, BackendTypeOK, SocketStates
  <2> QED BY <1>18, <1>21, <2>1 DEF Break, SocketCloses, managerVars
<1> QED BY <1>3, <1>4, <1>5, <1>6, <1>7, <1>8, <1>9, <1>10, <1>11, <1>12, <1>14, <1>15,
           <1>16, <1>17, <1>19, <1>20, <1>21
        DEF Next, BackendNext, LoopStep, WindowNext

-----------------------------------------------------------------------------
(* What a connection has carried and has yet to carry *)

\* The replay goes out.
LEMMA JoinsReplay ==
  ASSUME NEW s, NEW t, NEW came, NEW frames, NEW chunks, NEW last, NEW taken,
         s.at = "replaying", t.at = "serving", t.from = s.from, s.upto \in Nat,
         Joins(s, came, frames, chunks, last), Whole(taken, s.from, s.upto + 1)
  PROVE  Joins(t, came, frames \o taken, chunks, last)
<1> DEFINE next == IF came = 0 THEN s.from ELSE came + 1
<1>1. Whole(frames, next, s.from) /\ Whole(chunks, s.upto + 1, last + 1)
  BY DEF Joins
<1>2. Whole(frames \o taken, next, s.upto + 1)
  BY <1>1, WholeConcat
<1>3. s.upto + 1 \in Nat
  OBVIOUS
<1>4. \E j \in Nat : Whole(frames \o taken, next, j) /\ Whole(chunks, j, last + 1)
  BY <1>1, <1>2, <1>3
<1> QED BY <1>4 DEF Joins

\* What is queued goes out.
LEMMA JoinsFlush ==
  ASSUME NEW s, NEW came, NEW frames, NEW chunks, NEW last \in Nat,
         s.at = "serving", Joins(s, came, frames, chunks, last)
  PROVE  Joins(s, came, frames \o chunks, <<>>, last)
<1> DEFINE next == IF came = 0 THEN s.from ELSE came + 1
<1>1. PICK j \in Nat : Whole(frames, next, j) /\ Whole(chunks, j, last + 1)
  BY DEF Joins
<1>2. Whole(frames \o chunks, next, last + 1) /\ last + 1 \in Nat \ {0}
  BY <1>1, WholeConcat
<1>3. Whole(<<>>, last + 1, last + 1)
  BY <1>2, WholeNone
<1>4. \E k \in Nat : Whole(frames \o chunks, next, k) /\ Whole(<<>>, k, last + 1)
  BY <1>2, <1>3
<1> QED BY <1>4 DEF Joins

\* One more chunk is queued.
LEMMA JoinsEmit ==
  ASSUME NEW s, NEW came, NEW frames, NEW chunks, NEW last \in Nat, NEW e \in Chunks,
         e.n = last + 1, s.at \in Serving, Joins(s, came, frames, chunks, last)
  PROVE  Joins(s, came, frames, Append(chunks, e), last + 1)
<1> DEFINE next == IF came = 0 THEN s.from ELSE came + 1
<1>1. CASE s.at = "replaying"
  <2>1. /\ Whole(frames, next, s.from) /\ s.from <= s.upto + 1
        /\ Whole(chunks, s.upto + 1, last + 1)
    BY <1>1 DEF Joins
  <2>2. Whole(Append(chunks, e), s.upto + 1, (last + 1) + 1)
    BY <2>1, WholeAppend
  <2> QED BY <1>1, <2>1, <2>2 DEF Joins
<1>2. CASE s.at = "serving"
  <2>1. PICK j \in Nat : Whole(frames, next, j) /\ Whole(chunks, j, last + 1)
    BY <1>2 DEF Joins
  <2>2. Whole(Append(chunks, e), j, (last + 1) + 1)
    BY <2>1, WholeAppend
  <2>3. \E k \in Nat : Whole(frames, next, k) /\ Whole(Append(chunks, e), k, (last + 1) + 1)
    BY <2>1, <2>2
  <2> QED BY <1>2, <2>3 DEF Joins
<1> QED BY <1>1, <1>2 DEF Serving

\* A frame of output comes.
LEMMA JoinsReceive ==
  ASSUME NEW s, NEW came, NEW chunks, NEW last, NEW frame \in Seq(Chunks),
         NEW rest \in Seq(Chunks), frame # <<>>,
         Joins(s, came, frame \o rest, chunks, last)
  PROVE  Joins(s, frame[Len(frame)].n, rest, chunks, last)
<1> DEFINE next == IF came = 0 THEN s.from ELSE came + 1
<1>1. Len(frame) \in Nat \ {0} /\ frame \o rest # <<>>
  BY EmptySeq, ConcatProperties, LenProperties
<1>2. ASSUME NEW z, Whole(frame \o rest, next, z)
      PROVE  Whole(rest, IF frame[Len(frame)].n = 0 THEN s.from ELSE frame[Len(frame)].n + 1, z)
  <2>1. Whole(frame, next, next + Len(frame)) /\ Whole(rest, next + Len(frame), z)
    BY <1>2, WholeSplit
  <2> HIDE DEF next
  <2>2. next \in Nat \ {0} /\ frame[Len(frame)].n = next + Len(frame) - 1
    <3>1. Len(frame) \in 1 .. Len(frame)
      BY <1>1
    <3> QED BY <2>1, <3>1 DEF Whole
  <2>3. frame[Len(frame)].n # 0 /\ frame[Len(frame)].n + 1 = next + Len(frame)
    BY <1>1, <2>2
  <2> QED BY <2>1, <2>3
<1>3. s.at \notin {"asked", "accepted"}
  BY <1>1 DEF Joins
<1>4. s.at = "replaying" => Whole(frame \o rest, next, s.from) /\ s.from <= s.upto + 1
                             /\ Whole(chunks, s.upto + 1, last + 1)
  BY DEF Joins
<1>5. s.at = "serving" => \E j \in Nat : Whole(frame \o rest, next, j) /\ Whole(chunks, j, last + 1)
  BY DEF Joins
<1> HIDE DEF next
<1>6. CASE s.at = "replaying"
  BY <1>2, <1>4, <1>6 DEF Joins
<1>7. CASE s.at = "serving"
  <2>1. PICK j \in Nat : Whole(frame \o rest, next, j) /\ Whole(chunks, j, last + 1)
    BY <1>5, <1>7
  <2>2. Whole(rest, IF frame[Len(frame)].n = 0 THEN s.from ELSE frame[Len(frame)].n + 1, j)
    BY <1>2, <2>1
  <2> QED BY <1>7, <2>1, <2>2 DEF Joins
<1>8. CASE s.at \notin {"replaying", "serving"}
  BY <1>3, <1>8 DEF Joins
<1> QED BY <1>6, <1>7, <1>8

\* A socket that takes what is held has seen nothing.
LEMMA JoinsBegin ==
  ASSUME NEW s, NEW came, NEW frames, NEW last \in Nat, s.at = "replaying", came = 0,
         frames = <<>>, s.from \in Nat \ {0}, s.upto = last, s.from <= last + 1
  PROVE  Joins(s, came, frames, <<>>, last)
<1>1. Whole(<<>>, s.from, s.from) /\ Whole(<<>>, last + 1, last + 1)
  BY WholeNone
<1> QED BY <1>1 DEF Joins

-----------------------------------------------------------------------------
(* The stream, action by action *)

\* The step leaves the stream of a socket alone, or ends it.
LEMMA StreamStays ==
  ASSUME NEW c \in Sockets, StreamOf(c),
         \/ socket'[c].link # "up" \/ socket'[c].at = "none"
         \/ /\ socket'[c] = socket[c] /\ wire'[c] = wire[c] /\ queue'[c] = queue[c]
            /\ seen' = seen
            /\ socket[c].at \in Serving =>
                 output'[socket[c].manager] = output[socket[c].manager]
  PROVE  StreamOf(c)'
<1>1. CASE socket'[c].link # "up"
  BY <1>1 DEF StreamOf
<1>2. CASE socket'[c].at = "none"
  BY <1>2 DEF StreamOf, Joins
<1>3. CASE /\ socket'[c] = socket[c] /\ wire'[c] = wire[c] /\ queue'[c] = queue[c]
           /\ seen' = seen
           /\ socket[c].at \in Serving =>
                output'[socket[c].manager] = output[socket[c].manager]
  <2>1. CASE socket[c].at \in Serving
    BY <1>3, <2>1 DEF StreamOf
  <2>2. CASE socket[c].at \notin Serving
    BY <1>3, <2>2 DEF StreamOf, Joins, Serving
  <2> QED BY <2>1, <2>2
<1> QED BY <1>1, <1>2, <1>3

LEMMA OverStream ==
  ASSUME TypeOK, StreamInv, NEW c \in Sockets, NEW end, Over(c, end),
         \A d \in Sockets \ {c} : wire'[d] = wire[d], UNCHANGED <<output, seen>>
  PROVE  \A d \in Sockets : StreamOf(d)'
<1> TAKE d \in Sockets
<1>1. StreamOf(d)
  BY DEF StreamInv
<1>2. /\ socket'[c].at = "none"
      /\ d # c => socket'[d] = socket[d] /\ queue'[d] = queue[d]
  BY DEF Over, NewSocket, TypeOK, BackendTypeOK
<1> QED BY <1>1, <1>2, StreamStays

LEMMA RefuseStream ==
  ASSUME TypeOK, StreamInv, NEW c \in Sockets, NEW end, Refuse(c, end),
         UNCHANGED <<output, seen>>
  PROVE  \A d \in Sockets : StreamOf(d)'
<1>1. \A d \in Sockets \ {c} : wire'[d] = wire[d]
  BY DEF Refuse, Sent, TypeOK, BackendTypeOK
<1> QED BY <1>1, OverStream DEF Refuse

\* What a frame adds to the stream on the way.
LEMMA SentStream ==
  ASSUME TypeOK, NEW c \in Sockets, NEW frame \in Seq(Chunks), Sent(c, frame)
  PROVE  /\ socket[c].link = "up" => FlattenSeq(wire'[c]) = FlattenSeq(wire[c]) \o frame
         /\ \A d \in Sockets \ {c} : wire'[d] = wire[d]
<1>1. wire[c] \in Seq(Seq(Chunks))
  BY DEF TypeOK, BackendTypeOK
<1>2. socket[c].link = "up" => wire'[c] = Append(wire[c], frame)
  BY DEF Sent, TypeOK, BackendTypeOK
<1>3. \A d \in Sockets \ {c} : wire'[d] = wire[d]
  BY DEF Sent, TypeOK, BackendTypeOK
<1> QED BY <1>1, <1>2, <1>3, FlattenAppend

LEMMA EmitStream ==
  ASSUME TypeOK, FollowInv, StreamInv, NEW m \in Managers, NEW query \in BOOLEAN,
         Emit(m, query), UNCHANGED <<socket, wire, seen>>
  PROVE  \A d \in Sockets : StreamOf(d)'
<1> TAKE d \in Sockets
<1> DEFINE e == [n |-> Len(output[m]) + 1, query |-> query, live |-> TRUE]
<1>1. StreamOf(d) /\ (d \in callbacks[m] <=> socket[d].at \in Serving /\ socket[d].manager = m)
  BY DEF StreamInv, Attached
<1>2. /\ output[m] \in Seq(BOOLEAN) /\ Len(output[m]) \in Nat
      /\ output'[m] = Append(output[m], query)
      /\ \A k \in Managers \ {m} : output'[k] = output[k]
  BY DEF Emit, TypeOK, BackendTypeOK
<1>3. e \in Chunks /\ e.n = Len(output[m]) + 1
  BY <1>2 DEF Chunks
<1>4. queue'[d] = IF d \in callbacks[m] THEN Append(queue[d], e) ELSE queue[d]
  BY DEF Emit, Listening
<1> HIDE DEF e
<1>5. CASE d \in callbacks[m]
  <2>1. Len(output'[m]) = Len(output[m]) + 1
    BY <1>2
  <2>2. CASE socket[d].link = "up"
    <3>1. Joins(socket[d], seen, FlattenSeq(wire[d]), queue[d], Len(output[m]))
      BY <1>1, <1>5, <2>2 DEF StreamOf
    <3>2. Joins(socket[d], seen, FlattenSeq(wire[d]), Append(queue[d], e), Len(output[m]) + 1)
      BY <1>1, <1>2, <1>3, <1>5, <3>1, JoinsEmit
    <3> QED BY <1>1, <1>4, <1>5, <2>1, <3>2 DEF StreamOf
  <2>3. CASE socket[d].link # "up"
    BY <1>1, <2>3, StreamStays
  <2> QED BY <2>2, <2>3
<1>6. CASE d \notin callbacks[m]
  <2>1. socket[d].at \in Serving => socket[d].manager \in Managers \ {m}
    BY <1>1, <1>6 DEF FollowInv
  <2> QED BY <1>1, <1>2, <1>4, <1>6, <2>1, StreamStays
<1> QED BY <1>5, <1>6

\* A step that touches no stream.
LEMMA QuietStream ==
  ASSUME StreamInv, UNCHANGED <<socket, wire, queue, seen, output>>
  PROVE  \A d \in Sockets : StreamOf(d)'
  BY StreamStays DEF StreamInv

\* However a step changes the sockets, the wire, the queues and the output.
LEMMA StreamStep ==
  ASSUME TypeOK, FollowInv, LinkInv, FrameInv, StreamInv, [Next]_vars
  PROVE  \A d \in Sockets : StreamOf(d)'
<1> DEFINE Goal == \A d \in Sockets : StreamOf(d)'
<1>1. ASSUME UNCHANGED <<socket, wire, queue, seen, output>> PROVE Goal
  BY <1>1, QuietStream
<1>2. ASSUME NEW c \in Sockets, NEW end, Refuse(c, end), UNCHANGED <<output, seen>> PROVE Goal
  BY <1>2, RefuseStream
<1>3. ASSUME NEW c \in Sockets, NEW end, Over(c, end), UNCHANGED <<wire, output, seen>> PROVE Goal
  BY <1>3, OverStream
<1>4. ASSUME NEW m \in Managers, NEW query \in BOOLEAN, Emit(m, query),
             UNCHANGED <<socket, wire, seen>>
      PROVE  Goal
  BY <1>4, EmitStream
<1>5. ASSUME NEW m, ClosePty(m), UNCHANGED <<wire, output, seen>> PROVE Goal
  <2>1. CASE UNCHANGED <<callbacks, socket, queue>>
    BY <1>1, <1>5, <2>1
  <2>2. ASSUME NEW c \in Sockets, Over(c, "raised") PROVE Goal
    BY <1>3, <1>5, <2>2
  <2> QED BY <1>5, <2>1, <2>2 DEF ClosePty
<1>6. ASSUME NEW c \in Sockets, wire[c] \in Seq(Seq(Chunks)) PROVE FlattenSeq(wire[c]) \in Seq(Chunks)
  BY <1>6, FlattenTyped
<1>7. \A c \in Sockets : /\ wire[c] \in Seq(Seq(Chunks)) /\ queue[c] \in Seq(Chunks)
                         /\ FlattenSeq(wire[c]) \in Seq(Chunks) /\ StreamOf(c)
  BY <1>6 DEF TypeOK, BackendTypeOK, StreamInv
<1>8. <<>> \in Seq(Chunks) /\ \A s \in Seq(Chunks) : s \o <<>> = s
  BY ConcatEmptySeq
<1> HIDE DEF Goal
<1>10. ASSUME Spawned \/ Register, UNCHANGED windowVars PROVE Goal
  BY <1>1, <1>10 DEF Spawned, Register, managerVars, socketVars, windowVars
<1>11. ASSUME SpawnFails, UNCHANGED windowVars PROVE Goal
  <2>1. loop.socket \in Sockets /\ Refuse(loop.socket, "notFound") /\ UNCHANGED <<output, seen>>
    BY <1>11 DEF SpawnFails, TypeOK, BackendTypeOK, windowVars
  <2> QED BY <1>2, <2>1
<1>12. ASSUME Join, UNCHANGED windowVars PROVE Goal
  <2>1. /\ loop.socket \in Sockets /\ socket[loop.socket].at = "asked"
        /\ UNCHANGED <<output, seen>>
    BY <1>12 DEF Join, TypeOK, BackendTypeOK, FrameInv, windowVars
  <2>2. CASE registry = Nobody
    <3>1. Refuse(loop.socket, "notFound")
      BY <1>12, <2>2 DEF Join
    <3> QED BY <1>2, <2>1, <3>1
  <2>3. CASE registry # Nobody
    <3> PICK c \in Sockets : c = loop.socket
      BY <2>1
    <3>1. /\ socket' = [socket EXCEPT ![c] = [@ EXCEPT !.at = "accepted", !.manager = registry]]
          /\ Sent(c, <<>>) /\ queue' = queue
      BY <1>12, <2>3 DEF Join
    <3>2. /\ \A d \in Sockets \ {c} : socket'[d] = socket[d] /\ queue'[d] = queue[d] /\ wire'[d] = wire[d]
          /\ socket'[c].at = "accepted" /\ socket'[c].link = socket[c].link
      <4>1. /\ \A d \in Sockets \ {c} : socket'[d] = socket[d] /\ queue'[d] = queue[d]
            /\ socket'[c].at = "accepted" /\ socket'[c].link = socket[c].link
        BY <3>1 DEF TypeOK, BackendTypeOK, SocketStates
      <4>2. \A d \in Sockets \ {c} : wire'[d] = wire[d]
        BY <3>1 DEF Sent
      <4> QED BY <4>1, <4>2
    <3>3. ASSUME socket[c].link = "up" PROVE FlattenSeq(wire'[c]) = <<>> /\ seen' = 0
      <4>1. FlattenSeq(wire[c]) = <<>> /\ seen = 0
        BY <1>7, <2>1, <3>3 DEF StreamOf, Joins
      <4>2. FlattenSeq(wire'[c]) = FlattenSeq(wire[c]) \o <<>>
        BY <1>8, <3>1, <3>3, SentStream
      <4> QED BY <1>8, <2>1, <4>1, <4>2
    <3>4. StreamOf(c)'
      BY <3>2, <3>3 DEF StreamOf, Joins
    <3>5. ASSUME NEW d \in Sockets \ {c} PROVE StreamOf(d)'
      BY <1>7, <2>1, <3>2, StreamStays
    <3> QED BY <3>4, <3>5 DEF Goal
  <2> QED BY <2>2, <2>3
<1>13. ASSUME NEW c \in Sockets, Handshake(c), UNCHANGED windowVars PROVE Goal
  <2>0. seen' = seen
    BY <1>13 DEF windowVars
  <2>1. CASE UNCHANGED <<managerVars, socketVars>>
    BY <1>1, <2>0, <2>1 DEF managerVars, socketVars
  <2>2. CASE Refuse(c, "notFound") /\ UNCHANGED output
    BY <1>2, <2>0, <2>2
  <2>3. CASE /\ \E m \in Managers : Unheld(m)
             /\ output' = [output EXCEPT ![CHOOSE m \in Managers : Unheld(m)] = <<>>]
             /\ UNCHANGED socketVars
    <3> PICK m \in Managers : m = CHOOSE k \in Managers : Unheld(k)
      BY <2>3
    <3>1. /\ Unheld(m) /\ \A k \in Managers \ {m} : output'[k] = output[k]
          /\ UNCHANGED <<socket, queue, wire>>
      BY <2>3 DEF TypeOK, BackendTypeOK, socketVars
    <3>2. ASSUME NEW d \in Sockets PROVE StreamOf(d)'
      <4>1. socket[d].manager # m
        BY <3>1 DEF Unheld
      <4>2. socket[d].at \in Serving => output'[socket[d].manager] = output[socket[d].manager]
        BY <3>1, <4>1 DEF FollowInv
      <4> QED BY <1>7, <2>0, <3>1, <4>2, StreamStays
    <3> QED BY <3>2 DEF Goal
  <2> QED BY <1>13, <2>1, <2>2, <2>3 DEF Handshake
<1>14. ASSUME NEW c \in Sockets, Reject(c), UNCHANGED windowVars PROVE Goal
  BY <1>2, <1>14 DEF Reject, windowVars
<1>15. ASSUME NEW c \in Sockets, Subscribe(c), UNCHANGED windowVars PROVE Goal
  <2>1. /\ socket[c].at = "accepted" /\ socket[c].manager \in Managers
        /\ socket' = [socket EXCEPT ![c] =
                  [@ EXCEPT !.at = "replaying", !.from = HeldFrom(socket[c].manager),
                            !.upto = Len(output[socket[c].manager])]]
        /\ UNCHANGED <<queue, wire, output, seen>>
    BY <1>15 DEF Subscribe, FollowInv, windowVars
  <2>2. \A d \in Sockets \ {c} : socket'[d] = socket[d]
    BY <2>1 DEF TypeOK, BackendTypeOK
  <2> PICK last \in Nat, from \in Nat \ {0} :
        last = Len(output[socket[c].manager]) /\ from = HeldFrom(socket[c].manager)
    BY <2>1, HeldFromTyped DEF TypeOK
  <2>3. from <= last + 1
    BY TerminalAssumption DEF HeldFrom
  <2>4. /\ socket'[c].at = "replaying" /\ socket'[c].manager = socket[c].manager
        /\ socket'[c].from = from /\ socket'[c].upto = last /\ socket'[c].link = socket[c].link
    BY <2>1 DEF TypeOK, BackendTypeOK, SocketStates
  <2>5. queue[c] = <<>>
    BY <2>1 DEF StreamInv, Attached, Serving
  <2>6. ASSUME socket[c].link = "up" PROVE FlattenSeq(wire[c]) = <<>> /\ seen = 0
    BY <1>7, <2>1, <2>6 DEF StreamOf, Joins
  <2>7. ASSUME socket[c].link = "up"
        PROVE  Joins(socket'[c], seen, FlattenSeq(wire[c]), <<>>, last)
    BY <2>3, <2>4, <2>6, <2>7, JoinsBegin
  <2>8. StreamOf(c)'
    BY <2>1, <2>4, <2>5, <2>7 DEF StreamOf
  <2>9. ASSUME NEW d \in Sockets \ {c} PROVE StreamOf(d)'
    BY <1>7, <2>1, <2>2, StreamStays
  <2> QED BY <2>8, <2>9 DEF Goal
<1>16. ASSUME NEW c \in Sockets, SendReplay(c), UNCHANGED windowVars PROVE Goal
  <2>1. /\ socket[c].at = "replaying" /\ socket[c].link = "up"
        /\ socket' = [socket EXCEPT ![c] = [@ EXCEPT !.at = "serving"]]
        /\ UNCHANGED <<queue, output, seen>>
    BY <1>16 DEF SendReplay, managerVars, windowVars
  <2>2. /\ \A d \in Sockets \ {c} : socket'[d] = socket[d]
        /\ socket'[c].at = "serving" /\ socket'[c].manager = socket[c].manager
        /\ socket'[c].from = socket[c].from
    BY <2>1 DEF TypeOK, BackendTypeOK, SocketStates
  <2>3. Joins(socket[c], seen, FlattenSeq(wire[c]), queue[c], Len(output[socket[c].manager]))
    BY <1>7, <2>1 DEF StreamOf
  <2>4. Taken(c) \in Seq(Chunks) /\ Whole(Taken(c), socket[c].from, socket[c].upto + 1)
    <3>1. socket[c].from <= socket[c].upto + 1
      BY <2>1, <2>3 DEF Joins
    <3> QED BY <2>1, <3>1, TakenTyped, TakenWhole DEF TypeOK
  <2>5. /\ FlattenSeq(wire'[c]) = FlattenSeq(wire[c]) \o Taken(c)
        /\ \A d \in Sockets \ {c} : wire'[d] = wire[d]
    <3>1. CASE Taken(c) = <<>> /\ wire' = wire
      BY <1>7, <1>8, <3>1
    <3>2. CASE Sent(c, Taken(c))
      BY <2>1, <2>4, <3>2, SentStream
    <3> QED BY <1>16, <3>1, <3>2 DEF SendReplay
  <2>6. socket[c].upto \in Nat
    BY DEF TypeOK, BackendTypeOK, SocketStates
  <2>7. Joins(socket'[c], seen, FlattenSeq(wire[c]) \o Taken(c), queue[c],
              Len(output[socket[c].manager]))
    BY <2>1, <2>2, <2>3, <2>4, <2>6, JoinsReplay
  <2>8. StreamOf(c)'
    BY <2>1, <2>2, <2>5, <2>7 DEF StreamOf
  <2>9. ASSUME NEW d \in Sockets \ {c} PROVE StreamOf(d)'
    BY <1>7, <2>1, <2>2, <2>5, StreamStays
  <2> QED BY <2>8, <2>9 DEF Goal
<1>17. ASSUME NEW c \in Sockets, Flush(c), UNCHANGED windowVars PROVE Goal
  <2>1. /\ socket[c].at = "serving" /\ socket[c].link = "up" /\ Sent(c, queue[c])
        /\ queue' = [queue EXCEPT ![c] = <<>>] /\ UNCHANGED <<socket, output, seen>>
    BY <1>17 DEF Flush, managerVars, windowVars
  <2>2. queue'[c] = <<>> /\ \A d \in Sockets \ {c} : queue'[d] = queue[d]
    BY <2>1 DEF TypeOK, BackendTypeOK
  <2>3. Joins(socket[c], seen, FlattenSeq(wire[c]), queue[c], Len(output[socket[c].manager]))
    BY <1>7, <2>1 DEF StreamOf
  <2>4. /\ FlattenSeq(wire'[c]) = FlattenSeq(wire[c]) \o queue[c]
        /\ \A d \in Sockets \ {c} : wire'[d] = wire[d]
    BY <1>7, <2>1, SentStream
  <2>5. Len(output[socket[c].manager]) \in Nat
    BY <2>1 DEF FollowInv, Serving, TypeOK, BackendTypeOK
  <2>6. Joins(socket[c], seen, FlattenSeq(wire[c]) \o queue[c], <<>>, Len(output[socket[c].manager]))
    BY <2>1, <2>3, <2>5, JoinsFlush
  <2>7. StreamOf(c)'
    BY <2>1, <2>2, <2>4, <2>6 DEF StreamOf
  <2>8. ASSUME NEW d \in Sockets \ {c} PROVE StreamOf(d)'
    BY <1>7, <2>1, <2>2, <2>4, StreamStays
  <2> QED BY <2>7, <2>8 DEF Goal
<1>18. ASSUME NEW c \in Sockets, Gone(c), UNCHANGED windowVars PROVE Goal
  BY <1>3, <1>18 DEF Gone, windowVars
<1>19. ASSUME ShellStep, UNCHANGED windowVars PROVE Goal
  <2>1. ASSUME NEW m \in Managers, ShellExits(m) PROVE Goal
    BY <1>1, <1>19, <2>1 DEF ShellExits, socketVars, windowVars
  <2>2. ASSUME NEW m \in Managers, NEW query \in BOOLEAN, ShellWrites(m, query) PROVE Goal
    BY <1>4, <1>19, <2>2 DEF ShellWrites, windowVars
  <2> QED BY <1>19, <2>1, <2>2 DEF ShellStep
<1>20. ASSUME ReaderStep, UNCHANGED windowVars PROVE Goal
  <2>1. ASSUME NEW m \in Managers, ReaderLeaves(m) PROVE Goal
    BY <1>4, <1>20, <2>1 DEF ReaderLeaves, windowVars
  <2>2. ASSUME NEW m \in Managers, ReaderUnregisters(m) PROVE Goal
    BY <1>1, <1>20, <2>2 DEF ReaderUnregisters, socketVars, windowVars
  <2>3. ASSUME NEW m \in Managers, ReaderCloses(m) PROVE Goal
    BY <1>5, <1>20, <2>3 DEF ReaderCloses, windowVars
  <2> QED BY <1>20, <2>1, <2>2, <2>3 DEF ReaderStep
<1>21. ASSUME StopStep, UNCHANGED windowVars PROVE Goal
  <2>1. ASSUME CloserPops PROVE Goal
    BY <1>1, <1>21, <2>1 DEF CloserPops, managerVars, socketVars, windowVars
  <2>2. ASSUME NEW t \in Threads, StopSignals(t) PROVE Goal
    BY <1>1, <1>21, <2>2 DEF StopSignals, socketVars, windowVars
  <2>3. ASSUME NEW t \in Threads, StopCloses(t) PROVE Goal
    BY <1>5, <1>21, <2>3 DEF StopCloses, windowVars
  <2> QED BY <1>21, <2>1, <2>2, <2>3 DEF StopStep
<1>22. ASSUME WorkspaceStep, UNCHANGED windowVars PROVE Goal
  BY <1>1, <1>22 DEF WorkspaceStep, StartWorkspace, TearDown, managerVars, socketVars, windowVars
<1>23. ASSUME Mount \/ QueryAges \/ UNCHANGED vars PROVE Goal
  BY <1>1, <1>23 DEF Mount, QueryAges, vars, backendVars, managerVars, socketVars, windowVars
<1>24. ASSUME ws \in Sockets => socket'[ws].link # "up",
              \A d \in Sockets \ {ws} : socket'[d].link = socket[d].link
       PROVE  Goal
  BY <1>24 DEF Goal, LinkInv, StreamOf
<1>25. ASSUME Unmount \/ ConfirmClose PROVE Goal
  <2>1. Leave
    BY <1>25 DEF Unmount, ConfirmClose
  <2>2. /\ ws \in Sockets => socket'[ws].link = "closed"
        /\ \A d \in Sockets \ {ws} : socket'[d].link = socket[d].link
    BY <2>1 DEF Leave, TypeOK, BackendTypeOK, SocketStates
  <2> QED BY <1>24, <2>2
<1>26. ASSUME Break \/ SocketCloses PROVE Goal
  <2>1. ws \in Sockets /\ \E link \in {"lost", "closed"} : socket' = [socket EXCEPT ![ws] = [@ EXCEPT !.link = link]]
    BY <1>26 DEF Break, SocketCloses, TypeOK
  <2> PICK link \in {"lost", "closed"} : socket' = [socket EXCEPT ![ws] = [@ EXCEPT !.link = link]]
    BY <2>1
  <2>2. /\ socket'[ws].link = link
        /\ \A d \in Sockets \ {ws} : socket'[d].link = socket[d].link
    BY <2>1 DEF TypeOK, BackendTypeOK, SocketStates
  <2> QED BY <1>24, <2>2
<1>27. ASSUME Connect PROVE Goal
  <2> PICK c : c = CHOOSE k \in Sockets : Free(k)
    OBVIOUS
  <2>1. c \in Sockets /\ socket[c].at = "none" /\ c # ws
    BY <1>27 DEF Connect, Free
  <2>2. /\ socket' = [socket EXCEPT ![c] = NewSocket("asked", "up", "none")]
        /\ wire' = wire /\ seen' = 0 /\ due
    BY <1>27 DEF Connect
  <2>3. /\ \A d \in Sockets \ {c} : socket'[d] = socket[d]
        /\ socket'[c].at = "asked"
    BY <2>1, <2>2 DEF NewSocket, TypeOK, BackendTypeOK
  <2>4. wire'[c] = <<>>
    BY <2>1, <2>2 DEF LinkInv
  <2>5. StreamOf(c)'
    BY <2>2, <2>3, <2>4, FlattenEmpty DEF StreamOf, Joins
  <2>6. ASSUME NEW d \in Sockets \ {c} PROVE StreamOf(d)'
    <3>1. socket[d].link # "up"
      BY <2>2, TerminalAssumption DEF LinkInv, TypeOK
    <3> QED BY <2>3, <3>1 DEF StreamOf
  <2> QED BY <2>5, <2>6 DEF Goal
<1>28. ASSUME Receive PROVE Goal
  <2> PICK c \in Sockets : c = ws
    BY <1>28 DEF Receive, TypeOK
  <2> PICK frame : frame = Head(wire[c])
    OBVIOUS
  <2>1. /\ wire[c] # <<>> /\ wire'[c] = Tail(wire[c])
        /\ \A d \in Sockets \ {c} : wire'[d] = wire[d]
        /\ UNCHANGED <<socket, queue, output>>
        /\ IF frame = <<>> THEN seen' = seen ELSE seen' = frame[Len(frame)].n
    BY <1>28 DEF Receive, managerVars, TypeOK, BackendTypeOK
  <2>2. frame \in Seq(Chunks) /\ Tail(wire[c]) \in Seq(Seq(Chunks))
    BY <1>7, <2>1, HeadTailProperties
  <2>3. FlattenSeq(Tail(wire[c])) \in Seq(Chunks)
    BY <2>2, FlattenTyped
  <2>4. FlattenSeq(wire[c]) = frame \o FlattenSeq(Tail(wire[c]))
    BY <1>7, <2>1, FlattenHead
  <2>5. StreamOf(c)'
    <3>1. CASE socket[c].link # "up"
      BY <2>1, <3>1 DEF StreamOf
    <3>2. CASE socket[c].link = "up"
      <4> DEFINE last == Len(output[socket[c].manager])
      <4>1. Joins(socket[c], seen, frame \o FlattenSeq(Tail(wire[c])), queue[c], last)
        BY <1>7, <2>4, <3>2 DEF StreamOf
      <4>2. CASE frame = <<>>
        <5>1. frame \o FlattenSeq(Tail(wire[c])) = FlattenSeq(Tail(wire[c]))
          BY <2>3, <4>2, ConcatEmptySeq
        <5> QED BY <2>1, <4>1, <4>2, <5>1 DEF StreamOf
      <4>3. CASE frame # <<>>
        <5>1. Joins(socket[c], frame[Len(frame)].n, FlattenSeq(Tail(wire[c])), queue[c], last)
          BY <2>2, <2>3, <4>1, <4>3, JoinsReceive
        <5> QED BY <2>1, <4>3, <5>1 DEF StreamOf
      <4> QED BY <4>2, <4>3
    <3> QED BY <3>1, <3>2
  <2>6. ASSUME NEW d \in Sockets \ {c} PROVE StreamOf(d)'
    <3>1. socket[d].link # "up"
      BY DEF LinkInv
    <3> QED BY <2>1, <3>1 DEF StreamOf
  <2> QED BY <2>5, <2>6 DEF Goal
<1>29. Goal
  BY <1>10, <1>11, <1>12, <1>13, <1>14, <1>15, <1>16, <1>17, <1>18, <1>19, <1>20, <1>21,
     <1>22, <1>23, <1>25, <1>26, <1>27, <1>28
     DEF Next, BackendNext, LoopStep, WindowNext
<1> QED BY <1>29 DEF Goal

LEMMA StreamInit == Init => StreamInv
<1> SUFFICES ASSUME Init PROVE StreamInv
  OBVIOUS
<1>1. \A c \in Sockets : /\ socket[c].at = "none" /\ socket[c].link = "closed" /\ queue[c] = <<>>
                         /\ \A m \in Managers : c \notin callbacks[m]
  BY DEF Init, BackendInit, NewSocket
<1>2. "none" \notin Serving
  BY DEF Serving
<1>3. Attached
  BY <1>1, <1>2 DEF Attached
<1>4. \A c \in Sockets : StreamOf(c)
  BY <1>1 DEF StreamOf
<1> QED BY <1>3, <1>4 DEF StreamInv

LEMMA AlwaysStream == Spec => [](TerminalInv /\ StreamInv)
<1>1. Init => TerminalInv /\ StreamInv
  BY InitInv, StreamInit
<1>2. TerminalInv /\ StreamInv /\ [Next]_vars => (TerminalInv /\ StreamInv)'
  <2> SUFFICES ASSUME TerminalInv, StreamInv, [Next]_vars PROVE TerminalInv' /\ StreamInv'
    OBVIOUS
  <2>1. TerminalInv'
    BY NextInv
  <2>2. Attached'
    BY AttachedStep DEF TerminalInv, StreamInv
  <2>3. \A c \in Sockets : StreamOf(c)'
    BY StreamStep DEF TerminalInv
  <2> QED BY <2>1, <2>2, <2>3 DEF StreamInv
<1> QED BY <1>1, <1>2, PTL DEF Spec

\* What a run of chunks up to the last one says of their numbers.
LEMMA WholeNumbers ==
  ASSUME NEW s, NEW a, NEW last \in Nat, Whole(s, a, last + 1)
  PROVE  [i \in DOMAIN s |-> s[i].n] = [i \in 1..last + 1 - a |-> a + i - 1]
<1>1. s \in Seq(Chunks) /\ a \in Nat /\ last + 1 = a + Len(s)
  BY DEF Whole
<1>2. DOMAIN s = 1 .. Len(s) /\ Len(s) \in Nat
  BY <1>1, LenProperties
<1>3. last + 1 - a = Len(s)
  BY <1>1, <1>2
<1>4. \A i \in 1 .. Len(s) : s[i].n = a + i - 1
  BY DEF Whole
<1> QED BY <1>2, <1>3, <1>4

\* However the output, the replays, the flushes and the connections interleave, a
\* connection carries the chunks from the first one held when it began to the last
\* one, each once and in turn (subscribe, _emit_output).
THEOREM StreamsAreWhole == Spec => []StreamIsWhole
<1>1. TerminalInv /\ StreamInv => StreamIsWhole
  <2> SUFFICES ASSUME TerminalInv, StreamInv, NEW c \in Sockets,
                      socket[c].at \in Serving, socket[c].link = "up"
               PROVE  LET last == Len(output[socket[c].manager])
                          next == IF seen = 0 THEN socket[c].from ELSE seen + 1
                      IN [i \in DOMAIN Coming(c) |-> Coming(c)[i].n]
                           = [i \in 1..last + 1 - next |-> next + i - 1]
    BY DEF StreamIsWhole
  <2> DEFINE next == IF seen = 0 THEN socket[c].from ELSE seen + 1
  <2>1. Joins(socket[c], seen, FlattenSeq(wire[c]), queue[c], Len(output[socket[c].manager]))
    BY DEF StreamInv, StreamOf
  <2>2. BackendTypeOK /\ FollowInv /\ Len(output[socket[c].manager]) \in Nat
    BY DEF TerminalInv, TypeOK, BackendTypeOK, FollowInv
  <2> PICK last \in Nat : last = Len(output[socket[c].manager])
    BY <2>2
  <2>3. Whole(Coming(c), next, last + 1)
    <3>1. CASE socket[c].at = "replaying"
      <4>1. /\ Whole(FlattenSeq(wire[c]), next, socket[c].from)
            /\ socket[c].from <= socket[c].upto + 1
            /\ Whole(queue[c], socket[c].upto + 1, last + 1)
        BY <2>1, <3>1 DEF Joins
      <4>2. Whole(Taken(c), socket[c].from, socket[c].upto + 1)
        BY <2>2, <3>1, <4>1, TakenWhole
      <4> HIDE DEF next
      <4>3. Whole((FlattenSeq(wire[c]) \o Taken(c)) \o queue[c], next, last + 1)
        BY <4>1, <4>2, WholeConcat
      <4> QED BY <3>1, <4>3 DEF Coming
    <3>2. CASE socket[c].at = "serving"
      <4>1. PICK j \in Nat : Whole(FlattenSeq(wire[c]), next, j) /\ Whole(queue[c], j, last + 1)
        BY <2>1, <3>2 DEF Joins
      <4> HIDE DEF next
      <4>2. FlattenSeq(wire[c]) \o <<>> = FlattenSeq(wire[c])
        BY <4>1, ConcatEmptySeq DEF Whole
      <4>3. Whole((FlattenSeq(wire[c]) \o <<>>) \o queue[c], next, last + 1)
        BY <4>1, <4>2, WholeConcat
      <4> QED BY <3>2, <4>3 DEF Coming
    <3> QED BY <3>1, <3>2 DEF Serving
  <2>4. [i \in DOMAIN Coming(c) |-> Coming(c)[i].n] = [i \in 1..last + 1 - next |-> next + i - 1]
    BY <2>3, WholeNumbers
  <2> QED BY <2>4
<1> QED BY <1>1, AlwaysStream, PTL

=============================================================================
