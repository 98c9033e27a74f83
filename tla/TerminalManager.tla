-------------------------- MODULE TerminalManager --------------------------
(***************************************************************************)
(* The backend of one workspace terminal: the registry of terminal         *)
(* managers, the shell and the reader thread of a manager, the output it   *)
(* keeps for a replay, and the sockets that follow it                      *)
(* (local_terminal_manager.py and the terminal routes of web/app.py).      *)
(*                                                                         *)
(* Four kinds of threads share the registry and the managers: the event    *)
(* loop, which runs the routes of the sockets and blocks while it starts a *)
(* shell; the reader of each manager; the DELETE route of the panel        *)
(* ("closer"); and the teardown of the environment ("remover").            *)
(***************************************************************************)
EXTENDS Naturals, FiniteSets, Sequences

CONSTANTS
  Managers,     \* LocalTerminalManager objects; one is made anew when nothing holds it
  Sockets,      \* web sockets, likewise
  Nobody,       \* no manager
  NoSocket,     \* no socket
  MaxOutput,    \* chunks that a shell writes
  MaxHeld,      \* chunks the output buffer holds (MAX_OUTPUT_BUFFER_SIZE)
  MaxTroubles   \* shells that exit or do not start, and sockets that break

ASSUME TerminalAssumption ==
  /\ Nobody \notin Managers /\ NoSocket \notin Sockets
  /\ MaxOutput \in Nat /\ MaxHeld \in Nat \ {0} /\ MaxTroubles \in Nat

VARIABLES
  configured,   \* the environment's config is registered
  torn,         \* the environment was torn down
  registry,     \* the registered manager
  manager,      \* of a manager: its shell, its pty, its reader thread, and the stop flag
  output,       \* of a manager: for each chunk of output, whether it holds a query
  callbacks,    \* of a manager: the sockets whose callback it calls
  loop,         \* what the event loop is in the middle of
  thread,       \* what closer and remover are in the middle of
  socket,       \* of a socket: the server's side, the link, how the server ended it,
                \* its manager, and the first and the last chunk of its replay
  queue,        \* of a socket: the chunks its writer has not sent
  wire,         \* of a socket: frames on the way to the window; <<>> is the acceptance
  troubles

registryVars == <<configured, torn, registry>>
managerVars == <<manager, output, callbacks>>
socketVars == <<socket, queue, wire>>
backendVars == <<registryVars, managerVars, loop, thread, socketVars, troubles>>

Threads == {"closer", "remover"}
Serving == {"replaying", "serving"}

NoManager == [shell |-> "none", pty |-> "none", reader |-> "none", stop |-> FALSE]
Started == [shell |-> "up", pty |-> "open", reader |-> "reading", stop |-> FALSE]
NewSocket(at, link, end) ==
  [at |-> at, link |-> link, end |-> end, manager |-> Nobody, from |-> 1, upto |-> 0]
Idle == [at |-> "idle", socket |-> NoSocket, manager |-> Nobody]
Resting == [at |-> "idle", manager |-> Nobody]

LoopIsFree == loop.at = "idle"
Trouble == troubles < MaxTroubles /\ troubles' = troubles + 1

-----------------------------------------------------------------------------
(* Output *)

Chunk(m, n, live) == [n |-> n, query |-> output[m][n], live |-> live]

\* The first chunk that the buffer of a manager still holds.
HeldFrom(m) == IF Len(output[m]) > MaxHeld THEN Len(output[m]) - MaxHeld + 1 ELSE 1

\* Mutant: a socket listens only once its replay was sent.
ServedOnly(m) == {c \in callbacks[m] : socket[c].at = "serving"}
Listening(m) == callbacks[m]

\* _emit_output: a chunk is kept, and queued for every socket that listens.
Emit(m, query) ==
  /\ output' = [output EXCEPT ![m] = Append(@, query)]
  /\ queue' = [c \in Sockets |->
                IF c \in Listening(m)
                  THEN Append(queue[c], [n |-> Len(output[m]) + 1, query |-> query, live |-> TRUE])
                  ELSE queue[c]]

-----------------------------------------------------------------------------
(* Sockets *)

\* The coroutine of a socket ends, and its callback goes with it.
Over(c, end) ==
  /\ socket' = [socket EXCEPT ![c] = NewSocket("none", socket[c].link, end)]
  /\ callbacks' = [m \in Managers |-> callbacks[m] \ {c}]
  /\ queue' = [queue EXCEPT ![c] = <<>>]

Sent(c, frame) == wire' = IF socket[c].link = "up" THEN [wire EXCEPT ![c] = Append(@, frame)] ELSE wire

\* The server accepts a socket only to say why it closes it.
Refuse(c, end) == Over(c, end) /\ Sent(c, <<>>)

\* Nothing holds the manager any more.
Unheld(m) ==
  /\ registry # m /\ manager[m].reader \in {"none", "done"} /\ manager[m].shell # "up"
  /\ \A c \in Sockets : socket[c].manager # m
  /\ loop.manager # m /\ \A t \in Threads : thread[t].manager # m

\* A request for the terminal: the registered one will do, or one is made from
\* the config, if there is one.
Handshake(c) ==
  /\ LoopIsFree /\ socket[c].at = "asked"
  /\ \/ /\ registry # Nobody
        /\ loop' = [at |-> "joining", socket |-> c, manager |-> Nobody]
        /\ UNCHANGED <<managerVars, socketVars>>
     \/ /\ registry = Nobody /\ configured
        /\ \E m \in Managers : Unheld(m)
        /\ LET m == CHOOSE m \in Managers : Unheld(m)
           IN /\ loop' = [at |-> "spawning", socket |-> c, manager |-> m]
              /\ manager' = [manager EXCEPT ![m] = NoManager]
              /\ output' = [output EXCEPT ![m] = <<>>]
        /\ UNCHANGED <<callbacks, socketVars>>
     \/ /\ registry = Nobody /\ ~configured
        /\ Refuse(c, "notFound")
        /\ UNCHANGED <<manager, output, loop>>
  /\ UNCHANGED <<registryVars, thread, troubles>>

\* The session token of the window is not valid.
Reject(c) ==
  /\ LoopIsFree /\ socket[c].at = "asked" /\ Trouble
  /\ Refuse(c, "unauthorized")
  /\ UNCHANGED <<registryVars, manager, output, loop, thread>>

\* start: the shell runs and its reader reads ...
Spawned ==
  /\ loop.at = "spawning"
  /\ manager' = [manager EXCEPT ![loop.manager] = Started]
  /\ loop' = [loop EXCEPT !.at = "started"]
  /\ UNCHANGED <<registryVars, output, callbacks, thread, socketVars, troubles>>

\* ... or no shell could be had.
SpawnFails ==
  /\ loop.at = "spawning" /\ loop' = Idle /\ Trouble
  /\ Refuse(loop.socket, "notFound")
  /\ UNCHANGED <<registryVars, manager, output, thread>>

\* The manager is registered, whatever has happened since.  Only the event
\* loop makes workspace terminals: no other is registered by now.
Register ==
  /\ loop.at = "started"
  /\ registry' = loop.manager
  /\ loop' = [at |-> "joining", socket |-> loop.socket, manager |-> Nobody]
  /\ UNCHANGED <<configured, torn, managerVars, thread, socketVars, troubles>>

\* The route looks the terminal up once more, and follows what it finds.
Join ==
  /\ loop.at = "joining" /\ loop' = Idle
  /\ \/ /\ registry = Nobody
        /\ Refuse(loop.socket, "notFound")
     \/ /\ registry # Nobody
        /\ socket' = [socket EXCEPT ![loop.socket] =
                        [@ EXCEPT !.at = "accepted", !.manager = registry]]
        /\ Sent(loop.socket, <<>>)
        /\ UNCHANGED <<callbacks, queue>>
  /\ UNCHANGED <<registryVars, manager, output, thread, troubles>>

\* What is held is taken and the callback registered, under one lock.
Subscribe(c) ==
  /\ LoopIsFree /\ socket[c].at = "accepted"
  /\ callbacks' = [callbacks EXCEPT ![socket[c].manager] = @ \cup {c}]
  /\ socket' = [socket EXCEPT ![c] =
                  [@ EXCEPT !.at = "replaying", !.from = HeldFrom(socket[c].manager),
                            !.upto = Len(output[socket[c].manager])]]
  /\ UNCHANGED <<registryVars, manager, output, loop, thread, queue, wire, troubles>>

\* The chunks that were taken.
Taken(c) == [i \in 1..socket[c].upto + 1 - socket[c].from |->
              Chunk(socket[c].manager, socket[c].from + i - 1, FALSE)]

\* The replay is one frame, and none when there is nothing to replay.
SendReplay(c) ==
  /\ LoopIsFree /\ socket[c].at = "replaying" /\ socket[c].link = "up"
  /\ IF Taken(c) = <<>> THEN UNCHANGED wire ELSE Sent(c, Taken(c))
  /\ socket' = [socket EXCEPT ![c] = [@ EXCEPT !.at = "serving"]]
  /\ UNCHANGED <<registryVars, managerVars, loop, thread, queue, troubles>>

\* write_websocket: the chunks that have come are sent as one frame.
Flush(c) ==
  /\ LoopIsFree /\ socket[c].at = "serving" /\ socket[c].link = "up"
  /\ queue[c] # <<>>
  /\ Sent(c, queue[c])
  /\ queue' = [queue EXCEPT ![c] = <<>>]
  /\ UNCHANGED <<registryVars, managerVars, loop, thread, socket, troubles>>

\* The server sees that the other side is gone.
Gone(c) ==
  /\ LoopIsFree /\ socket[c].at \in Serving \cup {"asked", "accepted"}
  /\ socket[c].link # "up"
  /\ Over(c, "none")
  /\ UNCHANGED <<registryVars, manager, output, loop, thread, wire, troubles>>

-----------------------------------------------------------------------------
(* The shell of a manager, its reader, and those who stop it *)

\* Mutant: whoever is registered goes, as with the pop of the DELETE route.
AnyRegistered(m) == registry # Nobody
Registered(m) == registry = m

\* _unregister_from_registry
Unregister(m) == registry' = IF Registered(m) THEN Nobody ELSE registry

\* _close_pty_process.  A write of the event loop may be in the middle: it
\* finds no pty, and nobody catches the error.
ClosePty(m) ==
  \/ UNCHANGED <<callbacks, socket, queue>>
  \/ /\ LoopIsFree /\ manager[m].pty = "open"
     /\ \E c \in Sockets : socket[c].at = "serving" /\ socket[c].manager = m /\ Over(c, "raised")

Closed(m, reader) == [shell |-> "down", pty |-> "none", reader |-> reader, stop |-> manager[m].stop]

ShellWrites(m, query) ==
  /\ manager[m].shell = "up" /\ manager[m].reader = "reading"
  /\ Len(output[m]) < MaxOutput
  /\ Emit(m, query)
  /\ UNCHANGED <<registryVars, manager, callbacks, loop, thread, socket, wire, troubles>>

ShellExits(m) ==
  /\ manager[m].shell = "up" /\ Trouble
  /\ manager' = [manager EXCEPT ![m] = [@ EXCEPT !.shell = "down"]]
  /\ UNCHANGED <<registryVars, output, callbacks, loop, thread, socketVars>>

\* The reader meets the end of the output or the stop flag, and says so.
ReaderLeaves(m) ==
  /\ manager[m].reader = "reading" /\ (manager[m].shell = "down" \/ manager[m].stop)
  /\ manager' = [manager EXCEPT ![m] = [@ EXCEPT !.reader = "left"]]
  /\ Emit(m, FALSE)
  /\ UNCHANGED <<registryVars, callbacks, loop, thread, socket, wire, troubles>>

\* A reader that nobody stopped cleans up after its shell.
ReaderUnregisters(m) ==
  /\ manager[m].reader = "left"
  /\ IF manager[m].stop
       THEN /\ manager' = [manager EXCEPT ![m] = [@ EXCEPT !.reader = "done"]]
            /\ UNCHANGED registry
       ELSE /\ manager' = [manager EXCEPT ![m] = [@ EXCEPT !.reader = "closing"]]
            /\ Unregister(m)
  /\ UNCHANGED <<configured, torn, output, callbacks, loop, thread, socketVars, troubles>>

ReaderCloses(m) ==
  /\ manager[m].reader = "closing"
  /\ ClosePty(m)
  /\ manager' = [manager EXCEPT ![m] = Closed(m, "done")]
  /\ UNCHANGED <<registryVars, output, loop, thread, wire, troubles>>

\* The DELETE route pops the terminal; there may be none (404).
CloserPops ==
  /\ thread["closer"].at = "asked"
  /\ registry' = Nobody
  /\ thread' = [thread EXCEPT !["closer"] =
                  IF registry = Nobody THEN Resting ELSE [at |-> "stopping", manager |-> registry]]
  /\ UNCHANGED <<configured, torn, managerVars, loop, socketVars, troubles>>

\* The environment is registered, by the first agent that runs in it ...
StartWorkspace ==
  /\ ~configured /\ ~torn
  /\ configured' = TRUE
  /\ UNCHANGED <<torn, registry, managerVars, loop, thread, socketVars, troubles>>

\* ... and torn down with its workspace: stop_terminals_for_environment takes
\* the config and what is registered under one lock.
TearDown ==
  /\ configured
  /\ configured' = FALSE /\ torn' = TRUE
  /\ thread' = [thread EXCEPT !["remover"] =
                  IF registry = Nobody THEN Resting ELSE [at |-> "stopping", manager |-> registry]]
  /\ UNCHANGED <<registry, managerVars, loop, socketVars, troubles>>

\* stop, up to the wait for the reader.
StopSignals(t) ==
  /\ thread[t].at = "stopping"
  /\ Unregister(thread[t].manager)
  /\ manager' = [manager EXCEPT ![thread[t].manager] = [@ EXCEPT !.stop = TRUE]]
  /\ thread' = [thread EXCEPT ![t] = [@ EXCEPT !.at = "joining"]]
  /\ UNCHANGED <<configured, torn, output, callbacks, loop, socketVars, troubles>>

\* The rest of stop.  A reader that is closing the pty itself may outlast the wait.
StopCloses(t) ==
  /\ thread[t].at = "joining"
  /\ manager[thread[t].manager].reader \in {"closing", "done"}
  /\ ClosePty(thread[t].manager)
  /\ manager' = [manager EXCEPT ![thread[t].manager] = Closed(thread[t].manager, @.reader)]
  /\ thread' = [thread EXCEPT ![t] = Resting]
  /\ UNCHANGED <<registryVars, output, loop, wire, troubles>>

-----------------------------------------------------------------------------

ManagerOrNot == Managers \cup {Nobody}
ManagerStates == [shell : {"none", "up", "down"}, pty : {"none", "open"},
                  reader : {"none", "reading", "left", "closing", "done"}, stop : BOOLEAN]
LoopStates == [at : {"idle", "spawning", "started", "joining"},
               socket : Sockets \cup {NoSocket}, manager : ManagerOrNot]
ThreadStates == [at : {"idle", "asked", "stopping", "joining"}, manager : ManagerOrNot]
Ends == {"none", "notFound", "unauthorized", "raised"}
SocketStates == [at : Serving \cup {"none", "asked", "accepted"}, link : {"up", "lost", "closed"},
                 end : Ends, manager : ManagerOrNot, from : Nat \ {0}, upto : Nat]
Chunks == [n : Nat, query : BOOLEAN, live : BOOLEAN]

BackendTypeOK ==
  /\ configured \in BOOLEAN /\ torn \in BOOLEAN /\ registry \in ManagerOrNot
  /\ manager \in [Managers -> ManagerStates]
  /\ output \in [Managers -> Seq(BOOLEAN)]
  /\ callbacks \in [Managers -> SUBSET Sockets]
  /\ loop \in LoopStates /\ (loop.at # "idle" => loop.socket \in Sockets)
  /\ thread \in [Threads -> ThreadStates]
  /\ socket \in [Sockets -> SocketStates]
  /\ queue \in [Sockets -> Seq(Chunks)] /\ wire \in [Sockets -> Seq(Seq(Chunks))]
  /\ troubles \in Nat

BackendInit ==
  /\ configured = FALSE /\ torn = FALSE /\ registry = Nobody
  /\ manager = [m \in Managers |-> NoManager]
  /\ output = [m \in Managers |-> <<>>]
  /\ callbacks = [m \in Managers |-> {}]
  /\ loop = Idle /\ thread = [t \in Threads |-> Resting]
  /\ socket = [c \in Sockets |-> NewSocket("none", "closed", "none")]
  /\ queue = [c \in Sockets |-> <<>>] /\ wire = [c \in Sockets |-> <<>>]
  /\ troubles = 0

\* What the event loop does when its turn comes.
LoopStep == \/ Spawned \/ SpawnFails \/ Register \/ Join
            \/ \E c \in Sockets : \/ Handshake(c) \/ Reject(c) \/ Subscribe(c)
                                  \/ SendReplay(c) \/ Flush(c) \/ Gone(c)
ShellStep == \E m \in Managers : ShellExits(m) \/ \E query \in BOOLEAN : ShellWrites(m, query)
ReaderStep == \E m \in Managers : ReaderLeaves(m) \/ ReaderUnregisters(m) \/ ReaderCloses(m)
StopStep == CloserPops \/ \E t \in Threads : StopSignals(t) \/ StopCloses(t)
WorkspaceStep == StartWorkspace \/ TearDown

BackendNext == LoopStep \/ ShellStep \/ ReaderStep \/ StopStep \/ WorkspaceStep

=============================================================================
