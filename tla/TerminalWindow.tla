--------------------------- MODULE TerminalWindow ---------------------------
(***************************************************************************)
(* A terminal panel of the window over the terminals of the backend: its   *)
(* socket with the retries, the connection status on its tab, and the      *)
(* answers that xterm.js gives to queries in the output, which go to the   *)
(* program only shortly after a live query (useTerminal.ts,                *)
(* terminalTabs.ts, TerminalCloseConfirmation.tsx).                        *)
(***************************************************************************)
EXTENDS TerminalManager, SequencesExt

VARIABLES
  panel,      \* the panel is mounted, unmounted (in the background), or closed for good
  ws,         \* wsRef
  due,        \* a first connection or a retry is to come
  status,     \* terminalConnectionStatusesAtom: an unhealthy status, or none
  replayed,   \* hasReceivedReplayRef
  recent,     \* a live query was seen within SOLICITED_QUERY_RESPONSE_WINDOW_MS
  asked,      \* a live query has come over this connection (for the properties)
  seen        \* the last chunk that came over this connection, 0 for none

windowVars == <<panel, ws, due, status, replayed, recent, asked, seen>>
vars == <<backendVars, windowVars>>

\* Mutant: a terminal that is not there yet is given up.
GivesUpOnNone == {"unauthorized", "notFound"}
\* TERMINAL_NON_RETRYABLE_CLOSE_CODES; the server never closes with 1000.
NonRetryable == {"unauthorized"}

-----------------------------------------------------------------------------

Mount ==
  /\ panel = "unmounted"
  /\ panel' = "mounted" /\ due' = TRUE
  /\ UNCHANGED <<backendVars, ws, status, replayed, recent, asked, seen>>

\* The effect is cleaned up: the socket is closed and nothing is retried.
Leave ==
  /\ ws' = NoSocket /\ due' = FALSE /\ status' = "none"
  /\ socket' = [c \in Sockets |-> IF c = ws THEN [socket[c] EXCEPT !.link = "closed"] ELSE socket[c]]
  /\ wire' = [c \in Sockets |-> IF c = ws THEN <<>> ELSE wire[c]]
  /\ replayed' = FALSE /\ recent' = FALSE /\ asked' = FALSE /\ seen' = 0
  /\ UNCHANGED <<registryVars, managerVars, loop, queue, troubles>>

\* Another panel comes to the front.
Unmount == panel = "mounted" /\ Leave /\ panel' = "unmounted" /\ UNCHANGED thread

\* The user confirms the close of the terminal: the backend is asked to stop it.
ConfirmClose ==
  /\ panel # "closed" /\ Leave /\ panel' = "closed"
  /\ thread' = [thread EXCEPT !["closer"] = [at |-> "asked", manager |-> Nobody]]

Free(c) == socket[c].at = "none" /\ ws # c

\* connectWebSocket
Connect ==
  /\ due /\ due' = FALSE
  /\ \E c \in Sockets : Free(c)
  /\ LET c == CHOOSE c \in Sockets : Free(c)
     IN /\ ws' = c
        /\ socket' = [socket EXCEPT ![c] = NewSocket("asked", "up", "none")]
  /\ replayed' = FALSE /\ recent' = FALSE /\ asked' = FALSE /\ seen' = 0
  /\ UNCHANGED <<registryVars, managerVars, loop, thread, queue, wire, troubles, panel, status>>

HasQuery(frame) == \E i \in DOMAIN frame : frame[i].query
\* A query in a frame past the first one makes answers solicited.
LiveQuery(frame) == replayed /\ HasQuery(frame)

\* onopen, or a frame of output; the first one is taken for the replay.
Receive ==
  /\ ws # NoSocket /\ wire[ws] # <<>>
  /\ wire' = [wire EXCEPT ![ws] = Tail(@)]
  /\ LET frame == Head(wire[ws]) IN
      IF frame = <<>>
          THEN /\ status' = "none"
               /\ UNCHANGED <<replayed, recent, asked, seen>>
          ELSE /\ replayed' = TRUE
               /\ recent' = (recent \/ LiveQuery(frame))
               /\ asked' = (asked \/ \E i \in DOMAIN frame : frame[i].query /\ frame[i].live)
               /\ seen' = frame[Len(frame)].n
               /\ UNCHANGED status
  /\ UNCHANGED <<registryVars, managerVars, loop, thread, socket, queue, troubles, panel, ws, due>>

\* A second has passed since the last live query.
QueryAges ==
  /\ recent /\ recent' = FALSE
  /\ UNCHANGED <<backendVars, panel, ws, due, status, replayed, asked, seen>>

\* The connection breaks (1006): what was on the way is lost.
Break ==
  /\ ws # NoSocket /\ socket[ws].link = "up" /\ Trouble
  /\ socket' = [socket EXCEPT ![ws] = [@ EXCEPT !.link = "lost"]]
  /\ wire' = [wire EXCEPT ![ws] = <<>>]
  /\ UNCHANGED <<registryVars, managerVars, loop, thread, queue, windowVars>>

\* onclose: the server has ended the socket, or the link is lost.
SocketCloses ==
  /\ ws # NoSocket
  /\ \/ socket[ws].link = "lost"
     \/ socket[ws].link = "up" /\ socket[ws].at = "none" /\ wire[ws] = <<>>
  /\ socket' = [socket EXCEPT ![ws] = [@ EXCEPT !.link = "closed"]]
  /\ IF socket[ws].link = "up" /\ socket[ws].end \in NonRetryable
       THEN status' = "disconnected" /\ UNCHANGED due
       ELSE status' = "reconnecting" /\ due' = TRUE
  /\ UNCHANGED <<registryVars, managerVars, loop, thread, queue, wire, troubles,
                 panel, ws, replayed, recent, asked, seen>>

-----------------------------------------------------------------------------

Init ==
  /\ BackendInit
  /\ panel = "unmounted" /\ ws = NoSocket /\ due = FALSE /\ status = "none"
  /\ replayed = FALSE /\ recent = FALSE /\ asked = FALSE /\ seen = 0

WindowNext == \/ Mount \/ Unmount \/ ConfirmClose \/ Connect \/ Receive \/ QueryAges
              \/ Break \/ SocketCloses

Next == (BackendNext /\ UNCHANGED windowVars) \/ WindowNext
Spec == Init /\ [][Next]_vars

\* The event loop, the threads and the window go on; what shells, users,
\* networks and environments do is not up to them.
Fairness ==
  /\ WF_vars((Spawned \/ SpawnFails \/ Register \/ Join) /\ UNCHANGED windowVars)
  /\ \A c \in Sockets :
        /\ WF_vars((Handshake(c) \/ Subscribe(c) \/ SendReplay(c)) /\ UNCHANGED windowVars)
        /\ WF_vars(Gone(c) /\ UNCHANGED windowVars)
  /\ \A m \in Managers :
        WF_vars((ReaderLeaves(m) \/ ReaderUnregisters(m) \/ ReaderCloses(m)) /\ UNCHANGED windowVars)
  /\ \A t \in Threads : WF_vars((StopSignals(t) \/ StopCloses(t)) /\ UNCHANGED windowVars)
  /\ WF_vars(Connect) /\ WF_vars(Receive) /\ WF_vars(SocketCloses)

FairSpec == Spec /\ Fairness

-----------------------------------------------------------------------------
(* Properties *)

\* Every variable has its type.
TypeOK ==
  /\ BackendTypeOK
  /\ panel \in {"mounted", "unmounted", "closed"} /\ ws \in Sockets \cup {NoSocket}
  /\ due \in BOOLEAN /\ status \in {"none", "reconnecting", "disconnected"}
  /\ replayed \in BOOLEAN /\ recent \in BOOLEAN /\ asked \in BOOLEAN /\ seen \in Nat

\* What is on the way to a socket that is served.
Coming(c) == FlattenSeq(wire[c]) \o (IF socket[c].at = "replaying" THEN Taken(c) ELSE <<>>) \o queue[c]

\* A connection carries the output from the first chunk that was held when it
\* began to the last one, none twice, none missing, none out of turn, although
\* the reader writes on while the replay is taken and sent (subscribe,
\* _emit_output, the two tasks of _connect_terminal_websocket).
StreamIsWhole ==
  \A c \in Sockets : socket[c].at \in Serving /\ socket[c].link = "up" =>
    LET last == Len(output[socket[c].manager])
        next == IF seen = 0 THEN socket[c].from ELSE seen + 1
    IN [i \in DOMAIN Coming(c) |-> Coming(c)[i].n] = [i \in 1..last + 1 - next |-> next + i - 1]

\* Answers of xterm.js go to the program only after a query that the program
\* wrote while this window was connected, never after one in the replay of a
\* connection (hasReceivedReplayRef, shouldForwardQueryResponse).
AnswersAreLive == recent => asked

\* A shell that runs can be reached: it is registered, or someone is about to
\* register or to stop it, in whatever order shells exit, panels close,
\* workspaces go and connections come (create_terminal_for_environment, stop,
\* _unregister_from_registry).
NoOrphanShell ==
  \A m \in Managers : manager[m].shell = "up" =>
    \/ registry = m \/ loop.manager = m
    \/ \E t \in Threads : thread[t].manager = m

\* A panel of a workspace that runs is served in the end, however often its
\* connection breaks or its terminal is not there yet, unless the window is
\* not authorized (the retry in onclose).
TerminalComesBack ==
  (panel = "mounted" /\ configured) ~>
    \/ ws # NoSocket /\ socket[ws].at = "serving" /\ status = "none"
    \/ ws # NoSocket /\ socket[ws].end = "unauthorized"
    \/ panel # "mounted" \/ torn

\* A query that comes live makes the answer to it go to the program.
LiveQueryIsAnswered == [][~asked /\ asked' => recent']_vars

=============================================================================
