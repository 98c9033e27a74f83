--------------------------- MODULE BackendLifetime ---------------------------
(***************************************************************************)
(* What the main process promises of the backends it spawns, with jobs,     *)
(* polls, messages and signals hidden: one is started only when the exit of *)
(* every one before it has been handled, only a custom command is started   *)
(* again, and never while the application quits; and the application does   *)
(* not end before its backend without an excuse.                            *)
(***************************************************************************)
CONSTANT Backend

VARIABLES
  custom,    \* a custom command is run
  started,   \* the backends that were started
  running,   \* those that run
  handled,   \* those whose exit has been handled
  phase,     \* "up", "cleaning" or "ended"
  excused    \* a second request to quit, or a start during the first

vars == <<custom, started, running, handled, phase, excused>>

Init ==
  /\ custom \in BOOLEAN
  /\ started = {} /\ running = {} /\ handled = {}
  /\ phase = "up" /\ excused = FALSE

\* The first start may come too late: while the application quits.
Start(b) ==
  /\ phase # "ended" /\ b \notin started
  /\ started = handled
  /\ started # {} => custom /\ phase = "up"
  /\ started' = started \cup {b}
  /\ \/ running' = running \cup {b} /\ UNCHANGED handled
     \/ handled' = handled \cup {b} /\ UNCHANGED running
  /\ excused' = (excused \/ phase = "cleaning")
  /\ UNCHANGED <<custom, phase>>

\* A backend exits, also one that has outlived the application.
Exit(b) ==
  /\ b \in running
  /\ running' = running \ {b}
  /\ UNCHANGED <<custom, started, handled, phase, excused>>

\* Its exit is handled.
Handle(b) ==
  /\ phase # "ended" /\ b \in started \ (running \cup handled)
  /\ handled' = handled \cup {b}
  /\ UNCHANGED <<custom, started, running, phase, excused>>

Quit ==
  /\ phase = "up" /\ phase' = "cleaning"
  /\ UNCHANGED <<custom, started, running, handled, excused>>

\* The user insists: the application ends at once.
Insist ==
  /\ phase = "cleaning" /\ phase' = "ended"
  /\ excused' = TRUE
  /\ UNCHANGED <<custom, started, running, handled>>

\* The application ends after its backend, or kills it.
End ==
  /\ phase = "cleaning" /\ phase' = "ended"
  /\ running' \in {running, {}}
  /\ running' = {} \/ excused
  /\ UNCHANGED <<custom, started, handled, excused>>

Next ==
  \/ \E b \in Backend : Start(b) \/ Exit(b) \/ Handle(b)
  \/ Quit \/ Insist \/ End

Spec == Init /\ [][Next]_vars
=============================================================================
