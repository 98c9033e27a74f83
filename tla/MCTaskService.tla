--------------------------- MODULE MCTaskService ---------------------------
(***************************************************************************)
(* TaskService for TLC.  A behaviour serves two requests, the first of     *)
(* which may create the second task, or one request and a restart: a start *)
(* state says how much of the bounds is used up.                           *)
(***************************************************************************)
EXTENDS TaskService

CONSTANTS
    Second,        \* the task that is not stored at the start
    FirstClient,   \* the one that serves when both are idle
    FirstSlot      \* the one that is used when both are free

TwoRequests == [requests |-> 0, restarts |-> 1]
OneRestart  == [requests |-> 1, restarts |-> 0]

MCInit ==
    /\ db \in {[t \in Task |-> IF t = Second THEN NoRow ELSE first] : first \in {NoRow, NewRow}}
    /\ \E start \in {TwoRequests, OneRestart} :
          /\ requests = start.requests
          /\ restarts = start.restarts
    /\ wsDeleted = FALSE
    /\ FreshProcess

\* Clients are alike: a request that both could serve is served by the first.
InTurn == requests' # requests => ~(req[FirstClient].pc = "idle" /\ req'[FirstClient].pc = "idle")

\* So are the names of the runner threads of a task.
FirstName ==
    \A t \in Task : runnerOf'[t] \in {runnerOf[t], FirstSlot, NoSlot} \/ thread[t][FirstSlot] # "none"

MCFairSpec == MCInit /\ [][Next /\ InTurn /\ FirstName]_vars /\ Fairness
=============================================================================
