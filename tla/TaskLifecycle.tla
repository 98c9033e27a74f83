--------------------------- MODULE TaskLifecycle ---------------------------
(***************************************************************************)
(* What the task service promises of every task, with its threads,         *)
(* transactions and restarts hidden: a task is created once, lives, is     *)
(* doomed when its deletion commits, and is over when no thread holds on   *)
(* to it any more.  From then on nothing runs it, not even after a         *)
(* restart.  A task that is over cannot be told from one that never was.   *)
(***************************************************************************)
CONSTANT Task

VARIABLES
    stage,    \* task -> "absent", "live", "doomed" or "over"
    running   \* the tasks that have a runner

vars == <<stage, running>>

Stage == {"absent", "live", "doomed", "over"}

\* Where a task's stage may move to in one step.
Later == {<<"absent", "live">>, <<"live", "doomed">>, <<"live", "over">>,
          <<"doomed", "over">>}

Init ==
    /\ stage \in [Task -> {"absent", "live"}]
    /\ running = {}

\* Tasks are created and deleted (a workspace's all together) and runners
\* end (in a crash, all together).
Advance ==
    /\ stage' \in [Task -> Stage]
    /\ \A t \in Task : \/ stage'[t] = stage[t]
                       \/ <<stage[t], stage'[t]>> \in Later
    /\ running' \subseteq running
    /\ \A t \in Task : stage'[t] \in {"absent", "over"} => t \notin running'

\* A runner begins: one per task, and never for a task that is over.
Begin(t) ==
    /\ stage[t] \in {"live", "doomed"}
    /\ t \notin running
    /\ running' = running \cup {t}
    /\ UNCHANGED stage

Next == Advance \/ \E t \in Task : Begin(t)

Spec == Init /\ [][Next]_vars

=============================================================================
