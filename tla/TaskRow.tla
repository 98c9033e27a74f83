------------------------------ MODULE TaskRow ------------------------------
(***************************************************************************)
(* A row of the table task_latest and the queries the task service runs on *)
(* it (services/data_model_service/sql_implementation.py).  Of the columns *)
(* of a Task only those that steer the task service are kept: the outcome  *)
(* and the two soft-delete columns.  Every other column (title, read mark, *)
(* model catalogue, ...) is payload.                                       *)
(***************************************************************************)

\* TaskState (interfaces/agents/tasks.py), and ABSENT for "no such row".
Outcome == {"ABSENT", "QUEUED", "RUNNING", "SUCCEEDED", "FAILED", "CANCELLED", "DELETED"}

Row == [outcome : Outcome, isDeleting : BOOLEAN, isDeleted : BOOLEAN]

NoRow == [outcome |-> "ABSENT", isDeleting |-> FALSE, isDeleted |-> FALSE]

NewRow == [outcome |-> "QUEUED", isDeleting |-> FALSE, isDeleted |-> FALSE]

Present(row) == row.outcome # "ABSENT"

\* get_task: a deleted row is as good as none.
Visible(row) == Present(row) /\ ~row.isDeleted

\* Mutant: the queries forget the column is_deleting.
ListedWhileDeleting(row) == Visible(row)

\* get_tasks_for_project and get_active_tasks also hide rows being deleted.
Listed(row) == Visible(row) /\ ~row.isDeleting

\* get_stuck_deleting_tasks.
StuckDeleting(row) == Visible(row) /\ row.isDeleting

\* Mutant: no monotonic columns, the last full row written wins.
UpsertLastWriterWins(old, new) == new

\* upsert_task writes ALL the columns of the row it is given; the trigger of
\* the table keeps the soft-delete columns at MAX(stored, written).
Upsert(old, new) ==
    [new EXCEPT !.isDeleting = @ \/ old.isDeleting,
                !.isDeleted  = @ \/ old.isDeleted]

WithOutcome(row, outcome) == [row EXCEPT !.outcome = outcome]

\* The row _finalize_task_as_deleted writes.
AsDeleted(row) ==
    [outcome |-> "DELETED", isDeleting |-> FALSE, isDeleted |-> TRUE]

=============================================================================
