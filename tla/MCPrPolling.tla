---------------------------- MODULE MCPrPolling ----------------------------
(***************************************************************************)
(* PR polling for TLC.  A behaviour has two changes, or one change and one *)
(* of: a failed call, a client that goes and comes again, a directory that *)
(* is made late.                                                           *)
(***************************************************************************)
EXTENDS PrPolling

CONSTANTS Feature, Other

\* Where a behaviour starts: how much of the bounds is used up, whether the
\* directory is there, and whether polling is on.
Plain == [changes |-> 1, links |-> 2, failures |-> 1, cloned |-> TRUE, enabled |-> TRUE]

Starts == {[Plain EXCEPT !.changes = 0], [Plain EXCEPT !.failures = 0], [Plain EXCEPT !.links = 0],
           [Plain EXCEPT !.cloned = FALSE], [Plain EXCEPT !.enabled = FALSE]}

MCInit ==
    /\ \E start \in Starts :
          /\ changes = start.changes /\ links = start.links /\ failures = start.failures
          /\ cloned = start.cloned /\ enabled = start.enabled
          /\ request = [b \in Branch |-> IF b = Feature THEN "open" ELSE "none"]
    /\ head = Feature /\ scanned = NoBranch
    /\ row = [target |-> Base, open |-> TRUE, deleted |-> FALSE]
    /\ Idle

\* The checkout may change to the base, or the target to another branch, not
\* both and once; the only pull request is the one from Feature.
OneSwitch ==
    /\ <<head', row'.target>> # <<head, row.target>> => head = Feature /\ row.target = Base
    /\ head' \in {Feature, Base} /\ row'.target \in {Base, Other} /\ request'[Other] = "none"

MCFairSpec == MCInit /\ [][Next /\ OneSwitch]_vars /\ Fairness
=============================================================================
