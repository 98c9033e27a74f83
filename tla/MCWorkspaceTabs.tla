-------------------------- MODULE MCWorkspaceTabs --------------------------
(***************************************************************************)
(* Small instances of WorkspaceTabs.                                        *)
(***************************************************************************)
EXTENDS WorkspaceTabs, TLC

\* Of three requests, a change of is_open elsewhere and a closed socket, a
\* behaviour has three, and not the last two together.
Bounded == /\ moves + drops <= 1
           /\ moves + drops + Cardinality({r \in Requests : request[r] # Fresh}) <= 3

MCSpec == Init /\ [][Next /\ Bounded']_vars
Symmetry == Permutations(Requests)
=============================================================================
