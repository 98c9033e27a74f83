------------------------ MODULE MCExtensionManager ------------------------
(***************************************************************************)
(* Small instances of ExtensionManager.                                     *)
(***************************************************************************)
EXTENDS ExtensionManager, TLC

\* One source at most was switched on or off before, and then one load is not
\* begun yet.
Bounded == /\ Cardinality(disabled \cup enabled) <= 1
           /\ disabled \cup enabled # {} => \E t \in Attempts : task[t] = NotBegun

MCInit == Init /\ Bounded

MCSpec == MCInit /\ [][Next /\ Bounded']_vars
Symmetry == Permutations(Attempts)
=============================================================================
