--------------------------- MODULE MCCIBabysitter ---------------------------
(***************************************************************************)
(* The CI Babysitter for TLC.  Pauses and conflicts are checked beside     *)
(* each other: a behaviour has the one or the other, with all the rest.    *)
(***************************************************************************)
EXTENDS CIBabysitter

MCInit == Init /\ (asks = MaxAsks \/ pr.episode = MaxEpisodes)

MCSpec == MCInit /\ [][Next]_vars
=============================================================================
