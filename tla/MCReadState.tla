---------------------------- MODULE MCReadState ----------------------------
(***************************************************************************)
(* One agent, its window and a stream that closes once.                     *)
(***************************************************************************)
EXTENDS ReadState, TLC

\* The stream is closed only where no agent has taken a turn, and neither a
\* rename nor a deletion is under way.
Bounded ==
  drops = 0 \/ /\ \A a \in Agents : server[a] = Gone \/ server[a].turn = 0
               /\ \A r \in Requests : IsUnderWay(r) => request[r].kind \notin {"rename", "delete"}

MCSpec == Init /\ [][Next /\ Bounded']_vars
Symmetry == Permutations(Requests) \cup Permutations(Titles)
=============================================================================
