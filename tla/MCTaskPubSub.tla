---------------------------- MODULE MCTaskPubSub ----------------------------
(* TaskPubSub on small sets. *)
EXTENDS TaskPubSub
=============================================================================
