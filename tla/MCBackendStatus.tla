--------------------------- MODULE MCBackendStatus ---------------------------
(***************************************************************************)
(* Small instances of BackendStatus.                                        *)
(***************************************************************************)
EXTENDS BackendStatus
=============================================================================
