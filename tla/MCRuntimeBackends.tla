--------------------------- MODULE MCRuntimeBackends ---------------------------
(* Small instances of RuntimeBackends for TLC. *)
EXTENDS RuntimeBackendsInv
=============================================================================
