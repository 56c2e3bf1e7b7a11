---------------------------- MODULE MCTcpListener ----------------------------
(* Small instances of TcpListener for TLC. *)
EXTENDS TcpListenerInv
=============================================================================
