---------------------------- MODULE MCUdpListener ----------------------------
(* Small instances of UdpListener for TLC. *)
EXTENDS UdpListenerInv, TLC

Symmetry == Permutations(Peers) \cup Permutations(Sessions) \cup Permutations(Targets)
=============================================================================
