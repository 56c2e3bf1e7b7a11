---------------------------- MODULE MCControlPlane ----------------------------
(* A small instance of ControlPlane for TLC: one key, of a TCP listener. *)
EXTENDS ControlPlaneInv, TLC

MCKeys == [port: {1}, protocol: {"tcp"}]

Symmetry == Permutations(Hosts) \cup Permutations(Scrapers)
=============================================================================
