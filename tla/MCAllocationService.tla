------------------------ MODULE MCAllocationService ------------------------
(* Small instances of AllocationService for TLC. *)
EXTENDS AllocationServiceInv, TLC

Symmetry == Permutations(Ids) \cup Permutations(Clients) \cup Permutations(Hosts)
=============================================================================
