--------------------------- MODULE MCReplicatedFS ---------------------------
(* Instance of ReplicatedFS for TLC. *)
EXTENDS ReplicatedFS, TLC

CONSTANTS p1, p2, b1, b2

MCPath == {p1, p2}
MCBlock == {b1, b2}

Symmetry == Permutations(MCPath) \cup Permutations(MCBlock)

=============================================================================
