--------------------------- MODULE MCCRDTReplicas ---------------------------
(* Instance of CRDTReplicas for TLC. *)
EXTENDS CRDTReplicas, TLC

CONSTANTS n1, n2

MCNode == {n1, n2}
MCData == {"x", "y"}
MCDigest == [d \in MCData |-> IF d = "x" THEN 1 ELSE 2]
MCWrites == {<<"x", 1>>, <<"y", 1>>, <<"x", 2>>}

Symmetry == Permutations(MCNode)

=============================================================================
