----------------------------- MODULE MCResolver -----------------------------
(* Resolver with a DID that holds a bar, and a TTL that is not positive. *)
EXTENDS Resolver

CONSTANTS p1, p2, c1, c2

MCDid == {<<p1>>, <<p2, p1>>}
MCTtl == {-1, 1, 2}

=============================================================================
