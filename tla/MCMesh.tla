------------------------------- MODULE MCMesh -------------------------------
(* Instances of Mesh: the seed, whom a user addresses, and another node. *)
EXTENDS Mesh

CONSTANTS s, a, u, p, q, e

TheNodes == {s, a}
TheSeed == s
TheUser == u
TheirUser == {s}
TheParts == {p, q, e}

\* p:q, p: and :q, of which the last has an empty key, and p with no colon.
TheStoreTexts == {<<p, q>>, <<p, e>>, <<e, q>>, <<p>>}
TheFindTexts == {<<p>>}

=============================================================================
