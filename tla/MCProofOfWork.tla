--------------------------- MODULE MCProofOfWork ---------------------------
(***************************************************************************)
(* Hashes of two bytes of two bits, nonces of three bits and difficulties  *)
(* of two: the limit of SolvePuzzle is two, four, zero (the shift leaves   *)
(* the word) and one (the sum wraps).                                      *)
(***************************************************************************)
EXTENDS ProofOfWork
=============================================================================
