------------------------------ MODULE MCNonces ------------------------------
(***************************************************************************)
(* Nonces for TLC: calls are interchangeable.                              *)
(***************************************************************************)
EXTENDS Nonces, TLC

CallSymmetry == Permutations(Calls)

=============================================================================
