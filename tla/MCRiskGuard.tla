---------------------------- MODULE MCRiskGuard ----------------------------
(***************************************************************************)
(* RiskGuard for TLC: calls are interchangeable.                           *)
(***************************************************************************)
EXTENDS RiskGuard, TLC

CallSymmetry == Permutations(Calls)

=============================================================================
