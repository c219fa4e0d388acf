---------------------------- MODULE MCExecution ----------------------------
(***************************************************************************)
(* Instances of Execution for TLC.                                         *)
(***************************************************************************)
EXTENDS Execution, TLC

\* The goroutines are interchangeable.
ExecSymmetry == Permutations(Execs)

=============================================================================
