----------------------------- MODULE MCCondVar -----------------------------
(***************************************************************************)
(* Instances of CondVar for TLC.                                            *)
(***************************************************************************)
EXTENDS CondVar, TLC

Symmetry == Permutations(Waiters)

=============================================================================
