--------------------------- MODULE MCInteractor ----------------------------
(***************************************************************************)
(* Instances of Interactor for TLC.                                         *)
(***************************************************************************)
EXTENDS Interactor, TLC

Symmetry == Permutations(Executors) \cup Permutations(Tasks)

=============================================================================
