---------------------------- MODULE MCSpendGuard ----------------------------
(* Model values and symmetry for the SpendGuard runs. *)
EXTENDS SpendGuard, TLC

Symmetry == Permutations(Attempts)

=============================================================================
