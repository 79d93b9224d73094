------------------------------ MODULE MCRecovery ------------------------------
(* Instances of Recovery for TLC. *)
EXTENDS Recovery, TLC

CONSTANTS c1, c2, c3, k1, k2

Symmetry == Permutations(Contact)

=============================================================================
