----------------------------- MODULE MCTwoFactor -----------------------------
(* TwoFactor, instantiated for TLC. *)
EXTENDS TwoFactor, TLC

Symmetry == Permutations(Request)

=============================================================================
