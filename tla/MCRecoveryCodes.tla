--------------------------- MODULE MCRecoveryCodes ---------------------------
(* RecoveryCodes, instantiated for TLC. *)
EXTENDS RecoveryCodes, TLC

Symmetry == Permutations(Request)

=============================================================================
