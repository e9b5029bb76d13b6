----------------------------- MODULE MCAttempts -----------------------------
(* Attempts, instantiated for TLC: limits and blocks scaled down in order.    *)
EXTENDS Attempts, TLC, Sequences

MCLimits == <<3, 5, 6>>
MCBlocks == <<1, 2, 3>>
Symmetry == Permutations(Request)

=============================================================================
