--------------------------- MODULE MCAuthSessions ---------------------------
(* Instances of AuthSessions for TLC.                                      *)
EXTENDS AuthSessions, TLC

\* Request slots are interchangeable; row ids are taken in order, so they are not.
Symmetry == Permutations(Request)

=============================================================================
