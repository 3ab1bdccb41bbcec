--------------------------- MODULE MCAuthSession ---------------------------
(* The instance of AuthSession that TLC checks. *)
EXTENDS AuthSession, TLC

\* Requests differ only in their name.
RequestSymmetry == Permutations(Requests)
=============================================================================
