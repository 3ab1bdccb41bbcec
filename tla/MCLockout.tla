----------------------------- MODULE MCLockout -----------------------------
(* The instances of Lockout that TLC checks. *)
EXTENDS Lockout

\* No lock at all, and half an hour.
Durations == {0, 30}

\* A lock that is meant to end.
PositiveDurations == {30}
=============================================================================
