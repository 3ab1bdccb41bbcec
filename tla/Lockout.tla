------------------------------ MODULE Lockout ------------------------------
(***************************************************************************)
(* The account lockout of AuthService.login: a counter of failed logins in *)
(* Redis under login:fail:{email}, whose TTL is the lock window. Attempts  *)
(* on one account run concurrently and interleave at every await. (Keys of *)
(* different accounts do not interact.) Attempts that find nothing to do   *)
(* with the counter any more continue in AuthSession as StartLogin.        *)
(*                                                                         *)
(* A fault at a Redis command makes safe* return its default; the command  *)
(* may have been applied or not. A process that dies between two awaits    *)
(* leaves the counter as it is.                                            *)
(***************************************************************************)
EXTENDS Integers, FiniteSets

CONSTANTS
  Attempts,       \* login requests the server runs at the same time
  MaxAttempts,    \* AUTH_MAX_LOGIN_ATTEMPTS, at least 1
  LockDurations,  \* admissible AUTH_LOCK_DURATION_MINUTES, at least 0
  MaxFaults       \* bound on the faults of a behaviour

ASSUME AttemptsAssumption == IsFiniteSet(Attempts)
ASSUME EnvAssumption ==
  /\ MaxAttempts \in Nat \ {0}
  /\ LockDurations \subseteq Nat
  /\ MaxFaults \in Nat

VARIABLES
  duration,  \* the configured lock duration
  count,     \* the counter, 0 when the key is absent
  ttl,       \* whether the key has a TTL
  pc,        \* pc[p]: the next step of attempt p
  faults     \* faults so far

vars == <<duration, count, ttl, pc, faults>>

Steps == {"check", "validate", "record", "expire", "clear"}

TypeOK ==
  /\ duration \in LockDurations
  /\ count \in Nat
  /\ ttl \in BOOLEAN
  /\ pc \in [Attempts -> {"idle"} \cup Steps]
  /\ faults \in 0..MaxFaults

Init ==
  /\ duration \in LockDurations
  /\ count = 0
  /\ ttl = FALSE
  /\ pc = [p \in Attempts |-> "idle"]
  /\ faults = 0

-----------------------------------------------------------------------------

Locked == count >= MaxAttempts

Goto(p, step) == pc' = [pc EXCEPT ![p] = step]

NoFault == UNCHANGED faults

Fault == faults < MaxFaults /\ faults' = faults + 1

(* Redis commands on the counter key *)

KeyUnchanged == UNCHANGED <<count, ttl>>

\* Mutant of Incr: the counter is written back with a SET, which drops the TTL.
IncrBySet == count' = count + 1 /\ ttl' = FALSE

\* INCR creates an absent key with value 1 and no TTL, and keeps the TTL of a
\* present one.
Incr == count' = count + 1 /\ UNCHANGED ttl

Del == count' = 0 /\ ttl' = FALSE

\* EXPIRE of an absent key does nothing, and with 0 seconds deletes the key.
ExpireKey ==
  \/ count = 0 /\ KeyUnchanged
  \/ count > 0 /\ duration = 0 /\ Del
  \/ count > 0 /\ duration > 0 /\ UNCHANGED count /\ ttl' = TRUE

-----------------------------------------------------------------------------

\* A login request for the account arrives.
Arrive(p) ==
  /\ pc[p] = "idle"
  /\ Goto(p, "check")
  /\ UNCHANGED <<duration, count, ttl, faults>>

\* Mutant of Check: the counter must exceed the maximum.
CheckLate(p) ==
  /\ pc[p] = "check"
  /\ NoFault /\ Goto(p, IF count > MaxAttempts THEN "idle" ELSE "validate")
  /\ UNCHANGED <<duration, count, ttl>>

\* assertNotLocked: ACCOUNT_LOCKED at the maximum; an unreadable counter is 0.
Check(p) ==
  /\ pc[p] = "check"
  /\ \/ NoFault /\ Locked /\ Goto(p, "idle")
     \/ NoFault /\ ~Locked /\ Goto(p, "validate")
     \/ Fault /\ Goto(p, "validate")
  /\ UNCHANGED <<duration, count, ttl>>

\* validateCredentials: the password is right or wrong; the query may fail.
Validate(p) ==
  /\ pc[p] = "validate"
  /\ \/ NoFault /\ Goto(p, "clear")
     \/ NoFault /\ Goto(p, "record")
     \/ Fault /\ Goto(p, "idle")
  /\ UNCHANGED <<duration, count, ttl>>

\* Mutants of Record: the window is opened by the attempt that locks; a counter
\* that cannot be read back stays negative.
RecordAtMax(p) ==
  /\ pc[p] = "record"
  /\ NoFault /\ Incr /\ Goto(p, IF count' = MaxAttempts THEN "expire" ELSE "idle")
  /\ UNCHANGED duration

RecordDefault(p) ==
  /\ pc[p] = "record"
  /\ \/ NoFault /\ Incr /\ Goto(p, IF count' = 1 THEN "expire" ELSE "idle")
     \/ Fault /\ count' = -1 /\ UNCHANGED ttl /\ Goto(p, "idle")
  /\ UNCHANGED duration

\* recordFailedAttempt: INCR; the first failure goes on to set the TTL. A failed
\* INCR answers -1, so nobody sets the TTL even if Redis applied it.
Record(p) ==
  /\ pc[p] = "record"
  /\ \/ NoFault /\ Incr /\ Goto(p, IF count' = 1 THEN "expire" ELSE "idle")
     \/ Fault /\ (Incr \/ KeyUnchanged) /\ Goto(p, "idle")
  /\ UNCHANGED duration

\* recordFailedAttempt: EXPIRE with the lock duration.
Expire(p) ==
  /\ pc[p] = "expire"
  /\ \/ NoFault /\ ExpireKey
     \/ Fault /\ (ExpireKey \/ KeyUnchanged)
  /\ Goto(p, "idle")
  /\ UNCHANGED duration

\* clearFailedAttempts after the right password.
Clear(p) ==
  /\ pc[p] = "clear"
  /\ \/ NoFault /\ Del
     \/ Fault /\ (Del \/ KeyUnchanged)
  /\ Goto(p, "idle")
  /\ UNCHANGED duration

\* The process dies.
Abort(p) ==
  /\ pc[p] \in Steps
  /\ Fault
  /\ Goto(p, "idle")
  /\ UNCHANGED <<duration, count, ttl>>

\* The lock window ends.
Lapse ==
  /\ ttl
  /\ Del
  /\ UNCHANGED <<duration, pc, faults>>

Step(p) == Check(p) \/ Validate(p) \/ Record(p) \/ Expire(p) \/ Clear(p)

Next == (\E p \in Attempts : Arrive(p) \/ Step(p) \/ Abort(p)) \/ Lapse

Spec == Init /\ [][Next]_vars

\* Node runs every handler it has started; Redis lets every TTL end. Nothing
\* obliges clients to send requests, or faults to happen.
FairSpec ==
  /\ Spec
  /\ \A p \in Attempts : WF_vars(Step(p))
  /\ WF_vars(Lapse)

-----------------------------------------------------------------------------
(* Properties *)

\* However attempts interleave, the counter passes the maximum by no more than
\* the attempts that were past assertNotLocked when it got there, plus those
\* that a fault let through: the check and the increment are not atomic, and
\* this is all it costs.
OvershootIsBounded == count < MaxAttempts + Cardinality(Attempts) + faults

\* Without faults a counter always has its lock window, or the attempt that
\* created it is about to open one; also when the key was cleared or lapsed and
\* created again in between.
WindowIsComing ==
  faults = 0 /\ count > 0 => ttl \/ \E p \in Attempts : pc[p] = "expire"

\* Without faults a locked account is unlocked by the passage of time.
LockEndsWithoutFaults == (Locked /\ faults = 0) ~> (~Locked \/ faults > 0)

\* auth.exception.ts:27 tells the user that the account is locked temporarily,
\* and auth.service.ts:90 that the first failure opens the window. When that
\* one EXPIRE is lost nothing ever sets it again, and the account stays locked.
LockEnds == Locked ~> ~Locked
=============================================================================
