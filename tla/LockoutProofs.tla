--------------------------- MODULE LockoutProofs ---------------------------
(***************************************************************************)
(* Proofs about Lockout for any number of concurrent attempts, any maximum *)
(* and any number of faults. The bound on the overshoot needs an invariant *)
(* that counts the attempts that may still increment the counter.          *)
(***************************************************************************)
EXTENDS Lockout, FiniteSetTheorems, TLAPS

\* The attempts that passed assertNotLocked and have not recorded a failure.
PastCheck == {p \in Attempts : pc[p] \in {"validate", "record"}}

\* Each of them may add one to the counter.
CountInv == count + Cardinality(PastCheck) < MaxAttempts + Cardinality(Attempts) + faults

LockoutInv == TypeOK /\ CountInv /\ WindowIsComing

\* Cardinalities of the sets of attempts are natural numbers.
LEMMA Cardinalities ==
  /\ IsFiniteSet(PastCheck) /\ Cardinality(PastCheck) \in Nat
  /\ Cardinality(Attempts) \in Nat
  /\ Cardinality(PastCheck) <= Cardinality(Attempts)
BY AttemptsAssumption, FS_Subset, FS_CardinalityType DEF PastCheck

\* Every step writes values of the declared types.
LEMMA TypeStep == TypeOK /\ [Next]_vars => TypeOK'
<1> SUFFICES ASSUME TypeOK, [Next]_vars PROVE TypeOK'
  OBVIOUS
<1> USE EnvAssumption DEF TypeOK, Goto, NoFault, Fault, KeyUnchanged, Steps
<1>1. ASSUME NEW p \in Attempts, Arrive(p) PROVE TypeOK'
  BY <1>1 DEF Arrive
<1>2. ASSUME NEW p \in Attempts, Check(p) PROVE TypeOK'
  BY <1>2 DEF Check
<1>3. ASSUME NEW p \in Attempts, Validate(p) PROVE TypeOK'
  BY <1>3 DEF Validate
<1>4. ASSUME NEW p \in Attempts, Record(p) PROVE TypeOK'
  BY <1>4 DEF Record, Incr
<1>5. ASSUME NEW p \in Attempts, Expire(p) PROVE TypeOK'
  <2>1. count' \in Nat /\ ttl' \in BOOLEAN
    BY <1>5 DEF Expire, ExpireKey, Del
  <2>2. pc' \in [Attempts -> {"idle"} \cup Steps] /\ faults' \in 0..MaxFaults
    BY <1>5 DEF Expire
  <2> QED
    BY <1>5, <2>1, <2>2 DEF Expire
<1>6. ASSUME NEW p \in Attempts, Clear(p) PROVE TypeOK'
  <2>1. count' \in {count, 0} /\ ttl' \in {ttl, FALSE}
    BY <1>6, Zenon DEF Clear, Del
  <2>2. count' \in Nat
    BY <2>1
  <2>3. ttl' \in BOOLEAN
    BY <2>1, Zenon
  <2>4. pc' \in [Attempts -> {"idle"} \cup Steps] /\ faults' \in 0..MaxFaults
    BY <1>6 DEF Clear
  <2>5. duration' \in LockDurations
    BY <1>6 DEF Clear
  <2> QED
    BY <2>2, <2>3, <2>4, <2>5, Zenon
<1>7. ASSUME NEW p \in Attempts, Abort(p) PROVE TypeOK'
  BY <1>7 DEF Abort
<1>8. CASE Lapse
  BY <1>8 DEF Lapse, Del
<1>9. CASE UNCHANGED vars
  BY <1>9 DEF vars
<1> QED
  BY <1>1, <1>2, <1>3, <1>4, <1>5, <1>6, <1>7, <1>8, <1>9 DEF Next, Step

\* The attempt that creates the key goes on to open its window, and only the end
\* of the window or a success takes the key away.
LEMMA WindowStep == TypeOK /\ WindowIsComing /\ [Next]_vars => WindowIsComing'
<1> SUFFICES ASSUME TypeOK, WindowIsComing, [Next]_vars PROVE WindowIsComing'
  OBVIOUS
<1> USE DEF TypeOK, WindowIsComing, Goto, NoFault, Fault, KeyUnchanged
<1>1. ASSUME NEW p \in Attempts, Arrive(p) \/ Check(p) \/ Validate(p) \/ Abort(p)
      PROVE  WindowIsComing'
  BY <1>1 DEF Arrive, Check, Validate, Abort
<1>2. ASSUME NEW p \in Attempts, Record(p) PROVE WindowIsComing'
  BY <1>2 DEF Record, Incr
<1>3. ASSUME NEW p \in Attempts, Expire(p) PROVE WindowIsComing'
  BY <1>3, EnvAssumption DEF Expire, ExpireKey, Del
<1>4. ASSUME NEW p \in Attempts, Clear(p) PROVE WindowIsComing'
  BY <1>4 DEF Clear, Del
<1>5. CASE Lapse
  BY <1>5 DEF Lapse, Del
<1>6. CASE UNCHANGED vars
  BY <1>6 DEF vars
<1> QED
  BY <1>1, <1>2, <1>3, <1>4, <1>5, <1>6 DEF Next, Step

\* An attempt enters PastCheck below the maximum or by a fault, and leaves it
\* when it increments the counter.
LEMMA CountStep == TypeOK /\ CountInv /\ [Next]_vars => CountInv'
<1> SUFFICES ASSUME TypeOK, CountInv, [Next]_vars PROVE CountInv'
  OBVIOUS
<1> USE EnvAssumption DEF TypeOK
<1>1. TypeOK'
  BY TypeStep
<1>2. /\ IsFiniteSet(PastCheck') /\ Cardinality(PastCheck') \in Nat
      /\ Cardinality(Attempts) \in Nat
      /\ Cardinality(PastCheck') <= Cardinality(Attempts)
  BY AttemptsAssumption, FS_Subset, FS_CardinalityType DEF PastCheck
<1>3. ASSUME PastCheck' \subseteq PastCheck, count' <= count, faults' >= faults
      PROVE  CountInv'
  <2>1. Cardinality(PastCheck') <= Cardinality(PastCheck)
    BY <1>3, Cardinalities, FS_Subset
  <2> QED
    BY <1>1, <1>2, <1>3, <2>1, Cardinalities DEF CountInv
<1>4. ASSUME NEW p \in Attempts, Check(p) PROVE CountInv'
  <2>1. PastCheck' = PastCheck \/ PastCheck' = PastCheck \cup {p}
    BY <1>4 DEF Check, Goto, PastCheck
  <2>2. Cardinality(PastCheck') <= Cardinality(PastCheck) + 1
    BY <2>1, Cardinalities, FS_AddElement
  <2>3. CASE NoFault /\ ~Locked
    BY <1>1, <1>2, <1>4, <2>3 DEF Check, Locked, NoFault, CountInv
  <2>4. CASE Fault
    BY <1>1, <1>2, <1>4, <2>2, <2>4, Cardinalities DEF Check, Fault, CountInv
  <2>5. CASE NoFault /\ Locked
    <3>1. PastCheck' \subseteq PastCheck
      BY <1>4, <2>5 DEF Check, Goto, PastCheck, NoFault, Fault
    <3> QED
      BY <1>3, <1>4, <2>5, <3>1 DEF Check, NoFault
  <2> QED
    BY <1>4, <2>3, <2>4, <2>5 DEF Check
<1>5. ASSUME NEW p \in Attempts, Record(p) PROVE CountInv'
  <2>1. p \in PastCheck /\ PastCheck' = PastCheck \ {p}
    BY <1>5 DEF Record, Goto, PastCheck
  <2>2. Cardinality(PastCheck') = Cardinality(PastCheck) - 1
    BY <2>1, Cardinalities, FS_RemoveElement
  <2>3. count' <= count + 1 /\ faults' >= faults
    BY <1>5 DEF Record, Incr, KeyUnchanged, NoFault, Fault
  <2> QED
    BY <1>1, <1>2, <2>2, <2>3, Cardinalities DEF CountInv
<1>6. ASSUME NEW p \in Attempts,
             Arrive(p) \/ Validate(p) \/ Expire(p) \/ Clear(p) \/ Abort(p)
      PROVE  CountInv'
  <2>1. PastCheck' \subseteq PastCheck
    BY <1>6 DEF Arrive, Validate, Expire, Clear, Abort, Goto, PastCheck
  <2>2. count' <= count /\ faults' >= faults
    BY <1>6 DEF Arrive, Validate, Expire, Clear, Abort, ExpireKey, Del, KeyUnchanged,
       NoFault, Fault
  <2> QED
    BY <1>3, <2>1, <2>2
<1>7. CASE Lapse \/ UNCHANGED vars
  BY <1>3, <1>7 DEF Lapse, Del, vars, PastCheck
<1> QED
  BY <1>4, <1>5, <1>6, <1>7 DEF Next, Step

\* The strengthened invariant holds of every reachable state.
THEOREM LockoutInvariant == Spec => []LockoutInv
<1>1. Init => LockoutInv
  <2> SUFFICES ASSUME Init PROVE LockoutInv
    OBVIOUS
  <2>1. TypeOK /\ WindowIsComing
    <3>1. pc \in [Attempts -> {"idle"} \cup Steps] /\ faults \in 0..MaxFaults
      BY EnvAssumption DEF Init
    <3>2. count = 0 /\ count \in Nat
      BY DEF Init
    <3>3. ~(count > 0)
      BY <3>2
    <3> QED
      BY <3>1, <3>2, <3>3, Zenon DEF Init, TypeOK, WindowIsComing
  <2>2. PastCheck = {}
    BY DEF Init, PastCheck
  <2>3. Cardinality(PastCheck) = 0
    BY <2>2, FS_EmptySet, Zenon
  <2>4. CountInv
    BY <2>3, Cardinalities, EnvAssumption DEF Init, CountInv
  <2> QED
    BY <2>1, <2>4 DEF LockoutInv
<1>2. LockoutInv /\ [Next]_vars => LockoutInv'
  BY TypeStep, WindowStep, CountStep DEF LockoutInv
<1> QED
  BY <1>1, <1>2, PTL DEF Spec

\* The lock takes hold at the configured maximum, give or take the attempts in
\* flight and the faults, for any concurrency (login, assertNotLocked).
THEOREM OvershootBounded == Spec => []OvershootIsBounded
<1>1. LockoutInv => OvershootIsBounded
  BY Cardinalities, EnvAssumption DEF LockoutInv, TypeOK, CountInv, OvershootIsBounded
<1> QED
  BY <1>1, LockoutInvariant, PTL

\* Without faults no counter is left without a window (recordFailedAttempt).
THEOREM WindowAlwaysComing == Spec => []WindowIsComing
<1>1. LockoutInv => WindowIsComing
  BY DEF LockoutInv
<1> QED
  BY <1>1, LockoutInvariant, PTL

\* The counter, its window and the attempts keep their types (recordFailedAttempt).
THEOREM TypesKept == Spec => []TypeOK
<1>1. LockoutInv => TypeOK
  BY DEF LockoutInv
<1> QED
  BY <1>1, LockoutInvariant, PTL
=============================================================================
