----------------------------- MODULE RedisLock -----------------------------
(***************************************************************************)
(* The distributed lock of RedisClient: SET NX EX with a random token, and *)
(* a script that deletes the key only if it holds that token. One key; the *)
(* locks of different keys do not interact. A taker is one call of an      *)
(* acquire method and what follows it, so it stands for its token; takers  *)
(* run in different processes, each with a connection of its own.          *)
(*                                                                         *)
(* node-redis keeps a command that has not been written while the          *)
(* connection is down and rejects one whose reply the connection took with *)
(* it, whether Redis has executed it or not.                               *)
(***************************************************************************)
CONSTANTS
  Takers,   \* calls of acquireLock, acquireRequiredLock or safeAcquireLock
  Free      \* the key is absent

ASSUME FreeAssumption == Free \notin Takers

VARIABLES
  lock,      \* the token in the key, or Free
  lockTtl,   \* whether the key has a TTL
  stage,     \* stage[t]: where taker t is
  safe,      \* safe[t]: whether t uses the safe* methods
  linked,    \* linked[t]: isReady of the connection of t
  expired    \* the takers whose key Redis has expired (history)

lockVars == <<lock, lockTtl, stage, safe, linked, expired>>

\* asking, unlocking: Redis has not executed the command of the taker yet.
\* granted: SET has succeeded, and its reply is on the way.
Stages == {"idle", "asking", "granted", "working", "unlocking",
           "refused", "threw", "over", "dead"}

LockTypeOK ==
  /\ lock \in Takers \cup {Free}
  /\ lockTtl \in BOOLEAN
  /\ stage \in [Takers -> Stages]
  /\ safe \in [Takers -> BOOLEAN]
  /\ linked \in [Takers -> BOOLEAN]
  /\ expired \subseteq Takers

LockInit ==
  /\ lock = Free
  /\ lockTtl = FALSE
  /\ stage = [t \in Takers |-> "idle"]
  /\ safe \in [Takers -> BOOLEAN]
  /\ linked = [t \in Takers |-> TRUE]
  /\ expired = {}

-----------------------------------------------------------------------------

Enter(t, s) == stage' = [stage EXCEPT ![t] = s]

KeyKept == UNCHANGED <<lock, lockTtl, expired>>

\* What a taker whose acquire failed gets: null or an exception.
FailedAcquire(t) == IF safe[t] THEN "refused" ELSE "threw"

\* acquireLock sends its command whatever the state of the connection.
AcquireRaw(t) ==
  /\ stage[t] = "idle" /\ ~safe[t]
  /\ Enter(t, "asking")
  /\ KeyKept /\ UNCHANGED <<safe, linked>>

AcquireRequired(t) ==
  /\ stage[t] = "idle" /\ ~safe[t]
  /\ Enter(t, IF linked[t] THEN "asking" ELSE "threw")
  /\ KeyKept /\ UNCHANGED <<safe, linked>>

SafeAcquire(t) ==
  /\ stage[t] = "idle" /\ safe[t]
  /\ Enter(t, IF linked[t] THEN "asking" ELSE "refused")
  /\ KeyKept /\ UNCHANGED <<safe, linked>>

\* Mutant of SetNxEx: the key is written without EX.
SetNx(t) ==
  /\ stage[t] = "asking" /\ linked[t]
  /\ lock' = (IF lock = Free THEN t ELSE lock)
  /\ Enter(t, IF lock = Free THEN "granted" ELSE "refused")
  /\ UNCHANGED <<lockTtl, expired, safe, linked>>

\* Mutant of SetNxEx: the key is written without NX.
SetEx(t) ==
  /\ stage[t] = "asking" /\ linked[t]
  /\ lock' = t /\ lockTtl' = TRUE
  /\ Enter(t, "granted")
  /\ UNCHANGED <<expired, safe, linked>>

\* Redis executes SET key token NX EX ttlSeconds.
SetNxEx(t) ==
  /\ stage[t] = "asking" /\ linked[t]
  /\ \/ /\ lock = Free
        /\ lock' = t /\ lockTtl' = TRUE
        /\ Enter(t, "granted")
     \/ /\ lock # Free
        /\ UNCHANGED <<lock, lockTtl>>
        /\ Enter(t, "refused")
  /\ UNCHANGED <<expired, safe, linked>>

\* The reply OK arrives: the caller has the token and starts its work.
Granted(t) ==
  /\ stage[t] = "granted" /\ linked[t]
  /\ Enter(t, "working")
  /\ KeyKept /\ UNCHANGED <<safe, linked>>

\* releaseLock sends its script; safeReleaseLock gives up without a connection.
Release(t) ==
  /\ stage[t] = "working"
  /\ Enter(t, IF safe[t] /\ ~linked[t] THEN "over" ELSE "unlocking")
  /\ KeyKept /\ UNCHANGED <<safe, linked>>

\* Mutant of CompareAndDelete: DEL without the comparison.
DeleteAnyway(t) ==
  /\ stage[t] = "unlocking" /\ linked[t]
  /\ lock' = Free /\ lockTtl' = FALSE
  /\ Enter(t, "over")
  /\ UNCHANGED <<expired, safe, linked>>

\* Redis executes the script of releaseLock.
CompareAndDelete(t) ==
  /\ stage[t] = "unlocking" /\ linked[t]
  /\ \/ lock = t /\ lock' = Free /\ lockTtl' = FALSE
     \/ lock # t /\ UNCHANGED <<lock, lockTtl>>
  /\ Enter(t, "over")
  /\ UNCHANGED <<expired, safe, linked>>

-----------------------------------------------------------------------------
(* The environment *)

Finished(t) == stage[t] \in {"refused", "threw", "over", "dead"}

\* A command that Redis has not executed may wait for the next connection or
\* be rejected; a reply on the way is lost. (What becomes of the connection when
\* the taker has finished does not matter.)
Unlink(t) ==
  /\ linked[t] /\ ~Finished(t)
  /\ linked' = [linked EXCEPT ![t] = FALSE]
  /\ \/ stage[t] # "granted" /\ UNCHANGED stage
     \/ stage[t] \in {"asking", "granted"} /\ Enter(t, FailedAcquire(t))
     \/ stage[t] = "unlocking" /\ Enter(t, IF safe[t] THEN "over" ELSE "threw")
  /\ KeyKept /\ UNCHANGED safe

Relink(t) ==
  /\ ~linked[t] /\ ~Finished(t)
  /\ linked' = [linked EXCEPT ![t] = TRUE]
  /\ KeyKept /\ UNCHANGED <<stage, safe>>

\* The TTL ends, whatever its holder is doing.
ExpireLock ==
  /\ lock # Free /\ lockTtl
  /\ lock' = Free /\ lockTtl' = FALSE
  /\ expired' = expired \cup {lock}
  /\ UNCHANGED <<stage, safe, linked>>

\* The process of a taker dies; a command it has written may still be executed,
\* which SetNxEx or CompareAndDelete just before this step stands for.
Die(t) ==
  /\ stage[t] # "idle" /\ ~Finished(t)
  /\ Enter(t, "dead")
  /\ KeyKept /\ UNCHANGED <<safe, linked>>

LockNext ==
  \/ \E t \in Takers :
       \/ AcquireRaw(t) \/ AcquireRequired(t) \/ SafeAcquire(t)
       \/ SetNxEx(t) \/ Granted(t) \/ Release(t) \/ CompareAndDelete(t)
       \/ Unlink(t) \/ Relink(t) \/ Die(t)
  \/ ExpireLock

\* Redis lets every TTL end.
LockSpec == LockInit /\ [][LockNext]_lockVars /\ WF_lockVars(ExpireLock)

-----------------------------------------------------------------------------
(* Properties *)

\* Who may act as the holder: the caller has the token, or will have it.
Holding == {t \in Takers : stage[t] \in {"granted", "working", "unlocking"}}

\* Two callers never hold the lock at once unless one of them has outstayed its
\* TTL, whatever was released late, lost or retried before
\* (redis.client.ts:388-417).
LockIsExclusive ==
  \A t, u \in Holding \ expired : t = u

\* A key disappears only when its TTL ends or when its own holder asks: a late
\* release does not free the lock of the next holder (redis.client.ts:413-417).
NobodyFreesForAnother ==
  [][\A t \in Takers :
       lock = t /\ lock' # t => t \in expired' \/ stage[t] = "unlocking"]_lockVars

\* A holder that died, or whose reply or release was lost, blocks nobody for
\* ever (redis.client.ts:390).
LockIsFreed == []<>(lock = Free)

=============================================================================
