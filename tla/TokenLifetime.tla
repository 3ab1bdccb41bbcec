--------------------------- MODULE TokenLifetime ---------------------------
(***************************************************************************)
(* One lifetime, written once in the environment, is read by two parsers:  *)
(* jsonwebtoken dates the token with it, and parseDurationToSeconds the    *)
(* cookie of the token and the keys of Redis about it. And it is counted   *)
(* from several moments: a login and a refresh store the jti first, and    *)
(* sign the two tokens after further queries; the cookies start when the   *)
(* answer comes. Time is counted in seconds and may pass before any step.  *)
(*                                                                         *)
(* The browser sends one request of a session at a time, and no command    *)
(* fails: overlapping requests and faults are the matter of AuthSession.   *)
(*                                                                         *)
(* A duration is [halves, unit]: 1.5h is three halves of "h". The unit     *)
(* "none" is a bare number, "days" a unit written out.                     *)
(***************************************************************************)
EXTENDS Integers

CONSTANTS
  Durations,  \* what JWT_EXPIRES_IN and REFRESH_TOKEN_EXPIRES_IN may be
  Sessions,   \* bound on the logins
  MaxRenewals,\* bound on the refreshes of a session
  Slowest     \* the longest time that a login, a refresh or a logout takes

Units == {"s", "m", "h", "d", "days", "w", "none"}

ASSUME DurationAssumption == Durations \subseteq [halves : Nat, unit : Units]
ASSUME SlowestAssumption == Slowest \in Nat

VARIABLES
  now,
  accessLife,   \* JWT_EXPIRES_IN
  refreshLife,  \* REFRESH_TOKEN_EXPIRES_IN
  stage,        \* stage[k]: "out" before the login, "idle", or the next step of
                \* the request under way: "swap", "access", "refresh", "answer"
                \* of a login or refresh, "block", "revoke" of a logout
  began,        \* began[k]: when that request began
  accessExp,    \* accessExp[k]: exp of the access token signed last
  refreshExp,   \* exp of the refresh token signed last, None after the logout
  cookies,      \* cookies[k]: when the browser drops the two cookies
  familyUntil,  \* when Redis drops the family key of the session
  blockedUntil, \* when Redis drops the blocklist entry, None if there is none
  renewals      \* refreshes so far

lives == <<accessLife, refreshLife>>
lifetimeVars == <<now, lives, stage, began, accessExp, refreshExp, cookies,
                  familyUntil, blockedUntil, renewals>>

None == -1
Forever == 2 * 10^9   \* a key without a TTL

Day == 24 * 60 * 60

-----------------------------------------------------------------------------
(* The two parsers *)

Matches(d) == d.halves % 2 = 0 /\ d.unit \in {"s", "m", "h", "d"}

\* Mutant of UnitSeconds: hours are taken for minutes.
HoursAsMinutes(unit) ==
  CASE unit = "s" -> 1 [] unit = "m" -> 60 [] unit = "h" -> 60 [] unit = "d" -> Day

UnitSeconds(unit) ==
  CASE unit = "s" -> 1 [] unit = "m" -> 60 [] unit = "h" -> 60 * 60 [] unit = "d" -> Day

\* What does not match is taken for seven days.
parseDurationToSeconds(d) ==
  IF Matches(d) THEN (d.halves \div 2) * UnitSeconds(d.unit) ELSE 7 * Day

\* The seconds that jsonwebtoken adds: fractions, weeks and words are durations
\* too, and a bare number counts milliseconds.
JwtSeconds(d) ==
  CASE d.unit = "s"             -> d.halves \div 2
    [] d.unit = "m"             -> d.halves * 30
    [] d.unit = "h"             -> d.halves * 30 * 60
    [] d.unit \in {"d", "days"} -> (d.halves * Day) \div 2
    [] d.unit = "w"             -> (d.halves * 7 * Day) \div 2
    [] d.unit = "none"          -> d.halves \div 2000

-----------------------------------------------------------------------------

\* RedisClient.set sends EX only with a TTL that is not zero.
Until(ttl) == IF ttl = 0 THEN Forever ELSE now + ttl

NoCookies == [access |-> None, refresh |-> None]

LifetimeInit ==
  /\ now = 0
  /\ accessLife \in Durations /\ refreshLife \in Durations
  /\ stage = [k \in Sessions |-> "out"]
  /\ began = [k \in Sessions |-> 0]
  /\ accessExp = [k \in Sessions |-> None]
  /\ refreshExp = [k \in Sessions |-> None]
  /\ cookies = [k \in Sessions |-> NoCookies]
  /\ familyUntil = [k \in Sessions |-> None]
  /\ blockedUntil = [k \in Sessions |-> None]
  /\ renewals = [k \in Sessions |-> 0]

GoTo(k, from, to) == stage[k] = from /\ stage' = [stage EXCEPT ![k] = to]

Begin(k, from, to) == GoTo(k, from, to) /\ began' = [began EXCEPT ![k] = now]

\* The guard lets the access token of k pass.
Accepted(k) == now < accessExp[k] /\ blockedUntil[k] <= now

-----------------------------------------------------------------------------
(* Login and refresh *)

\* RefreshTokenStore.issue, when the password was right: the TTL starts here.
Issue(k) ==
  /\ Begin(k, "out", "access")
  /\ familyUntil' = [familyUntil EXCEPT ![k] = Until(parseDurationToSeconds(refreshLife))]
  /\ UNCHANGED <<now, lives, accessExp, refreshExp, cookies, blockedUntil, renewals>>

\* A refresh brings the token of the cookie, which is verified.
Verify(k) ==
  /\ now < cookies[k].refresh /\ now < refreshExp[k]
  /\ renewals[k] < MaxRenewals
  /\ renewals' = [renewals EXCEPT ![k] = @ + 1]
  /\ Begin(k, "idle", "swap")
  /\ UNCHANGED <<now, lives, accessExp, refreshExp, cookies, familyUntil, blockedUntil>>

\* The compare-and-set finds the family and starts its TTL again.
Swap(k) ==
  /\ now < familyUntil[k]
  /\ GoTo(k, "swap", "access")
  /\ familyUntil' = [familyUntil EXCEPT ![k] = now + parseDurationToSeconds(refreshLife)]
  /\ UNCHANGED <<now, lives, began, accessExp, refreshExp, cookies, blockedUntil, renewals>>

\* The family has gone since, or before its token: INVALID_REFRESH_TOKEN.
SwapTooLate(k) ==
  /\ familyUntil[k] <= now
  /\ GoTo(k, "swap", "idle")
  /\ UNCHANGED <<now, lives, began, accessExp, refreshExp, cookies, familyUntil, blockedUntil,
                 renewals>>

\* The access token is signed once the user and the epoch have been read.
SignAccess(k) ==
  /\ GoTo(k, "access", "refresh")
  /\ accessExp' = [accessExp EXCEPT ![k] = now + JwtSeconds(accessLife)]
  /\ UNCHANGED <<now, lives, began, refreshExp, cookies, familyUntil, blockedUntil, renewals>>

SignRefresh(k) ==
  /\ GoTo(k, "refresh", "answer")
  /\ refreshExp' = [refreshExp EXCEPT ![k] = now + JwtSeconds(refreshLife)]
  /\ UNCHANGED <<now, lives, began, accessExp, cookies, familyUntil, blockedUntil, renewals>>

\* setAuthCookies: the browser counts maxAge from the answer.
Answered(k) ==
  /\ GoTo(k, "answer", "idle")
  /\ cookies' = [cookies EXCEPT
       ![k] = [access  |-> now + parseDurationToSeconds(accessLife),
               refresh |-> now + parseDurationToSeconds(refreshLife)]]
  /\ UNCHANGED <<now, lives, began, accessExp, refreshExp, familyUntil, blockedUntil, renewals>>

-----------------------------------------------------------------------------
(* Logout with what the browser still has; a token that does not verify any *)
(* more is ignored.                                                         *)

SignOut(k) ==
  /\ now < cookies[k].access \/ now < cookies[k].refresh
  /\ Begin(k, "idle",
           IF now < cookies[k].access /\ now < accessExp[k] THEN "block" ELSE "revoke")
  /\ UNCHANGED <<now, lives, accessExp, refreshExp, cookies, familyUntil, blockedUntil, renewals>>

\* The SET with the whole lifetime of an access token.
Block(k) ==
  /\ GoTo(k, "block", "revoke")
  /\ blockedUntil' = [blockedUntil EXCEPT ![k] = Until(parseDurationToSeconds(accessLife))]
  /\ UNCHANGED <<now, lives, began, accessExp, refreshExp, cookies, familyUntil, renewals>>

\* The refresh token that came with the request is verified, and its family
\* deleted; with the answer the session has no tokens any more.
Revoke(k) ==
  /\ GoTo(k, "revoke", "idle")
  /\ familyUntil' = [familyUntil EXCEPT
       ![k] = IF began[k] < cookies[k].refresh /\ now < refreshExp[k] THEN None ELSE @]
  /\ cookies' = [cookies EXCEPT ![k] = NoCookies]
  /\ refreshExp' = [refreshExp EXCEPT ![k] = None]
  /\ UNCHANGED <<now, lives, began, accessExp, blockedUntil, renewals>>

-----------------------------------------------------------------------------
(* Time *)

UnderWay == {k \in Sessions : stage[k] \notin {"out", "idle"}}

Deadlines ==
  (UNION {{accessExp[k], refreshExp[k], cookies[k].access, cookies[k].refresh,
           familyUntil[k], blockedUntil[k]} : k \in Sessions} \ {Forever})
    \cup {began[k] + Slowest : k \in UnderWay}

\* Time passes up to a deadline, or to the second before it.
Pass ==
  /\ \E t \in Deadlines : now' \in {t, t - 1} /\ now' > now
  /\ \A t \in Deadlines : t <= now \/ now' <= t
  /\ \A k \in UnderWay : now' <= began[k] + Slowest
  /\ UNCHANGED <<lives, stage, began, accessExp, refreshExp, cookies, familyUntil, blockedUntil,
                 renewals>>

LifetimeNext ==
  \/ Pass
  \/ \E k \in Sessions :
       \/ Issue(k) \/ Verify(k) \/ Swap(k) \/ SwapTooLate(k)
       \/ SignAccess(k) \/ SignRefresh(k) \/ Answered(k)
       \/ SignOut(k) \/ Block(k) \/ Revoke(k)

LifetimeSpec == LifetimeInit /\ [][LifetimeNext]_lifetimeVars

-----------------------------------------------------------------------------
(* Properties *)

\* A duration on which the second parser falls short of the first one.
Misread(d) == ~Matches(d) /\ JwtSeconds(d) > 7 * Day

\* What is kept about a token lasts as long as the token, and not for ever.
\* A token that was logged out is refused until it has expired. A refresh token
\* that the browser was given keeps its cookie until it has expired, and its
\* family at least until it has no longer to live than a request may take: the
\* TTL of the family starts when the jti is stored, before the token is signed.
\* All this but for durations that the parser does not know and that are longer
\* than its seven days. The keys of Redis end within the lifetime that it reads, except when
\* REFRESH_TOKEN_EXPIRES_IN is no time at all: then the family has no TTL, and
\* its token expired when it was signed (time.util.ts:33-54,
\* auth.service.ts:57-60, 118-127, 137-138, refresh-token.store.ts:31-49,
\* redis.client.ts:143-154).
LifetimesAgree ==
  \A k \in Sessions :
    /\ blockedUntil[k] # None /\ ~Misread(accessLife) => ~Accepted(k)
    /\ ~Misread(refreshLife) =>
         /\ now + Slowest < refreshExp[k] => now < familyUntil[k]
         /\ now < refreshExp[k] /\ stage[k] # "answer" => now < cookies[k].refresh
    /\ blockedUntil[k] <= now + parseDurationToSeconds(accessLife)
    /\ \/ familyUntil[k] <= now + parseDurationToSeconds(refreshLife)
       \/ familyUntil[k] = Forever /\ JwtSeconds(refreshLife) = 0

=============================================================================
