------------------------ MODULE TokenLifetimeProofs ------------------------
(***************************************************************************)
(* What the service keeps about a token lasts as long as the token, up to  *)
(* the time that a request takes, for any durations, any such time and any *)
(* number of sessions and refreshes.                                       *)
(***************************************************************************)
EXTENDS TokenLifetime, TLAPS

\* What the parsers return.
LEMMA ParsersTyped ==
  ASSUME NEW d \in Durations
  PROVE  /\ parseDurationToSeconds(d) \in Nat /\ JwtSeconds(d) \in Nat
         /\ Matches(d) => JwtSeconds(d) = parseDurationToSeconds(d)
         /\ ~Matches(d) => parseDurationToSeconds(d) = 7 * Day
<1>1. d.halves \in Nat /\ d.unit \in Units
  BY DurationAssumption
<1> DEFINE n == d.halves
<1>2. /\ n \div 2 \in Nat /\ n \div 2000 \in Nat /\ (n * Day) \div 2 \in Nat
      /\ (n * 7 * Day) \div 2 \in Nat
      /\ n * 30 \in Nat /\ n * 30 * 60 \in Nat
  BY <1>1 DEF Day
<1>3. n % 2 = 0 => n = 2 * (n \div 2)
  BY <1>1
<1>4. n % 2 = 0 => /\ n * 30 = (n \div 2) * 60 /\ n * 30 * 60 = (n \div 2) * (60 * 60)
                   /\ (n * Day) \div 2 = (n \div 2) * Day
  BY <1>1, <1>3 DEF Day
<1>5. JwtSeconds(d) \in Nat
  BY <1>1, <1>2 DEF JwtSeconds, Units
<1>6. Matches(d) => JwtSeconds(d) = (d.halves \div 2) * UnitSeconds(d.unit)
  BY <1>1, <1>2, <1>4 DEF JwtSeconds, UnitSeconds, Matches
<1>7. 7 * Day \in Nat
  BY DEF Day
<1> QED
  BY <1>5, <1>6, <1>7 DEF parseDurationToSeconds

\* The second parser falls short of the first one only where it misreads, and
\* takes nothing for no time that the first one takes for some.
LEMMA ParsersAgree ==
  ASSUME NEW d \in Durations
  PROVE  /\ parseDurationToSeconds(d) \in Nat /\ JwtSeconds(d) \in Nat
         /\ ~Misread(d) => JwtSeconds(d) <= parseDurationToSeconds(d)
         /\ parseDurationToSeconds(d) = 0 => JwtSeconds(d) = 0
<1>1. 7 * Day \in Nat /\ 7 * Day # 0
  BY DEF Day
<1> QED
  BY <1>1, ParsersTyped DEF Misread

-----------------------------------------------------------------------------
(* The invariant *)

Stages == {"out", "idle", "swap", "access", "refresh", "answer", "block", "revoke"}

LifetimeTypeOK ==
  /\ now \in Nat
  /\ accessLife \in Durations /\ refreshLife \in Durations
  /\ stage \in [Sessions -> Stages] /\ began \in [Sessions -> Nat]
  /\ accessExp \in [Sessions -> Int] /\ refreshExp \in [Sessions -> Int]
  /\ cookies \in [Sessions -> [access : Int, refresh : Int]]
  /\ familyUntil \in [Sessions -> Int]
  /\ blockedUntil \in [Sessions -> Int]

\* A request is not older than Slowest.
InTime(k) ==
  stage[k] \notin {"out", "idle"} => began[k] <= now /\ now <= began[k] + Slowest

\* No token is good for longer than its lifetime from now on, and an access
\* token is blocked only if it was good for some time.
TokensEnd(k) ==
  /\ accessExp[k] <= now + JwtSeconds(accessLife)
  /\ refreshExp[k] <= now + JwtSeconds(refreshLife)
  /\ stage[k] = "block" => JwtSeconds(accessLife) # 0

\* Nothing is kept for longer than the lifetime that the parser reads, but for the family of a token
\* that expired when it was signed.
KeysEnd(k) ==
  /\ blockedUntil[k] <= now + parseDurationToSeconds(accessLife)
  /\ \/ familyUntil[k] <= now + parseDurationToSeconds(refreshLife)
     \/ familyUntil[k] = Forever /\ JwtSeconds(refreshLife) = 0

\* The session of a blocked token ends with the logout that blocked it, so that
\* no token is signed for it again, and the entry is kept until the token has
\* expired.
BlockOutlives(k) ==
  blockedUntil[k] # None =>
    /\ stage[k] \in {"revoke", "idle"}
    /\ stage[k] = "idle" => cookies[k] = NoCookies
    /\ ~Misread(accessLife) => accessExp[k] <= blockedUntil[k]

\* The TTL of the family started no earlier than the request, in which the token
\* is still to be signed.
FamilyStored(k) ==
  stage[k] \in {"access", "refresh"} /\ parseDurationToSeconds(refreshLife) # 0 =>
    began[k] + parseDurationToSeconds(refreshLife) <= familyUntil[k]

\* The family of a refresh token ends at most the time of a request before it,
\* its cookie not before it.
FamilyOutlives(k) ==
  ~Misread(refreshLife) /\ now < refreshExp[k] => refreshExp[k] <= familyUntil[k] + Slowest

CookieOutlives(k) ==
  ~Misread(refreshLife) /\ now < refreshExp[k] /\ stage[k] # "answer" =>
    refreshExp[k] <= cookies[k].refresh

SessionInv(k) ==
  /\ InTime(k) /\ TokensEnd(k) /\ KeysEnd(k) /\ BlockOutlives(k)
  /\ FamilyStored(k) /\ FamilyOutlives(k) /\ CookieOutlives(k)

LifetimeInv == LifetimeTypeOK /\ \A k \in Sessions : SessionInv(k)

\* What the steps of the invariant need of the two lifetimes.
LEMMA Lives ==
  ASSUME LifetimeTypeOK
  PROVE  /\ parseDurationToSeconds(accessLife) \in Nat /\ JwtSeconds(accessLife) \in Nat
         /\ parseDurationToSeconds(refreshLife) \in Nat /\ JwtSeconds(refreshLife) \in Nat
         /\ ~Misread(accessLife) => JwtSeconds(accessLife) <= parseDurationToSeconds(accessLife)
         /\ ~Misread(refreshLife) => JwtSeconds(refreshLife) <= parseDurationToSeconds(refreshLife)
         /\ parseDurationToSeconds(accessLife) = 0 => JwtSeconds(accessLife) = 0
         /\ parseDurationToSeconds(refreshLife) = 0 => JwtSeconds(refreshLife) = 0
  BY ParsersAgree DEF LifetimeTypeOK

\* A step of session k leaves the other sessions as they were.
LEMMA StepOfOne ==
  ASSUME LifetimeInv, NEW k \in Sessions, LifetimeTypeOK', SessionInv(k)',
         UNCHANGED <<now, lives>>,
         \A j \in Sessions \ {k} :
           /\ stage'[j] = stage[j] /\ began'[j] = began[j]
           /\ accessExp'[j] = accessExp[j] /\ refreshExp'[j] = refreshExp[j]
           /\ cookies'[j] = cookies[j]
           /\ familyUntil'[j] = familyUntil[j] /\ blockedUntil'[j] = blockedUntil[j]
  PROVE  LifetimeInv'
<1>1. ASSUME NEW j \in Sessions \ {k} PROVE SessionInv(j)'
  <2>1. SessionInv(j)
    BY DEF LifetimeInv
  <2> QED
    BY <2>1 DEF SessionInv, InTime, TokensEnd, KeysEnd, BlockOutlives, FamilyStored,
       FamilyOutlives, CookieOutlives, lives
<1> QED
  BY <1>1 DEF LifetimeInv

-----------------------------------------------------------------------------
(* The steps of login and refresh: none is blocked, for a blocked session is *)
(* neither under way to new tokens nor has it a cookie to begin with.        *)

\* The family is stored with a TTL that starts now.
LEMMA IssueStep ==
  ASSUME LifetimeInv, NEW k \in Sessions, Issue(k)
  PROVE  LifetimeInv'
<1> DEFINE R == parseDurationToSeconds(refreshLife)
<1>1. LifetimeTypeOK /\ SessionInv(k)
  BY DEF LifetimeInv
<1>2. R \in Nat /\ (R = 0 => JwtSeconds(refreshLife) = 0)
  BY <1>1, Lives
<1>3. Until(R) \in Int /\ (R # 0 => Until(R) = now + R) /\ (R = 0 => Until(R) = Forever)
  BY <1>1, <1>2 DEF Until, Forever, LifetimeTypeOK
<1>4. /\ stage[k] = "out" /\ stage' = [stage EXCEPT ![k] = "access"]
      /\ began' = [began EXCEPT ![k] = now]
      /\ familyUntil' = [familyUntil EXCEPT ![k] = Until(R)]
      /\ UNCHANGED <<now, lives, accessExp, refreshExp, cookies, blockedUntil>>
  BY DEF Issue, Begin, GoTo
<1> HIDE DEF R
<1>5. LifetimeTypeOK'
  BY <1>1, <1>3, <1>4 DEF LifetimeTypeOK, Stages, lives
<1>6. /\ stage'[k] = "access" /\ began'[k] = now /\ familyUntil'[k] = Until(R)
      /\ blockedUntil[k] = None
  BY <1>1, <1>4 DEF LifetimeTypeOK, SessionInv, BlockOutlives
<1>7. InTime(k)' /\ TokensEnd(k)' /\ BlockOutlives(k)' /\ CookieOutlives(k)'
  BY <1>1, <1>4, <1>6, SlowestAssumption
     DEF LifetimeTypeOK, SessionInv, InTime, TokensEnd, BlockOutlives, CookieOutlives, lives
<1>8. KeysEnd(k)' /\ FamilyStored(k)'
  BY <1>1, <1>2, <1>3, <1>4, <1>6
     DEF LifetimeTypeOK, SessionInv, KeysEnd, FamilyStored, R, lives
<1>9. FamilyOutlives(k)'
  <2>1. ASSUME ~Misread(refreshLife), now < refreshExp[k]
        PROVE  refreshExp[k] <= Until(R) + Slowest
    <3>1. refreshExp[k] <= now + JwtSeconds(refreshLife) /\ JwtSeconds(refreshLife) <= R
          /\ JwtSeconds(refreshLife) \in Nat
      BY <1>1, <2>1, Lives DEF SessionInv, TokensEnd, R
    <3> QED
      BY <1>1, <1>2, <1>3, <2>1, <3>1, SlowestAssumption DEF LifetimeTypeOK
  <2> QED
    BY <1>4, <1>6, <2>1 DEF FamilyOutlives, lives
<1> QED
  BY <1>4, <1>5, <1>6, <1>7, <1>8, <1>9, StepOfOne DEF SessionInv, LifetimeTypeOK, LifetimeInv

LEMMA VerifyStep ==
  ASSUME LifetimeInv, NEW k \in Sessions, Verify(k)
  PROVE  LifetimeInv'
<1>1. LifetimeTypeOK /\ SessionInv(k)
  BY DEF LifetimeInv
<1>2. /\ stage[k] = "idle" /\ stage' = [stage EXCEPT ![k] = "swap"]
      /\ began' = [began EXCEPT ![k] = now]
      /\ now < cookies[k].refresh
      /\ UNCHANGED <<now, lives, accessExp, refreshExp, cookies, familyUntil, blockedUntil>>
  BY DEF Verify, Begin, GoTo
<1>3. LifetimeTypeOK'
  BY <1>1, <1>2 DEF LifetimeTypeOK, Stages, lives
<1>4. blockedUntil[k] = None
  BY <1>1, <1>2 DEF LifetimeTypeOK, SessionInv, BlockOutlives, NoCookies, None
<1>5. stage'[k] = "swap" /\ began'[k] = now
  BY <1>1, <1>2 DEF LifetimeTypeOK
<1>6. SessionInv(k)'
  BY <1>1, <1>2, <1>4, <1>5, SlowestAssumption
     DEF LifetimeTypeOK, SessionInv, InTime, TokensEnd, KeysEnd, BlockOutlives, FamilyStored,
         FamilyOutlives, CookieOutlives, lives
<1> QED
  BY <1>1, <1>2, <1>3, <1>6, StepOfOne DEF LifetimeTypeOK

\* The TTL of the family starts again, later than the request.
LEMMA SwapStep ==
  ASSUME LifetimeInv, NEW k \in Sessions, Swap(k)
  PROVE  LifetimeInv'
<1> DEFINE R == parseDurationToSeconds(refreshLife)
<1>1. LifetimeTypeOK /\ SessionInv(k)
  BY DEF LifetimeInv
<1>2. R \in Nat /\ JwtSeconds(refreshLife) \in Nat
      /\ (~Misread(refreshLife) => JwtSeconds(refreshLife) <= R)
  BY <1>1, Lives
<1>3. /\ stage[k] = "swap" /\ stage' = [stage EXCEPT ![k] = "access"]
      /\ familyUntil' = [familyUntil EXCEPT ![k] = now + R]
      /\ UNCHANGED <<now, lives, began, accessExp, refreshExp, cookies, blockedUntil>>
  BY DEF Swap, GoTo
<1> HIDE DEF R
<1>4. LifetimeTypeOK'
  BY <1>1, <1>2, <1>3 DEF LifetimeTypeOK, Stages, lives
<1>5. /\ stage'[k] = "access" /\ familyUntil'[k] = now + R /\ blockedUntil[k] = None
      /\ began[k] <= now
  BY <1>1, <1>3 DEF LifetimeTypeOK, SessionInv, BlockOutlives, InTime
<1>6. InTime(k)' /\ TokensEnd(k)' /\ BlockOutlives(k)' /\ CookieOutlives(k)'
  BY <1>1, <1>3, <1>5
     DEF LifetimeTypeOK, SessionInv, InTime, TokensEnd, BlockOutlives, CookieOutlives, lives
<1>7. KeysEnd(k)' /\ FamilyStored(k)'
  BY <1>1, <1>2, <1>3, <1>5
     DEF LifetimeTypeOK, SessionInv, KeysEnd, FamilyStored, R, lives
<1>8. FamilyOutlives(k)'
  BY <1>1, <1>2, <1>3, <1>5, SlowestAssumption
     DEF LifetimeTypeOK, SessionInv, TokensEnd, FamilyOutlives, lives
<1> QED
  BY <1>1, <1>3, <1>4, <1>6, <1>7, <1>8, StepOfOne DEF SessionInv, LifetimeTypeOK

LEMMA SwapTooLateStep ==
  ASSUME LifetimeInv, NEW k \in Sessions, SwapTooLate(k)
  PROVE  LifetimeInv'
<1>1. LifetimeTypeOK /\ SessionInv(k)
  BY DEF LifetimeInv
<1>2. /\ stage[k] = "swap" /\ stage' = [stage EXCEPT ![k] = "idle"]
      /\ UNCHANGED <<now, lives, began, accessExp, refreshExp, cookies, familyUntil,
                     blockedUntil>>
  BY DEF SwapTooLate, GoTo
<1>3. LifetimeTypeOK'
  BY <1>1, <1>2 DEF LifetimeTypeOK, Stages, lives
<1>4. stage'[k] = "idle" /\ blockedUntil[k] = None
  BY <1>1, <1>2 DEF LifetimeTypeOK, SessionInv, BlockOutlives
<1>5. SessionInv(k)'
  BY <1>1, <1>2, <1>4
     DEF SessionInv, InTime, TokensEnd, KeysEnd, BlockOutlives, FamilyStored,
         FamilyOutlives, CookieOutlives, lives
<1> QED
  BY <1>1, <1>2, <1>3, <1>5, StepOfOne DEF LifetimeTypeOK

LEMMA SignAccessStep ==
  ASSUME LifetimeInv, NEW k \in Sessions, SignAccess(k)
  PROVE  LifetimeInv'
<1>1. LifetimeTypeOK /\ SessionInv(k) /\ JwtSeconds(accessLife) \in Nat
  BY Lives DEF LifetimeInv
<1>2. /\ stage[k] = "access" /\ stage' = [stage EXCEPT ![k] = "refresh"]
      /\ accessExp' = [accessExp EXCEPT ![k] = now + JwtSeconds(accessLife)]
      /\ UNCHANGED <<now, lives, began, refreshExp, cookies, familyUntil, blockedUntil>>
  BY DEF SignAccess, GoTo
<1>3. LifetimeTypeOK'
  BY <1>1, <1>2 DEF LifetimeTypeOK, Stages, lives
<1>4. /\ stage'[k] = "refresh" /\ blockedUntil[k] = None
      /\ accessExp'[k] = now + JwtSeconds(accessLife)
  BY <1>1, <1>2 DEF LifetimeTypeOK, SessionInv, BlockOutlives
<1>5. TokensEnd(k)'
  BY <1>1, <1>2, <1>4 DEF LifetimeTypeOK, SessionInv, TokensEnd, lives
<1>6. SessionInv(k)'
  BY <1>1, <1>2, <1>4, <1>5
     DEF SessionInv, InTime, KeysEnd, BlockOutlives, FamilyStored, FamilyOutlives,
         CookieOutlives, lives
<1> QED
  BY <1>1, <1>2, <1>3, <1>6, StepOfOne DEF LifetimeTypeOK

\* The refresh token is signed later than its family was stored, by no more than
\* the request has taken.
LEMMA SignRefreshStep ==
  ASSUME LifetimeInv, NEW k \in Sessions, SignRefresh(k)
  PROVE  LifetimeInv'
<1> DEFINE R == parseDurationToSeconds(refreshLife)
           r == JwtSeconds(refreshLife)
<1>1. LifetimeTypeOK /\ SessionInv(k)
  BY DEF LifetimeInv
<1>2. R \in Nat /\ r \in Nat /\ (~Misread(refreshLife) => r <= R) /\ (R = 0 => r = 0)
  BY <1>1, Lives
<1>3. /\ stage[k] = "refresh" /\ stage' = [stage EXCEPT ![k] = "answer"]
      /\ refreshExp' = [refreshExp EXCEPT ![k] = now + r]
      /\ UNCHANGED <<now, lives, began, accessExp, cookies, familyUntil, blockedUntil>>
  BY DEF SignRefresh, GoTo
<1>4. LifetimeTypeOK'
  BY <1>1, <1>2, <1>3 DEF LifetimeTypeOK, Stages, lives
<1>5. /\ stage'[k] = "answer" /\ blockedUntil[k] = None /\ refreshExp'[k] = now + r
      /\ now <= began[k] + Slowest
  BY <1>1, <1>3 DEF LifetimeTypeOK, SessionInv, BlockOutlives, InTime
<1>6. TokensEnd(k)'
  BY <1>1, <1>2, <1>3, <1>5 DEF LifetimeTypeOK, SessionInv, TokensEnd, lives
<1>7. FamilyOutlives(k)'
  <2>1. ASSUME ~Misread(refreshLife), now < now + r
        PROVE  now + r <= familyUntil[k] + Slowest
    <3>1. R # 0 /\ r <= R
      BY <1>1, <1>2, <2>1 DEF LifetimeTypeOK
    <3>2. began[k] + R <= familyUntil[k]
      BY <1>1, <1>3, <3>1 DEF SessionInv, FamilyStored, R
    <3> HIDE DEF R, r
    <3> QED
      BY <1>1, <1>2, <1>5, <3>1, <3>2, SlowestAssumption DEF LifetimeTypeOK
  <2> QED
    BY <1>3, <1>5, <2>1 DEF FamilyOutlives, lives
<1>8. SessionInv(k)'
  BY <1>1, <1>3, <1>5, <1>6, <1>7
     DEF SessionInv, InTime, KeysEnd, BlockOutlives, FamilyStored, CookieOutlives, lives
<1> QED
  BY <1>1, <1>3, <1>4, <1>8, StepOfOne DEF LifetimeTypeOK

\* The cookies start with the answer, when their tokens are older.
LEMMA AnsweredStep ==
  ASSUME LifetimeInv, NEW k \in Sessions, Answered(k)
  PROVE  LifetimeInv'
<1> DEFINE A == parseDurationToSeconds(accessLife)
           R == parseDurationToSeconds(refreshLife)
<1>1. LifetimeTypeOK /\ SessionInv(k)
  BY DEF LifetimeInv
<1>2. A \in Nat /\ R \in Nat /\ JwtSeconds(refreshLife) \in Nat
      /\ (~Misread(refreshLife) => JwtSeconds(refreshLife) <= R)
  BY <1>1, Lives
<1>3. /\ stage[k] = "answer" /\ stage' = [stage EXCEPT ![k] = "idle"]
      /\ cookies' = [cookies EXCEPT ![k] = [access |-> now + A, refresh |-> now + R]]
      /\ UNCHANGED <<now, lives, began, accessExp, refreshExp, familyUntil, blockedUntil>>
  BY DEF Answered, GoTo
<1> HIDE DEF A, R
<1>4. LifetimeTypeOK'
  BY <1>1, <1>2, <1>3 DEF LifetimeTypeOK, Stages, lives
<1>5. stage'[k] = "idle" /\ blockedUntil[k] = None /\ cookies'[k].refresh = now + R
  BY <1>1, <1>3 DEF LifetimeTypeOK, SessionInv, BlockOutlives
<1>6. CookieOutlives(k)'
  BY <1>1, <1>2, <1>3, <1>5
     DEF LifetimeTypeOK, SessionInv, TokensEnd, CookieOutlives, lives
<1>7. SessionInv(k)'
  BY <1>1, <1>3, <1>5, <1>6
     DEF SessionInv, InTime, TokensEnd, KeysEnd, BlockOutlives, FamilyStored,
         FamilyOutlives, lives
<1> QED
  BY <1>1, <1>3, <1>4, <1>7, StepOfOne DEF LifetimeTypeOK

-----------------------------------------------------------------------------
(* The steps of a logout *)

\* A session with a cookie has no blocked token.
LEMMA SignOutStep ==
  ASSUME LifetimeInv, NEW k \in Sessions, SignOut(k)
  PROVE  LifetimeInv'
<1>1. LifetimeTypeOK /\ SessionInv(k) /\ JwtSeconds(accessLife) \in Nat
  BY Lives DEF LifetimeInv
<1>2. PICK s \in {"block", "revoke"} :
        /\ stage' = [stage EXCEPT ![k] = s]
        /\ s = "block" => now < accessExp[k]
  BY DEF SignOut, Begin, GoTo
<1>3. /\ stage[k] = "idle" /\ began' = [began EXCEPT ![k] = now]
      /\ now < cookies[k].access \/ now < cookies[k].refresh
      /\ UNCHANGED <<now, lives, accessExp, refreshExp, cookies, familyUntil, blockedUntil>>
  BY DEF SignOut, Begin, GoTo
<1>4. LifetimeTypeOK'
  BY <1>1, <1>2, <1>3 DEF LifetimeTypeOK, Stages, lives
<1>5. blockedUntil[k] = None
  BY <1>1, <1>3 DEF LifetimeTypeOK, SessionInv, BlockOutlives, NoCookies, None
<1>6. stage'[k] = s /\ began'[k] = now
  BY <1>1, <1>2, <1>3 DEF LifetimeTypeOK
<1>7. TokensEnd(k)'
  BY <1>1, <1>2, <1>3, <1>6 DEF LifetimeTypeOK, SessionInv, TokensEnd, lives
<1>8. SessionInv(k)'
  BY <1>1, <1>3, <1>5, <1>6, <1>7, SlowestAssumption
     DEF LifetimeTypeOK, SessionInv, InTime, KeysEnd, BlockOutlives, FamilyStored,
         FamilyOutlives, CookieOutlives, lives
<1> QED
  BY <1>1, <1>2, <1>3, <1>4, <1>8, StepOfOne DEF LifetimeTypeOK

\* The entry is kept as long as any access token that was signed before.
LEMMA BlockStep ==
  ASSUME LifetimeInv, NEW k \in Sessions, Block(k)
  PROVE  LifetimeInv'
<1> DEFINE A == parseDurationToSeconds(accessLife)
           a == JwtSeconds(accessLife)
<1>1. LifetimeTypeOK /\ SessionInv(k)
  BY DEF LifetimeInv
<1>2. /\ stage[k] = "block" /\ stage' = [stage EXCEPT ![k] = "revoke"]
      /\ blockedUntil' = [blockedUntil EXCEPT ![k] = Until(A)]
      /\ UNCHANGED <<now, lives, began, accessExp, refreshExp, cookies, familyUntil>>
  BY DEF Block, GoTo
<1>3. A \in Nat /\ a \in Nat /\ (~Misread(accessLife) => a <= A) /\ A # 0
  BY <1>1, <1>2, Lives DEF SessionInv, TokensEnd
<1>4. Until(A) = now + A
  BY <1>3 DEF Until
<1>5. accessExp[k] <= now + a
  BY <1>1 DEF SessionInv, TokensEnd
<1> HIDE DEF A, a
<1>6. LifetimeTypeOK'
  BY <1>1, <1>2, <1>3, <1>4 DEF LifetimeTypeOK, Stages, lives
<1>7. stage'[k] = "revoke" /\ blockedUntil'[k] = now + A
  BY <1>1, <1>2, <1>4 DEF LifetimeTypeOK
<1>8. BlockOutlives(k)'
  BY <1>1, <1>2, <1>3, <1>5, <1>7 DEF LifetimeTypeOK, BlockOutlives, lives
<1>9. KeysEnd(k)'
  BY <1>1, <1>2, <1>3, <1>7 DEF LifetimeTypeOK, SessionInv, KeysEnd, A, lives
<1>10. SessionInv(k)'
  BY <1>1, <1>2, <1>7, <1>8, <1>9
     DEF SessionInv, InTime, TokensEnd, FamilyStored, FamilyOutlives, CookieOutlives, lives
<1> QED
  BY <1>1, <1>2, <1>6, <1>10, StepOfOne DEF LifetimeTypeOK

\* The session has no tokens any more.
LEMMA RevokeStep ==
  ASSUME LifetimeInv, NEW k \in Sessions, Revoke(k)
  PROVE  LifetimeInv'
<1>1. /\ LifetimeTypeOK /\ SessionInv(k)
      /\ parseDurationToSeconds(refreshLife) \in Nat /\ JwtSeconds(refreshLife) \in Nat
  BY Lives DEF LifetimeInv
<1>2. PICK v \in {None, familyUntil[k]} : familyUntil' = [familyUntil EXCEPT ![k] = v]
  BY <1>1 DEF Revoke, LifetimeTypeOK
<1>3. /\ stage[k] = "revoke" /\ stage' = [stage EXCEPT ![k] = "idle"]
      /\ cookies' = [cookies EXCEPT ![k] = NoCookies]
      /\ refreshExp' = [refreshExp EXCEPT ![k] = None]
      /\ UNCHANGED <<now, lives, began, accessExp, blockedUntil>>
  BY DEF Revoke, GoTo
<1>4. None \in Int /\ ~(now < None) /\ NoCookies \in [access : Int, refresh : Int]
      /\ None <= now
  BY <1>1 DEF None, NoCookies, LifetimeTypeOK
<1>5. LifetimeTypeOK'
  BY <1>1, <1>2, <1>3, <1>4 DEF LifetimeTypeOK, Stages, lives
<1>6. /\ stage'[k] = "idle" /\ cookies'[k] = NoCookies /\ refreshExp'[k] = None
      /\ familyUntil'[k] = v
  BY <1>1, <1>2, <1>3 DEF LifetimeTypeOK
<1>7. TokensEnd(k)' /\ KeysEnd(k)'
  <2>1. None <= now + JwtSeconds(refreshLife)
        /\ None <= now + parseDurationToSeconds(refreshLife)
    BY <1>1 DEF None, LifetimeTypeOK
  <2> QED
    BY <1>1, <1>2, <1>3, <1>6, <2>1 DEF SessionInv, TokensEnd, KeysEnd, lives
<1>8. SessionInv(k)'
  BY <1>1, <1>3, <1>4, <1>6, <1>7
     DEF SessionInv, InTime, BlockOutlives, FamilyStored, FamilyOutlives, CookieOutlives, lives
<1> QED
  BY <1>1, <1>2, <1>3, <1>5, <1>8, StepOfOne DEF LifetimeTypeOK

-----------------------------------------------------------------------------
(* Time, and all steps *)

LEMMA PassStep ==
  ASSUME LifetimeInv, Pass
  PROVE  LifetimeInv'
<1>1. LifetimeTypeOK
  BY DEF LifetimeInv
<1>2. now' > now /\ now' \in Nat
  <2>1. PICK t \in Deadlines : now' \in {t, t - 1} /\ now' > now
    BY DEF Pass
  <2>2. t \in Int
    <3>1. \A k \in Sessions :
            /\ accessExp[k] \in Int /\ refreshExp[k] \in Int /\ cookies[k].access \in Int
            /\ cookies[k].refresh \in Int /\ familyUntil[k] \in Int /\ blockedUntil[k] \in Int
            /\ began[k] + Slowest \in Int
      BY <1>1, SlowestAssumption DEF LifetimeTypeOK
    <3> QED
      BY <2>1, <3>1 DEF Deadlines, UnderWay
  <2> QED
    BY <1>1, <2>1, <2>2 DEF LifetimeTypeOK
<1>3. UNCHANGED <<lives, stage, began, accessExp, refreshExp, cookies, familyUntil, blockedUntil>>
  BY DEF Pass
<1>4. LifetimeTypeOK'
  BY <1>1, <1>2, <1>3 DEF LifetimeTypeOK, lives
<1>5. ASSUME NEW k \in Sessions PROVE SessionInv(k)'
  <2>1. SessionInv(k)
    BY DEF LifetimeInv
  <2>2. /\ now \in Nat /\ began[k] \in Nat /\ cookies[k].refresh \in Int
        /\ accessExp[k] \in Int /\ refreshExp[k] \in Int
        /\ familyUntil[k] \in Int /\ blockedUntil[k] \in Int
        /\ parseDurationToSeconds(accessLife) \in Nat /\ JwtSeconds(accessLife) \in Nat
        /\ parseDurationToSeconds(refreshLife) \in Nat /\ JwtSeconds(refreshLife) \in Nat
    BY <1>1, Lives DEF LifetimeTypeOK
  <2>3. stage[k] \notin {"out", "idle"} => now' <= began[k] + Slowest
    BY DEF Pass, UnderWay
  <2>4. InTime(k)'
    BY <1>2, <1>3, <2>1, <2>2, <2>3 DEF SessionInv, InTime
  <2>5. TokensEnd(k)' /\ KeysEnd(k)'
    BY <1>2, <1>3, <2>1, <2>2 DEF SessionInv, TokensEnd, KeysEnd, lives
  <2>6. BlockOutlives(k)' /\ FamilyStored(k)'
    BY <1>3, <2>1 DEF SessionInv, BlockOutlives, FamilyStored, lives
  <2>7. FamilyOutlives(k)' /\ CookieOutlives(k)'
    BY <1>2, <1>3, <2>1, <2>2 DEF SessionInv, FamilyOutlives, CookieOutlives, lives
  <2> QED
    BY <2>4, <2>5, <2>6, <2>7 DEF SessionInv
<1> QED
  BY <1>4, <1>5 DEF LifetimeInv

\* Every step keeps the invariant.
LEMMA LifetimeStep == LifetimeInv /\ [LifetimeNext]_lifetimeVars => LifetimeInv'
<1> SUFFICES ASSUME LifetimeInv, [LifetimeNext]_lifetimeVars PROVE LifetimeInv'
  OBVIOUS
<1>1. CASE LifetimeNext
  BY <1>1, PassStep, IssueStep, VerifyStep, SwapStep, SwapTooLateStep, SignAccessStep,
     SignRefreshStep, AnsweredStep, SignOutStep, BlockStep, RevokeStep DEF LifetimeNext
<1>2. CASE UNCHANGED lifetimeVars
  BY <1>2 DEF lifetimeVars, lives, LifetimeInv, LifetimeTypeOK, SessionInv, InTime, TokensEnd,
     KeysEnd, BlockOutlives, FamilyStored, FamilyOutlives, CookieOutlives
<1> QED
  BY <1>1, <1>2

-----------------------------------------------------------------------------

\* Wherever a login, a refresh or a logout stands, what is kept about its tokens
\* agrees with them: the entry and the cookie last until the token has expired,
\* the family until it has no longer to live than the request may take, and
\* neither key of Redis lasts longer than the lifetime that the parser reads
\* (time.util.ts:33-54, auth.service.ts:57-60, 118-127, 137-138,
\* refresh-token.store.ts:31-49).
THEOREM LifetimeInvariant == LifetimeSpec => []LifetimeInv
<1>1. LifetimeInit => LifetimeInv
  <2> SUFFICES ASSUME LifetimeInit PROVE LifetimeInv
    OBVIOUS
  <2>1. None \in Int /\ ~(0 < None) /\ \A n \in Nat : None <= 0 + n
    BY DEF None
  <2>2. LifetimeTypeOK
    BY <2>1 DEF LifetimeInit, LifetimeTypeOK, Stages, NoCookies
  <2>3. ASSUME NEW k \in Sessions
        PROVE  /\ now = 0 /\ stage[k] = "out" /\ accessExp[k] = None /\ refreshExp[k] = None
               /\ familyUntil[k] = None /\ blockedUntil[k] = None
    BY DEF LifetimeInit
  <2>4. /\ parseDurationToSeconds(accessLife) \in Nat /\ JwtSeconds(accessLife) \in Nat
        /\ parseDurationToSeconds(refreshLife) \in Nat /\ JwtSeconds(refreshLife) \in Nat
    BY <2>2, Lives
  <2> QED
    BY <2>1, <2>2, <2>3, <2>4
       DEF LifetimeInv, SessionInv, InTime, TokensEnd, KeysEnd, BlockOutlives, FamilyStored,
           FamilyOutlives, CookieOutlives
<1> QED
  BY <1>1, LifetimeStep, PTL DEF LifetimeSpec

\* A token that was logged out is refused until it has expired; a refresh token
\* keeps its cookie, and its family but for the last Slowest seconds; no key is
\* kept for longer than the lifetime that the second parser reads. For all durations but those that the second
\* parser cuts short, and a family of a lifetime of nothing
\* (time.util.ts:33-54, auth.service.ts:57-60, 118-127, 137-138,
\* refresh-token.store.ts:31-49).
THEOREM ParsersSuffice == LifetimeSpec => []LifetimesAgree
<1>1. LifetimeInv => LifetimesAgree
  <2> SUFFICES ASSUME LifetimeInv, NEW k \in Sessions
               PROVE  /\ blockedUntil[k] # None /\ ~Misread(accessLife) => ~Accepted(k)
                      /\ ~Misread(refreshLife) =>
                           /\ now + Slowest < refreshExp[k] => now < familyUntil[k]
                           /\ now < refreshExp[k] /\ stage[k] # "answer" =>
                                now < cookies[k].refresh
                      /\ KeysEnd(k)
    BY DEF LifetimesAgree, KeysEnd
  <2>1. LifetimeTypeOK /\ SessionInv(k)
    BY DEF LifetimeInv
  <2>2. blockedUntil[k] # None /\ ~Misread(accessLife) => ~Accepted(k)
    BY <2>1 DEF SessionInv, LifetimeTypeOK, BlockOutlives, Accepted
  <2>3. ASSUME ~Misread(refreshLife), now + Slowest < refreshExp[k]
        PROVE  now < familyUntil[k]
    <3>1. now < refreshExp[k]
      BY <2>1, <2>3, SlowestAssumption DEF LifetimeTypeOK
    <3>2. refreshExp[k] <= familyUntil[k] + Slowest
      BY <2>1, <2>3, <3>1 DEF SessionInv, FamilyOutlives
    <3> QED
      BY <2>1, <2>3, <3>2, SlowestAssumption DEF LifetimeTypeOK
  <2>4. ASSUME ~Misread(refreshLife), now < refreshExp[k], stage[k] # "answer"
        PROVE  now < cookies[k].refresh
    <3>1. refreshExp[k] <= cookies[k].refresh
      BY <2>1, <2>4 DEF SessionInv, CookieOutlives
    <3> QED
      BY <2>1, <2>4, <3>1 DEF LifetimeTypeOK
  <2> QED
    BY <2>1, <2>2, <2>3, <2>4 DEF SessionInv
<1> QED
  BY <1>1, LifetimeInvariant, PTL
=============================================================================
