---------------------------- MODULE AuthSession ----------------------------
(***************************************************************************)
(* Sessions of src/modules/auth and src/core/auth: AuthService (login,     *)
(* refresh, logout, revokeAllSessions), RefreshTokenStore,                 *)
(* SessionEpochStore and AuthGuard, as HTTP requests that interleave at    *)
(* every await, over one Redis.                                            *)
(*                                                                         *)
(* A request runs once. It generates at most one refresh token, with a     *)
(* fresh random UUID as its jti, and signs at most one access token; both  *)
(* are named by the request.  A login also generates the family of its     *)
(* token, which is named by the login.  So "token t" is the pair request t *)
(* was answered with.  A token that is missing, expired or forged fails    *)
(* verification, which changes no state: a request carries only tokens     *)
(* that verify, and None for the others.                                   *)
(*                                                                         *)
(* At each Redis command a fault may strike: the client is not ready, or   *)
(* the command fails, before or after Redis applied it.  The raw commands  *)
(* then throw (HTTP 500); the safe* commands return their default.         *)
(***************************************************************************)
EXTENDS Naturals, FiniteSets

CONSTANTS
  Requests,    \* the HTTP requests of a behaviour
  Users,
  None,        \* no token, no user
  FailClosed,  \* AUTH_BLOCKLIST_FAIL_CLOSED
  MaxFaults    \* bound on the faults of a behaviour

ASSUME NoneAssumption == None \notin Requests \cup Users
ASSUME ConfigAssumption == FailClosed \in BOOLEAN /\ MaxFaults \in Nat

VARIABLES
  call,      \* call[r]: what request r asks for, set when it starts
  pc,        \* pc[r]: the next step of r, or the answer it got
  rt,        \* Redis rt:{user}:{family}: the family's current jti, or None
  epoch,     \* Redis session:epoch:{user}, 0 when absent
  blocked,   \* Redis blocked:{jti}: the access tokens logged out
  found,     \* found[r]: the keys SCAN has returned to r
  seen,      \* seen[r]: the epoch r put in its access token
  gone,      \* users deleted in the database
  minted,    \* history: the jtis Redis has ever stored
  degraded,  \* history: the requests for which a fault was swallowed
  faults     \* faults so far

vars == <<call, pc, rt, epoch, blocked, found, seen, gone, minted, degraded,
          faults>>

Ops == {"idle", "login", "refresh", "logout", "revokeAll", "api"}

Steps == {"issue", "cas", "probe", "kill", "identity", "revoke", "readEpoch",
          "block", "revokeRt", "incr", "scan", "scanning", "delFound",
          "checkBlocked", "checkEpoch"}

Answers == {"answered", "invalid", "reused", "failed", "aborted", "done",
            "accepted", "refused"}

\* fam and jti: the refresh token presented; at: the access token presented;
\* before: the tokens revokeAllSessions is asked to void; stale: whether the
\* access token of an api request was already revoked when it arrived.
Call == [op : Ops, user : Users \cup {None}, fam : Requests \cup {None},
         jti : Requests \cup {None}, at : Requests \cup {None},
         before : SUBSET Requests, stale : BOOLEAN]

NoCall == [op |-> "idle", user |-> None, fam |-> None, jti |-> None,
           at |-> None, before |-> {}, stale |-> FALSE]

TypeOK ==
  /\ call \in [Requests -> Call]
  /\ pc \in [Requests -> {"idle"} \cup Steps \cup Answers]
  /\ rt \in [Requests -> Requests \cup {None}]
  /\ epoch \in [Users -> Nat]
  /\ blocked \subseteq Requests
  /\ found \in [Requests -> SUBSET Requests]
  /\ seen \in [Requests -> Nat]
  /\ gone \subseteq Users
  /\ minted \subseteq Requests
  /\ degraded \subseteq Requests
  /\ faults \in 0..MaxFaults

Init ==
  /\ call = [r \in Requests |-> NoCall]
  /\ pc = [r \in Requests |-> "idle"]
  /\ rt = [f \in Requests |-> None]
  /\ epoch = [u \in Users |-> 0]
  /\ blocked = {}
  /\ found = [r \in Requests |-> {}]
  /\ seen = [r \in Requests |-> 0]
  /\ gone = {}
  /\ minted = {}
  /\ degraded = {}
  /\ faults = 0

-----------------------------------------------------------------------------
(* Tokens *)

\* The tokens some client holds: request t was answered with token t.
Held == {t \in Requests : pc[t] = "answered"}

\* The family of token t: the one its refresh presented, its own for a login.
FamilyOf(t) == IF call[t].op = "refresh" THEN call[t].fam ELSE t

\* The keys rt:{u}:* present in Redis.
FamiliesOf(u) == {f \in Requests : rt[f] # None /\ call[f].user = u}

\* Access token t is revoked: logged out, or older than its user's epoch.
Revoked(t) == t \in blocked \/ epoch[call[t].user] > seen[t]

(* Steps *)

Goto(r, step) == pc' = [pc EXCEPT ![r] = step]

Start(r, step, c) ==
  /\ pc[r] = "idle"
  /\ call' = [call EXCEPT ![r] = c]
  /\ Goto(r, step)
  /\ UNCHANGED <<rt, epoch, blocked, found, seen, gone, minted, degraded,
                 faults>>

NoFault == UNCHANGED <<faults, degraded>>

Fault == faults < MaxFaults /\ faults' = faults + 1

\* A fault the request reports (the command throws) or hides (safe*, catch).
Thrown == Fault /\ UNCHANGED degraded
Swallowed(r) == Fault /\ degraded' = degraded \cup {r}

-----------------------------------------------------------------------------
(* Redis commands on the family keys *)

\* SET rt:{u}:{f} j, and the SET of the compare-and-set script.
StoreJti(f, j) ==
  /\ rt' = [rt EXCEPT ![f] = j]
  /\ minted' = minted \cup {j}

FamilyUnchanged == UNCHANGED <<rt, minted>>

\* DEL of the keys of families F.
DeleteFamilies(F) ==
  /\ rt' = [f \in Requests |-> IF f \in F THEN None ELSE rt[f]]
  /\ UNCHANGED minted

\* Mutants of Swappable: no comparison with the presented jti; comparison with
\* the family's first jti; an absent key passes.
SwappableIfPresent(f, j) == rt[f] # None
SwappableFirst(f, j) == rt[f] = f
SwappableOrAbsent(f, j) == rt[f] \in {j, None}

\* The condition of the compare-and-set script: the stored jti is the
\* presented one.
Swappable(f, j) == rt[f] = j

-----------------------------------------------------------------------------
(* login *)

\* POST /auth/login with the right credentials of a live account; lockout and
\* password check (module Lockout) come before this step.
StartLogin(r, u) ==
  /\ u \notin gone
  /\ Start(r, "issue", [NoCall EXCEPT !.op = "login", !.user = u])

\* refreshStore.issue: SET the first jti of a new family.
Issue(r) ==
  /\ pc[r] = "issue"
  /\ \/ NoFault /\ StoreJti(r, r) /\ Goto(r, "readEpoch")
     \/ Thrown /\ (StoreJti(r, r) \/ FamilyUnchanged) /\ Goto(r, "failed")
  /\ UNCHANGED <<call, epoch, blocked, found, seen, gone>>

\* Mutant of ReadEpoch: the null of a failed safeGet is used as it is.
ReadEpochUnchecked(r) ==
  /\ pc[r] = "readEpoch"
  /\ \/ NoFault /\ seen' = [seen EXCEPT ![r] = epoch[call[r].user]]
     \/ Swallowed(r) /\ seen' = [seen EXCEPT ![r] = None]
  /\ Goto(r, "answered")
  /\ UNCHANGED <<call, rt, epoch, blocked, found, gone, minted>>

\* sessionEpoch.current, then both tokens are signed and sent. Signing touches
\* no shared state, so it belongs to the step that read the epoch.
ReadEpoch(r) ==
  /\ pc[r] = "readEpoch"
  /\ \/ NoFault /\ seen' = [seen EXCEPT ![r] = epoch[call[r].user]]
     \/ Swallowed(r) /\ seen' = [seen EXCEPT ![r] = 0]
  /\ Goto(r, "answered")
  /\ UNCHANGED <<call, rt, epoch, blocked, found, gone, minted>>

-----------------------------------------------------------------------------
(* refresh *)

\* POST /auth/refresh with token t: any token ever handed out, also an old one.
StartRefresh(r, t) ==
  /\ t \in Held
  /\ Start(r, "cas", [NoCall EXCEPT !.op = "refresh", !.user = call[t].user,
                                    !.fam = FamilyOf(t), !.jti = t])

\* RefreshTokenStore.rotate: the compare-and-set.
CompareAndSet(r) ==
  LET f == call[r].fam
      j == call[r].jti
  IN /\ pc[r] = "cas"
     /\ \/ NoFault /\ Swappable(f, j) /\ StoreJti(f, r) /\ Goto(r, "identity")
        \/ NoFault /\ ~Swappable(f, j) /\ FamilyUnchanged /\ Goto(r, "probe")
        \/ /\ Thrown
           /\ \/ Swappable(f, j) /\ StoreJti(f, r)
              \/ FamilyUnchanged
           /\ Goto(r, "failed")
     /\ UNCHANGED <<call, epoch, blocked, found, seen, gone>>

\* rotate, not swapped: GET tells a replaced token from an absent family.
Probe(r) ==
  /\ pc[r] = "probe"
  /\ \/ NoFault /\ rt[call[r].fam] # None /\ Goto(r, "kill")
     \/ NoFault /\ rt[call[r].fam] = None /\ Goto(r, "invalid")
     \/ Thrown /\ Goto(r, "failed")
  /\ UNCHANGED <<call, rt, epoch, blocked, found, seen, gone, minted>>

\* rotate, reuse detected: DEL the family, REFRESH_TOKEN_REUSED.
Kill(r) ==
  /\ pc[r] = "kill"
  /\ \/ NoFault /\ DeleteFamilies({call[r].fam}) /\ Goto(r, "reused")
     \/ /\ Thrown
        /\ DeleteFamilies({call[r].fam}) \/ FamilyUnchanged
        /\ Goto(r, "failed")
  /\ UNCHANGED <<call, epoch, blocked, found, seen, gone>>

\* Mutant of Identity: a deleted user is refused, the family stays.
IdentityNoRevoke(r) ==
  /\ pc[r] = "identity"
  /\ \/ NoFault /\ call[r].user \notin gone /\ Goto(r, "readEpoch")
     \/ NoFault /\ call[r].user \in gone /\ Goto(r, "invalid")
     \/ Thrown /\ Goto(r, "failed")
  /\ UNCHANGED <<call, rt, epoch, blocked, found, seen, gone, minted>>

\* getIdentity reads the user from the database; the query may fail.
Identity(r) ==
  /\ pc[r] = "identity"
  /\ \/ NoFault /\ call[r].user \notin gone /\ Goto(r, "readEpoch")
     \/ NoFault /\ call[r].user \in gone /\ Goto(r, "revoke")
     \/ Thrown /\ Goto(r, "failed")
  /\ UNCHANGED <<call, rt, epoch, blocked, found, seen, gone, minted>>

\* Mutant of RevokeGone: the key is built from the jti, not from the family.
RevokeGoneByJti(r) ==
  /\ pc[r] = "revoke"
  /\ NoFault /\ DeleteFamilies({call[r].jti}) /\ Goto(r, "invalid")
  /\ UNCHANGED <<call, epoch, blocked, found, seen, gone>>

\* The user is gone: revoke the family, INVALID_REFRESH_TOKEN.
RevokeGone(r) ==
  /\ pc[r] = "revoke"
  /\ \/ NoFault /\ DeleteFamilies({call[r].fam}) /\ Goto(r, "invalid")
     \/ /\ Thrown
        /\ DeleteFamilies({call[r].fam}) \/ FamilyUnchanged
        /\ Goto(r, "failed")
  /\ UNCHANGED <<call, epoch, blocked, found, seen, gone>>

-----------------------------------------------------------------------------
(* logout *)

\* POST /auth/logout with an access token a and a refresh token t, either of
\* which may be missing or no longer verify.
StartLogout(r, a, t) ==
  /\ a \in Held \cup {None} /\ t \in Held \cup {None} /\ {a, t} # {None}
  /\ Start(r, "block",
           [NoCall EXCEPT !.op = "logout", !.at = a, !.jti = t,
                          !.fam = IF t = None THEN None ELSE FamilyOf(t)])

\* Mutant of BlockAccess: with an access token the refresh token is forgotten.
BlockAccessOnly(r) ==
  /\ pc[r] = "block"
  /\ NoFault /\ blocked' = blocked \cup ({call[r].at} \ {None})
  /\ Goto(r, IF call[r].at # None THEN "done" ELSE "revokeRt")
  /\ UNCHANGED <<call, rt, epoch, found, seen, gone, minted>>

\* SET blocked:{jti}; the catch hides a Redis error.
BlockAccess(r) ==
  /\ pc[r] = "block"
  /\ \/ NoFault /\ blocked' = blocked \cup ({call[r].at} \ {None})
     \/ /\ call[r].at # None
        /\ Swallowed(r)
        /\ blocked' \in {blocked, blocked \cup {call[r].at}}
  /\ Goto(r, IF call[r].jti = None THEN "done" ELSE "revokeRt")
  /\ UNCHANGED <<call, rt, epoch, found, seen, gone, minted>>

\* refreshStore.revoke; the catch hides a Redis error. Logout always succeeds.
RevokeRt(r) ==
  /\ pc[r] = "revokeRt"
  /\ \/ NoFault /\ DeleteFamilies({call[r].fam})
     \/ Swallowed(r) /\ (DeleteFamilies({call[r].fam}) \/ FamilyUnchanged)
  /\ Goto(r, "done")
  /\ UNCHANGED <<call, epoch, blocked, found, seen, gone>>

-----------------------------------------------------------------------------
(* revokeAllSessions *)

StartRevokeAll(r, u) ==
  Start(r, "incr",
        [NoCall EXCEPT !.op = "revokeAll", !.user = u,
                       !.before = {t \in Held : call[t].user = u}])

\* sessionEpoch.revokeAll: INCR; the -1 of a failed one is not looked at.
IncrEpoch(r) ==
  LET u == call[r].user
  IN /\ pc[r] = "incr"
     /\ \/ NoFault /\ epoch' = [epoch EXCEPT ![u] = @ + 1]
        \/ /\ Swallowed(r)
           /\ epoch' \in {epoch, [epoch EXCEPT ![u] = @ + 1]}
     /\ Goto(r, "scan")
     /\ UNCHANGED <<call, rt, blocked, found, seen, gone, minted>>

\* safeKeys starts to SCAN. A key present during the whole iteration is
\* returned, so the keys present now are expected.
ScanStart(r) ==
  /\ pc[r] = "scan"
  /\ \/ /\ NoFault
        /\ found' = [found EXCEPT ![r] = FamiliesOf(call[r].user)]
        /\ Goto(r, "scanning")
     \/ Swallowed(r) /\ UNCHANGED found /\ Goto(r, "done")
  /\ UNCHANGED <<call, rt, epoch, blocked, seen, gone, minted>>

\* Mutant of ScanEnd: only the first batch of the iterator is kept.
ScanEndFirstBatch(r) ==
  /\ pc[r] = "scanning"
  /\ \E batch \in SUBSET FamiliesOf(call[r].user) :
       /\ NoFault
       /\ found' = [found EXCEPT ![r] = batch]
       /\ Goto(r, IF batch = {} THEN "done" ELSE "delFound")
  /\ UNCHANGED <<call, rt, epoch, blocked, seen, gone, minted>>

\* SCAN ends. A key that came during the iteration may be returned or missed;
\* one that went away no longer matters. safeKeys returns [] on an error.
ScanEnd(r) ==
  LET present == FamiliesOf(call[r].user)
  IN /\ pc[r] = "scanning"
     /\ \/ \E late \in SUBSET (present \ found[r]) :
             /\ NoFault
             /\ found' = [found EXCEPT ![r] = (@ \cap present) \cup late]
             /\ Goto(r, IF found'[r] = {} THEN "done" ELSE "delFound")
        \/ /\ Swallowed(r)
           /\ found' = [found EXCEPT ![r] = {}]
           /\ Goto(r, "done")
     /\ UNCHANGED <<call, rt, epoch, blocked, seen, gone, minted>>

\* safeDel of the keys found.
DelFound(r) ==
  /\ pc[r] = "delFound"
  /\ \/ NoFault /\ DeleteFamilies(found[r])
     \/ Swallowed(r) /\ (DeleteFamilies(found[r]) \/ FamilyUnchanged)
  /\ Goto(r, "done")
  /\ UNCHANGED <<call, epoch, blocked, found, seen, gone>>

-----------------------------------------------------------------------------
(* AuthGuard, before the handler of any route that is not @Public *)

\* A request whose access token passed verifyAsync, the typ and jti checks.
StartApi(r, a) ==
  /\ a \in Held
  /\ Start(r, "checkBlocked",
           [NoCall EXCEPT !.op = "api", !.user = call[a].user, !.at = a,
                          !.stale = Revoked(a)])

\* isReady (read in the same tick as the command is issued), then safeGet of
\* the blocklist key: null when Redis is not ready or the command fails.
CheckBlocked(r) ==
  /\ pc[r] = "checkBlocked"
  /\ \/ NoFault /\ call[r].at \in blocked /\ Goto(r, "refused")
     \/ NoFault /\ call[r].at \notin blocked /\ Goto(r, "checkEpoch")
     \/ FailClosed /\ Thrown /\ Goto(r, "refused")
     \/ Swallowed(r) /\ Goto(r, "checkEpoch")
  /\ UNCHANGED <<call, rt, epoch, blocked, found, seen, gone, minted>>

\* Mutant of Outdated: off by one.
OutdatedLate(stored, carried) == stored > carried + 1

\* The stored epoch voids the epoch a token carries.
Outdated(stored, carried) == stored > carried

\* safeGet of the epoch key, 0 when Redis is not ready or the command fails.
CheckEpoch(r) ==
  LET outdated == Outdated(epoch[call[r].user], seen[call[r].at])
  IN /\ pc[r] = "checkEpoch"
     /\ \/ NoFault /\ outdated /\ Goto(r, "refused")
        \/ NoFault /\ ~outdated /\ Goto(r, "accepted")
        \/ Swallowed(r) /\ Goto(r, "accepted")
     /\ UNCHANGED <<call, rt, epoch, blocked, found, seen, gone, minted>>

-----------------------------------------------------------------------------
(* Environment *)

\* The TTL of a family key runs out.
ExpireFamily(f) ==
  /\ rt[f] # None
  /\ DeleteFamilies({f})
  /\ UNCHANGED <<call, pc, epoch, blocked, found, seen, gone, degraded, faults>>

\* UserService.deleteUser.
DeleteUser(u) ==
  /\ u \notin gone
  /\ gone' = gone \cup {u}
  /\ UNCHANGED <<call, pc, rt, epoch, blocked, found, seen, minted, degraded,
                 faults>>

\* The process dies, or the answer is lost on its way to the client.
Abort(r) ==
  /\ pc[r] \in Steps
  /\ Thrown
  /\ Goto(r, "aborted")
  /\ UNCHANGED <<call, rt, epoch, blocked, found, seen, gone, minted>>

-----------------------------------------------------------------------------

Arrive(r) ==
  \/ \E u \in Users : StartLogin(r, u) \/ StartRevokeAll(r, u)
  \/ \E t \in Held : StartRefresh(r, t) \/ StartApi(r, t)
  \/ \E a, t \in Held \cup {None} : StartLogout(r, a, t)

Login(r) == Issue(r) \/ ReadEpoch(r)

Refresh(r) == CompareAndSet(r) \/ Probe(r) \/ Kill(r) \/ Identity(r) \/ RevokeGone(r)

Logout(r) == BlockAccess(r) \/ RevokeRt(r)

RevokeAll(r) == IncrEpoch(r) \/ ScanStart(r) \/ ScanEnd(r) \/ DelFound(r)

Guard(r) == CheckBlocked(r) \/ CheckEpoch(r)

Next ==
  \/ \E r \in Requests :
       \/ Arrive(r) \/ Login(r) \/ Refresh(r) \/ Logout(r) \/ RevokeAll(r)
       \/ Guard(r) \/ Abort(r)
  \/ \E f \in Requests : ExpireFamily(f)
  \/ \E u \in Users : DeleteUser(u)

Spec == Init /\ [][Next]_vars

-----------------------------------------------------------------------------
(* Properties *)

\* The refreshes whose compare-and-set Redis applied.
Rotations == {r \in minted : call[r].op = "refresh"}

\* However refreshes interleave, retry or fail half way, a refresh token is
\* exchanged at most once (RefreshTokenStore.rotate).
SingleUse ==
  \A r, s \in Rotations : call[r].jti = call[s].jti => r = s

\* Answering INVALID_REFRESH_TOKEN or REFRESH_TOKEN_REUSED means the family is
\* gone from Redis by then and never comes back, whatever refresh or login is
\* still in flight (rotate, and AuthService.refresh for a deleted user).
RefusedFamilyIsDead ==
  \A r \in Requests : pc[r] \in {"invalid", "reused"} => rt[call[r].fam] = None

\* A session is killed as reused only when its token had really been exchanged
\* by another request: an honest client that never presents a token twice
\* never gets REFRESH_TOKEN_REUSED.
ReuseHasRival ==
  \A r \in Requests : pc[r] \in {"kill", "reused"} =>
    \E s \in Rotations : s # r /\ call[s].jti = call[r].jti

\* Without faults no family outlives its client: the current jti of a family
\* is held by a client or by a request that is about to answer or revoke it.
NoOrphanFamily ==
  faults = 0 => \A f \in Requests :
    rt[f] # None =>
      pc[rt[f]] \in {"identity", "revoke", "readEpoch", "answered"}

\* Logout answered and no Redis error swallowed: the family of its refresh
\* token is dead for good, also against a refresh that raced it, and its access
\* token is on the blocklist.
LogoutRevokes ==
  \A r \in Requests \ degraded :
    call[r].op = "logout" /\ pc[r] = "done" =>
      /\ call[r].jti # None => rt[call[r].fam] = None
      /\ call[r].at # None => call[r].at \in blocked

\* revokeAllSessions ended and no Redis error swallowed: every token handed out
\* before it began is void, its family dead and its access token outdated.
RevokeAllVoids ==
  \A r \in Requests \ degraded :
    call[r].op = "revokeAll" /\ pc[r] = "done" =>
      \A t \in call[r].before :
        rt[FamilyOf(t)] = None /\ epoch[call[r].user] > seen[t]

\* AuthGuard lets a token that was revoked before the request arrived through
\* only when a Redis read failed under it.
RevokedIsRefused ==
  \A r \in Requests :
    pc[r] = "accepted" /\ call[r].stale => r \in degraded

\* What the repository says, and the code does not do.

\* auth.service.ts:65-69 says that the epoch and the families voided together
\* complete the invalidation of the user: no token of a session that was open
\* when revokeAllSessions began survives it, faults apart. A refresh caught
\* between its compare-and-set and its epoch read gets away with the new epoch.
RevocationIsComplete ==
  \A r \in Requests \ degraded :
    call[r].op = "revokeAll" /\ pc[r] = "done" =>
      \A t \in Held, b \in call[r].before :
        FamilyOf(t) = FamilyOf(b) => epoch[call[r].user] > seen[t]

\* env.schema.ts:96-97 and docs/convention/05-access-control.md promise that
\* with AUTH_BLOCKLIST_FAIL_CLOSED a token revoked earlier is never let in.
\* isReady is read once, and a read that fails after it counts as "not revoked".
FailClosedRefuses ==
  FailClosed =>
    \A r \in Requests : pc[r] = "accepted" => ~call[r].stale

\* auth.controller.ts:45 and auth.service.ts:132 say that logout blocklists the
\* access token and revokes the family. It answers success when Redis failed.
LogoutEndsSession ==
  \A r \in Requests :
    call[r].op = "logout" /\ pc[r] = "done" =>
      /\ call[r].jti # None => rt[call[r].fam] = None
      /\ call[r].at # None => call[r].at \in blocked

\* The families obey the abstract specification.
Family == INSTANCE TokenFamily WITH Id <- Requests, live <- rt

FamilySpec == Family!Spec
=============================================================================
