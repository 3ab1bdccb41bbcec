-------------------------- MODULE RevocationProofs --------------------------
(***************************************************************************)
(* Proofs about the revocations of AuthSession, for any sets of requests   *)
(* and users and any number of faults: what logout and revokeAllSessions   *)
(* have voided stays void, AuthGuard never lets in a token that was void   *)
(* when its request arrived, unless a Redis error was swallowed, and no    *)
(* family is left without an owner when nothing fails.                     *)
(***************************************************************************)
EXTENDS AuthSessionProofs

\* A request that revokes or checks is at a step of its operation.
StepFits(r) ==
  /\ pc[r] \in {"block", "revokeRt"} => call[r].op = "logout"
  /\ pc[r] \in {"incr", "scan", "scanning", "delFound"} => call[r].op = "revokeAll"
  /\ pc[r] \in {"checkBlocked", "checkEpoch", "accepted"} => call[r].op = "api"
  /\ call[r].op = "logout" => pc[r] \in {"block", "revokeRt", "done", "aborted"}
  /\ call[r].op = "revokeAll"
       => pc[r] \in {"incr", "scan", "scanning", "delFound", "done", "aborted"}
  /\ call[r].op = "api"
       => pc[r] \in {"checkBlocked", "checkEpoch", "accepted", "refused", "aborted"}

\* A family belongs to the user of each of its tokens.
FamilyHasOneUser ==
  \A r \in Requests : call[r].op = "refresh" =>
    call[call[r].fam].user = call[r].user

\* No token carries an epoch that its user has not reached.
SeenIsPast == \A t \in Held : seen[t] <= epoch[call[t].user]

\* Logout names a family that Redis has stored; past its first step the access
\* token is on the blocklist, and past its last the family is dead.
LogoutProgress(r) ==
  call[r].op = "logout" =>
    /\ call[r].jti # None => call[r].fam \in minted
    /\ r \notin degraded =>
         /\ pc[r] \in {"revokeRt", "done"} /\ call[r].at # None
              => call[r].at \in blocked
         /\ pc[r] = "done" /\ call[r].jti # None => rt[call[r].fam] = None

\* revokeAllSessions voids token t of its user: past INCR the access token is
\* outdated, from SCAN on the family is dead or found, and dead at the end.
VoidProgress(r, t) ==
  /\ t \in Held /\ call[t].user = call[r].user
  /\ r \notin degraded =>
       /\ pc[r] \in {"scan", "scanning", "delFound", "done"}
            => epoch[call[r].user] > seen[t]
       /\ pc[r] \in {"scanning", "delFound"}
            => rt[FamilyOf(t)] = None \/ FamilyOf(t) \in found[r]
       /\ pc[r] = "done" => rt[FamilyOf(t)] = None

RevokeAllProgress(r) ==
  call[r].op = "revokeAll" => \A t \in call[r].before : VoidProgress(r, t)

\* A request brings a token that was handed out; if the token was revoked then
\* it still is, and past the blocklist it is its epoch that is outdated.
GuardProgress(r) ==
  call[r].op = "api" =>
    /\ call[r].at \in Held /\ call[r].user = call[call[r].at].user
    /\ call[r].stale =>
         /\ Revoked(call[r].at)
         /\ r \notin degraded /\ pc[r] = "checkEpoch"
              => epoch[call[r].user] > seen[call[r].at]
         /\ r \notin degraded => pc[r] # "accepted"

RevocationInv ==
  /\ \A r \in Requests :
       StepFits(r) /\ LogoutProgress(r) /\ RevokeAllProgress(r) /\ GuardProgress(r)
  /\ FamilyHasOneUser
  /\ SeenIsPast

-----------------------------------------------------------------------------
(* What the steps of the others leave alone *)

\* What no step takes back.
Kept ==
  /\ \A r \in Requests : pc[r] # "idle" => call'[r] = call[r]
  /\ \A t \in Held : t \in Held' /\ seen'[t] = seen[t]
  /\ \A u \in Users : epoch'[u] >= epoch[u]
  /\ \A f \in minted : f \in minted' /\ (rt[f] = None => rt'[f] = None)
  /\ blocked \subseteq blocked'
  /\ degraded \subseteq degraded'

\* A dead family that was stored is never reopened.
LEMMA DeadStaysDead ==
  StoreInv /\ [Next]_vars =>
    \A f \in minted : f \in minted' /\ (rt[f] = None => rt'[f] = None)
<1> SUFFICES ASSUME StoreInv, View, NEW f \in minted
             PROVE  f \in minted' /\ (rt[f] = None => rt'[f] = None)
  BY StepView DEF StoreInv
<1> USE NoneAssumption DEF StoreInv, TypeOK, StoreJti, DeleteFamilies,
        FamilyUnchanged
<1>1. ASSUME NEW r \in Requests, NEW c \in Call, ViewArrive(r, c)
      PROVE  f \in minted' /\ (rt[f] = None => rt'[f] = None)
  BY <1>1 DEF ViewArrive
<1>2. CASE ViewIdle
  BY <1>2 DEF ViewIdle
<1>3. ASSUME NEW r \in Requests, ViewIssue(r)
      PROVE  f \in minted' /\ (rt[f] = None => rt'[f] = None)
  BY <1>3 DEF ViewIssue, MintedByStep
<1>4. ASSUME NEW r \in Requests, ViewSwap(r)
      PROVE  f \in minted' /\ (rt[f] = None => rt'[f] = None)
  BY <1>4 DEF ViewSwap, OpOfStep, PresentedIsMinted
<1>5. ASSUME NEW r \in Requests,
             ViewLose(r) \/ ViewProbe(r) \/ ViewRefuse(r) \/ ViewServe(r)
               \/ ViewQuiet(r)
      PROVE  f \in minted' /\ (rt[f] = None => rt'[f] = None)
  BY <1>5 DEF ViewLose, ViewProbe, ViewRefuse, ViewServe, ViewQuiet
<1> QED
  BY <1>1, <1>2, <1>3, <1>4, <1>5 DEF View

\* Nobody changes the call or the step of another request, or what it found.
LEMMA OwnStep ==
  ASSUME TypeOK, [Next]_vars, NEW r \in Requests,
         pc'[r] # pc[r] \/ call'[r] # call[r] \/ found'[r] # found[r]
  PROVE  \/ Arrive(r) \/ Login(r) \/ Refresh(r) \/ Logout(r) \/ RevokeAll(r)
         \/ Guard(r) \/ Abort(r)
<1> USE DEF TypeOK, Goto
<1>1. ASSUME NEW q \in Requests, Arrive(q) PROVE q = r
  BY <1>1 DEF Arrive, StartLogin, StartRevokeAll, StartRefresh, StartApi,
              StartLogout, Start
<1>2. ASSUME NEW q \in Requests, Login(q) PROVE q = r
  BY <1>2 DEF Login, Issue, ReadEpoch
<1>3. ASSUME NEW q \in Requests, Refresh(q) PROVE q = r
  BY <1>3 DEF Refresh, CompareAndSet, Probe, Kill, Identity, RevokeGone
<1>4. ASSUME NEW q \in Requests, Logout(q) PROVE q = r
  BY <1>4 DEF Logout, BlockAccess, RevokeRt
<1>5. ASSUME NEW q \in Requests, RevokeAll(q) PROVE q = r
  BY <1>5 DEF RevokeAll, IncrEpoch, ScanStart, ScanEnd, DelFound
<1>6. ASSUME NEW q \in Requests, Guard(q) PROVE q = r
  BY <1>6 DEF Guard, CheckBlocked, CheckEpoch
<1>7. ASSUME NEW q \in Requests, Abort(q) PROVE q = r
  BY <1>7 DEF Abort
<1>8. ~(\E f \in Requests : ExpireFamily(f))
      /\ ~(\E u \in Users : DeleteUser(u)) /\ ~UNCHANGED vars
  BY DEF ExpireFamily, DeleteUser, vars
<1> QED
  BY <1>1, <1>2, <1>3, <1>4, <1>5, <1>6, <1>7, <1>8 DEF Next

\* A call is fixed when its request arrives.
LEMMA CallIsFixed ==
  ASSUME TypeOK, [Next]_vars, NEW r \in Requests, ~Arrive(r)
  PROVE  call'[r] = call[r]
<1>1. Login(r) \/ Refresh(r) \/ Logout(r) \/ RevokeAll(r) \/ Guard(r) \/ Abort(r)
        => call' = call
  BY DEF Login, Issue, ReadEpoch, Refresh, CompareAndSet, Probe, Kill, Identity,
         RevokeGone, Logout, BlockAccess, RevokeRt, RevokeAll, IncrEpoch,
         ScanStart, ScanEnd, DelFound, Guard, CheckBlocked, CheckEpoch, Abort
<1> QED
  BY <1>1, OwnStep

\* No step reopens a family, forgets a revocation or changes a token.
LEMMA NothingTakenBack == StoreInv /\ [Next]_vars => Kept
<1> SUFFICES ASSUME StoreInv, [Next]_vars PROVE Kept
  OBVIOUS
<1> USE DEF NoFault, Fault, Thrown, Swallowed, Goto
<1> DEFINE Rest == /\ \A r \in Requests : pc[r] # "idle" => call'[r] = call[r]
                   /\ \A t \in Held : t \in Held' /\ seen'[t] = seen[t]
                   /\ \A u \in Users : epoch'[u] >= epoch[u]
                   /\ blocked \subseteq blocked'
                   /\ degraded \subseteq degraded'
<1>1. TypeOK
  BY DEF StoreInv
<1> USE DEF Held
<1>2. ASSUME NEW r \in Requests, Arrive(r) PROVE Rest
  <2>1. ASSUME NEW step, NEW c, Start(r, step, c) PROVE Rest
    BY <1>1, <2>1 DEF Start, TypeOK
  <2> HIDE DEF Rest
  <2> QED
    BY <1>2, <2>1 DEF Arrive, StartLogin, StartRevokeAll, StartRefresh,
                      StartApi, StartLogout
<1>3. ASSUME NEW r \in Requests, Login(r) PROVE Rest
  BY <1>1, <1>3 DEF Login, Issue, ReadEpoch, TypeOK
<1>4. ASSUME NEW r \in Requests, Refresh(r) PROVE Rest
  BY <1>1, <1>4 DEF Refresh, CompareAndSet, Probe, Kill, Identity, RevokeGone,
                    TypeOK
<1>5. ASSUME NEW r \in Requests, Logout(r) PROVE Rest
  BY <1>1, <1>5 DEF Logout, BlockAccess, RevokeRt, TypeOK
<1>6. ASSUME NEW r \in Requests, RevokeAll(r) PROVE Rest
  BY <1>1, <1>6 DEF RevokeAll, IncrEpoch, ScanStart, ScanEnd, DelFound, TypeOK
<1>7. ASSUME NEW r \in Requests, Guard(r) PROVE Rest
  BY <1>1, <1>7 DEF Guard, CheckBlocked, CheckEpoch, TypeOK
<1>8. ASSUME NEW r \in Requests, Abort(r) PROVE Rest
  BY <1>1, <1>8 DEF Abort, TypeOK, Steps
<1>9. ASSUME NEW f \in Requests, ExpireFamily(f) PROVE Rest
  BY <1>1, <1>9 DEF ExpireFamily, TypeOK
<1>10. ASSUME NEW u \in Users, DeleteUser(u) PROVE Rest
  BY <1>1, <1>10 DEF DeleteUser, TypeOK
<1>11. ASSUME UNCHANGED vars PROVE Rest
  BY <1>1, <1>11 DEF vars, TypeOK
<1>12. Rest
  <2> HIDE DEF Rest
  <2> QED
    BY <1>2, <1>3, <1>4, <1>5, <1>6, <1>7, <1>8, <1>9, <1>10, <1>11 DEF Next
<1> QED
  BY <1>12, DeadStaysDead DEF Kept

\* A token that was handed out keeps its call, and its family was stored.
LEMMA HeldToken ==
  ASSUME StoreInv, NEW t \in Held
  PROVE  /\ t \in Requests /\ pc[t] # "idle" /\ call[t].user \in Users
         /\ FamilyOf(t) \in minted /\ call[t].op \in {"login", "refresh"}
  BY DEF StoreInv, Held, UserKnown, OpOfStep, MintedByStep, PresentedIsMinted,
         FamilyOf

\* A revoked token stays revoked.
LEMMA RevokedStays ==
  ASSUME StoreInv, StoreInv', Kept, NEW t \in Held
  PROVE  /\ call'[t] = call[t] /\ FamilyOf(t)' = FamilyOf(t)
         /\ \A n \in Nat : epoch[call[t].user] > n => epoch'[call[t].user] > n
         /\ Revoked(t) => Revoked(t)'
<1>1. t \in Requests /\ pc[t] # "idle" /\ call[t].user \in Users
  BY HeldToken
<1>2. call'[t] = call[t] /\ seen'[t] = seen[t] /\ seen[t] \in Nat
  BY <1>1 DEF Kept, StoreInv, TypeOK
<1>3. epoch[call[t].user] \in Nat /\ epoch'[call[t].user] \in Nat
      /\ epoch'[call[t].user] >= epoch[call[t].user]
  BY <1>1 DEF Kept, StoreInv, TypeOK
<1> QED
  BY <1>1, <1>2, <1>3 DEF FamilyOf, Revoked, Kept

\* What a request asks for when it arrives.
LEMMA Arrival ==
  ASSUME TypeOK, NEW r \in Requests, Arrive(r)
  PROVE  /\ pc[r] = "idle"
         /\ UNCHANGED <<rt, epoch, blocked, found, seen, gone, minted, degraded,
                        faults>>
         /\ \/ call'[r].op = "login" /\ pc'[r] = "issue"
            \/ /\ call'[r].op = "refresh" /\ pc'[r] = "cas"
               /\ call'[r].jti \in Held /\ call'[r].fam = FamilyOf(call'[r].jti)
               /\ call'[r].user = call[call'[r].jti].user
            \/ /\ call'[r].op = "logout" /\ pc'[r] = "block"
               /\ call'[r].jti # None =>
                    call'[r].jti \in Held /\ call'[r].fam = FamilyOf(call'[r].jti)
            \/ /\ call'[r].op = "revokeAll" /\ pc'[r] = "incr"
               /\ call'[r].before = {t \in Held : call[t].user = call'[r].user}
            \/ /\ call'[r].op = "api" /\ pc'[r] = "checkBlocked"
               /\ call'[r].at \in Held /\ call'[r].user = call[call'[r].at].user
               /\ call'[r].stale => Revoked(call'[r].at)
<1> DEFINE Asks(c, step) ==
             /\ pc[r] = "idle" /\ pc'[r] = step /\ call'[r] = c
             /\ UNCHANGED <<rt, epoch, blocked, found, seen, gone, minted,
                            degraded, faults>>
<1>1. ASSUME NEW c, NEW step, Start(r, step, c) PROVE Asks(c, step)
  BY <1>1 DEF Start, Goto, TypeOK
<1>2. ASSUME NEW u \in Users, StartLogin(r, u)
      PROVE  Asks([NoCall EXCEPT !.op = "login", !.user = u], "issue")
  BY <1>1, <1>2 DEF StartLogin
<1>3. ASSUME NEW t \in Held, StartRefresh(r, t)
      PROVE  Asks([NoCall EXCEPT !.op = "refresh", !.user = call[t].user,
                                 !.fam = FamilyOf(t), !.jti = t], "cas")
  BY <1>1, <1>3 DEF StartRefresh
<1>4. ASSUME NEW a \in Held \cup {None}, NEW t \in Held \cup {None},
             StartLogout(r, a, t)
      PROVE  Asks([NoCall EXCEPT !.op = "logout", !.at = a, !.jti = t,
                     !.fam = IF t = None THEN None ELSE FamilyOf(t)], "block")
  BY <1>1, <1>4 DEF StartLogout
<1>5. ASSUME NEW u \in Users, StartRevokeAll(r, u)
      PROVE  Asks([NoCall EXCEPT !.op = "revokeAll", !.user = u,
                     !.before = {t \in Held : call[t].user = u}], "incr")
  BY <1>1, <1>5 DEF StartRevokeAll
<1>6. ASSUME NEW t \in Held, StartApi(r, t)
      PROVE  Asks([NoCall EXCEPT !.op = "api", !.user = call[t].user, !.at = t,
                                 !.stale = Revoked(t)], "checkBlocked")
  BY <1>1, <1>6 DEF StartApi
<1>7. /\ \A u \in Users : StartLogin(r, u) =>
           call'[r].op = "login" /\ Asks(call'[r], "issue")
      /\ \A t \in Held : StartRefresh(r, t) =>
           /\ call'[r].op = "refresh" /\ Asks(call'[r], "cas")
           /\ call'[r].jti = t /\ call'[r].fam = FamilyOf(t)
           /\ call'[r].user = call[t].user
      /\ \A u \in Users : StartRevokeAll(r, u) =>
           /\ call'[r].op = "revokeAll" /\ Asks(call'[r], "incr")
           /\ call'[r].user = u
           /\ call'[r].before = {t \in Held : call[t].user = u}
      /\ \A t \in Held : StartApi(r, t) =>
           /\ call'[r].op = "api" /\ Asks(call'[r], "checkBlocked")
           /\ call'[r].at = t /\ call'[r].user = call[t].user
           /\ call'[r].stale = Revoked(t)
  <2>1. ASSUME NEW u \in Users, StartLogin(r, u)
        PROVE  call'[r].op = "login" /\ Asks(call'[r], "issue")
    BY <1>2, <2>1 DEF NoCall
  <2>2. ASSUME NEW t \in Held, StartRefresh(r, t)
        PROVE  /\ call'[r].op = "refresh" /\ Asks(call'[r], "cas")
               /\ call'[r].jti = t /\ call'[r].fam = FamilyOf(t)
               /\ call'[r].user = call[t].user
    BY <1>3, <2>2 DEF NoCall
  <2>3. ASSUME NEW u \in Users, StartRevokeAll(r, u)
        PROVE  /\ call'[r].op = "revokeAll" /\ Asks(call'[r], "incr")
               /\ call'[r].user = u
               /\ call'[r].before = {t \in Held : call[t].user = u}
    BY <1>5, <2>3 DEF NoCall
  <2>4. ASSUME NEW t \in Held, StartApi(r, t)
        PROVE  /\ call'[r].op = "api" /\ Asks(call'[r], "checkBlocked")
               /\ call'[r].at = t /\ call'[r].user = call[t].user
               /\ call'[r].stale = Revoked(t)
    BY <1>6, <2>4 DEF NoCall
  <2> HIDE DEF Asks
  <2> QED
    BY <2>1, <2>2, <2>3, <2>4
<1>8. \A a, t \in Held \cup {None} : StartLogout(r, a, t) =>
           /\ call'[r].op = "logout" /\ Asks(call'[r], "block")
           /\ call'[r].jti = t
           /\ call'[r].fam = IF t = None THEN None ELSE FamilyOf(t)
  <2> SUFFICES ASSUME NEW a \in Held \cup {None}, NEW t \in Held \cup {None},
                      StartLogout(r, a, t)
               PROVE  /\ call'[r].op = "logout" /\ Asks(call'[r], "block")
                      /\ call'[r].jti = t
                      /\ call'[r].fam = IF t = None THEN None ELSE FamilyOf(t)
    OBVIOUS
  <2> DEFINE f == IF t = None THEN None ELSE FamilyOf(t)
  <2>1. Asks([NoCall EXCEPT !.op = "logout", !.at = a, !.jti = t, !.fam = f],
             "block")
    BY <1>4
  <2> HIDE DEF f
  <2>2. Asks(call'[r], "block") /\ call'[r].op = "logout" /\ call'[r].jti = t
        /\ call'[r].fam = f
    BY <2>1 DEF NoCall
  <2> QED
    BY <2>2 DEF f
<1>9. \/ \E u \in Users : StartLogin(r, u)
      \/ \E u \in Users : StartRevokeAll(r, u)
      \/ \E t \in Held : StartRefresh(r, t)
      \/ \E t \in Held : StartApi(r, t)
      \/ \E a, t \in Held \cup {None} : StartLogout(r, a, t)
  BY DEF Arrive
<1> QED
  BY <1>7, <1>8, <1>9

-----------------------------------------------------------------------------
(* The invariant of the revocations *)

\* No request runs the steps of another operation.
LEMMA StepFitsStep ==
  ASSUME StoreInv, [Next]_vars, NEW r \in Requests, StepFits(r)
  PROVE  StepFits(r)'
<1> USE DEF StepFits, Goto
<1>1. TypeOK /\ OpOfStep
  BY DEF StoreInv
<1>2. CASE pc'[r] = pc[r] /\ call'[r] = call[r]
  BY <1>2
<1>3. CASE Arrive(r)
  BY <1>1, <1>3, Arrival
<1>4. CASE Login(r)
  BY <1>1, <1>4 DEF Login, Issue, ReadEpoch, OpOfStep, TypeOK
<1>5. CASE Refresh(r)
  BY <1>1, <1>5 DEF Refresh, CompareAndSet, Probe, Kill, Identity, RevokeGone,
                    OpOfStep, TypeOK
<1>6. CASE Logout(r)
  BY <1>1, <1>6 DEF Logout, BlockAccess, RevokeRt, TypeOK
<1>7. CASE RevokeAll(r)
  BY <1>1, <1>7 DEF RevokeAll, IncrEpoch, ScanStart, ScanEnd, DelFound, TypeOK
<1>8. CASE Guard(r)
  BY <1>1, <1>8 DEF Guard, CheckBlocked, CheckEpoch, TypeOK
<1>9. CASE Abort(r)
  BY <1>1, <1>9 DEF Abort, TypeOK
<1> QED
  BY <1>1, <1>2, <1>3, <1>4, <1>5, <1>6, <1>7, <1>8, <1>9, OwnStep

\* A refresh inherits the user of the token it presents, and of its family.
LEMMA FamilyUserStep ==
  StoreInv /\ FamilyHasOneUser /\ [Next]_vars => FamilyHasOneUser'
<1> SUFFICES ASSUME StoreInv, FamilyHasOneUser, [Next]_vars, Kept,
                    NEW r \in Requests, call'[r].op = "refresh"
             PROVE  call'[call'[r].fam].user = call'[r].user
  BY NothingTakenBack DEF FamilyHasOneUser
<1>1. ASSUME NEW t \in Held
      PROVE  /\ FamilyOf(t) \in Requests /\ call'[FamilyOf(t)] = call[FamilyOf(t)]
             /\ call[FamilyOf(t)].user = call[t].user
  <2>1. FamilyOf(t) \in minted /\ t \in Requests /\ call[t].op \in {"login", "refresh"}
    BY HeldToken
  <2>2. FamilyOf(t) \in Requests /\ pc[FamilyOf(t)] # "idle"
    BY <2>1 DEF StoreInv, TypeOK, MintedByStep
  <2> QED
    BY <2>1, <2>2 DEF Kept, FamilyHasOneUser, FamilyOf
<1>2. CASE call'[r] = call[r]
  <2>1. call[r].fam \in minted
    BY <1>2 DEF StoreInv, PresentedIsMinted
  <2>2. call[r].fam \in Requests /\ pc[call[r].fam] # "idle"
    BY <2>1 DEF StoreInv, TypeOK, MintedByStep
  <2> QED
    BY <1>2, <2>2 DEF Kept, FamilyHasOneUser
<1>3. CASE Arrive(r)
  <2>1. call'[r].jti \in Held /\ call'[r].fam = FamilyOf(call'[r].jti)
        /\ call'[r].user = call[call'[r].jti].user
    BY <1>3, Arrival DEF StoreInv
  <2> QED
    BY <1>1, <2>1
<1> QED
  BY <1>2, <1>3, CallIsFixed DEF StoreInv

\* The epoch of a token is read from its user's, which only grows, or is 0.
LEMMA SeenStep == StoreInv /\ SeenIsPast /\ [Next]_vars => SeenIsPast'
<1> SUFFICES ASSUME StoreInv, StoreInv', SeenIsPast, [Next]_vars, Kept,
                    NEW t \in Held'
             PROVE  seen'[t] <= epoch'[call'[t].user]
  BY NothingTakenBack, StoreStep DEF SeenIsPast
<1>1. TypeOK /\ TypeOK' /\ t \in Requests /\ pc'[t] = "answered"
  BY DEF StoreInv, Held
<1>2. CASE t \in Held
  <2>1. call'[t] = call[t] /\ seen'[t] = seen[t] /\ call[t].user \in Users
    BY <1>2, HeldToken DEF Kept
  <2>2. epoch'[call[t].user] >= epoch[call[t].user] /\ seen[t] <= epoch[call[t].user]
    BY <1>2, <2>1 DEF Kept, SeenIsPast
  <2>3. epoch'[call[t].user] \in Nat /\ epoch[call[t].user] \in Nat /\ seen[t] \in Nat
    BY <1>1, <2>1 DEF TypeOK
  <2> QED
    BY <2>1, <2>2, <2>3
<1>3. CASE t \notin Held
  <2>1. pc'[t] # pc[t]
    BY <1>1, <1>3 DEF Held
  <2>2. ReadEpoch(t)
    BY <1>1, <2>1, OwnStep, Arrival
       DEF Login, Issue, Refresh, CompareAndSet, Probe, Kill, Identity,
           RevokeGone, Logout, BlockAccess, RevokeRt, RevokeAll, IncrEpoch,
           ScanStart, ScanEnd, DelFound, Guard, CheckBlocked, CheckEpoch, Abort,
           Goto, TypeOK
  <2>3. call[t].user \in Users
    BY <1>1, <2>2 DEF StoreInv, UserKnown, ReadEpoch
  <2> QED
    BY <1>1, <2>2, <2>3 DEF ReadEpoch, TypeOK
<1> QED
  BY <1>2, <1>3

\* What a logout has revoked stays revoked, whatever refresh races it.
LEMMA LogoutStep ==
  ASSUME StoreInv, [Next]_vars, NEW r \in Requests, StepFits(r), LogoutProgress(r)
  PROVE  LogoutProgress(r)'
<1> USE DEF LogoutProgress
<1>1. TypeOK /\ Kept
  BY NothingTakenBack DEF StoreInv
<1>2. CASE Arrive(r)
  BY <1>1, <1>2, Arrival, HeldToken
<1>3. CASE ~Arrive(r) /\ call[r].op # "logout"
  BY <1>1, <1>3, CallIsFixed
<1>4. CASE ~Arrive(r) /\ call[r].op = "logout"
  <2>1. call'[r] = call[r] /\ (call[r].jti # None => call[r].fam \in minted')
    BY <1>1, <1>4, CallIsFixed DEF Kept
  <2>2. CASE pc'[r] = pc[r]
    BY <1>1, <1>4, <2>1, <2>2 DEF Kept
  <2>3. CASE BlockAccess(r)
    BY <1>1, <1>4, <2>1, <2>3 DEF BlockAccess, Goto, NoFault, Swallowed, TypeOK
  <2>4. CASE RevokeRt(r)
    BY <1>1, <1>4, <2>1, <2>4 DEF RevokeRt, DeleteFamilies, Goto, NoFault,
       Swallowed, TypeOK
  <2>5. CASE Abort(r)
    BY <1>1, <2>1, <2>5 DEF Abort, Goto, TypeOK
  <2> QED
    BY <1>1, <1>4, <2>2, <2>3, <2>4, <2>5, OwnStep
       DEF StepFits, Login, Issue, ReadEpoch, Refresh, CompareAndSet, Probe, Kill,
           Identity, RevokeGone, Logout, RevokeAll, IncrEpoch, ScanStart, ScanEnd,
           DelFound, Guard, CheckBlocked, CheckEpoch
<1> QED
  BY <1>2, <1>3, <1>4

\* Once INCR is done the tokens handed out before are outdated, and a family
\* that SCAN does not return is dead, because its key was not there to be found.
LEMMA VoidStep ==
  ASSUME StoreInv, StoreInv', [Next]_vars, NEW r \in Requests, StepFits(r),
         RevokeAllProgress(r), SeenIsPast, FamilyHasOneUser
  PROVE  RevokeAllProgress(r)'
<1>1. TypeOK /\ Kept
  BY NothingTakenBack DEF StoreInv
<1>2. CASE Arrive(r)
  <2> SUFFICES ASSUME call'[r].op = "revokeAll", NEW t \in call'[r].before
               PROVE  VoidProgress(r, t)'
    BY DEF RevokeAllProgress
  <2>1. t \in Held /\ call[t].user = call'[r].user /\ pc'[r] = "incr"
    BY <1>1, <1>2, Arrival
  <2>2. t \in Held' /\ call'[t] = call[t]
    BY <1>1, <2>1, HeldToken DEF Kept
  <2> QED
    BY <2>1, <2>2 DEF VoidProgress
<1>3. CASE ~Arrive(r) /\ call[r].op # "revokeAll"
  BY <1>1, <1>3, CallIsFixed DEF RevokeAllProgress
<1>4. CASE ~Arrive(r) /\ call[r].op = "revokeAll"
  <2>1. call'[r] = call[r]
    BY <1>1, <1>4, CallIsFixed
  <2> SUFFICES ASSUME NEW t \in call[r].before PROVE VoidProgress(r, t)'
    BY <2>1 DEF RevokeAllProgress
  <2> DEFINE u == call[r].user
             f == FamilyOf(t)
  <2>2. VoidProgress(r, t) /\ t \in Held /\ call[t].user = u
    BY <1>4 DEF RevokeAllProgress, VoidProgress
  <2>3. /\ t \in Held' /\ call'[t] = call[t] /\ seen'[t] = seen[t]
        /\ u \in Users /\ f \in minted /\ FamilyOf(t)' = f
    BY <1>1, <2>2, HeldToken DEF Kept, FamilyOf
  <2>4. /\ rt[f] = None => rt'[f] = None
        /\ epoch[u] > seen[t] => epoch'[u] > seen[t]
        /\ r \notin degraded' => r \notin degraded
        /\ seen[t] <= epoch[u] /\ seen[t] \in Nat /\ epoch[u] \in Nat
    <3>1. t \in Requests /\ epoch[u] \in Nat /\ epoch'[u] \in Nat /\ seen[t] \in Nat
      BY <2>2, <2>3 DEF StoreInv, TypeOK, Held
    <3>2. epoch'[u] >= epoch[u] /\ seen[t] <= epoch[u]
      BY <1>1, <2>2, <2>3 DEF Kept, SeenIsPast
    <3> QED
      BY <1>1, <2>3, <3>1, <3>2 DEF Kept
  <2>5. f \in Requests /\ (rt[f] # None => f \in FamiliesOf(u))
    BY <2>2, <2>3, HeldToken DEF StoreInv, TypeOK, FamiliesOf, FamilyOf,
       FamilyHasOneUser
  <2> HIDE DEF u, f
  <2>6. SUFFICES
          r \notin degraded' =>
            /\ pc'[r] \in {"scan", "scanning", "delFound", "done"}
                 => epoch'[u] > seen[t]
            /\ pc'[r] \in {"scanning", "delFound"}
                 => rt'[f] = None \/ f \in found'[r]
            /\ pc'[r] = "done" => rt'[f] = None
    BY <2>1, <2>2, <2>3 DEF VoidProgress, u
  <2>7. r \notin degraded =>
            /\ pc[r] \in {"scan", "scanning", "delFound", "done"}
                 => epoch[u] > seen[t]
            /\ pc[r] \in {"scanning", "delFound"}
                 => rt[f] = None \/ f \in found[r]
            /\ pc[r] = "done" => rt[f] = None
    BY <2>2 DEF VoidProgress, u, f
  <2> USE DEF Goto, NoFault, Swallowed
  <2>8. CASE pc'[r] = pc[r] /\ found'[r] = found[r]
    BY <2>4, <2>7, <2>8
  <2>9. CASE IncrEpoch(r)
    <3>1. pc'[r] = "scan" /\ (r \notin degraded' => epoch'[u] = epoch[u] + 1)
      BY <1>1, <2>3, <2>9 DEF IncrEpoch, TypeOK, u
    <3> QED
      BY <2>4, <3>1
  <2>10. CASE ScanStart(r)
    <3>1. /\ pc[r] = "scan" /\ rt' = rt
          /\ r \notin degraded' => pc'[r] = "scanning" /\ found'[r] = FamiliesOf(u)
      BY <1>1, <2>10 DEF ScanStart, TypeOK, u
    <3> QED
      BY <2>4, <2>5, <2>7, <3>1
  <2>11. CASE ScanEnd(r)
    <3>1. /\ pc[r] = "scanning" /\ rt' = rt
          /\ r \notin degraded' =>
               /\ found[r] \cap FamiliesOf(u) \subseteq found'[r]
               /\ pc'[r] = IF found'[r] = {} THEN "done" ELSE "delFound"
      BY <1>1, <2>11 DEF ScanEnd, TypeOK, u
    <3> QED
      BY <2>4, <2>5, <2>7, <3>1
  <2>12. CASE DelFound(r)
    <3>1. /\ pc[r] = "delFound" /\ pc'[r] = "done"
          /\ r \notin degraded' => DeleteFamilies(found[r])
      BY <1>1, <2>12 DEF DelFound, TypeOK
    <3> QED
      BY <2>4, <2>5, <2>7, <3>1 DEF DeleteFamilies
  <2>13. CASE Abort(r)
    <3>1. pc'[r] = "aborted"
      BY <1>1, <2>13 DEF Abort, TypeOK
    <3> QED
      BY <3>1
  <2> QED
    BY <1>1, <1>4, <2>8, <2>9, <2>10, <2>11, <2>12, <2>13, OwnStep
       DEF StepFits, Login, Issue, ReadEpoch, Refresh, CompareAndSet, Probe, Kill,
           Identity, RevokeGone, Logout, BlockAccess, RevokeRt, RevokeAll, Guard,
           CheckBlocked, CheckEpoch
<1> QED
  BY <1>2, <1>3, <1>4

\* Between the two reads of AuthGuard a revoked token is revoked by its epoch.
LEMMA GuardStep ==
  ASSUME StoreInv, StoreInv', [Next]_vars, NEW r \in Requests, StepFits(r),
         GuardProgress(r)
  PROVE  GuardProgress(r)'
<1>1. TypeOK /\ Kept
  BY NothingTakenBack DEF StoreInv
<1>2. CASE Arrive(r)
  <2> SUFFICES ASSUME call'[r].op = "api" PROVE GuardProgress(r)'
    BY DEF GuardProgress
  <2> DEFINE a == call'[r].at
  <2>1. /\ pc'[r] = "checkBlocked" /\ a \in Held /\ call'[r].user = call[a].user
        /\ call'[r].stale => Revoked(a)
        /\ UNCHANGED <<epoch, blocked, seen>>
    BY <1>1, <1>2, Arrival
  <2>2. a \in Held' /\ call'[a] = call[a]
    BY <1>1, <2>1, HeldToken DEF Kept
  <2>3. Revoked(a) => a \in blocked' \/ epoch'[call'[a].user] > seen'[a]
    BY <2>1, <2>2 DEF Revoked
  <2> QED
    BY <2>1, <2>2, <2>3 DEF GuardProgress, Revoked
<1>3. CASE ~Arrive(r) /\ call[r].op # "api"
  BY <1>1, <1>3, CallIsFixed DEF GuardProgress
<1>4. CASE ~Arrive(r) /\ call[r].op = "api"
  <2> DEFINE a == call[r].at
             n == seen[a]
  <2>1. call'[r] = call[r]
    BY <1>1, <1>4, CallIsFixed
  <2>2. a \in Held /\ call[r].user = call[a].user
    BY <1>4 DEF GuardProgress
  <2>3. /\ a \in Held' /\ call'[a] = call[a] /\ seen'[a] = n
        /\ epoch[call[r].user] > n => epoch'[call[r].user] > n
        /\ Revoked(a) => Revoked(a)'
    <3>1. a \in Requests /\ pc[a] # "idle" /\ n \in Nat
      BY <2>2, HeldToken DEF StoreInv, TypeOK
    <3> QED
      BY <1>1, <2>1, <2>2, <3>1, RevokedStays DEF Kept
  <2>4. SUFFICES ASSUME call[r].stale, r \notin degraded'
                 PROVE  /\ pc'[r] = "checkEpoch" => epoch'[call[r].user] > n
                        /\ pc'[r] # "accepted"
    <3>1. call[r].stale => Revoked(a)
      BY <1>4 DEF GuardProgress
    <3> QED
      BY <2>1, <2>2, <2>3, <2>4, <3>1 DEF GuardProgress
  <2>5. /\ r \notin degraded /\ Revoked(a) /\ pc[r] # "accepted"
        /\ pc[r] = "checkEpoch" => epoch[call[r].user] > n
    BY <1>1, <1>4, <2>4 DEF GuardProgress, Kept
  <2> USE DEF Goto, NoFault, Thrown, Swallowed
  <2>6. CASE pc'[r] = pc[r]
    BY <2>3, <2>5, <2>6
  <2>7. CASE CheckBlocked(r)
    <3>1. pc'[r] = "checkEpoch" => a \notin blocked /\ epoch' = epoch
      BY <1>1, <2>4, <2>7 DEF CheckBlocked, TypeOK
    <3>2. pc'[r] # "accepted"
      BY <1>1, <2>7 DEF CheckBlocked, TypeOK
    <3> QED
      BY <2>2, <2>5, <3>1, <3>2 DEF Revoked
  <2>8. CASE CheckEpoch(r)
    BY <1>1, <2>4, <2>5, <2>8 DEF CheckEpoch, Outdated, TypeOK
  <2>9. CASE Abort(r)
    BY <1>1, <2>9 DEF Abort, TypeOK
  <2> QED
    BY <1>1, <1>4, <2>6, <2>7, <2>8, <2>9, OwnStep
       DEF StepFits, Login, Issue, ReadEpoch, Refresh, CompareAndSet, Probe, Kill,
           Identity, RevokeGone, Logout, BlockAccess, RevokeRt, RevokeAll,
           IncrEpoch, ScanStart, ScanEnd, DelFound, Guard
<1> QED
  BY <1>2, <1>3, <1>4

\* What is void stays void, and nothing void is let in, in every reachable state.
THEOREM RevocationInvariant == Spec => []RevocationInv
<1>1. Init => RevocationInv
  BY DEF Init, NoCall, RevocationInv, StepFits, LogoutProgress,
     RevokeAllProgress, GuardProgress, FamilyHasOneUser, SeenIsPast, Held
<1>2. StoreInv /\ StoreInv' /\ RevocationInv /\ [Next]_vars => RevocationInv'
  BY StepFitsStep, LogoutStep, VoidStep, GuardStep, FamilyUserStep, SeenStep
     DEF RevocationInv
<1> QED
  BY <1>1, <1>2, StoreInvariant, PTL DEF Spec

\* A logout that swallowed no Redis error has revoked its refresh token's family
\* for good and blocklisted its access token, whatever refresh races it
\* (AuthService.logout).
THEOREM LogoutIsFinal == Spec => []LogoutRevokes
<1>1. RevocationInv => LogoutRevokes
  BY DEF RevocationInv, LogoutProgress, LogoutRevokes
<1> QED
  BY <1>1, RevocationInvariant, PTL

\* revokeAllSessions that swallowed no Redis error has voided every token that
\* was handed out before it began, both its family and its access token
\* (AuthService.revokeAllSessions, SessionEpochStore.revokeAll).
THEOREM RevokeAllIsFinal == Spec => []RevokeAllVoids
<1>1. RevocationInv => RevokeAllVoids
  BY DEF RevocationInv, RevokeAllProgress, VoidProgress, RevokeAllVoids
<1> QED
  BY <1>1, RevocationInvariant, PTL

\* AuthGuard lets a token that was revoked before the request arrived through
\* only when a Redis read failed under it (AuthGuard.canActivate).
THEOREM RevokedIsNeverServed == Spec => []RevokedIsRefused
<1>1. RevocationInv => RevokedIsRefused
  BY DEF RevocationInv, StepFits, GuardProgress, RevokedIsRefused
<1> QED
  BY <1>1, RevocationInvariant, PTL
-----------------------------------------------------------------------------
(* Families have an owner *)

\* The steps and the answer of a request that owns the family it stored last.
Owning == {"identity", "revoke", "readEpoch", "answered"}

\* A jti becomes current when its own request stores it.
LEMMA StoredByOwner ==
  ASSUME TypeOK, UserKnown, [Next]_vars, NEW f \in Requests,
         rt'[f] # None, rt'[f] # rt[f], faults' = faults
  PROVE  rt'[f] \in Requests /\ pc'[rt'[f]] \in Owning
<1> USE DEF TypeOK, StoreJti, DeleteFamilies, FamilyUnchanged, NoFault, Fault,
        Thrown, Swallowed, Goto, Owning
<1>1. ASSUME NEW r \in Requests, Arrive(r) PROVE FALSE
  BY <1>1, Arrival
<1>2. ASSUME NEW r \in Requests, Login(r)
      PROVE  rt'[f] \in Requests /\ pc'[rt'[f]] \in Owning
  BY <1>2 DEF Login, Issue, ReadEpoch
<1>3. ASSUME NEW r \in Requests, Refresh(r)
      PROVE  rt'[f] \in Requests /\ pc'[rt'[f]] \in Owning
  BY <1>3 DEF Refresh, CompareAndSet, Probe, Kill, Identity, RevokeGone
<1>4. ASSUME NEW r \in Requests,
             Logout(r) \/ RevokeAll(r) \/ Guard(r) \/ Abort(r)
      PROVE  FALSE
  BY <1>4 DEF Logout, BlockAccess, RevokeRt, RevokeAll, IncrEpoch, ScanStart,
              ScanEnd, DelFound, Guard, CheckBlocked, CheckEpoch, Abort
<1>5. ASSUME NEW g \in Requests, ExpireFamily(g) PROVE FALSE
  BY <1>5 DEF ExpireFamily
<1>6. ~(\E u \in Users : DeleteUser(u)) /\ ~UNCHANGED vars
  BY DEF DeleteUser, vars
<1> QED
  BY <1>1, <1>2, <1>3, <1>4, <1>5, <1>6 DEF Next

\* Without a fault the request that stored the current jti of a family goes on
\* until it answers with it or deletes the family.
LEMMA OwnerStep == StoreInv /\ NoOrphanFamily /\ [Next]_vars => NoOrphanFamily'
<1> SUFFICES ASSUME StoreInv, StoreInv', NoOrphanFamily, [Next]_vars,
                    faults' = 0, NEW f \in Requests, rt'[f] # None
             PROVE  pc'[rt'[f]] \in Owning
  BY StoreStep DEF NoOrphanFamily, Owning
<1> USE DEF Goto, Fault, Thrown, Swallowed
<1>1. TypeOK /\ UserKnown
  BY DEF StoreInv
<1>2. faults = 0
  <2>1. faults' = faults \/ faults' = faults + 1
    BY <1>1, Arrival
       DEF Next, vars, Login, Issue, ReadEpoch, Refresh, CompareAndSet, Probe,
           Kill, Identity, RevokeGone, Logout, BlockAccess, RevokeRt, RevokeAll,
           IncrEpoch, ScanStart, ScanEnd, DelFound, Guard, CheckBlocked,
           CheckEpoch, Abort, ExpireFamily, DeleteUser, NoFault
  <2> QED
    BY <1>1, <2>1 DEF TypeOK
<1>3. CASE rt'[f] # rt[f]
  BY <1>1, <1>2, <1>3, StoredByOwner
<1>4. CASE rt'[f] = rt[f]
  <2> DEFINE s == rt[f]
  <2>1. s \in Requests /\ FamilyOf(s) = f /\ pc[s] \in Owning
    BY <1>2, <1>4 DEF StoreInv, LiveTokenUnspent, TypeOK, NoOrphanFamily, Owning
  <2>2. CASE pc'[s] = pc[s]
    BY <1>4, <2>1, <2>2
  <2>3. CASE ReadEpoch(s) \/ Identity(s)
    BY <1>1, <1>2, <1>4, <2>1, <2>3 DEF ReadEpoch, Identity, TypeOK, Owning
  <2>4. CASE RevokeGone(s)
    <3>1. call[s].fam = f
      BY <2>1, <2>4 DEF StoreInv, OpOfStep, RevokeGone, FamilyOf
    <3> QED
      BY <1>1, <1>2, <2>4, <3>1 DEF RevokeGone, DeleteFamilies, TypeOK
  <2>5. ~Abort(s)
    BY <1>1, <1>2 DEF Abort, TypeOK
  <2> QED
    BY <1>1, <2>1, <2>2, <2>3, <2>4, <2>5, OwnStep, Arrival
       DEF Owning, Login, Issue, Refresh, CompareAndSet, Probe, Kill, Logout,
           BlockAccess, RevokeRt, RevokeAll, IncrEpoch, ScanStart, ScanEnd,
           DelFound, Guard, CheckBlocked, CheckEpoch
<1> QED
  BY <1>3, <1>4

\* When nothing fails, the current jti of a family is held by a client or by a
\* request that is about to answer with it or to revoke the family
\* (RefreshTokenStore.rotate, AuthService.refresh).
THEOREM FamiliesHaveOwners == Spec => []NoOrphanFamily
<1>1. Init => NoOrphanFamily
  BY DEF Init, NoOrphanFamily
<1> QED
  BY <1>1, OwnerStep, StoreInvariant, PTL DEF Spec
=============================================================================
