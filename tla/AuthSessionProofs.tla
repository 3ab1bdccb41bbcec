------------------------- MODULE AuthSessionProofs -------------------------
(***************************************************************************)
(* Proofs about AuthSession for any sets of requests and users, any number *)
(* of faults and either setting of FailClosed: type correctness, the       *)
(* inductive invariant of the refresh-token store, the invariants that     *)
(* follow from it, and that the store implements TokenFamily.              *)
(***************************************************************************)
EXTENDS AuthSession, TLAPS

\* A request that reads or writes keys of its user knows the user.
UserKnown ==
  \A r \in Requests :
    pc[r] \in {"issue", "cas", "probe", "kill", "identity", "revoke",
               "readEpoch", "answered"}
      => call[r].user \in Users

\* The operation of a request agrees with the step it is at.
OpOfStep ==
  \A r \in Requests :
    /\ pc[r] = "idle" => call[r].op = "idle"
    /\ pc[r] = "issue" => call[r].op = "login"
    /\ pc[r] \in {"cas", "probe", "kill", "identity", "revoke", "invalid",
                 "reused"}
         => call[r].op = "refresh"
    /\ pc[r] \in {"readEpoch", "answered"} => call[r].op \in {"login", "refresh"}

\* Redis has stored the jti of a request that is past that step, and not of
\* one that has not reached it or lost the compare-and-set.
MintedByStep ==
  \A r \in Requests :
    /\ pc[r] \in {"idle", "issue", "cas", "probe", "kill", "reused"}
         => r \notin minted
    /\ pc[r] \in {"identity", "revoke", "readEpoch", "answered"} => r \in minted
    /\ r \in minted => call[r].op \in {"login", "refresh"}

\* A refresh presents a token of the family it names, and both were stored.
PresentedIsMinted ==
  \A r \in Requests : call[r].op = "refresh" =>
    /\ call[r].jti \in minted
    /\ call[r].fam = FamilyOf(call[r].jti)
    /\ call[r].fam \in minted

\* The current jti of a family is one of its tokens, and nobody exchanged it.
LiveTokenUnspent ==
  \A f \in Requests : rt[f] # None =>
    /\ rt[f] \in minted
    /\ FamilyOf(rt[f]) = f
    /\ \A s \in Rotations : call[s].jti # rt[f]

\* A stored token is current, or its family is dead, or it was exchanged.
MintedAccountedFor ==
  \A t \in minted :
    \/ rt[FamilyOf(t)] \in {t, None}
    \/ \E s \in Rotations : call[s].jti = t

\* A request that lost the compare-and-set presented a token that is not
\* current any more.
ProbedIsStale ==
  \A r \in Requests : pc[r] = "probe" => rt[call[r].fam] # call[r].jti

StoreInv ==
  /\ TypeOK
  /\ UserKnown
  /\ OpOfStep
  /\ MintedByStep
  /\ PresentedIsMinted
  /\ LiveTokenUnspent
  /\ MintedAccountedFor
  /\ ProbedIsStale
  /\ SingleUse
  /\ RefusedFamilyIsDead
  /\ ReuseHasRival

-----------------------------------------------------------------------------
(* What a step of any request is to the store *)

\* Steps and answers at which a request has no business with one family.
Quiet == {"failed", "aborted", "done", "accepted", "refused", "block",
          "revokeRt", "incr", "scan", "scanning", "delFound", "checkBlocked",
          "checkEpoch"}

ViewArrive(r, c) ==
  /\ pc[r] = "idle"
  /\ call' = [call EXCEPT ![r] = c]
  /\ FamilyUnchanged
  /\ \/ c.op = "login" /\ c.user \in Users /\ Goto(r, "issue")
     \/ /\ c.op = "refresh" /\ c.jti \in Held /\ c.fam = FamilyOf(c.jti)
        /\ c.user = call[c.jti].user
        /\ Goto(r, "cas")
     \/ c.op \in {"logout", "revokeAll", "api"} /\ \E s \in Quiet : Goto(r, s)

ViewIssue(r) ==
  /\ pc[r] = "issue" /\ StoreJti(r, r)
  /\ Goto(r, "readEpoch") \/ Goto(r, "failed")

ViewSwap(r) ==
  /\ pc[r] = "cas" /\ rt[call[r].fam] = call[r].jti
  /\ StoreJti(call[r].fam, r)
  /\ Goto(r, "identity") \/ Goto(r, "failed")

ViewLose(r) ==
  /\ pc[r] = "cas" /\ rt[call[r].fam] # call[r].jti
  /\ FamilyUnchanged /\ Goto(r, "probe")

ViewProbe(r) ==
  /\ pc[r] = "probe" /\ FamilyUnchanged
  /\ \/ rt[call[r].fam] # None /\ Goto(r, "kill")
     \/ rt[call[r].fam] = None /\ Goto(r, "invalid")

ViewRefuse(r) ==
  /\ DeleteFamilies({call[r].fam})
  /\ \/ pc[r] = "kill" /\ Goto(r, "reused")
     \/ pc[r] = "revoke" /\ Goto(r, "invalid")

ViewServe(r) ==
  /\ FamilyUnchanged
  /\ \/ pc[r] = "identity" /\ (Goto(r, "readEpoch") \/ Goto(r, "revoke"))
     \/ pc[r] = "readEpoch" /\ Goto(r, "answered")

ViewQuiet(r) ==
  /\ pc[r] \in Steps /\ \E s \in Quiet : Goto(r, s)
  /\ FamilyUnchanged \/ \E F \in SUBSET Requests : DeleteFamilies(F)

ViewIdle ==
  /\ UNCHANGED pc
  /\ FamilyUnchanged \/ \E F \in SUBSET Requests : DeleteFamilies(F)

View ==
  \/ \E r \in Requests, c \in Call : ViewArrive(r, c)
  \/ /\ UNCHANGED call
     /\ \/ ViewIdle
        \/ \E r \in Requests :
             \/ ViewIssue(r) \/ ViewSwap(r) \/ ViewLose(r) \/ ViewProbe(r)
             \/ ViewRefuse(r) \/ ViewServe(r) \/ ViewQuiet(r)

-----------------------------------------------------------------------------
(* Type correctness *)

\* Every handler step writes values of the declared types.
LEMMA TypeStep == TypeOK /\ UserKnown /\ [Next]_vars => TypeOK'
<1> SUFFICES ASSUME TypeOK, UserKnown, [Next]_vars PROVE TypeOK'
  OBVIOUS
<1> USE ConfigAssumption DEF TypeOK, Goto, NoFault, Fault, Thrown, Swallowed,
        StoreJti, DeleteFamilies, FamilyUnchanged, Steps, Answers
<1>1. ASSUME NEW r \in Requests, Arrive(r) PROVE TypeOK'
  <2>1. ASSUME NEW step \in Steps, NEW c \in Call, Start(r, step, c)
        PROVE  TypeOK'
    BY <2>1 DEF Start
  <2>2. NoCall \in Call
    BY DEF NoCall, Call, Ops
  <2>3. ASSUME NEW t \in Held PROVE FamilyOf(t) \in Requests \cup {None}
    BY DEF FamilyOf, Held, Call
  <2>4. ASSUME NEW u \in Users, StartLogin(r, u) PROVE TypeOK'
    BY <2>1, <2>2, <2>4 DEF StartLogin, Call, NoCall, Ops
  <2>5. ASSUME NEW u \in Users, StartRevokeAll(r, u) PROVE TypeOK'
    BY <2>1, <2>2, <2>5 DEF StartRevokeAll, Call, NoCall, Ops, Held
  <2>6. ASSUME NEW t \in Held, StartRefresh(r, t) PROVE TypeOK'
    BY <2>1, <2>2, <2>3, <2>6 DEF StartRefresh, Call, NoCall, Ops, Held
  <2>7. ASSUME NEW t \in Held, StartApi(r, t) PROVE TypeOK'
    <3>1. Revoked(t) \in BOOLEAN
      BY DEF Revoked
    <3>2. call[t].user \in Users \cup {None} /\ t \in Requests
      BY DEF Held, Call
    <3> HIDE DEF TypeOK
    <3>3. [NoCall EXCEPT !.op = "api", !.user = call[t].user, !.at = t,
                         !.stale = Revoked(t)] \in Call
      BY <3>1, <3>2 DEF Call, NoCall, Ops
    <3> QED
      BY <2>1, <2>7, <3>3 DEF StartApi
  <2>8. ASSUME NEW a \in Held \cup {None}, NEW t \in Held \cup {None},
               StartLogout(r, a, t)
        PROVE  TypeOK'
    <3>1. a \in Requests \cup {None} /\ t \in Requests \cup {None}
      BY DEF Held
    <3>2. (IF t = None THEN None ELSE FamilyOf(t)) \in Requests \cup {None}
      BY <2>3
    <3> HIDE DEF TypeOK
    <3>3. [NoCall EXCEPT !.op = "logout", !.at = a, !.jti = t,
                         !.fam = IF t = None THEN None ELSE FamilyOf(t)] \in Call
      BY <3>1, <3>2 DEF Call, NoCall, Ops
    <3> QED
      BY <2>1, <2>8, <3>3 DEF StartLogout
  <2> QED
    BY <1>1, <2>4, <2>5, <2>6, <2>7, <2>8 DEF Arrive
<1>2. ASSUME NEW r \in Requests, Login(r) PROVE TypeOK'
  <2>1. CASE Issue(r)
    BY <2>1 DEF Issue
  <2>2. CASE ReadEpoch(r)
    <3>1. call[r].user \in Users
      BY <2>2 DEF ReadEpoch, UserKnown
    <3> QED
      BY <2>2, <3>1 DEF ReadEpoch
  <2> QED
    BY <1>2, <2>1, <2>2 DEF Login
<1>3. ASSUME NEW r \in Requests, Refresh(r) PROVE TypeOK'
  BY <1>3 DEF Refresh, CompareAndSet, Probe, Kill, Identity, RevokeGone, Call
<1>4. ASSUME NEW r \in Requests, Logout(r) PROVE TypeOK'
  BY <1>4 DEF Logout, BlockAccess, RevokeRt, Call
<1>5. ASSUME NEW r \in Requests, RevokeAll(r) PROVE TypeOK'
  BY <1>5 DEF RevokeAll, IncrEpoch, ScanStart, ScanEnd, DelFound, FamiliesOf,
     Call
<1>6. ASSUME NEW r \in Requests, Guard(r) PROVE TypeOK'
  BY <1>6 DEF Guard, CheckBlocked, CheckEpoch
<1>7. ASSUME NEW r \in Requests, Abort(r) PROVE TypeOK'
  BY <1>7 DEF Abort
<1>8. ASSUME NEW f \in Requests, ExpireFamily(f) PROVE TypeOK'
  BY <1>8 DEF ExpireFamily
<1>9. ASSUME NEW u \in Users, DeleteUser(u) PROVE TypeOK'
  BY <1>9 DEF DeleteUser
<1>10. CASE UNCHANGED vars
  BY <1>10 DEF vars
<1> QED
  BY <1>1, <1>2, <1>3, <1>4, <1>5, <1>6, <1>7, <1>8, <1>9, <1>10 DEF Next

\* Every step is one of the views.
LEMMA StepView == TypeOK /\ UserKnown /\ [Next]_vars => View
<1> SUFFICES ASSUME TypeOK, UserKnown, [Next]_vars PROVE View
  OBVIOUS
<1> USE DEF Quiet, NoFault, Thrown, Swallowed, Fault
<1>1. ASSUME NEW r \in Requests, Arrive(r) PROVE View
  <2>1. ASSUME NEW u \in Users, StartLogin(r, u) PROVE View
    <3> DEFINE c == [NoCall EXCEPT !.op = "login", !.user = u]
    <3>1. c \in Call /\ c.op = "login" /\ c.user \in Users
      BY DEF NoCall, Call, Ops
    <3>2. ViewArrive(r, c)
      BY <2>1, <3>1 DEF StartLogin, Start, ViewArrive, FamilyUnchanged
    <3> QED
      BY <3>1, <3>2 DEF View
  <2>2. ASSUME NEW t \in Held, StartRefresh(r, t) PROVE View
    <3> DEFINE c == [NoCall EXCEPT !.op = "refresh", !.user = call[t].user,
                                   !.fam = FamilyOf(t), !.jti = t]
    <3>1. t \in Requests /\ call[t] \in Call
      BY DEF Held, TypeOK
    <3>2. c \in Call /\ c.op = "refresh" /\ c.jti = t /\ c.fam = FamilyOf(t)
          /\ c.user = call[t].user
      BY <3>1 DEF NoCall, Call, Ops, FamilyOf
    <3>3. ViewArrive(r, c)
      BY <2>2, <3>2 DEF StartRefresh, Start, ViewArrive, FamilyUnchanged
    <3> QED
      BY <3>2, <3>3 DEF View
  <2>3. ASSUME NEW c \in Call, c.op \in {"logout", "revokeAll", "api"},
               NEW s \in Quiet, Start(r, s, c)
        PROVE  View
    BY <2>3 DEF View, ViewArrive, Start, FamilyUnchanged
  <2>4. ASSUME NEW t \in Held, StartApi(r, t) PROVE View
    <3> DEFINE c == [NoCall EXCEPT !.op = "api", !.user = call[t].user,
                                   !.at = t, !.stale = Revoked(t)]
    <3>1. t \in Requests /\ call[t] \in Call /\ Revoked(t) \in BOOLEAN
      BY DEF Held, TypeOK, Revoked
    <3>2. c \in Call /\ c.op = "api"
      BY <3>1 DEF NoCall, Call, Ops
    <3> HIDE DEF c
    <3>3. Start(r, "checkBlocked", c)
      BY <2>4 DEF StartApi, c
    <3> QED
      BY <2>3, <3>2, <3>3
  <2>5. ASSUME NEW u \in Users, StartRevokeAll(r, u) PROVE View
    <3> DEFINE c == [NoCall EXCEPT !.op = "revokeAll", !.user = u,
                       !.before = {t \in Held : call[t].user = u}]
    <3>1. c \in Call /\ c.op = "revokeAll"
      BY DEF NoCall, Call, Ops, Held
    <3> HIDE DEF c
    <3>2. Start(r, "incr", c)
      BY <2>5 DEF StartRevokeAll, c
    <3> QED
      BY <2>3, <3>1, <3>2
  <2>6. ASSUME NEW a \in Held \cup {None}, NEW t \in Held \cup {None},
               StartLogout(r, a, t)
        PROVE  View
    <3> DEFINE f == IF t = None THEN None ELSE FamilyOf(t)
    <3> DEFINE c == [NoCall EXCEPT !.op = "logout", !.at = a, !.jti = t,
    !.fam = f]
    <3>1. a \in Requests \cup {None} /\ t \in Requests \cup {None}
          /\ f \in Requests \cup {None}
      BY DEF Held, FamilyOf, TypeOK, Call
    <3>2. c \in Call /\ c.op = "logout"
      <4> HIDE DEF f
      <4> QED
        BY <3>1 DEF NoCall, Call, Ops
    <3>3. Start(r, "block", c)
      BY <2>6 DEF StartLogout
    <3> HIDE DEF c
    <3> QED
      BY <2>3, <3>2, <3>3
  <2> QED
    BY <1>1, <2>1, <2>2, <2>4, <2>5, <2>6 DEF Arrive
<1>2. ASSUME NEW r \in Requests, Login(r) PROVE View
  BY <1>2 DEF Login, Issue, ReadEpoch, View, ViewIssue, ViewServe, ViewQuiet,
              FamilyUnchanged, Steps
<1>3. ASSUME NEW r \in Requests, Refresh(r) PROVE View
  <2> USE DEF View, FamilyUnchanged, Steps
  <2>1. CASE CompareAndSet(r)
    BY <2>1 DEF CompareAndSet, Swappable, ViewSwap, ViewLose, ViewQuiet
  <2>2. CASE Probe(r)
    BY <2>2 DEF Probe, ViewProbe, ViewQuiet
  <2>3. CASE Kill(r) \/ RevokeGone(r)
    <3>1. DeleteFamilies({call[r].fam}) =>
            \E F \in SUBSET Requests : DeleteFamilies(F)
      <4>1. DeleteFamilies({call[r].fam}) =>
              DeleteFamilies({call[r].fam} \cap Requests)
        BY DEF DeleteFamilies
      <4> QED
        BY <4>1
    <3> QED
      BY <2>3, <3>1 DEF Kill, RevokeGone, ViewRefuse, ViewQuiet
  <2>4. CASE Identity(r)
    BY <2>4 DEF Identity, ViewServe, ViewQuiet
  <2> QED
    BY <1>3, <2>1, <2>2, <2>3, <2>4 DEF Refresh
<1>4. ASSUME NEW r \in Requests, Logout(r) PROVE View
  <2>1. DeleteFamilies({call[r].fam}) =>
          \E F \in SUBSET Requests : DeleteFamilies(F)
    <3>1. DeleteFamilies({call[r].fam}) =>
            DeleteFamilies({call[r].fam} \cap Requests)
      BY DEF DeleteFamilies
    <3> QED
      BY <3>1
  <2>2. ViewQuiet(r) /\ UNCHANGED call
    BY <1>4, <2>1 DEF Logout, BlockAccess, RevokeRt, ViewQuiet,
       FamilyUnchanged, Steps
  <2> QED
    BY <2>2 DEF View
<1>5. ASSUME NEW r \in Requests, RevokeAll(r) PROVE View
  <2>1. found[r] \in SUBSET Requests
    BY DEF TypeOK
  <2>2. ViewQuiet(r) /\ UNCHANGED call
    BY <1>5, <2>1 DEF RevokeAll, IncrEpoch, ScanStart, ScanEnd, DelFound,
       ViewQuiet,
                      FamilyUnchanged, Steps
  <2> QED
    BY <2>2 DEF View
<1>6. ASSUME NEW r \in Requests, Guard(r) PROVE View
  BY <1>6 DEF Guard, CheckBlocked, CheckEpoch, View, ViewQuiet,
     FamilyUnchanged, Steps
<1>7. ASSUME NEW r \in Requests, Abort(r) PROVE View
  BY <1>7 DEF Abort, View, ViewQuiet, FamilyUnchanged, Steps
<1>8. ASSUME NEW f \in Requests, ExpireFamily(f) PROVE View
  BY <1>8 DEF ExpireFamily, View, ViewIdle
<1>9. CASE UNCHANGED vars \/ \E u \in Users : DeleteUser(u)
  BY <1>9 DEF vars, DeleteUser, View, ViewIdle, FamilyUnchanged
<1> QED
  BY <1>1, <1>2, <1>3, <1>4, <1>5, <1>6, <1>7, <1>8, <1>9 DEF Next

-----------------------------------------------------------------------------
(* The inductive invariant *)

\* A refresh inherits the user of the token it presents.
LEMMA UserStep ==
  TypeOK /\ UserKnown /\ View => UserKnown'
<1> SUFFICES ASSUME TypeOK, UserKnown, View PROVE UserKnown'
  OBVIOUS
<1> USE NoneAssumption DEF TypeOK, UserKnown, Goto, StoreJti, DeleteFamilies,
        FamilyUnchanged
<1>1. ASSUME NEW r \in Requests, NEW c \in Call, ViewArrive(r, c)
      PROVE UserKnown'
  BY <1>1 DEF ViewArrive, Quiet, Call, Held
<1>2. CASE UNCHANGED call /\ ViewIdle
  BY <1>2 DEF ViewIdle
<1>3. ASSUME NEW r \in Requests, UNCHANGED call, ViewIssue(r) PROVE UserKnown'
  BY <1>3 DEF ViewIssue
<1>4. ASSUME NEW r \in Requests, UNCHANGED call, ViewSwap(r) PROVE UserKnown'
  BY <1>4 DEF ViewSwap
<1>5. ASSUME NEW r \in Requests, UNCHANGED call, ViewLose(r) PROVE UserKnown'
  BY <1>5 DEF ViewLose
<1>6. ASSUME NEW r \in Requests, UNCHANGED call, ViewProbe(r) PROVE UserKnown'
  BY <1>6 DEF ViewProbe
<1>7. ASSUME NEW r \in Requests, UNCHANGED call, ViewRefuse(r) PROVE UserKnown'
  BY <1>7 DEF ViewRefuse
<1>8. ASSUME NEW r \in Requests, UNCHANGED call, ViewServe(r) PROVE UserKnown'
  BY <1>8 DEF ViewServe
<1>9. ASSUME NEW r \in Requests, UNCHANGED call, ViewQuiet(r) PROVE UserKnown'
  BY <1>9 DEF ViewQuiet, Quiet, Steps
<1> QED
  BY <1>1, <1>2, <1>3, <1>4, <1>5, <1>6, <1>7, <1>8, <1>9 DEF View

\* An operation never runs the steps of another.
LEMMA OpStep ==
  TypeOK /\ OpOfStep /\ View => OpOfStep'
<1> SUFFICES ASSUME TypeOK, OpOfStep, View PROVE OpOfStep'
  OBVIOUS
<1> USE NoneAssumption DEF TypeOK, OpOfStep, Goto, StoreJti, DeleteFamilies,
        FamilyUnchanged
<1>1. ASSUME NEW r \in Requests, NEW c \in Call, ViewArrive(r, c)
      PROVE OpOfStep'
  BY <1>1 DEF ViewArrive, Quiet, Call
<1>2. CASE UNCHANGED call /\ ViewIdle
  BY <1>2 DEF ViewIdle
<1>3. ASSUME NEW r \in Requests, UNCHANGED call, ViewIssue(r) PROVE OpOfStep'
  BY <1>3 DEF ViewIssue
<1>4. ASSUME NEW r \in Requests, UNCHANGED call, ViewSwap(r) PROVE OpOfStep'
  BY <1>4 DEF ViewSwap
<1>5. ASSUME NEW r \in Requests, UNCHANGED call, ViewLose(r) PROVE OpOfStep'
  BY <1>5 DEF ViewLose
<1>6. ASSUME NEW r \in Requests, UNCHANGED call, ViewProbe(r) PROVE OpOfStep'
  BY <1>6 DEF ViewProbe
<1>7. ASSUME NEW r \in Requests, UNCHANGED call, ViewRefuse(r) PROVE OpOfStep'
  BY <1>7 DEF ViewRefuse
<1>8. ASSUME NEW r \in Requests, UNCHANGED call, ViewServe(r) PROVE OpOfStep'
  BY <1>8 DEF ViewServe
<1>9. ASSUME NEW r \in Requests, UNCHANGED call, ViewQuiet(r) PROVE OpOfStep'
  BY <1>9 DEF ViewQuiet, Quiet, Steps
<1> QED
  BY <1>1, <1>2, <1>3, <1>4, <1>5, <1>6, <1>7, <1>8, <1>9 DEF View

\* A request stores its jti once, in Issue or in CompareAndSet.
LEMMA MintedStep ==
  TypeOK /\ OpOfStep /\ MintedByStep /\ View => MintedByStep'
<1> SUFFICES ASSUME TypeOK, OpOfStep, MintedByStep, View PROVE MintedByStep'
  OBVIOUS
<1> USE NoneAssumption DEF TypeOK, OpOfStep, MintedByStep, Goto, StoreJti,
        DeleteFamilies, FamilyUnchanged
<1>1. ASSUME NEW r \in Requests, NEW c \in Call, ViewArrive(r, c)
      PROVE MintedByStep'
  BY <1>1 DEF ViewArrive, Quiet, Call
<1>2. CASE UNCHANGED call /\ ViewIdle
  BY <1>2 DEF ViewIdle
<1>3. ASSUME NEW r \in Requests, UNCHANGED call, ViewIssue(r)
      PROVE MintedByStep'
  BY <1>3 DEF ViewIssue
<1>4. ASSUME NEW r \in Requests, UNCHANGED call, ViewSwap(r) PROVE MintedByStep'
  BY <1>4 DEF ViewSwap
<1>5. ASSUME NEW r \in Requests, UNCHANGED call, ViewLose(r) PROVE MintedByStep'
  BY <1>5 DEF ViewLose
<1>6. ASSUME NEW r \in Requests, UNCHANGED call, ViewProbe(r)
      PROVE MintedByStep'
  BY <1>6 DEF ViewProbe
<1>7. ASSUME NEW r \in Requests, UNCHANGED call, ViewRefuse(r)
      PROVE MintedByStep'
  BY <1>7 DEF ViewRefuse
<1>8. ASSUME NEW r \in Requests, UNCHANGED call, ViewServe(r)
      PROVE MintedByStep'
  BY <1>8 DEF ViewServe
<1>9. ASSUME NEW r \in Requests, UNCHANGED call, ViewQuiet(r)
      PROVE MintedByStep'
  BY <1>9 DEF ViewQuiet, Quiet, Steps
<1> QED
  BY <1>1, <1>2, <1>3, <1>4, <1>5, <1>6, <1>7, <1>8, <1>9 DEF View

\* A client can only present what an earlier request was answered with.
LEMMA PresentedStep ==
  TypeOK /\ OpOfStep /\ MintedByStep /\ PresentedIsMinted /\ View
    => PresentedIsMinted'
<1> SUFFICES ASSUME TypeOK, OpOfStep, MintedByStep, PresentedIsMinted,
             View PROVE PresentedIsMinted'
  OBVIOUS
<1> USE NoneAssumption DEF TypeOK, OpOfStep, MintedByStep, PresentedIsMinted,
        FamilyOf, Goto, StoreJti, DeleteFamilies, FamilyUnchanged
<1>1. ASSUME NEW r \in Requests, NEW c \in Call, ViewArrive(r, c)
      PROVE PresentedIsMinted'
  BY <1>1 DEF ViewArrive, Quiet, Call, Held
<1>2. CASE UNCHANGED call /\ ViewIdle
  BY <1>2 DEF ViewIdle
<1>3. ASSUME NEW r \in Requests, UNCHANGED call, ViewIssue(r)
      PROVE PresentedIsMinted'
  BY <1>3 DEF ViewIssue
<1>4. ASSUME NEW r \in Requests, UNCHANGED call, ViewSwap(r)
      PROVE PresentedIsMinted'
  BY <1>4 DEF ViewSwap
<1>5. ASSUME NEW r \in Requests, UNCHANGED call, ViewLose(r)
      PROVE PresentedIsMinted'
  BY <1>5 DEF ViewLose
<1>6. ASSUME NEW r \in Requests, UNCHANGED call, ViewProbe(r)
      PROVE PresentedIsMinted'
  BY <1>6 DEF ViewProbe
<1>7. ASSUME NEW r \in Requests, UNCHANGED call, ViewRefuse(r)
      PROVE PresentedIsMinted'
  BY <1>7 DEF ViewRefuse
<1>8. ASSUME NEW r \in Requests, UNCHANGED call, ViewServe(r)
      PROVE PresentedIsMinted'
  BY <1>8 DEF ViewServe
<1>9. ASSUME NEW r \in Requests, UNCHANGED call, ViewQuiet(r)
      PROVE PresentedIsMinted'
  BY <1>9 DEF ViewQuiet, Quiet, Steps
<1> QED
  BY <1>1, <1>2, <1>3, <1>4, <1>5, <1>6, <1>7, <1>8, <1>9 DEF View

\* Whatever replaces the current jti is new.
LEMMA LiveStep ==
  TypeOK /\ OpOfStep /\ MintedByStep /\ PresentedIsMinted
    /\ LiveTokenUnspent /\ View => LiveTokenUnspent'
<1> SUFFICES ASSUME TypeOK, OpOfStep, MintedByStep, PresentedIsMinted,
             LiveTokenUnspent, View PROVE LiveTokenUnspent'
  OBVIOUS
<1> USE NoneAssumption DEF TypeOK, OpOfStep, MintedByStep, PresentedIsMinted,
        LiveTokenUnspent, FamilyOf, Rotations, Goto, StoreJti, DeleteFamilies,
        FamilyUnchanged
<1>1. ASSUME NEW r \in Requests, NEW c \in Call, ViewArrive(r, c)
      PROVE LiveTokenUnspent'
  BY <1>1 DEF ViewArrive, Quiet, Call
<1>2. CASE UNCHANGED call /\ ViewIdle
  BY <1>2 DEF ViewIdle
<1>3. ASSUME NEW r \in Requests, UNCHANGED call, ViewIssue(r)
      PROVE LiveTokenUnspent'
  BY <1>3 DEF ViewIssue
<1>4. ASSUME NEW r \in Requests, UNCHANGED call, ViewSwap(r)
      PROVE LiveTokenUnspent'
  BY <1>4 DEF ViewSwap
<1>5. ASSUME NEW r \in Requests, UNCHANGED call, ViewLose(r)
      PROVE LiveTokenUnspent'
  BY <1>5 DEF ViewLose
<1>6. ASSUME NEW r \in Requests, UNCHANGED call, ViewProbe(r)
      PROVE LiveTokenUnspent'
  BY <1>6 DEF ViewProbe
<1>7. ASSUME NEW r \in Requests, UNCHANGED call, ViewRefuse(r)
      PROVE LiveTokenUnspent'
  BY <1>7 DEF ViewRefuse
<1>8. ASSUME NEW r \in Requests, UNCHANGED call, ViewServe(r)
      PROVE LiveTokenUnspent'
  BY <1>8 DEF ViewServe
<1>9. ASSUME NEW r \in Requests, UNCHANGED call, ViewQuiet(r)
      PROVE LiveTokenUnspent'
  BY <1>9 DEF ViewQuiet, Quiet, Steps
<1> QED
  BY <1>1, <1>2, <1>3, <1>4, <1>5, <1>6, <1>7, <1>8, <1>9 DEF View

\* A jti leaves Redis by being exchanged or with its family.
LEMMA AccountedStep ==
  TypeOK /\ OpOfStep /\ MintedByStep /\ PresentedIsMinted
    /\ LiveTokenUnspent /\ MintedAccountedFor /\ View => MintedAccountedFor'
<1> SUFFICES ASSUME TypeOK, OpOfStep, MintedByStep, PresentedIsMinted,
             LiveTokenUnspent, MintedAccountedFor, View
             PROVE MintedAccountedFor'
  OBVIOUS
<1> USE NoneAssumption DEF TypeOK, OpOfStep, MintedByStep, PresentedIsMinted,
        LiveTokenUnspent, MintedAccountedFor, FamilyOf, Rotations, Goto,
        StoreJti, DeleteFamilies, FamilyUnchanged
<1>1. ASSUME NEW r \in Requests, NEW c \in Call, ViewArrive(r, c)
      PROVE MintedAccountedFor'
  BY <1>1 DEF ViewArrive, Quiet, Call
<1>2. CASE UNCHANGED call /\ ViewIdle
  BY <1>2 DEF ViewIdle
<1>3. ASSUME NEW r \in Requests, UNCHANGED call, ViewIssue(r)
      PROVE MintedAccountedFor'
  BY <1>3 DEF ViewIssue
<1>4. ASSUME NEW r \in Requests, UNCHANGED call, ViewSwap(r)
      PROVE MintedAccountedFor'
  BY <1>4 DEF ViewSwap
<1>5. ASSUME NEW r \in Requests, UNCHANGED call, ViewLose(r)
      PROVE MintedAccountedFor'
  BY <1>5 DEF ViewLose
<1>6. ASSUME NEW r \in Requests, UNCHANGED call, ViewProbe(r)
      PROVE MintedAccountedFor'
  BY <1>6 DEF ViewProbe
<1>7. ASSUME NEW r \in Requests, UNCHANGED call, ViewRefuse(r)
      PROVE MintedAccountedFor'
  BY <1>7 DEF ViewRefuse
<1>8. ASSUME NEW r \in Requests, UNCHANGED call, ViewServe(r)
      PROVE MintedAccountedFor'
  BY <1>8 DEF ViewServe
<1>9. ASSUME NEW r \in Requests, UNCHANGED call, ViewQuiet(r)
      PROVE MintedAccountedFor'
  BY <1>9 DEF ViewQuiet, Quiet, Steps
<1> QED
  BY <1>1, <1>2, <1>3, <1>4, <1>5, <1>6, <1>7, <1>8, <1>9 DEF View

\* A jti that is not current never becomes current again.
LEMMA ProbedStep ==
  TypeOK /\ OpOfStep /\ MintedByStep /\ PresentedIsMinted /\ ProbedIsStale
    /\ View => ProbedIsStale'
<1> SUFFICES ASSUME TypeOK, OpOfStep, MintedByStep, PresentedIsMinted,
             ProbedIsStale, View PROVE ProbedIsStale'
  OBVIOUS
<1> USE NoneAssumption DEF TypeOK, OpOfStep, MintedByStep, PresentedIsMinted,
        ProbedIsStale, Goto, StoreJti, DeleteFamilies, FamilyUnchanged
<1>1. ASSUME NEW r \in Requests, NEW c \in Call, ViewArrive(r, c)
      PROVE ProbedIsStale'
  BY <1>1 DEF ViewArrive, Quiet, Call
<1>2. CASE UNCHANGED call /\ ViewIdle
  BY <1>2 DEF ViewIdle
<1>3. ASSUME NEW r \in Requests, UNCHANGED call, ViewIssue(r)
      PROVE ProbedIsStale'
  BY <1>3 DEF ViewIssue
<1>4. ASSUME NEW r \in Requests, UNCHANGED call, ViewSwap(r)
      PROVE ProbedIsStale'
  BY <1>4 DEF ViewSwap
<1>5. ASSUME NEW r \in Requests, UNCHANGED call, ViewLose(r)
      PROVE ProbedIsStale'
  BY <1>5 DEF ViewLose
<1>6. ASSUME NEW r \in Requests, UNCHANGED call, ViewProbe(r)
      PROVE ProbedIsStale'
  BY <1>6 DEF ViewProbe
<1>7. ASSUME NEW r \in Requests, UNCHANGED call, ViewRefuse(r)
      PROVE ProbedIsStale'
  BY <1>7 DEF ViewRefuse
<1>8. ASSUME NEW r \in Requests, UNCHANGED call, ViewServe(r)
      PROVE ProbedIsStale'
  BY <1>8 DEF ViewServe
<1>9. ASSUME NEW r \in Requests, UNCHANGED call, ViewQuiet(r)
      PROVE ProbedIsStale'
  BY <1>9 DEF ViewQuiet, Quiet, Steps
<1> QED
  BY <1>1, <1>2, <1>3, <1>4, <1>5, <1>6, <1>7, <1>8, <1>9 DEF View

\* The compare-and-set exchanges a current jti, which nobody exchanged before.
LEMMA SingleUseStep ==
  TypeOK /\ OpOfStep /\ MintedByStep /\ PresentedIsMinted
    /\ LiveTokenUnspent /\ SingleUse /\ View => SingleUse'
<1> SUFFICES ASSUME TypeOK, OpOfStep, MintedByStep, PresentedIsMinted,
             LiveTokenUnspent, SingleUse, View PROVE SingleUse'
  OBVIOUS
<1> USE NoneAssumption DEF TypeOK, OpOfStep, MintedByStep, PresentedIsMinted,
        LiveTokenUnspent, SingleUse, Rotations, Goto, StoreJti, DeleteFamilies,
        FamilyUnchanged
<1>1. ASSUME NEW r \in Requests, NEW c \in Call, ViewArrive(r, c)
      PROVE SingleUse'
  BY <1>1 DEF ViewArrive, Quiet, Call
<1>2. CASE UNCHANGED call /\ ViewIdle
  BY <1>2 DEF ViewIdle
<1>3. ASSUME NEW r \in Requests, UNCHANGED call, ViewIssue(r) PROVE SingleUse'
  BY <1>3 DEF ViewIssue
<1>4. ASSUME NEW r \in Requests, UNCHANGED call, ViewSwap(r) PROVE SingleUse'
  BY <1>4 DEF ViewSwap
<1>5. ASSUME NEW r \in Requests, UNCHANGED call, ViewLose(r) PROVE SingleUse'
  BY <1>5 DEF ViewLose
<1>6. ASSUME NEW r \in Requests, UNCHANGED call, ViewProbe(r) PROVE SingleUse'
  BY <1>6 DEF ViewProbe
<1>7. ASSUME NEW r \in Requests, UNCHANGED call, ViewRefuse(r) PROVE SingleUse'
  BY <1>7 DEF ViewRefuse
<1>8. ASSUME NEW r \in Requests, UNCHANGED call, ViewServe(r) PROVE SingleUse'
  BY <1>8 DEF ViewServe
<1>9. ASSUME NEW r \in Requests, UNCHANGED call, ViewQuiet(r) PROVE SingleUse'
  BY <1>9 DEF ViewQuiet, Quiet, Steps
<1> QED
  BY <1>1, <1>2, <1>3, <1>4, <1>5, <1>6, <1>7, <1>8, <1>9 DEF View

\* No step writes to the key of a family that is absent but was stored.
LEMMA RefusedStep ==
  TypeOK /\ OpOfStep /\ MintedByStep /\ PresentedIsMinted
    /\ RefusedFamilyIsDead /\ View => RefusedFamilyIsDead'
<1> SUFFICES ASSUME TypeOK, OpOfStep, MintedByStep, PresentedIsMinted,
             RefusedFamilyIsDead, View PROVE RefusedFamilyIsDead'
  OBVIOUS
<1> USE NoneAssumption DEF TypeOK, OpOfStep, MintedByStep, PresentedIsMinted,
        RefusedFamilyIsDead, Goto, StoreJti, DeleteFamilies, FamilyUnchanged
<1>1. ASSUME NEW r \in Requests, NEW c \in Call, ViewArrive(r, c)
      PROVE RefusedFamilyIsDead'
  BY <1>1 DEF ViewArrive, Quiet, Call
<1>2. CASE UNCHANGED call /\ ViewIdle
  BY <1>2 DEF ViewIdle
<1>3. ASSUME NEW r \in Requests, UNCHANGED call, ViewIssue(r)
      PROVE RefusedFamilyIsDead'
  BY <1>3 DEF ViewIssue
<1>4. ASSUME NEW r \in Requests, UNCHANGED call, ViewSwap(r)
      PROVE RefusedFamilyIsDead'
  BY <1>4 DEF ViewSwap
<1>5. ASSUME NEW r \in Requests, UNCHANGED call, ViewLose(r)
      PROVE RefusedFamilyIsDead'
  BY <1>5 DEF ViewLose
<1>6. ASSUME NEW r \in Requests, UNCHANGED call, ViewProbe(r)
      PROVE RefusedFamilyIsDead'
  BY <1>6 DEF ViewProbe
<1>7. ASSUME NEW r \in Requests, UNCHANGED call, ViewRefuse(r)
      PROVE RefusedFamilyIsDead'
  BY <1>7 DEF ViewRefuse
<1>8. ASSUME NEW r \in Requests, UNCHANGED call, ViewServe(r)
      PROVE RefusedFamilyIsDead'
  BY <1>8 DEF ViewServe
<1>9. ASSUME NEW r \in Requests, UNCHANGED call, ViewQuiet(r)
      PROVE RefusedFamilyIsDead'
  BY <1>9 DEF ViewQuiet, Quiet, Steps
<1> QED
  BY <1>1, <1>2, <1>3, <1>4, <1>5, <1>6, <1>7, <1>8, <1>9 DEF View

\* A family found present after a lost compare-and-set has a rival rotation.
LEMMA RivalStep ==
  TypeOK /\ OpOfStep /\ MintedByStep /\ PresentedIsMinted
    /\ MintedAccountedFor /\ ProbedIsStale /\ ReuseHasRival /\ View
    => ReuseHasRival'
<1> SUFFICES ASSUME TypeOK, OpOfStep, MintedByStep, PresentedIsMinted,
             MintedAccountedFor, ProbedIsStale, ReuseHasRival, View
             PROVE ReuseHasRival'
  OBVIOUS
<1> USE NoneAssumption DEF TypeOK, OpOfStep, MintedByStep, PresentedIsMinted,
        MintedAccountedFor, ProbedIsStale, ReuseHasRival, FamilyOf, Rotations,
        Goto, StoreJti, DeleteFamilies, FamilyUnchanged
<1>1. ASSUME NEW r \in Requests, NEW c \in Call, ViewArrive(r, c)
      PROVE ReuseHasRival'
  <2> SUFFICES ASSUME NEW q \in Requests, pc'[q] \in {"kill", "reused"}
               PROVE  \E s \in Rotations' : s # q /\ call'[s].jti = call'[q].jti
    BY DEF ReuseHasRival
  <2>1. q # r /\ pc[q] \in {"kill", "reused"} /\ call'[q] = call[q]
    BY <1>1 DEF ViewArrive, Quiet
  <2>2. PICK s \in Rotations : s # q /\ call[s].jti = call[q].jti
    BY <2>1
  <2>3. s # r /\ call'[s] = call[s] /\ minted' = minted
    BY <1>1, <2>2 DEF ViewArrive
  <2> QED
    BY <2>1, <2>2, <2>3
<1>2. CASE UNCHANGED call /\ ViewIdle
  BY <1>2 DEF ViewIdle
<1>3. ASSUME NEW r \in Requests, UNCHANGED call, ViewIssue(r)
      PROVE ReuseHasRival'
  BY <1>3 DEF ViewIssue
<1>4. ASSUME NEW r \in Requests, UNCHANGED call, ViewSwap(r)
      PROVE ReuseHasRival'
  BY <1>4 DEF ViewSwap
<1>5. ASSUME NEW r \in Requests, UNCHANGED call, ViewLose(r)
      PROVE ReuseHasRival'
  BY <1>5 DEF ViewLose
<1>6. ASSUME NEW r \in Requests, UNCHANGED call, ViewProbe(r)
      PROVE ReuseHasRival'
  BY <1>6 DEF ViewProbe
<1>7. ASSUME NEW r \in Requests, UNCHANGED call, ViewRefuse(r)
      PROVE ReuseHasRival'
  BY <1>7 DEF ViewRefuse
<1>8. ASSUME NEW r \in Requests, UNCHANGED call, ViewServe(r)
      PROVE ReuseHasRival'
  BY <1>8 DEF ViewServe
<1>9. ASSUME NEW r \in Requests, UNCHANGED call, ViewQuiet(r)
      PROVE ReuseHasRival'
  BY <1>9 DEF ViewQuiet, Quiet, Steps
<1> QED
  BY <1>1, <1>2, <1>3, <1>4, <1>5, <1>6, <1>7, <1>8, <1>9 DEF View

\* Every step preserves the store invariant.
LEMMA StoreStep == StoreInv /\ [Next]_vars => StoreInv'
  BY TypeStep, StepView, UserStep, OpStep, MintedStep, PresentedStep, LiveStep,
     AccountedStep, ProbedStep, SingleUseStep, RefusedStep,
    RivalStep DEF StoreInv

\* The store invariant holds initially, is preserved by every step, and so
\* holds of every reachable state.
THEOREM StoreInvariant == Spec => []StoreInv
<1>1. Init => StoreInv
  BY ConfigAssumption DEF Init, StoreInv, TypeOK, Call, NoCall, Ops, UserKnown,
     OpOfStep,
     MintedByStep, PresentedIsMinted, LiveTokenUnspent, MintedAccountedFor,
     ProbedIsStale, SingleUse, RefusedFamilyIsDead, ReuseHasRival, Rotations
<1> QED
  BY <1>1, StoreStep, PTL DEF Spec

\* Every variable keeps its type, for any requests, users and faults.
THEOREM TypeCorrect == Spec => []TypeOK
<1>1. StoreInv => TypeOK
  BY DEF StoreInv
<1> QED
  BY <1>1, StoreInvariant, PTL

\* A refresh token is exchanged at most once, whatever the interleaving of any
\* number of refreshes and whatever fails (RefreshTokenStore.rotate).
THEOREM TokensAreSingleUse == Spec => []SingleUse
<1>1. StoreInv => SingleUse
  BY DEF StoreInv
<1> QED
  BY <1>1, StoreInvariant, PTL

\* A refused refresh leaves a family that is dead for ever (rotate, refresh).
THEOREM RefusalIsFinal == Spec => []RefusedFamilyIsDead
<1>1. StoreInv => RefusedFamilyIsDead
  BY DEF StoreInv
<1> QED
  BY <1>1, StoreInvariant, PTL

\* REFRESH_TOKEN_REUSED is never a false alarm: another request exchanged the
\* token (rotate).
THEOREM ReuseIsReal == Spec => []ReuseHasRival
<1>1. StoreInv => ReuseHasRival
  BY DEF StoreInv
<1> QED
  BY <1>1, StoreInvariant, PTL

-----------------------------------------------------------------------------
(* Refinement *)

\* A step of the system is a step of TokenFamily or leaves it alone.
LEMMA FamilyStep ==
  StoreInv /\ [Next]_vars => [Family!Next]_(Family!familyVars)
<1> SUFFICES ASSUME StoreInv, View PROVE [Family!Next]_(Family!familyVars)
  BY StepView DEF StoreInv
<1> USE DEF Family!familyVars, FamilyUnchanged
<1>1. ASSUME NEW r \in Requests, ViewIssue(r) PROVE Family!Open(r)
  BY <1>1 DEF ViewIssue, StoreJti, Family!Open, StoreInv, MintedByStep
<1>2. ASSUME NEW r \in Requests, ViewSwap(r)
      PROVE  call[r].fam \in Requests /\ Family!Rotate(call[r].fam, r)
  <2>1. call[r].fam \in Requests /\ call[r].jti \in Requests /\ r \notin minted
    BY <1>2 DEF ViewSwap, StoreInv, OpOfStep, PresentedIsMinted, MintedByStep,
       TypeOK
  <2> QED
    BY <1>2, <2>1, NoneAssumption DEF ViewSwap, StoreJti, Family!Rotate
<1>3. ASSUME NEW F \in SUBSET Requests, DeleteFamilies(F) PROVE Family!Next
  BY <1>3 DEF DeleteFamilies, Family!Close, Family!Next
<1>4. ASSUME NEW r \in Requests, ViewRefuse(r) PROVE Family!Next
  <2>1. DeleteFamilies({call[r].fam} \cap Requests)
    BY <1>4 DEF ViewRefuse, DeleteFamilies
  <2> QED
    BY <2>1, <1>3
<1> QED
  BY <1>1, <1>2, <1>3, <1>4 DEF View, ViewArrive, ViewIdle, ViewLose,
     ViewProbe, ViewServe,
     ViewQuiet, Family!Next

\* The store that all requests share implements the abstract token families:
\* one live token per family, no token live twice, no family reopened.
THEOREM ImplementsTokenFamily == Spec => FamilySpec
<1>1. Init => Family!Init
  BY DEF Init, Family!Init
<1> QED
  BY <1>1, FamilyStep, StoreInvariant, PTL DEF Spec, FamilySpec, Family!Spec
=============================================================================
