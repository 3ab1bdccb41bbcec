--------------------------- MODULE IdentityProofs ---------------------------
(***************************************************************************)
(* Proofs about Identity, for any tables to begin with that obey their     *)
(* constraints, any sets of names and any set of requests: types and       *)
(* foreign keys, unique keys, where orphans come from, who writes the rows *)
(* of a team, that a team keeps a leader, and what the roster shows.       *)
(***************************************************************************)
EXTENDS Identity, FiniteSetTheorems, TLAPS

Creating == {"createRole", "createTeam", "createUser"}

\* What a request asks for agrees with its operation; what it names is there.
AskSound(c) ==
  /\ c.op = "createRole" => c.key \in RoleNames /\ c.parent = None /\ c.position = None
  /\ c.op = "createTeam" => c.key \in TeamNames /\ IsA("role", c.parent) /\ c.position = None
  /\ c.op = "createUser" => /\ c.key \in Emails /\ IsA("team", c.parent)
                            /\ c.position # None
                            /\ Authorize(c.actor, "create", None, c.parent)
  /\ c.op = "updateRole" => c.key \in RoleNames \cup {None}
  /\ c.op = "updateTeam" => c.key \in TeamNames \cup {None}
  /\ c.op \in AllOps \ Creating => IsA(KindOf(c.op), c.id)

\* A request runs the steps of its operation, for somebody who signed in.
StepSound(r) ==
  /\ pc[r] = "idle" <=> call[r].op = None
  /\ call[r].op # None => call[r].actor \in tokens
  /\ pc[r] \in {"dup", "parent", "insert", "emit"} => call[r].op \in Creating
  /\ pc[r] = "parent" => call[r].op # "createRole"
  /\ pc[r] = "emit" => call[r].op = "createUser"
  /\ pc[r] \in {"load", "count", "write"} => call[r].op \in AllOps \ Creating
  /\ pc[r] = "count" => call[r].op \in {"deleteRole", "deleteTeam"}

\* A row of a request is there only after its INSERT.
InsertedOnce(r) ==
  /\ rows[r] # None => call[r].op \in Creating /\ pc[r] \in {"emit", "done", "aborted"}
  /\ pc[r] = "emit" => IsA("user", r)

\* What a token says of its user's team holds for good: a user stays in his team,
\* and the team of a leader has had one.
TokenSound(who) ==
  /\ IsA("user", who.id) /\ rows[who.id].parent = who.team
  /\ who.position = "LEADER" => who.team \in led

\* A request about to write was authorized for the row it writes.
WriteGranted(r) == pc[r] = "write" => Permitted(call[r], rows[call[r].id])

\* Requests in progress at the same time have met.
MeetingsKnown ==
  \A r, s \in InProgress : r # s => s \in met[r]

\* Who deletes the parent x, a team or a role.
Deletes(s, x) == call[s].op \in {"deleteTeam", "deleteRole"} /\ call[s].id = x

\* The parent a request has found is active, or somebody it met deleted it.
PastParent(r) ==
  \/ pc[r] = "insert" /\ call[r].op # "createRole"
  \/ pc[r] = "dup" /\ call[r].op = "createTeam"

ParentFound(r) ==
  PastParent(r) => \/ Active(call[r].parent)
                   \/ \E s \in met[r] : Deletes(s, call[r].parent)

\* The children of a parent that is about to be deleted were all created by
\* requests that met the one that deletes it.
DeletesNext(s) ==
  /\ pc[s] = "write" /\ call[s].op \in {"deleteTeam", "deleteRole"}
  /\ Active(call[s].id)

ChildrenMet(s) ==
  DeletesNext(s) => \A x \in Children(call[s].id) : x \in Requests /\ s \in met[x]

\* A team with a leader is known to have had one.
LeadersKnown == \A u, t \in Ids : Leads(u, t) => t \in led

RowsAreFinite == IsFiniteSet({x \in Ids : rows[x] # None})

IdentityInv ==
  /\ TypeOK
  /\ \A r \in Requests :
       /\ AskSound(call[r]) /\ StepSound(r) /\ InsertedOnce(r) /\ WriteGranted(r)
       /\ ParentFound(r) /\ ChildrenMet(r)
  /\ \A who \in tokens : TokenSound(who)
  /\ MeetingsKnown
  /\ LeadersKnown
  /\ RowsAreFinite
  /\ KeysAreUnique
  /\ OrphansComeFromRaces
  /\ EmittedIsCreated
  /\ LeaderRemains
-----------------------------------------------------------------------------
(* What a step is to the tables *)

\* What holds of a request that asks for c, at its first step.
Asked(r, c, step) ==
  /\ pc[r] = "idle" /\ c \in Call /\ AskSound(c) /\ c.actor \in tokens
  /\ Start(r, step, c)
  /\ \/ step = "load" /\ c.op \in AllOps \ Creating
     \/ step = "dup" /\ c.op \in {"createRole", "createUser"}
     \/ step = "parent" /\ c.op = "createTeam"

\* A request arrives with a sound call.
LEMMA Arrival ==
  ASSUME TypeOK, NEW r \in Requests, Arrive(r)
  PROVE  \E c \in Call, step \in Steps : Asked(r, c, step)
<1> USE DEF Asked, AskSound, Call, CallOf, NoCall, Creating, AllOps, Keys, Steps,
            KindOf
<1>1. tokens \subseteq Subject
  BY DEF TypeOK
<1>2. PICK who \in tokens : ArriveAtRoles(r, who) \/ ArriveAtTeams(r, who)
                            \/ ArriveAtUsers(r, who)
  BY DEF Arrive
<1>3. pc[r] = "idle"
  BY DEF Arrive
<1>4. ASSUME NEW name \in RoleNames, StartCreateRole(r, who, name)
      PROVE  Asked(r, [CallOf("createRole", who) EXCEPT !.key = name], "dup")
  BY <1>1, <1>3, <1>4 DEF StartCreateRole
<1>5. ASSUME NEW x \in Ids, IsA("role", x), NEW name \in RoleNames \cup {None},
             StartUpdateRole(r, who, x, name)
      PROVE  Asked(r, [CallOf("updateRole", who) EXCEPT !.id = x, !.key = name], "load")
  BY <1>1, <1>3, <1>5 DEF StartUpdateRole
<1>6. ASSUME NEW x \in Ids, IsA("role", x), StartDeleteRole(r, who, x)
      PROVE  Asked(r, [CallOf("deleteRole", who) EXCEPT !.id = x], "load")
  BY <1>1, <1>3, <1>6 DEF StartDeleteRole
<1>7. ASSUME NEW name \in TeamNames, NEW x \in Ids, IsA("role", x),
             StartCreateTeam(r, who, name, x)
      PROVE  Asked(r, [CallOf("createTeam", who) EXCEPT !.key = name, !.parent = x],
                   "parent")
  BY <1>1, <1>3, <1>7 DEF StartCreateTeam
<1>8. ASSUME NEW x \in Ids, IsA("team", x), NEW name \in TeamNames \cup {None},
             StartUpdateTeam(r, who, x, name)
      PROVE  Asked(r, [CallOf("updateTeam", who) EXCEPT !.id = x, !.key = name], "load")
  BY <1>1, <1>3, <1>8 DEF StartUpdateTeam
<1>9. ASSUME NEW x \in Ids, IsA("team", x), StartDeleteTeam(r, who, x)
      PROVE  Asked(r, [CallOf("deleteTeam", who) EXCEPT !.id = x], "load")
  BY <1>1, <1>3, <1>9 DEF StartDeleteTeam
<1>10. ASSUME NEW email \in Emails, NEW position \in Positions, NEW x \in Ids,
              IsA("team", x), StartCreateUser(r, who, email, x, position)
       PROVE  Asked(r, [CallOf("createUser", who) EXCEPT !.key = email, !.parent = x,
                                                         !.position = position], "dup")
  <2> DEFINE c == [CallOf("createUser", who) EXCEPT !.key = email, !.parent = x,
                                                    !.position = position]
  <2> DEFINE c1 == [CallOf("createUser", who) EXCEPT !.key = email]
  <2>1. /\ c1 \in Call /\ c1.op = "createUser" /\ c1.actor = who /\ c1.key = email
        /\ c = [[c1 EXCEPT !.parent = x] EXCEPT !.position = position]
    BY <1>1
  <2> HIDE DEF c1, c
  <2>2. c \in Call
    BY <2>1
  <2>3. /\ c.op = "createUser" /\ c.actor = who /\ c.key = email /\ c.parent = x
        /\ c.position = position
    BY <2>1
  <2>4. Start(r, "dup", c) /\ Authorize(who, "create", None, x) /\ position # None
    BY <1>10, NoneAssumption DEF StartCreateUser, c
  <2>5. Asked(r, c, "dup")
    BY <1>3, <1>10, <2>2, <2>3, <2>4
  <2> QED
    BY <2>5 DEF c
<1>11. ASSUME NEW x \in Ids, IsA("user", x), NEW position \in Positions \cup {None},
              StartUpdateUser(r, who, x, position)
       PROVE  Asked(r, [CallOf("updateUser", who) EXCEPT !.id = x,
                                                         !.position = position], "load")
  BY <1>1, <1>3, <1>11 DEF StartUpdateUser
<1>12. ASSUME NEW x \in Ids, IsA("user", x), StartDeleteUser(r, who, x)
       PROVE  Asked(r, [CallOf("deleteUser", who) EXCEPT !.id = x], "load")
  BY <1>1, <1>3, <1>12 DEF StartDeleteUser
<1>13. ASSUME NEW c, NEW step \in Steps, Asked(r, c, step)
       PROVE  \E d \in Call, t \in Steps : Asked(r, d, t)
  <2>1. c \in Call
    BY <1>13
  <2> HIDE DEF Asked, Call, Steps
  <2> QED
    BY <1>13, <2>1
<1>14. "dup" \in Steps /\ "parent" \in Steps /\ "load" \in Steps
  OBVIOUS
<1> HIDE DEF Asked, AskSound, Call, CallOf, NoCall, Creating, AllOps, Keys, Steps,
             KindOf
<1> QED
  BY <1>2, <1>4, <1>5, <1>6, <1>7, <1>8, <1>9, <1>10, <1>11, <1>12, <1>13, <1>14
     DEF ArriveAtRoles, ArriveAtTeams, ArriveAtUsers

\* What the flush of a loaded entity makes of its row: its kind, its parent and
\* globalRoles stay, and nothing undeletes it.
LEMMA WrittenRow ==
  ASSUME TypeOK, NEW r \in Requests, pc[r] = "write", AskSound(call[r]),
         StepSound(r)
  PROVE  /\ call[r].id \in Ids /\ rows[call[r].id] \in Row
         /\ Written(r) \in Row
         /\ Written(r) \in {[rows[call[r].id] EXCEPT !.active = FALSE],
                            [rows[call[r].id] EXCEPT !.position = call[r].position],
                            [rows[call[r].id] EXCEPT !.key = call[r].key],
                            rows[call[r].id]}
         /\ Written(r).kind = rows[call[r].id].kind
         /\ Written(r).parent = rows[call[r].id].parent
         /\ Written(r).super = rows[call[r].id].super
         /\ Written(r).active => rows[call[r].id].active
         /\ Written(r).active # rows[call[r].id].active
              => call[r].op \in {"deleteRole", "deleteTeam", "deleteUser"}
         /\ \/ Written(r).key = rows[call[r].id].key
            \/ Written(r).kind = "role" /\ Written(r).key \in RoleNames
            \/ Written(r).kind = "team" /\ Written(r).key \in TeamNames
         /\ \/ Written(r).position = rows[call[r].id].position
            \/ Written(r).kind = "user" /\ Written(r).position # None
         /\ Written(r).kind = "user" /\ Written(r) # rows[call[r].id]
              => \/ call[r].op = "deleteUser"
                 \/ call[r].op = "updateUser" /\ call[r].position # None
<1> DEFINE c == call[r]
           old == rows[c.id]
<1>1. c \in Call /\ c.op \in AllOps \ Creating /\ IsA(KindOf(c.op), c.id)
  BY DEF TypeOK, StepSound, AskSound
<1>2. c.id \in Ids /\ old \in Row /\ old.kind = KindOf(c.op)
  BY <1>1 DEF IsA, TypeOK
<1>3. /\ c.op = "updateRole" => c.key \in RoleNames \cup {None}
      /\ c.op = "updateTeam" => c.key \in TeamNames \cup {None}
      /\ c.position \in Positions \cup {None}
  BY <1>1 DEF AskSound, Call
<1> DEFINE Result(row) ==
             /\ row \in Row
             /\ row \in {[old EXCEPT !.active = FALSE],
                         [old EXCEPT !.position = c.position],
                         [old EXCEPT !.key = c.key], old}
             /\ row.kind = old.kind /\ row.parent = old.parent
             /\ row.super = old.super /\ (row.active => old.active)
             /\ row.active # old.active
                  => c.op \in {"deleteRole", "deleteTeam", "deleteUser"}
             /\ \/ row.key = old.key
                \/ row.kind = "role" /\ row.key \in RoleNames
                \/ row.kind = "team" /\ row.key \in TeamNames
             /\ \/ row.position = old.position
                \/ row.kind = "user" /\ row.position # None
             /\ row.kind = "user" /\ row # old
                  => \/ c.op = "deleteUser"
                     \/ c.op = "updateUser" /\ c.position # None
<1>4. CASE c.op \in {"deleteRole", "deleteTeam", "deleteUser"}
  <2>1. Written(r) = [old EXCEPT !.active = FALSE]
    BY <1>4 DEF Written
  <2>2. Result([old EXCEPT !.active = FALSE])
    BY <1>2, <1>4 DEF Row, KindOf
  <2> HIDE DEF Result
  <2>3. Result(Written(r))
    BY <2>1, <2>2
  <2> QED
    BY <1>2, <2>3 DEF Result
<1>5. CASE c.op = "updateUser"
  <2>1. Written(r) = old \/ (c.position # None
                             /\ Written(r) = [old EXCEPT !.position = c.position])
    BY <1>5 DEF Written
  <2>2. Result(old)
    BY <1>2
  <2>3. c.position # None => Result([old EXCEPT !.position = c.position])
    BY <1>2, <1>3, <1>5 DEF Row, KindOf
  <2> HIDE DEF Result
  <2>4. Result(Written(r))
    BY <2>1, <2>2, <2>3
  <2> QED
    BY <1>2, <2>4 DEF Result
<1>6. CASE c.op \in {"updateRole", "updateTeam"}
  <2>1. Written(r) = old \/ (c.key # None
                             /\ Written(r) = [old EXCEPT !.key = c.key])
    BY <1>6 DEF Written
  <2>2. Result(old)
    BY <1>2
  <2>3. c.key # None => Result([old EXCEPT !.key = c.key])
    BY <1>2, <1>3, <1>6 DEF Row, KindOf, Keys
  <2> HIDE DEF Result
  <2>4. Result(Written(r))
    BY <2>1, <2>2, <2>3
  <2> QED
    BY <1>2, <2>4 DEF Result
<1> QED
  BY <1>1, <1>4, <1>5, <1>6 DEF AllOps, Creating

\* A row changes by the INSERT or the UPDATE of a request that names it.
LEMMA RowChange ==
  ASSUME TypeOK, [Next]_vars, NEW x \in Ids, rows'[x] # rows[x]
  PROVE  /\ \A y \in Ids \ {x} : rows'[y] = rows[y]
         /\ \E r \in Requests :
              \/ /\ Insert(r) /\ x = r /\ rows'[x] = NewRow(call[r])
                 /\ ~Clashes(r, NewRow(call[r]))
              \/ /\ Write(r) /\ x = call[r].id /\ rows'[x] = Written(r)
                 /\ ~Clashes(x, Written(r))
<1>1. ASSUME NEW r \in Requests, Arrive(r) PROVE FALSE
  <2>1. PICK c \in Call, step \in Steps : Asked(r, c, step)
    BY <1>1, Arrival
  <2> QED
    BY <2>1 DEF Asked, Start
<1>2. ASSUME NEW r \in Requests, Insert(r)
      PROVE  /\ x = r /\ rows'[x] = NewRow(call[r])
             /\ ~Clashes(r, NewRow(call[r]))
             /\ \A y \in Ids \ {x} : rows'[y] = rows[y]
  BY <1>2 DEF Insert, TypeOK
<1>3. ASSUME NEW r \in Requests, Write(r)
      PROVE  /\ x = call[r].id /\ rows'[x] = Written(r)
             /\ ~Clashes(x, Written(r))
             /\ \A y \in Ids \ {x} : rows'[y] = rows[y]
  BY <1>3 DEF Write, TypeOK
<1>4. ASSUME NEW r \in Requests,
             FindDup(r) \/ FindParent(r) \/ Emit(r) \/ Load(r) \/ Count(r) \/ Abort(r)
      PROVE  FALSE
  BY <1>4 DEF FindDup, FindParent, Emit, Load, Count, Abort
<1>5. ~(\E u \in Ids : SignIn(u)) /\ ~UNCHANGED vars
  BY DEF SignIn, vars
<1> QED
  BY <1>1, <1>2, <1>3, <1>4, <1>5 DEF Next, Step

\* Nobody changes the call, the step or the entity of another request.
LEMMA OwnStep ==
  ASSUME TypeOK, [Next]_vars, NEW r \in Requests,
         pc'[r] # pc[r] \/ call'[r] # call[r] \/ snap'[r] # snap[r]
  PROVE  Arrive(r) \/ Step(r) \/ Abort(r)
<1>1. ASSUME NEW q \in Requests, Arrive(q) PROVE q = r
  <2>1. PICK c \in Call, step \in Steps : Asked(q, c, step)
    BY <1>1, Arrival
  <2> QED
    BY <2>1 DEF Asked, Start, Goto, TypeOK
<1>2. ASSUME NEW q \in Requests, Step(q) PROVE q = r
  BY <1>2 DEF Step, FindDup, FindParent, Insert, Emit, Load, Count, Write, Goto,
              TypeOK
<1>3. ASSUME NEW q \in Requests, Abort(q) PROVE q = r
  BY <1>3 DEF Abort, Goto, TypeOK
<1>4. ~(\E u \in Ids : SignIn(u)) /\ ~UNCHANGED vars
  BY DEF SignIn, vars
<1> QED
  BY <1>1, <1>2, <1>3, <1>4 DEF Next

\* A call is fixed when its request arrives, and a request starts once.
LEMMA CallIsFixed ==
  ASSUME TypeOK, [Next]_vars, NEW r \in Requests, pc[r] # "idle"
  PROVE  call'[r] = call[r] /\ pc'[r] # "idle"
<1>1. ~Arrive(r)
  BY DEF Arrive
<1>2. Step(r) \/ Abort(r) => call' = call /\ pc'[r] # "idle"
  BY DEF Step, FindDup, FindParent, Insert, Emit, Load, Count, Write, Abort, Goto,
         TypeOK
<1> QED
  BY <1>1, <1>2, OwnStep

\* What no step takes back: rows stay what they are and are never undeleted;
\* tokens, meetings and histories only grow.
Kept ==
  /\ \A x \in Ids : rows[x] # None =>
       /\ rows'[x] # None /\ rows'[x].kind = rows[x].kind
       /\ rows'[x].parent = rows[x].parent /\ rows'[x].super = rows[x].super
       /\ rows'[x].active => rows[x].active
  /\ tokens \subseteq tokens' /\ led \subseteq led'
  /\ \A r \in Requests : pc[r] # "idle" => met[r] \subseteq met'[r]

\* The parts of the invariant that say what each request is at.
Sound ==
  \A r \in Requests : AskSound(call[r]) /\ StepSound(r) /\ InsertedOnce(r)

LEMMA NothingTakenBack == TypeOK /\ Sound /\ [Next]_vars => Kept
<1> SUFFICES ASSUME TypeOK, Sound, [Next]_vars PROVE Kept
  OBVIOUS
<1>1. ASSUME NEW x \in Ids, rows[x] # None
      PROVE  /\ rows'[x] # None /\ rows'[x].kind = rows[x].kind
             /\ rows'[x].parent = rows[x].parent /\ rows'[x].super = rows[x].super
             /\ rows'[x].active => rows[x].active
  <2>1. CASE rows'[x] = rows[x]
    BY <1>1, <2>1
  <2>2. ASSUME NEW r \in Requests, Write(r), x = call[r].id, rows'[x] = Written(r)
        PROVE  /\ rows'[x] # None /\ rows'[x].kind = rows[x].kind
               /\ rows'[x].parent = rows[x].parent /\ rows'[x].super = rows[x].super
               /\ rows'[x].active => rows[x].active
    <3>1. pc[r] = "write" /\ AskSound(call[r]) /\ StepSound(r)
      BY <2>2 DEF Sound, Write
    <3> QED
      BY <2>2, <3>1, WrittenRow, NoneAssumption
  <2>3. ASSUME NEW r \in Requests, Insert(r), x = r PROVE FALSE
    BY <1>1, <2>3 DEF Sound, InsertedOnce, Insert
  <2> QED
    BY <2>1, <2>2, <2>3, RowChange
<1>2. /\ tokens \subseteq tokens' /\ led \subseteq led'
      /\ \A r \in Requests : pc[r] # "idle" => met[r] \subseteq met'[r]
  <2> DEFINE Rest == /\ tokens \subseteq tokens' /\ led \subseteq led'
                     /\ \A r \in Requests : pc[r] # "idle" => met[r] \subseteq met'[r]
  <2>1. ASSUME NEW r \in Requests, Arrive(r) PROVE Rest
    <3>1. PICK c \in Call, step \in Steps : Asked(r, c, step)
      BY <2>1, Arrival
    <3> QED
      BY <3>1 DEF Asked, Start, InProgress
  <2>2. ASSUME NEW r \in Requests, Step(r) PROVE Rest
    BY <2>2 DEF Step, FindDup, FindParent, Insert, Emit, Load, Count, Write,
                HistoryUnchanged
  <2>3. ASSUME NEW r \in Requests, Abort(r) PROVE Rest
    BY <2>3 DEF Abort, HistoryUnchanged
  <2>4. ASSUME NEW u \in Ids, SignIn(u) PROVE Rest
    BY <2>4 DEF SignIn, HistoryUnchanged
  <2>5. ASSUME UNCHANGED vars PROVE Rest
    BY <2>5 DEF vars
  <2> HIDE DEF Rest
  <2>6. Rest
    BY <2>1, <2>2, <2>3, <2>4, <2>5 DEF Next
  <2> QED
    BY <2>6 DEF Rest
<1> QED
  BY <1>1, <1>2 DEF Kept

\* A row stays a row of its kind.
LEMMA IsAStays ==
  ASSUME Kept, NEW kind, NEW x, IsA(kind, x)
  PROVE  IsA(kind, x)'
  BY DEF Kept, IsA

-----------------------------------------------------------------------------
(* The parts of the invariant, one by one *)

\* A new row has the columns of its kind, and its parent is there.
LEMMA NewRowTyped ==
  ASSUME TypeOK, NEW c \in Call, c.op \in Creating, AskSound(c)
  PROVE  /\ NewRow(c) \in Row /\ NewRow(c) # None
         /\ \/ /\ NewRow(c).kind = "role" /\ c.parent = None /\ c.position = None
               /\ c.key \in RoleNames /\ c.op = "createRole"
            \/ /\ NewRow(c).kind = "team" /\ IsA("role", c.parent)
               /\ c.position = None /\ c.key \in TeamNames /\ c.op = "createTeam"
            \/ /\ NewRow(c).kind = "user" /\ IsA("team", c.parent)
               /\ c.position # None /\ c.key \in Emails /\ c.op = "createUser"
         /\ NewRow(c).key = c.key /\ NewRow(c).parent = c.parent
         /\ NewRow(c).position = c.position /\ NewRow(c).active /\ ~NewRow(c).super
<1>1. /\ c.parent \in Ids \cup {None} /\ c.position \in Positions \cup {None}
      /\ c.op \in {"createRole", "createTeam", "createUser"}
  BY DEF Call, Creating
<1>2. /\ NewRow(c).kind = KindOf(c.op) /\ NewRow(c).key = c.key
      /\ NewRow(c).parent = c.parent /\ NewRow(c).position = c.position
      /\ NewRow(c).active /\ ~NewRow(c).super
  BY DEF NewRow
<1>3. c.key \in Keys /\ KindOf(c.op) \in Kinds
  BY <1>1 DEF AskSound, Keys, KindOf, Kinds
<1>4. NewRow(c) \in Row
  BY <1>1, <1>3 DEF NewRow, Row
<1>5. NewRow(c) # None
  BY <1>4, NoneAssumption
<1> QED
  BY <1>1, <1>2, <1>4, <1>5 DEF AskSound, KindOf

\* The tables keep their columns and foreign keys.
LEMMA RowsTyped ==
  ASSUME TypeOK, Sound, [Next]_vars
  PROVE  /\ rows' \in [Ids -> Row \cup {None}]
         /\ \A x \in Ids : rows'[x] # None => WellFormed(x)'
<1>1. Kept
  BY NothingTakenBack
<1>2. ASSUME NEW x \in Ids, rows'[x] # rows[x]
      PROVE  rows'[x] \in Row /\ WellFormed(x)'
  <2>1. ASSUME NEW r \in Requests, Insert(r), x = r, rows'[x] = NewRow(call[r])
        PROVE  rows'[x] \in Row /\ WellFormed(x)'
    <3>1. call[r] \in Call /\ call[r].op \in Creating /\ AskSound(call[r])
      BY <2>1 DEF Insert, Sound, StepSound, TypeOK
    <3> QED
      BY <1>1, <2>1, <3>1, NewRowTyped, IsAStays DEF WellFormed, IsA
  <2>2. ASSUME NEW r \in Requests, Write(r), x = call[r].id, rows'[x] = Written(r)
        PROVE  rows'[x] \in Row /\ WellFormed(x)'
    <3>1. pc[r] = "write" /\ AskSound(call[r]) /\ StepSound(r)
      BY <2>2 DEF Sound, Write
    <3>2. /\ Written(r) \in Row /\ rows[x] \in Row /\ Written(r).kind = rows[x].kind
          /\ Written(r).parent = rows[x].parent
          /\ \/ Written(r).key = rows[x].key
             \/ Written(r).kind = "role" /\ Written(r).key \in RoleNames
             \/ Written(r).kind = "team" /\ Written(r).key \in TeamNames
          /\ \/ Written(r).position = rows[x].position
             \/ Written(r).kind = "user" /\ Written(r).position # None
      BY <2>2, <3>1, WrittenRow
    <3>3. rows[x] # None /\ rows'[x] # None /\ WellFormed(x)
      BY <2>2, <3>2, NoneAssumption DEF TypeOK
    <3> QED
      BY <1>1, <2>2, <3>2, <3>3, IsAStays DEF WellFormed, IsA
  <2> QED
    BY <1>2, <2>1, <2>2, RowChange
<1>3. ASSUME NEW x \in Ids, rows'[x] = rows[x], rows'[x] # None
      PROVE  WellFormed(x)'
  BY <1>1, <1>3, IsAStays DEF TypeOK, WellFormed, IsA
<1>4. rows' = [x \in Ids |-> rows'[x]]
  <2>1. ASSUME NEW r \in Requests, Arrive(r) PROVE rows' = rows
    <3>1. PICK c \in Call, step \in Steps : Asked(r, c, step)
      BY <2>1, Arrival
    <3> QED
      BY <3>1 DEF Asked, Start
  <2>2. rows' = rows \/ \E x \in Ids, row \in Row : rows' = [rows EXCEPT ![x] = row]
    <3>1. ASSUME NEW r \in Requests, Insert(r)
          PROVE  rows' = rows \/ rows' = [rows EXCEPT ![r] = NewRow(call[r])]
      BY <3>1 DEF Insert
    <3>2. ASSUME NEW r \in Requests, Write(r)
          PROVE  rows' = rows \/ rows' = [rows EXCEPT ![call[r].id] = Written(r)]
      BY <3>2 DEF Write
    <3>3. ASSUME NEW r \in Requests, Insert(r)
          PROVE  NewRow(call[r]) \in Row /\ r \in Ids
      BY <3>3, NewRowTyped DEF Insert, Sound, StepSound, TypeOK, Ids
    <3>4. ASSUME NEW r \in Requests, Write(r)
          PROVE  Written(r) \in Row /\ call[r].id \in Ids
      BY <3>4, WrittenRow DEF Write, Sound
    <3>5. ASSUME NEW r \in Requests,
                 FindDup(r) \/ FindParent(r) \/ Emit(r) \/ Load(r) \/ Count(r)
                   \/ Abort(r)
          PROVE  rows' = rows
      BY <3>5 DEF FindDup, FindParent, Emit, Load, Count, Abort
    <3>6. (\E u \in Ids : SignIn(u)) \/ UNCHANGED vars => rows' = rows
      BY DEF SignIn, vars
    <3> QED
      BY <2>1, <3>1, <3>2, <3>3, <3>4, <3>5, <3>6 DEF Next, Step
  <2> QED
    BY <2>2 DEF TypeOK
<1> QED
  BY <1>2, <1>3, <1>4 DEF TypeOK

\* Every variable keeps its type.
LEMMA TypeStep == TypeOK /\ Sound /\ [Next]_vars => TypeOK'
<1> SUFFICES ASSUME TypeOK, Sound, [Next]_vars PROVE TypeOK'
  OBVIOUS
<1> DEFINE Rest == /\ tokens' \subseteq Subject
                   /\ call' \in [Requests -> Call]
                   /\ pc' \in [Requests -> {"idle"} \cup Steps \cup Ends]
                   /\ snap' \in [Requests -> Row \cup {None}]
                   /\ emitted' \subseteq Requests
                   /\ met' \in [Requests -> SUBSET Requests]
                   /\ led' \subseteq Ids
                   /\ tainted' \subseteq Ids
<1> USE DEF TypeOK, Goto, HistoryUnchanged, Steps, Ends
<1>1. ASSUME NEW r \in Requests, Arrive(r) PROVE Rest
  <2>1. PICK c \in Call, step \in Steps : Asked(r, c, step)
    BY <1>1, Arrival
  <2> QED
    BY <2>1 DEF Asked, Start, InProgress
<1>2. ASSUME NEW r \in Requests, Insert(r) PROVE Rest
  <2>1. call[r].op \in Creating /\ AskSound(call[r]) /\ call[r] \in Call
    BY <1>2 DEF Insert, Sound, StepSound
  <2>2. call[r].position = "LEADER" => call[r].parent \in Ids
    BY <2>1, NewRowTyped, NoneAssumption DEF IsA, Positions
  <2> QED
    BY <1>2, <2>2 DEF Insert
<1>3. ASSUME NEW r \in Requests, Write(r) PROVE Rest
  <2>1. /\ call[r].id \in Ids /\ rows[call[r].id] \in Row
        /\ Written(r).kind = rows[call[r].id].kind
    BY <1>3, WrittenRow DEF Write, Sound
  <2>2. Written(r).kind = "user" => rows[call[r].id].parent \in Ids
    BY <2>1, NoneAssumption DEF WellFormed, IsA
  <2> QED
    BY <1>3, <2>2 DEF Write
<1>4. ASSUME NEW r \in Requests,
             FindDup(r) \/ FindParent(r) \/ Emit(r) \/ Count(r) \/ Abort(r)
      PROVE  Rest
  BY <1>4 DEF FindDup, FindParent, Emit, Count, Abort
<1>5. ASSUME NEW r \in Requests, Load(r) PROVE Rest
  <2>1. Finds(KindOf(call[r].op), call[r].id) => rows[call[r].id] \in Row
    BY DEF Finds, IsA
  <2> QED
    BY <1>5, <2>1 DEF Load
<1>6. ASSUME NEW u \in Ids, SignIn(u) PROVE Rest
  <2> DEFINE t == rows[u].parent
  <2>1. rows[u] \in Row /\ WellFormed(u) /\ rows[u].kind = "user"
    BY <1>6 DEF SignIn, Finds, IsA
  <2>2. t \in Ids /\ rows[u].position \in Positions /\ rows[t] # None
        /\ rows[t].kind = "team"
    BY <2>1 DEF WellFormed, IsA, Row
  <2>3. rows[t].parent \in Ids /\ rows[rows[t].parent] # None
        /\ rows[rows[t].parent].kind = "role"
    BY <2>2 DEF WellFormed, IsA
  <2>4. rows[rows[t].parent].key \in RoleNames
    BY <2>3 DEF WellFormed, IsA
  <2>5. [id |-> u, super |-> rows[u].super, role |-> rows[rows[t].parent].key,
         team |-> t, position |-> rows[u].position] \in Subject
    BY <2>1, <2>2, <2>4 DEF Subject, Row
  <2> QED
    BY <1>6, <2>5 DEF SignIn
<1>7. ASSUME UNCHANGED vars PROVE Rest
  BY <1>7 DEF vars
<1>8. Rest
  <2> HIDE DEF Rest, TypeOK
  <2> QED
    BY <1>1, <1>2, <1>3, <1>4, <1>5, <1>6, <1>7 DEF Next, Step
<1> QED
  BY <1>8, RowsTyped

\* What a request names does not go away.
LEMMA SoundStep == TypeOK /\ Sound /\ [Next]_vars => Sound'
<1> SUFFICES ASSUME TypeOK, Sound, [Next]_vars, Kept, TypeOK', NEW r \in Requests
             PROVE  AskSound(call[r])' /\ StepSound(r)' /\ InsertedOnce(r)'
  BY NothingTakenBack, TypeStep DEF Sound
<1>1. ASSUME NEW c, AskSound(c) PROVE AskSound(c)'
  BY <1>1, IsAStays DEF AskSound
<1>2. AskSound(call[r]) /\ StepSound(r) /\ InsertedOnce(r)
  BY DEF Sound
<1>3. AskSound(call[r])'
  <2>1. CASE pc[r] # "idle"
    <3>1. PICK c \in Call : c = call[r]
      BY DEF TypeOK
    <3>2. call'[r] = c /\ AskSound(c)
      BY <1>2, <2>1, <3>1, CallIsFixed
    <3> QED
      BY <1>1, <3>2
  <2>2. CASE Arrive(r)
    <3>1. PICK c \in Call, step \in Steps : Asked(r, c, step)
      BY <2>2, Arrival
    <3>2. call'[r] = c
      BY <3>1 DEF Asked, Start, TypeOK
    <3> QED
      BY <1>1, <3>1, <3>2 DEF Asked
  <2>3. CASE call'[r] = call[r]
    <3>1. PICK c \in Call : c = call[r]
      BY DEF TypeOK
    <3> QED
      BY <1>1, <1>2, <2>3, <3>1
  <2>4. CASE pc[r] = "idle" /\ (Step(r) \/ Abort(r))
    BY <2>4 DEF Step, FindDup, FindParent, Insert, Emit, Load, Count, Write, Abort,
                Steps
  <2> QED
    BY <2>1, <2>2, <2>3, <2>4, OwnStep
<1>4. rows'[r] # None /\ rows[r] = None => Insert(r) /\ rows'[r] = NewRow(call[r])
  <2>1. ASSUME NEW q \in Requests, Write(q), r = call[q].id PROVE rows[r] # None
    BY <2>1, WrittenRow, NoneAssumption DEF Write, Sound
  <2> QED
    BY <2>1, RowChange DEF Ids
<1>5. rows[r] # None => rows'[r] # None /\ rows'[r].kind = rows[r].kind
  BY DEF Kept, Ids
<1>6. CASE pc'[r] = pc[r] /\ call'[r] = call[r]
  <2>1. rows'[r] # None => rows[r] # None
    BY <1>4, <1>6 DEF Insert, TypeOK, Goto
  <2>2. IsA("user", r) => IsA("user", r)'
    BY IsAStays
  <2> QED
    BY <1>2, <1>3, <1>6, <2>1, <2>2 DEF StepSound, InsertedOnce, Kept
<1>7. CASE Arrive(r)
  <2>1. PICK c \in Call, step \in Steps : Asked(r, c, step)
    BY <1>7, Arrival
  <2>2. /\ call'[r] = c /\ pc'[r] = step /\ rows' = rows /\ tokens' = tokens
        /\ pc[r] = "idle" /\ c.actor \in tokens
    BY <2>1 DEF Asked, Start, Goto, TypeOK
  <2>3. \/ step = "load" /\ c.op \in AllOps \ Creating
        \/ step = "dup" /\ c.op \in {"createRole", "createUser"}
        \/ step = "parent" /\ c.op = "createTeam"
    BY <2>1 DEF Asked
  <2>4. c.op # None
    BY <2>3, NoneAssumption DEF AllOps
  <2>5. rows[r] = None
    BY <1>2, <2>2 DEF InsertedOnce
  <2> QED
    BY <1>3, <2>2, <2>3, <2>4, <2>5 DEF StepSound, InsertedOnce, Creating
<1>8. CASE Insert(r)
  <2>1. call[r] \in Call /\ call[r].op \in Creating /\ AskSound(call[r])
    BY <1>2, <1>8 DEF StepSound, Insert, TypeOK
  <2>2. /\ call' = call /\ tokens' = tokens /\ pc[r] = "insert"
        /\ \/ pc'[r] = "failed" /\ rows' = rows
           \/ /\ pc'[r] = IF call[r].op = "createUser" THEN "emit" ELSE "done"
              /\ rows'[r] = NewRow(call[r])
    BY <1>8 DEF Insert, Goto, TypeOK, Ids
  <2>3. call[r].op = "createUser" => NewRow(call[r]).kind = "user"
    BY <2>1, NewRowTyped
  <2>4. call[r].op = "createUser" /\ rows'[r] = NewRow(call[r]) => IsA("user", r)'
    BY <2>1, <2>3, NewRowTyped DEF IsA, Ids
  <2> QED
    BY <1>2, <1>3, <2>1, <2>2, <2>4 DEF StepSound, InsertedOnce
<1>9. CASE pc[r] # "insert" /\ (Step(r) \/ Abort(r))
  <2>1. call' = call /\ tokens' = tokens
    BY <1>9 DEF Step, FindDup, FindParent, Insert, Emit, Load, Count, Write, Abort
  <2>2. rows'[r] # None => rows[r] # None
    BY <1>4, <1>9 DEF Insert
  <2> USE DEF StepSound, Goto, TypeOK
  <2>3. CASE FindDup(r)
    BY <1>2, <1>3, <2>1, <2>2, <2>3 DEF FindDup, InsertedOnce, Creating
  <2>4. CASE FindParent(r)
    BY <1>2, <1>3, <2>1, <2>2, <2>4 DEF FindParent, InsertedOnce, Creating
  <2>5. CASE Emit(r)
    BY <1>2, <1>3, <2>1, <2>2, <2>5 DEF Emit, InsertedOnce
  <2>6. CASE Load(r) \/ Count(r) \/ Write(r)
    BY <1>2, <1>3, <2>1, <2>2, <2>6 DEF Load, Count, Write, InsertedOnce, Creating
  <2>7. CASE Abort(r)
    BY <1>2, <1>3, <2>1, <2>2, <2>7 DEF Abort, InsertedOnce, Steps
  <2> QED
    BY <1>9, <2>3, <2>4, <2>5, <2>6, <2>7 DEF Step, Insert
<1>10. Step(r) /\ pc[r] = "insert" => Insert(r)
  BY DEF Step, FindDup, FindParent, Emit, Load, Count, Write
<1>11. CASE Abort(r) /\ pc[r] = "insert"
  <2>1. call' = call /\ tokens' = tokens /\ rows' = rows /\ pc'[r] = "aborted"
    BY <1>11 DEF Abort, Goto, TypeOK
  <2> QED
    BY <1>2, <1>3, <1>11, <2>1 DEF StepSound, InsertedOnce
<1> QED
  BY <1>6, <1>7, <1>8, <1>9, <1>10, <1>11, OwnStep

\* A token tells the team of its user, and of a leader's team that it has had one.
LEMMA TokenStep ==
  ASSUME TypeOK, Sound, LeadersKnown, \A who \in tokens : TokenSound(who),
         [Next]_vars
  PROVE  \A who \in tokens' : TokenSound(who)'
<1>1. Kept
  BY NothingTakenBack
<1> SUFFICES ASSUME NEW who \in tokens' PROVE TokenSound(who)'
  OBVIOUS
<1>2. CASE who \in tokens
  <2>1. TokenSound(who) /\ IsA("user", who.id)'
    BY <1>1, <1>2, IsAStays DEF TokenSound
  <2> QED
    BY <1>1, <2>1 DEF TokenSound, Kept, IsA
<1>3. CASE who \notin tokens
  <2>1. tokens' # tokens
    BY <1>3
  <2>2. \A r \in Requests : ~(Arrive(r) \/ Step(r) \/ Abort(r))
    <3>1. ASSUME NEW r \in Requests, Arrive(r) PROVE FALSE
      <4>1. PICK c \in Call, step \in Steps : Asked(r, c, step)
        BY <3>1, Arrival
      <4> QED
        BY <2>1, <4>1 DEF Asked, Start
    <3> QED
      BY <2>1, <3>1 DEF Step, FindDup, FindParent, Insert, Emit, Load, Count,
                        Write, Abort
  <2>3. PICK u \in Ids : SignIn(u)
    BY <2>1, <2>2 DEF Next, vars
  <2>4. /\ who.id = u /\ who.team = rows[u].parent /\ who.position = rows[u].position
        /\ rows' = rows /\ led' = led /\ IsA("user", u) /\ Active(u)
    BY <1>3, <2>3 DEF SignIn, Finds, HistoryUnchanged
  <2>5. rows[u].parent \in Ids
    BY <2>4 DEF TypeOK, WellFormed, IsA
  <2> QED
    BY <2>4, <2>5 DEF TokenSound, IsA, Leads, LeadersKnown
<1> QED
  BY <1>2, <1>3

\* Who was authorized for a row stays authorized: the row keeps its team.
LEMMA GrantedStep ==
  ASSUME TypeOK, Sound, [Next]_vars, NEW r \in Requests, WriteGranted(r)
  PROVE  WriteGranted(r)'
<1> SUFFICES ASSUME pc'[r] = "write"
             PROVE  Permitted(call'[r], rows'[call'[r].id])
  BY DEF WriteGranted
<1>1. Kept
  BY NothingTakenBack
<1>2. pc[r] # "idle"
  <2>1. CASE Arrive(r)
    <3>1. PICK c \in Call, step \in Steps : Asked(r, c, step)
      BY <2>1, Arrival
    <3>2. pc'[r] \in {"load", "dup", "parent"}
      BY <3>1 DEF Asked, Start, Goto, TypeOK
    <3> QED
      BY <3>2
  <2>2. CASE Step(r) \/ Abort(r)
    BY <2>2 DEF Step, FindDup, FindParent, Insert, Emit, Load, Count, Write, Abort,
                Steps
  <2> QED
    BY <2>1, <2>2, OwnStep
<1>3. call'[r] = call[r]
  BY <1>2, CallIsFixed
<1>4. ASSUME NEW row, Permitted(call[r], row), rows'[call[r].id].parent = row.parent
      PROVE  Permitted(call[r], rows'[call[r].id])
  BY <1>4 DEF Permitted
<1>5. CASE pc[r] = "write"
  <2>1. IsA(KindOf(call[r].op), call[r].id)
    BY <1>5 DEF Sound, StepSound, AskSound
  <2> QED
    BY <1>1, <1>3, <1>4, <1>5, <2>1 DEF WriteGranted, Kept, IsA
<1>6. CASE pc[r] # "write"
  <2>1. Load(r) \/ Count(r)
    <3>1. ~Arrive(r)
      BY <1>2 DEF Arrive
    <3> QED
      BY <1>6, <3>1, OwnStep DEF Step, FindDup, FindParent, Insert, Emit, Write,
                                 Abort, Goto, TypeOK
  <2>2. CASE Load(r)
    <3>1. Permitted(call[r], rows[call[r].id]) /\ rows' = rows
      BY <2>2 DEF Load, Goto, TypeOK
    <3> QED
      BY <1>3, <3>1
  <2>3. CASE Count(r)
    <3>1. call[r].op \in {"deleteRole", "deleteTeam"}
      BY <2>3 DEF Sound, StepSound, Count
    <3> QED
      BY <1>3, <3>1 DEF Permitted
  <2> QED
    BY <2>1, <2>2, <2>3
<1> QED
  BY <1>5, <1>6

\* Two requests in progress at the same time know of each other.
LEMMA MeetingStep == TypeOK /\ MeetingsKnown /\ [Next]_vars => MeetingsKnown'
<1> SUFFICES ASSUME TypeOK, MeetingsKnown, [Next]_vars PROVE MeetingsKnown'
  OBVIOUS
<1> USE DEF MeetingsKnown, InProgress
<1>1. ASSUME NEW q \in Requests, Arrive(q) PROVE MeetingsKnown'
  <2>1. PICK c \in Call, step \in Steps : Asked(q, c, step)
    BY <1>1, Arrival
  <2>2. /\ pc' = [pc EXCEPT ![q] = step]
        /\ met' = [s \in Requests |-> IF s = q THEN InProgress
                                      ELSE IF s \in InProgress THEN met[s] \cup {q}
                                      ELSE met[s]]
    BY <2>1 DEF Asked, Start, Goto
  <2> QED
    BY <2>2 DEF TypeOK
<1>2. CASE ~(\E q \in Requests : Arrive(q))
  <2>1. met' = met
    BY <1>2 DEF Next, Step, FindDup, FindParent, Insert, Emit, Load, Count, Write,
                Abort, SignIn, HistoryUnchanged, vars
  <2>2. ASSUME NEW r \in Requests, pc'[r] \in Steps PROVE pc[r] \in Steps
    BY <1>2, <2>2, OwnStep DEF Step, FindDup, FindParent, Insert, Emit, Load,
                               Count, Write, Abort, Steps
  <2> QED
    BY <2>1, <2>2
<1> QED
  BY <1>1, <1>2

\* Only the UPDATE of a request that deletes it makes a row inactive.
LEMMA Deactivated ==
  ASSUME TypeOK, Sound, [Next]_vars, NEW x \in Ids, Active(x), ~Active(x)'
  PROVE  \E q \in Requests :
           /\ Write(q) /\ call[q].id = x /\ IsA(KindOf(call[q].op), x)
           /\ call[q].op \in {"deleteRole", "deleteTeam", "deleteUser"}
<1>1. rows'[x] # rows[x] /\ rows[x] # None /\ rows[x].active
  BY DEF Active
<1>2. PICK q \in Requests :
           \/ Insert(q) /\ x = q
           \/ Write(q) /\ x = call[q].id /\ rows'[x] = Written(q)
  BY <1>1, RowChange
<1>3. ~(Insert(q) /\ x = q)
  BY <1>1 DEF Insert, Sound, InsertedOnce
<1>4. Write(q) /\ pc[q] = "write" /\ AskSound(call[q]) /\ StepSound(q)
  BY <1>2, <1>3 DEF Write, Sound
<1>5. /\ Written(q) \in Row
      /\ Written(q).active # rows[x].active
           => call[q].op \in {"deleteRole", "deleteTeam", "deleteUser"}
  BY <1>2, <1>3, <1>4, WrittenRow
<1>6. rows'[x] # None /\ ~rows'[x].active
  BY <1>2, <1>3, <1>5, NoneAssumption DEF Active
<1> QED
  BY <1>1, <1>2, <1>3, <1>4, <1>5, <1>6 DEF AskSound, StepSound

\* The request that deletes a team or a role is one that Deletes it.
LEMMA ParentDeleted ==
  ASSUME TypeOK, Sound, [Next]_vars, NEW x \in Ids, Active(x), ~Active(x)',
         IsA("role", x) \/ IsA("team", x)
  PROVE  \E q \in Requests : Write(q) /\ Deletes(q, x)
<1>1. PICK q \in Requests :
           /\ Write(q) /\ call[q].id = x /\ IsA(KindOf(call[q].op), x)
           /\ call[q].op \in {"deleteRole", "deleteTeam", "deleteUser"}
  BY Deactivated
<1> QED
  BY <1>1 DEF Deletes, IsA, KindOf

\* A request that has found its parent keeps it, or meets who deletes it.
LEMMA ParentFoundStep ==
  ASSUME TypeOK, Sound, MeetingsKnown, [Next]_vars, NEW r \in Requests,
         ParentFound(r)
  PROVE  ParentFound(r)'
<1> SUFFICES ASSUME PastParent(r)'
             PROVE  \/ Active(call[r].parent)'
                    \/ \E s \in met'[r] : Deletes(s, call[r].parent)'
  BY DEF ParentFound
<1>0. PICK p : p = call[r].parent
  OBVIOUS
<1>1. Kept /\ TypeOK'
  BY NothingTakenBack, TypeStep
<1>2. PastParent(r) \/ (FindParent(r) /\ Active(p) /\ UNCHANGED rows)
  <2>1. CASE pc'[r] = pc[r] /\ call'[r] = call[r]
    BY <2>1 DEF PastParent
  <2>2. CASE Arrive(r)
    <3>1. PICK c \in Call, step \in Steps : Asked(r, c, step)
      BY <2>2, Arrival
    <3>2. pc'[r] = step /\ call'[r] = c
      BY <3>1 DEF Asked, Start, Goto, TypeOK
    <3> QED
      BY <3>1, <3>2 DEF Asked, PastParent
  <2>3. CASE FindDup(r)
    BY <2>3 DEF FindDup, PastParent, Sound, StepSound, Creating, Goto, TypeOK
  <2>4. CASE FindParent(r)
    BY <1>0, <2>4 DEF FindParent, PastParent, Finds, Goto, TypeOK
  <2>5. CASE Insert(r) \/ Emit(r) \/ Load(r) \/ Count(r) \/ Write(r) \/ Abort(r)
    BY <2>5 DEF Insert, Emit, Load, Count, Write, Abort, PastParent, Goto, TypeOK
  <2> QED
    BY <2>1, <2>2, <2>3, <2>4, <2>5, OwnStep DEF Step
<1>3. pc[r] \in {"dup", "parent", "insert"} /\ call'[r] = call[r]
  <2>1. pc[r] \in {"dup", "parent", "insert"}
    BY <1>2 DEF PastParent, FindParent
  <2> QED
    BY <2>1, CallIsFixed
<1>4. /\ call[r].op \in {"createTeam", "createUser"}
      /\ p \in Ids /\ (IsA("role", p) \/ IsA("team", p))
  BY <1>0, <1>2, <1>3 DEF Sound, StepSound, AskSound, PastParent, FindParent, IsA, Creating
<1>5. CASE Active(p)
  <2>1. CASE Active(p)'
    BY <1>0, <1>3, <2>1 DEF Active
  <2>2. CASE ~Active(p)'
    <3>1. PICK q \in Requests : Write(q) /\ Deletes(q, p)
      BY <1>4, <1>5, <2>2, ParentDeleted
    <3>2. pc[q] = "write" /\ q # r /\ q \in InProgress /\ r \in InProgress
      BY <1>3, <3>1 DEF Write, InProgress, Steps
    <3>3. q \in met[r] /\ met[r] \subseteq met'[r]
      BY <1>1, <1>3, <3>2 DEF MeetingsKnown, Kept
    <3>4. call'[q] = call[q]
      BY <3>2, CallIsFixed
    <3> QED
      BY <1>0, <1>3, <3>1, <3>3, <3>4 DEF Deletes
  <2> QED
    BY <2>1, <2>2
<1>6. CASE ~Active(p)
  <2>1. PICK s \in met[r] : Deletes(s, p)
    BY <1>0, <1>2, <1>6 DEF ParentFound
  <2>2. s \in Requests /\ pc[s] # "idle"
    BY <2>1, NoneAssumption DEF TypeOK, Deletes, Sound, StepSound, AllOps
  <2>3. call'[s] = call[s] /\ s \in met'[r]
    BY <1>1, <1>3, <2>1, <2>2, CallIsFixed DEF Kept
  <2> QED
    BY <1>0, <1>3, <2>1, <2>3 DEF Deletes
<1> QED
  BY <1>5, <1>6

\* Whoever deletes a parent has met all the requests that gave it children.
LEMMA ChildrenMetStep ==
  ASSUME TypeOK, Sound, MeetingsKnown, [Next]_vars, NEW s \in Requests,
         ChildrenMet(s)
  PROVE  ChildrenMet(s)'
<1> DEFINE p == call[s].id
<1> SUFFICES ASSUME DeletesNext(s)', NEW x \in Children(call[s].id)'
             PROVE  x \in Requests /\ s \in met'[x]
  BY DEF ChildrenMet
<1>1. Kept
  BY NothingTakenBack
<1>2. pc[s] \in {"count", "write"} /\ call'[s] = call[s]
      /\ call[s].op \in {"deleteTeam", "deleteRole"}
  <2>1. pc[s] \in {"load", "count", "write"}
    <3>1. CASE Arrive(s)
      <4>1. PICK c \in Call, step \in Steps : Asked(s, c, step)
        BY <3>1, Arrival
      <4>2. pc'[s] \in {"load", "dup", "parent"}
        BY <4>1 DEF Asked, Start, Goto, TypeOK
      <4> QED
        BY <4>2 DEF DeletesNext
    <3>2. CASE Step(s) \/ Abort(s)
      BY <3>2 DEF DeletesNext, Step, FindDup, FindParent, Insert, Emit, Load, Count,
                  Write, Abort, Goto, TypeOK
    <3> QED
      BY <3>1, <3>2, OwnStep DEF DeletesNext
  <2>2. call'[s] = call[s] /\ call[s].op \in {"deleteTeam", "deleteRole"}
    BY <2>1, CallIsFixed DEF DeletesNext
  <2>3. CASE pc[s] = "load"
    <3>1. Load(s)
      BY <2>3, OwnStep DEF DeletesNext, Arrive, Step, FindDup, FindParent, Insert,
                           Emit, Count, Write, Abort, Goto, TypeOK
    <3> QED
      BY <2>2, <3>1 DEF Load, DeletesNext, Goto, TypeOK
  <2> QED
    BY <2>1, <2>2, <2>3
<1>3. p \in Ids /\ rows[p] # None /\ Active(p)
  <2>1. p \in Ids /\ rows[p] # None
    BY <1>2 DEF Sound, StepSound, AskSound, IsA
  <2>2. rows'[p].active
    BY <1>2 DEF DeletesNext, Active
  <2> QED
    BY <1>1, <2>1, <2>2 DEF Kept, Active
<1>4. x \in Ids /\ rows'[x] # None /\ rows'[x].active /\ rows'[x].parent = p
  BY <1>2 DEF Children, Active
<1>5. CASE rows[x] = None
  <2>1. Insert(x) /\ x \in Requests
    <3>1. ASSUME NEW r \in Requests, Write(r), x = call[r].id PROVE FALSE
      BY <1>5, <3>1, WrittenRow, NoneAssumption DEF Write, Sound
    <3> QED
      BY <1>4, <1>5, <3>1, RowChange
  <2>2. x \in InProgress /\ s \in InProgress /\ x # s /\ pc[x] # "idle"
    BY <1>2, <2>1 DEF Insert, InProgress, Steps
  <2> QED
    BY <1>1, <2>1, <2>2 DEF MeetingsKnown, Kept
<1>6. CASE rows[x] # None
  <2>1. x \in Children(p)
    BY <1>1, <1>4, <1>6 DEF Kept, Children, Active
  <2>2. CASE pc[s] = "write"
    <3>1. x \in Requests /\ s \in met[x]
      BY <1>2, <1>3, <2>1, <2>2 DEF ChildrenMet, DeletesNext
    <3>2. pc[x] # "idle"
      BY <1>6, <3>1 DEF Sound, InsertedOnce
    <3> QED
      BY <1>1, <3>1, <3>2 DEF Kept
  <2>3. CASE pc[s] = "count"
    <3>1. Count(s)
      BY <2>3, OwnStep DEF DeletesNext, Arrive, Step, FindDup, FindParent, Insert,
                           Emit, Load, Write, Abort, Goto, TypeOK
    <3> QED
      BY <1>3, <2>1, <3>1 DEF Count, DeletesNext, Goto, TypeOK
  <2> QED
    BY <1>2, <2>2, <2>3
<1> QED
  BY <1>5, <1>6

\* An orphan is the child of a row deleted by somebody its creator met.
LEMMA OrphanStep ==
  ASSUME TypeOK, Sound, [Next]_vars, OrphansComeFromRaces,
         \A r \in Requests : ParentFound(r) /\ ChildrenMet(r)
  PROVE  OrphansComeFromRaces'
<1> SUFFICES ASSUME NEW x \in Ids, Active(x)', ~UnderActive(x)'
             PROVE  \E s \in Requests : /\ Deletes(s, rows[x].parent)'
                                        /\ x \in Requests /\ s \in met'[x]
  BY DEF OrphansComeFromRaces, Deletes
<1>0. PICK p : p = rows'[x].parent
  OBVIOUS
<1>1. Kept
  BY NothingTakenBack
<1>2. rows'[x] # None /\ rows'[x].active /\ p # None /\ ~Active(p)'
  BY <1>0 DEF Active, UnderActive
<1>3. ASSUME NEW s \in Requests, Deletes(s, p), x \in Requests, s \in met[x],
             pc[x] # "idle"
      PROVE  Deletes(s, rows[x].parent)' /\ s \in met'[x]
  <2>1. pc[s] # "idle"
    BY <1>3, NoneAssumption DEF Deletes, Sound, StepSound, AllOps
  <2> QED
    BY <1>0, <1>1, <1>3, <2>1, CallIsFixed DEF Deletes, Kept
<1>4. CASE rows[x] = None
  <2>1. x \in Requests /\ Insert(x) /\ rows'[x] = NewRow(call[x])
        /\ \A y \in Ids \ {x} : rows'[y] = rows[y]
    <3>1. ASSUME NEW r \in Requests, Write(r), x = call[r].id PROVE FALSE
      BY <1>4, <3>1, WrittenRow, NoneAssumption DEF Write, Sound
    <3> QED
      BY <1>2, <1>4, <3>1, RowChange
  <2>2. call[x] \in Call /\ call[x].op \in Creating /\ AskSound(call[x])
        /\ pc[x] = "insert"
    BY <2>1 DEF Insert, Sound, StepSound, TypeOK
  <2>3. p = call[x].parent /\ call[x].op # "createRole"
        /\ (IsA("role", p) \/ IsA("team", p))
    BY <1>0, <1>2, <2>1, <2>2, NewRowTyped
  <2>4. ~Active(p)
    BY <1>2, <1>4, <2>1, <2>3 DEF Active, IsA
  <2>5. PICK s \in met[x] : Deletes(s, p)
    BY <2>1, <2>2, <2>3, <2>4 DEF ParentFound, PastParent
  <2> QED
    BY <1>3, <2>1, <2>2, <2>5 DEF TypeOK
<1>5. CASE rows[x] # None
  <2>1. p = rows[x].parent /\ Active(x)
    BY <1>0, <1>1, <1>2, <1>5 DEF Kept, Active
  <2>2. CASE ~Active(p)
    <3>1. PICK s \in Requests : Deletes(s, p) /\ x \in Requests /\ s \in met[x]
      BY <1>2, <2>1, <2>2 DEF OrphansComeFromRaces, UnderActive, Deletes
    <3>2. pc[x] # "idle"
      BY <1>5, <3>1 DEF Sound, InsertedOnce
    <3> QED
      BY <1>3, <3>1, <3>2
  <2>3. CASE Active(p)
    <3>1. p \in Ids /\ (IsA("role", p) \/ IsA("team", p))
      BY <1>2, <1>5, <2>1 DEF TypeOK, WellFormed, IsA
    <3>2. PICK q \in Requests : Write(q) /\ Deletes(q, p)
      BY <1>2, <2>3, <3>1, ParentDeleted
    <3>3. DeletesNext(q) /\ x \in Children(p) /\ p = call[q].id
      BY <2>1, <2>3, <3>2 DEF DeletesNext, Deletes, Write, Children
    <3>4. x \in Requests /\ q \in met[x]
      BY <3>3 DEF ChildrenMet
    <3>5. pc[x] # "idle"
      BY <1>5, <3>4 DEF Sound, InsertedOnce
    <3> QED
      BY <1>3, <3>2, <3>4, <3>5
  <2> QED
    BY <2>2, <2>3
<1> QED
  BY <1>4, <1>5

\* The index refuses what would duplicate a key.
LEMMA KeysStep == TypeOK /\ Sound /\ KeysAreUnique /\ [Next]_vars => KeysAreUnique'
<1> SUFFICES ASSUME TypeOK, Sound, KeysAreUnique, [Next]_vars,
                    NEW x \in Ids, NEW y \in Ids, Active(x)', Active(y)',
                    rows'[x].kind = rows'[y].kind, rows'[x].key = rows'[y].key
             PROVE  x = y
  BY DEF KeysAreUnique
<1>1. ASSUME NEW v \in Ids, NEW w \in Ids, v # w, Active(v)', Active(w)',
             rows'[v] # rows[v], rows'[v].kind = rows'[w].kind,
             rows'[v].key = rows'[w].key
      PROVE  FALSE
  <2>1. rows'[w] = rows[w]
    BY <1>1, RowChange
  <2>2. PICK r \in Requests :
          \/ rows'[v] = NewRow(call[r]) /\ v = r /\ ~Clashes(r, NewRow(call[r]))
          \/ rows'[v] = Written(r) /\ ~Clashes(v, Written(r))
    BY <1>1, RowChange
  <2>3. ~Clashes(v, rows'[v])
    BY <2>2
  <2> QED
    BY <1>1, <2>1, <2>3 DEF Clashes, Active
<1>2. CASE rows'[x] = rows[x] /\ rows'[y] = rows[y]
  BY <1>2 DEF KeysAreUnique, Active
<1> QED
  BY <1>1, <1>2

\* The event of a user is emitted by the request that has inserted his row.
LEMMA EmittedStep ==
  TypeOK /\ Sound /\ EmittedIsCreated /\ [Next]_vars => EmittedIsCreated'
<1> SUFFICES ASSUME TypeOK, Sound, EmittedIsCreated, [Next]_vars, NEW x \in emitted'
             PROVE  IsA("user", x)'
  BY DEF EmittedIsCreated
<1>1. Kept
  BY NothingTakenBack
<1>2. CASE x \in emitted
  BY <1>1, <1>2, IsAStays DEF EmittedIsCreated
<1>3. CASE x \notin emitted
  <2>1. ASSUME NEW r \in Requests, Arrive(r) PROVE FALSE
    <3>1. PICK c \in Call, step \in Steps : Asked(r, c, step)
      BY <2>1, Arrival
    <3> QED
      BY <1>3, <3>1 DEF Asked, Start
  <2>2. x \in Requests /\ Emit(x)
    BY <1>3, <2>1 DEF Next, Step, FindDup, FindParent, Insert, Emit, Load, Count,
                      Write, Abort, SignIn, vars
  <2>3. IsA("user", x)
    BY <2>2 DEF Sound, InsertedOnce, Emit
  <2> QED
    BY <1>1, <2>3, IsAStays
<1> QED
  BY <1>2, <1>3

\* A request adds at most its own row.
LEMMA FiniteStep ==
  TypeOK /\ Sound /\ RowsAreFinite /\ [Next]_vars => RowsAreFinite'
<1> SUFFICES ASSUME TypeOK, Sound, RowsAreFinite, [Next]_vars PROVE RowsAreFinite'
  OBVIOUS
<1> DEFINE There == {x \in Ids : rows[x] # None}
<1>1. CASE rows' = rows
  BY <1>1 DEF RowsAreFinite
<1>2. ASSUME NEW v \in Ids, rows'[v] # rows[v] PROVE RowsAreFinite'
  <2>1. There' \subseteq There \cup {v}
    BY <1>2, RowChange
  <2>2. IsFiniteSet(There \cup {v})
    BY FS_AddElement DEF RowsAreFinite
  <2> QED
    BY <2>1, <2>2, FS_Subset DEF RowsAreFinite
<1>3. rows' = rows \/ \E v \in Ids : rows'[v] # rows[v]
  <2>1. TypeOK'
    BY TypeStep
  <2> QED
    BY <2>1 DEF TypeOK
<1> QED
  BY <1>1, <1>2, <1>3

\* A team whose first leader appears is noted at once.
LEMMA LeadersKnownStep ==
  TypeOK /\ Sound /\ LeadersKnown /\ [Next]_vars => LeadersKnown'
<1> SUFFICES ASSUME TypeOK, Sound, LeadersKnown, [Next]_vars,
                    NEW u \in Ids, NEW t \in Ids, Leads(u, t)'
             PROVE  t \in led'
  BY DEF LeadersKnown
<1>1. Kept
  BY NothingTakenBack
<1>2. /\ rows'[u] # None /\ rows'[u].active /\ rows'[u].kind = "user"
      /\ rows'[u].parent = t /\ rows'[u].position = "LEADER"
  BY DEF Leads, IsA, Active
<1>3. CASE rows'[u] = rows[u]
  BY <1>1, <1>2, <1>3 DEF LeadersKnown, Leads, IsA, Active, Kept
<1>4. CASE rows'[u] # rows[u]
  <2>1. ASSUME NEW r \in Requests, Insert(r), u = r, rows'[u] = NewRow(call[r])
        PROVE  t \in led'
    <3>1. call[r].position = "LEADER" /\ call[r].parent = t
      BY <1>2, <2>1 DEF NewRow
    <3> QED
      BY <1>4, <2>1, <3>1 DEF Insert
  <2>2. ASSUME NEW r \in Requests, Write(r), u = call[r].id, rows'[u] = Written(r)
        PROVE  t \in led'
    <3>1. Written(r).parent = rows[u].parent
      BY <2>2, WrittenRow DEF Write, Sound
    <3> QED
      BY <1>2, <1>4, <2>2, <3>1 DEF Write
  <2> QED
    BY <1>4, <2>1, <2>2, RowChange
<1> QED
  BY <1>3, <1>4

\* A leader who changes his team is not the one who leaves it.
LEMMA LeaderStep ==
  ASSUME TypeOK, Sound, LeaderRemains, [Next]_vars,
         \A r \in Requests : WriteGranted(r)
  PROVE  LeaderRemains'
<1> SUFFICES ASSUME NEW t \in led' \ tainted' PROVE \E u \in Ids : Leads(u, t)'
  BY DEF LeaderRemains
<1>1. ASSUME NEW u \in Ids, Leads(u, t), rows'[u] = rows[u] PROVE Leads(u, t)'
  BY <1>1 DEF Leads, IsA, Active
<1>2. tainted \subseteq tainted'
  <2>1. ASSUME NEW r \in Requests, Arrive(r) PROVE tainted' = tainted
    <3>1. PICK c \in Call, step \in Steps : Asked(r, c, step)
      BY <2>1, Arrival
    <3> QED
      BY <3>1 DEF Asked, Start
  <2> QED
    BY <2>1 DEF Next, Step, FindDup, FindParent, Insert, Emit, Load, Count, Write,
                Abort, SignIn, HistoryUnchanged, vars
<1>3. CASE t \in led
  <2>1. PICK u \in Ids : Leads(u, t)
    BY <1>2, <1>3 DEF LeaderRemains
  <2>2. CASE rows'[u] = rows[u]
    BY <1>1, <2>1, <2>2
  <2>3. ASSUME NEW r \in Requests, Write(r), u = call[r].id, rows'[u] = Written(r),
               rows'[u] # rows[u]
        PROVE  \E v \in Ids : Leads(v, t)'
    <3> DEFINE c == call[r]
    <3>1. pc[r] = "write" /\ AskSound(c) /\ StepSound(r) /\ Permitted(c, rows[u])
      BY <2>3 DEF Write, Sound, WriteGranted
    <3>2. /\ Written(r).kind = "user" /\ rows[u].parent = t
          /\ c.op = "deleteUser" \/ (c.op = "updateUser" /\ c.position # None)
      BY <2>1, <2>3, <3>1, WrittenRow DEF Leads, IsA
    <3>3. ~c.actor.super /\ Leads(c.actor.id, t)
      BY <2>3, <3>2 DEF Write
    <3>4. c.actor.id # u /\ c.actor.id \in Ids
      BY <2>3, <3>1, <3>2, <3>3 DEF Permitted, Authorize, AuthorizeChangeRole,
         CanDelete, IsSelf, Leads, IsA
    <3>5. rows'[c.actor.id] = rows[c.actor.id]
      BY <2>3, <3>4, RowChange
    <3> QED
      BY <1>1, <3>3, <3>4, <3>5
  <2>4. ASSUME NEW r \in Requests, Insert(r), u = r PROVE FALSE
    BY <2>1, <2>4 DEF Insert, Sound, InsertedOnce, Leads, IsA
  <2> QED
    BY <2>2, <2>3, <2>4, RowChange
<1>4. CASE t \notin led
  <2>1. ASSUME NEW r \in Requests, Insert(r) PROVE \E u \in Ids : Leads(u, t)'
    <3>1. /\ call[r].position = "LEADER" /\ call[r].parent = t
          /\ rows'[r] = NewRow(call[r]) /\ r \in Ids
      BY <1>4, <2>1 DEF Insert, TypeOK, Ids
    <3>2. call[r] \in Call /\ call[r].op \in Creating /\ AskSound(call[r])
      BY <2>1 DEF Insert, Sound, StepSound, TypeOK
    <3>3. /\ NewRow(call[r]) # None /\ NewRow(call[r]).kind = "user"
          /\ NewRow(call[r]).active /\ NewRow(call[r]).parent = t
          /\ NewRow(call[r]).position = "LEADER"
      BY <3>1, <3>2, NewRowTyped, NoneAssumption DEF Positions
    <3> QED
      BY <3>1, <3>3 DEF Leads, IsA, Active
  <2>2. ASSUME NEW r \in Requests, Write(r) PROVE \E u \in Ids : Leads(u, t)'
    <3> DEFINE x == call[r].id
    <3>1. /\ Written(r) \in Row /\ x \in Ids
          /\ Written(r).parent = rows[x].parent
      BY <2>2, WrittenRow DEF Write, Sound
    <3>2. /\ Written(r).kind = "user" /\ Written(r).active /\ rows[x].parent = t
          /\ Written(r).position = "LEADER" /\ rows' = [rows EXCEPT ![x] = Written(r)]
      BY <1>4, <2>2 DEF Write
    <3>3. PICK u \in Ids : u = x
      BY <3>1
    <3>4. rows'[u] = Written(r) /\ Written(r) # None
      BY <3>1, <3>2, <3>3, NoneAssumption DEF TypeOK
    <3> QED
      BY <3>1, <3>2, <3>3, <3>4 DEF Leads, IsA, Active
  <2>3. \E r \in Requests : Insert(r) \/ Write(r)
    <3>1. ASSUME NEW r \in Requests, Arrive(r) PROVE led' = led
      <4>1. PICK c \in Call, step \in Steps : Asked(r, c, step)
        BY <3>1, Arrival
      <4> QED
        BY <4>1 DEF Asked, Start
    <3> QED
      BY <1>4, <3>1 DEF Next, Step, FindDup, FindParent, Emit, Load, Count,
                        Abort, SignIn, HistoryUnchanged, vars
  <2> QED
    BY <2>1, <2>2, <2>3
<1> QED
  BY <1>3, <1>4
-----------------------------------------------------------------------------
(* The inductive invariant *)

\* The seeded tables and no request at all.
LEMMA InitSound == Init => IdentityInv
<1> SUFFICES ASSUME Init PROVE IdentityInv
  OBVIOUS
<1>1. ASSUME NEW x \in Ids
      PROVE  /\ rows[x] # None <=> x \in DOMAIN SeedRows
             /\ x \in DOMAIN SeedRows => rows[x] = SeedRows[x] /\ rows[x] \in Row
  BY <1>1, SeedAssumption, NoneAssumption DEF Init
<1>2. rows \in [Ids -> Row \cup {None}]
  <2>1. rows = [x \in Ids |-> rows[x]]
    BY DEF Init
  <2> QED
    BY <1>1, <2>1
<1>3. ASSUME NEW x \in Ids, rows[x] # None
      PROVE  /\ WellFormed(x)
             /\ rows[x].active => rows[x].parent = None \/ Active(rows[x].parent)
             /\ \A y \in Ids : rows[y] # None /\ rows[x].active /\ rows[y].active
                  /\ rows[x].kind = rows[y].kind /\ rows[x].key = rows[y].key => x = y
  <2>1. x \in DOMAIN SeedRows /\ rows[x] = SeedRows[x] /\ rows[x] \in Row
    BY <1>1, <1>3
  <2>2. rows[x].kind \in {"role", "team", "user"}
    BY <2>1 DEF Row, Kinds
  <2>3. /\ rows[x].kind = "role" => /\ rows[x].parent = None
                                    /\ rows[x].position = None
                                    /\ rows[x].key \in RoleNames
        /\ rows[x].kind = "team" => /\ rows[x].parent \in DOMAIN SeedRows
                                    /\ SeedRows[rows[x].parent].kind = "role"
                                    /\ rows[x].position = None
                                    /\ rows[x].key \in TeamNames
        /\ rows[x].kind = "user" => /\ rows[x].parent \in DOMAIN SeedRows
                                    /\ SeedRows[rows[x].parent].kind = "team"
                                    /\ rows[x].position # None
                                    /\ rows[x].key \in Emails
        /\ rows[x].kind \in {"team", "user"} /\ rows[x].active
             => SeedRows[rows[x].parent].active
    BY <2>1, <2>2, SeedAssumption
  <2>4. rows[x].parent \in DOMAIN SeedRows
          => /\ rows[x].parent \in Ids /\ rows[rows[x].parent] # None
             /\ rows[rows[x].parent] = SeedRows[rows[x].parent]
    BY <1>1 DEF Ids
  <2>5. WellFormed(x)
    BY <1>3, <2>2, <2>3, <2>4 DEF WellFormed, IsA
  <2>6. rows[x].active => rows[x].parent = None \/ Active(rows[x].parent)
    BY <2>2, <2>3, <2>4 DEF Active
  <2>7. \A y \in DOMAIN SeedRows :
          /\ SeedRows[x].active /\ SeedRows[y].active
          /\ SeedRows[x].kind = SeedRows[y].kind /\ SeedRows[x].key = SeedRows[y].key
          => x = y
    BY <2>1, SeedAssumption
  <2>8. \A y \in Ids : rows[y] # None /\ rows[x].active /\ rows[y].active
          /\ rows[x].kind = rows[y].kind /\ rows[x].key = rows[y].key => x = y
    BY <1>1, <2>1, <2>7
  <2> QED
    BY <2>5, <2>6, <2>8
<1>4. TypeOK
  <2>1. NoCall \in Call
    BY DEF NoCall, Call
  <2> QED
    BY <1>2, <1>3, <2>1 DEF Init, TypeOK
<1>5. ASSUME NEW r \in Requests
      PROVE  /\ AskSound(call[r]) /\ StepSound(r) /\ InsertedOnce(r) /\ WriteGranted(r)
             /\ ParentFound(r) /\ ChildrenMet(r)
  <2>1. /\ call[r].op = None /\ pc[r] = "idle" /\ rows[r] = None
    BY <1>1, SeedAssumption DEF Init, NoCall, Ids
  <2>2. call[r].op \notin AllOps
    BY <2>1, NoneAssumption
  <2> QED
    BY <2>1, <2>2 DEF AskSound, StepSound, InsertedOnce, WriteGranted, ParentFound,
       PastParent, ChildrenMet, DeletesNext, AllOps
<1>6. MeetingsKnown /\ EmittedIsCreated /\ \A who \in tokens : TokenSound(who)
  BY DEF Init, MeetingsKnown, InProgress, Steps, EmittedIsCreated
<1>7. LeadersKnown /\ LeaderRemains
  BY DEF Init, LeadersKnown, LeaderRemains
<1>8. RowsAreFinite
  <2>1. {x \in Ids : rows[x] # None} \subseteq DOMAIN SeedRows
    BY <1>1
  <2> QED
    BY <2>1, SeedAssumption, FS_Subset DEF RowsAreFinite
<1>9. KeysAreUnique
  BY <1>3 DEF KeysAreUnique, Active
<1>10. OrphansComeFromRaces
  BY <1>3 DEF OrphansComeFromRaces, Active, UnderActive
<1> QED
  BY <1>4, <1>5, <1>6, <1>7, <1>8, <1>9, <1>10 DEF IdentityInv

\* The invariant holds of every reachable state.
THEOREM IdentityInvariant == Spec => []IdentityInv
<1>1. IdentityInv /\ [Next]_vars => IdentityInv'
  <2> SUFFICES ASSUME IdentityInv, [Next]_vars PROVE IdentityInv'
    OBVIOUS
  <2>1. TypeOK /\ Sound
    BY DEF IdentityInv, Sound
  <2>2. TypeOK' /\ Sound'
    BY <2>1, TypeStep, SoundStep
  <2>3. \A r \in Requests : WriteGranted(r)' /\ ParentFound(r)' /\ ChildrenMet(r)'
    BY <2>1, GrantedStep, ParentFoundStep, ChildrenMetStep DEF IdentityInv
  <2>4. \A who \in tokens' : TokenSound(who)'
    BY <2>1, TokenStep DEF IdentityInv
  <2>5. MeetingsKnown' /\ LeadersKnown' /\ RowsAreFinite'
    BY <2>1, MeetingStep, LeadersKnownStep, FiniteStep DEF IdentityInv
  <2>6. KeysAreUnique' /\ OrphansComeFromRaces' /\ EmittedIsCreated' /\ LeaderRemains'
    BY <2>1, KeysStep, OrphanStep, EmittedStep, LeaderStep DEF IdentityInv
  <2> QED
    BY <2>2, <2>3, <2>4, <2>5, <2>6 DEF IdentityInv, Sound
<1> QED
  BY InitSound, <1>1, PTL DEF Spec

\* Every variable keeps its type, and every row its columns and a parent of the
\* right kind, for any tables to begin with and any requests.
THEOREM TypeCorrect == Spec => []TypeOK
<1>1. IdentityInv => TypeOK
  BY DEF IdentityInv
<1> QED
  BY <1>1, IdentityInvariant, PTL

\* No two active roles, teams or users share a name or an email, however their
\* creations and renames interleave (create*, update* of the three services).
THEOREM KeysStayUnique == Spec => []KeysAreUnique
<1>1. IdentityInv => KeysAreUnique
  BY DEF IdentityInv
<1> QED
  BY <1>1, IdentityInvariant, PTL

\* An active team or user without an active parent was created by a request that
\* was in progress together with the one that deleted the parent (deleteTeam and
\* deleteRole count the children in a statement of its own).
THEOREM OrphansHaveMet == Spec => []OrphansComeFromRaces
<1>1. IdentityInv => OrphansComeFromRaces
  BY DEF IdentityInv
<1> QED
  BY <1>1, IdentityInvariant, PTL

\* USER_CREATED is emitted only for users whose INSERT succeeded (createUser).
THEOREM EventsAreTrue == Spec => []EmittedIsCreated
<1>1. IdentityInv => EmittedIsCreated
  BY DEF IdentityInv
<1> QED
  BY <1>1, IdentityInvariant, PTL

\* A team that had a leader keeps one, unless SUPER or somebody who is no leader
\* of it any more changed its users: nobody who may change a team's users may
\* change his own position or account (UserResourcePolicy).
THEOREM TeamsKeepALeader == Spec => []LeaderRemains
<1>1. IdentityInv => LeaderRemains
  BY DEF IdentityInv
<1> QED
  BY <1>1, IdentityInvariant, PTL
-----------------------------------------------------------------------------
(* Who writes what *)

\* A user's row is written only for SUPER or for an actor of the same team, and
\* only SUPER writes his own row or one of a team that never had a leader,
\* however old the actor's token is (UserResourcePolicy, createUser, updateUser,
\* deleteUser).
THEOREM TeamsStayIsolated == Spec => TeamsAreIsolated
<1> DEFINE Isolated ==
      \A x \in Ids : rows'[x] # rows[x] /\ rows'[x].kind = "user" =>
        \E r \in Requests :
          LET who == call[r].actor
          IN /\ pc[r] \in {"insert", "write"} /\ pc'[r] # pc[r]
             /\ \/ who.super
                \/ /\ rows[who.id].parent = rows'[x].parent
                   /\ who.id # x
                   /\ rows'[x].parent \in led
<1>1. IdentityInv /\ [Next]_vars => Isolated
  <2> SUFFICES ASSUME IdentityInv, [Next]_vars, NEW x \in Ids, rows'[x] # rows[x],
                      rows'[x].kind = "user"
               PROVE  \E r \in Requests :
                        /\ pc[r] \in {"insert", "write"} /\ pc'[r] # pc[r]
                        /\ \/ call[r].actor.super
                           \/ /\ rows[call[r].actor.id].parent = rows'[x].parent
                              /\ call[r].actor.id # x
                              /\ rows'[x].parent \in led
    OBVIOUS
  <2>1. TypeOK /\ Sound
    BY DEF IdentityInv, Sound
  <2>2. ASSUME NEW r \in Requests, call[r].op # None
        PROVE  /\ IsA("user", call[r].actor.id)
               /\ rows[call[r].actor.id].parent = call[r].actor.team
               /\ call[r].actor.position = "LEADER" => call[r].actor.team \in led
    BY <2>1, <2>2 DEF IdentityInv, Sound, StepSound, TokenSound
  <2>3. ASSUME NEW r \in Requests, Insert(r), x = r, rows'[x] = NewRow(call[r])
        PROVE  /\ pc[r] \in {"insert", "write"} /\ pc'[r] # pc[r]
               /\ \/ call[r].actor.super
                  \/ /\ rows[call[r].actor.id].parent = rows'[x].parent
                     /\ call[r].actor.id # x
                     /\ rows'[x].parent \in led
    <3>1. call[r] \in Call /\ call[r].op \in Creating /\ AskSound(call[r])
          /\ call[r].op # None /\ pc[r] = "insert" /\ pc'[r] # pc[r]
      BY <2>1, <2>3 DEF Insert, Sound, StepSound, TypeOK, Goto
    <3>2. call[r].op = "createUser" /\ rows'[x].parent = call[r].parent
      BY <2>1, <2>3, <3>1, NewRowTyped
    <3>3. Authorize(call[r].actor, "create", None, call[r].parent)
      BY <3>1, <3>2 DEF AskSound
    <3>4. call[r].actor.super \/ IsTeamOwner(call[r].actor, call[r].parent)
      BY <3>3 DEF Authorize
    <3>5. call[r].actor.id # r
      BY <2>1, <2>2, <3>1 DEF Sound, InsertedOnce, IsA
    <3> QED
      BY <2>2, <2>3, <3>1, <3>2, <3>4, <3>5 DEF IsTeamOwner
  <2>4. ASSUME NEW r \in Requests, Write(r), x = call[r].id, rows'[x] = Written(r)
        PROVE  /\ pc[r] \in {"insert", "write"} /\ pc'[r] # pc[r]
               /\ \/ call[r].actor.super
                  \/ /\ rows[call[r].actor.id].parent = rows'[x].parent
                     /\ call[r].actor.id # x
                     /\ rows'[x].parent \in led
    <3>1. AskSound(call[r]) /\ StepSound(r) /\ call[r].op # None /\ pc[r] = "write"
          /\ pc'[r] # pc[r] /\ Permitted(call[r], rows[x])
      BY <2>1, <2>4 DEF Write, Sound, StepSound, TypeOK, Goto, IdentityInv, WriteGranted
    <3>2. /\ rows'[x].parent = rows[x].parent
          /\ \/ call[r].op = "deleteUser"
             \/ call[r].op = "updateUser" /\ call[r].position # None
      BY <2>1, <2>4, <3>1, WrittenRow
    <3>3. \/ call[r].actor.super
          \/ IsTeamOwner(call[r].actor, rows[x].parent) /\ call[r].actor.id # x
      BY <2>4, <3>1, <3>2 DEF Permitted, Authorize, AuthorizeChangeRole, CanDelete,
         IsSelf
    <3> QED
      BY <2>2, <3>1, <3>2, <3>3 DEF IsTeamOwner
  <2> QED
    BY <2>1, <2>3, <2>4, RowChange
<1> QED
  BY <1>1, IdentityInvariant, PTL DEF Spec, TeamsAreIsolated

\* Requests that change the same row do not undo each other: a step changes one
\* column, to what its request was asked to write, and nothing undeletes a row
\* (save and cascadeSoftDeleteAndFlush of BaseRepository).
THEOREM WritesNeverUndo == Spec => WritesMerge
<1> DEFINE Merged ==
      \A x \in Ids : rows[x] # None /\ rows'[x] # rows[x] =>
        \E r \in Requests :
          LET c == call[r]
          IN /\ pc[r] = "write" /\ c.id = x
             /\ rows'[x] \in {[rows[x] EXCEPT !.active = FALSE],
                              [rows[x] EXCEPT !.position = c.position],
                              [rows[x] EXCEPT !.key = c.key]}
             /\ rows'[x].active # rows[x].active =>
                   c.op \in {"deleteRole", "deleteTeam", "deleteUser"}
<1>1. IdentityInv /\ [Next]_vars => Merged
  <2> SUFFICES ASSUME IdentityInv, [Next]_vars, NEW x \in Ids, rows[x] # None,
                      rows'[x] # rows[x]
               PROVE  \E r \in Requests :
                        /\ pc[r] = "write" /\ call[r].id = x
                        /\ rows'[x] \in {[rows[x] EXCEPT !.active = FALSE],
                                         [rows[x] EXCEPT !.position = call[r].position],
                                         [rows[x] EXCEPT !.key = call[r].key]}
                        /\ rows'[x].active # rows[x].active =>
                              call[r].op \in {"deleteRole", "deleteTeam", "deleteUser"}
    OBVIOUS
  <2>1. TypeOK /\ Sound
    BY DEF IdentityInv, Sound
  <2>2. PICK r \in Requests :
          \/ Insert(r) /\ x = r
          \/ Write(r) /\ x = call[r].id /\ rows'[x] = Written(r)
    BY <2>1, RowChange
  <2>3. ~(Insert(r) /\ x = r)
    BY <2>1 DEF Insert, Sound, InsertedOnce
  <2>4. /\ pc[r] = "write" /\ x = call[r].id /\ rows'[x] = Written(r)
        /\ AskSound(call[r]) /\ StepSound(r)
    BY <2>1, <2>2, <2>3 DEF Write, Sound
  <2>5. /\ Written(r) \in {[rows[x] EXCEPT !.active = FALSE],
                           [rows[x] EXCEPT !.position = call[r].position],
                           [rows[x] EXCEPT !.key = call[r].key], rows[x]}
        /\ Written(r).active # rows[x].active
             => call[r].op \in {"deleteRole", "deleteTeam", "deleteUser"}
    BY <2>1, <2>4, WrittenRow
  <2> QED
    BY <2>4, <2>5
<1> QED
  BY <1>1, IdentityInvariant, PTL DEF Spec, WritesMerge

-----------------------------------------------------------------------------
(* The roster *)

\* The teams that the roster joins with their role.
Joined == {t \in Ids : IsA("team", t) /\ Active(t) /\ Active(rows[t].parent)}

\* The row of one team, without the joins.
RosterRow(t) ==
  [team |-> t, role |-> rows[t].parent, memberCount |-> Cardinality(Joining(t)),
   leaderCount |-> Cardinality({u \in Joining(t) : rows[u].position = "LEADER"})]

\* Joining and grouping give one row for each team with an active role.
LEMMA RosterRows == Roster = {RosterRow(t) : t \in Joined}
<1> DEFINE Met(t) == IF Joining(t) = {} THEN {None} ELSE Joining(t)
           Pairs == {<<j[1], j[2]>> : j \in RosterJoin}
           Members(g) == {j[3] : j \in {j \in RosterJoin : j[1] = g[1]}} \ {None}
           RowOf(g) ==
             [team |-> g[1], role |-> g[2], memberCount |-> Cardinality(Members(g)),
              leaderCount |-> Cardinality({u \in Members(g) : rows[u].position = "LEADER"})]
<1>1. RosterJoin = UNION {{<<t, rows[t].parent, u>> : u \in Met(t)} : t \in Joined}
  BY DEF RosterJoin, Joined
<1>2. \A t \in Joined : Met(t) # {} /\ Met(t) \ {None} = Joining(t)
  <2>1. \A t : None \notin Joining(t)
    BY NoneAssumption DEF Joining
  <2> QED
    BY <2>1
<1> HIDE DEF Met
<1>3. ASSUME NEW j
      PROVE  j \in RosterJoin <=> \E t \in Joined : \E u \in Met(t) :
                                    j = <<t, rows[t].parent, u>>
  BY <1>1
<1>4. Pairs = {<<t, rows[t].parent>> : t \in Joined}
  <2>1. ASSUME NEW t \in Joined PROVE <<t, rows[t].parent>> \in Pairs
    <3>1. PICK u \in Met(t) : TRUE
      BY <1>2
    <3>2. <<t, rows[t].parent, u>> \in RosterJoin
      BY <1>3
    <3> QED
      BY <3>2
  <2>2. ASSUME NEW j \in RosterJoin
        PROVE  <<j[1], j[2]>> \in {<<t, rows[t].parent>> : t \in Joined}
    BY <1>3
  <2> QED
    BY <2>1, <2>2
<1>5. ASSUME NEW t \in Joined PROVE Members(<<t, rows[t].parent>>) = Joining(t)
  <2>1. ASSUME NEW u \in Met(t)
        PROVE  \E j \in RosterJoin : j[1] = t /\ j[3] = u
    <3>1. <<t, rows[t].parent, u>> \in RosterJoin
      BY <1>3
    <3> QED
      BY <3>1
  <2>2. ASSUME NEW j \in RosterJoin, j[1] = t PROVE j[3] \in Met(t)
    BY <1>3, <2>2
  <2>3. {j[3] : j \in {j \in RosterJoin : j[1] = t}} = Met(t)
    BY <2>1, <2>2
  <2> QED
    BY <1>2, <2>3
<1>6. ASSUME NEW t \in Joined PROVE RowOf(<<t, rows[t].parent>>) = RosterRow(t)
  BY <1>5 DEF RosterRow
<1>7. Roster = {RowOf(g) : g \in Pairs}
  BY DEF Roster
<1> HIDE DEF RowOf, Pairs, Members
<1> QED
  BY <1>4, <1>6, <1>7

\* The roster shows the teams that the filtered lists are bound to show, once
\* each, counts the users that they may show, and a leader for every team that
\* has kept one (TeamRosterReadModel).
THEOREM RosterIsRight == Spec => []RosterAgrees
<1>1. IdentityInv => RosterAgrees
  <2> SUFFICES ASSUME IdentityInv PROVE RosterAgrees
    OBVIOUS
  <2>1. TypeOK /\ LeaderRemains /\ RowsAreFinite
    BY DEF IdentityInv
  <2>2. Joined = {t \in Ids : Finds("team", t) /\ ~Misses("team", t)}
    <3>1. ASSUME NEW t \in Ids, IsA("team", t) PROVE rows[t].parent # None
      BY <2>1, <3>1, NoneAssumption DEF TypeOK, WellFormed, IsA
    <3> QED
      BY <3>1 DEF Joined, Finds, Misses, UnderActive
  <2>3. {row.team : row \in Roster} = Joined
    <3>1. \A t : RosterRow(t).team = t
      BY DEF RosterRow
    <3> QED
      BY <3>1, RosterRows
  <2>4. ASSUME NEW row \in Roster, NEW other \in Roster, row.team = other.team
        PROVE  row = other
    <3>1. PICK t \in Joined, v \in Joined : row = RosterRow(t) /\ other = RosterRow(v)
      BY RosterRows
    <3>2. t = v
      BY <2>4, <3>1 DEF RosterRow
    <3> QED
      BY <3>1, <3>2
  <2>5. ASSUME NEW row \in Roster
        PROVE  /\ row.memberCount =
                    Cardinality({u \in Ids : Finds("user", u) /\ rows[u].parent = row.team})
               /\ row.team \in led \ tainted => row.leaderCount # 0
    <3>1. PICK t \in Joined : row = RosterRow(t)
      BY RosterRows
    <3>2. row.team = t /\ row.memberCount = Cardinality(Joining(t))
          /\ row.leaderCount = Cardinality({u \in Joining(t) : rows[u].position = "LEADER"})
      BY <3>1 DEF RosterRow
    <3>3. Joining(t) = {u \in Ids : Finds("user", u) /\ rows[u].parent = t}
      BY DEF Joining, Finds
    <3>4. ASSUME t \in led \ tainted
          PROVE  Cardinality({u \in Joining(t) : rows[u].position = "LEADER"}) # 0
      <4> DEFINE L == {u \in Joining(t) : rows[u].position = "LEADER"}
      <4>1. PICK u \in Ids : Leads(u, t)
        BY <2>1, <3>4 DEF LeaderRemains
      <4>2. u \in L
        BY <4>1 DEF Joining, Leads
      <4>3. L \subseteq {x \in Ids : rows[x] # None}
        BY DEF Joining, IsA
      <4>4. IsFiniteSet(L)
        BY <2>1, <4>3, FS_Subset DEF RowsAreFinite
      <4> HIDE DEF L
      <4>5. Cardinality(L) # 0
        BY <4>2, <4>4, FS_EmptySet
      <4> QED
        BY <4>5 DEF L
    <3> QED
      BY <3>2, <3>3, <3>4
  <2> QED
    BY <2>2, <2>3, <2>4, <2>5 DEF RosterAgrees
<1> QED
  BY <1>1, IdentityInvariant, PTL
=============================================================================
