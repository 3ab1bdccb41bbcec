------------------------------ MODULE Identity ------------------------------
(***************************************************************************)
(* src/modules/identity: RoleService, TeamService and UserService over the *)
(* PostgreSQL tables roles, teams and users, as HTTP requests that         *)
(* interleave at every query.  No service opens a transaction: a check and *)
(* the write it guards are two statements.                                 *)
(*                                                                         *)
(* The tables are one function from ids to rows.  A request creates at     *)
(* most one row, whose id is the request.  Rows are soft-deleted: "active" *)
(* is deleted_at IS NULL.  A row keeps its columns; nothing re-parents a   *)
(* team or a user.  What no rule reads (password, display name, dates) is  *)
(* left out, and so are the routes that only read, but for the roster.     *)
(*                                                                         *)
(* MikroORM's softDelete filter also applies to a row's non-null parent.   *)
(* Whether it hides an active row whose parent is deleted depends on the   *)
(* library: such a row may be found or not.                                *)
(***************************************************************************)
EXTENDS AccessControl, FiniteSets

CONSTANTS
  Requests,   \* the HTTP requests of a behaviour
  SeedRows,   \* the rows that were there before, a function from ids
  Ops,        \* the operations that the requests ask for
  RoleNames, TeamNames, Emails,
  None        \* no row, no value

Kinds == {"role", "team", "user"}

Ids == DOMAIN SeedRows \cup Requests

Keys == RoleNames \cup TeamNames \cup Emails

\* A role has no parent; only users have a position.
Row == [kind : Kinds, key : Keys, parent : Ids \cup {None},
        position : Positions \cup {None}, super : BOOLEAN, active : BOOLEAN]

AllOps == {"createRole", "updateRole", "deleteRole", "createTeam", "updateTeam",
           "deleteTeam", "createUser", "updateUser", "deleteUser"}

ASSUME NoneAssumption ==
  /\ None \notin Ids \cup Keys \cup Positions \cup AllOps
  /\ None \notin Row

\* The seeded tables obey the columns, foreign keys and unique indexes, and have
\* no active row under a deleted one.
ASSUME SeedAssumption ==
  /\ IsFiniteSet(DOMAIN SeedRows) /\ DOMAIN SeedRows \cap Requests = {}
  /\ \A x \in DOMAIN SeedRows :
       LET row == SeedRows[x]
           under(kind) == /\ row.parent \in DOMAIN SeedRows
                          /\ SeedRows[row.parent].kind = kind
                          /\ row.active => SeedRows[row.parent].active
       IN /\ row \in Row
          /\ CASE row.kind = "role" -> /\ row.parent = None /\ row.position = None
                                       /\ row.key \in RoleNames
               [] row.kind = "team" -> /\ under("role") /\ row.position = None
                                       /\ row.key \in TeamNames
               [] row.kind = "user" -> /\ under("team") /\ row.position # None
                                       /\ row.key \in Emails
          /\ \A y \in DOMAIN SeedRows :
               /\ row.active /\ SeedRows[y].active /\ row.kind = SeedRows[y].kind
               /\ row.key = SeedRows[y].key
               => x = y

VARIABLES
  rows,     \* the tables
  tokens,   \* the subjects of the access tokens signed so far
  call,     \* call[r]: what request r asks for, set when it starts
  pc,       \* pc[r]: the next step of r, or how it ended
  snap,     \* snap[r]: the row in r's EntityManager, None before and after
  emitted,  \* the users whose USER_CREATED reached its handler
  met,      \* history: met[r]: the requests that were in progress with r
  led,      \* history: the teams that have had a leader
  tainted   \* history: the teams where somebody lost his position or account
            \*   to SUPER, or to an actor who was no leader of the team by then

vars == <<rows, tokens, call, pc, snap, emitted, met, led, tainted>>

Steps == {"dup", "parent", "insert", "emit", "load", "count", "write"}

Ends == {"done", "refused", "failed", "aborted"}

Subject == [id : Ids, super : BOOLEAN, role : RoleNames, team : Ids,
            position : Positions]

\* id: the target; key: a name or an email; parent and position: of the dto.
Call == [op : AllOps \cup {None}, actor : Subject \cup {None},
         id : Ids \cup {None}, key : Keys \cup {None},
         parent : Ids \cup {None}, position : Positions \cup {None}]

NoCall == [op |-> None, actor |-> None, id |-> None, key |-> None,
           parent |-> None, position |-> None]

-----------------------------------------------------------------------------
(* Rows *)

Active(x) == rows[x] # None /\ rows[x].active

IsA(kind, x) == x \in Ids /\ rows[x] # None /\ rows[x].kind = kind

\* The row has no parent or an active one.
UnderActive(x) == rows[x].parent = None \/ Active(rows[x].parent)

\* findOne({id}) may return the row; findOne({id}) may return nothing.
Finds(kind, x) == IsA(kind, x) /\ Active(x)
Misses(kind, x) == Finds(kind, x) => ~UnderActive(x)

Children(x) == {y \in Ids : Active(y) /\ rows[y].parent = x}

\* Mutant of Clashes: no index; only a new row is compared, as the services do.
ClashesOnCreate(x, row) ==
  rows[x] = None /\ \E y \in Ids :
    Active(y) /\ rows[y].kind = row.kind /\ rows[y].key = row.key

\* The partial unique index refuses to have this row at x.
Clashes(x, row) ==
  row.active /\ \E y \in Ids \ {x} :
    Active(y) /\ rows[y].kind = row.kind /\ rows[y].key = row.key

\* User u is a leader of team t now.
Leads(u, t) ==
  IsA("user", u) /\ Active(u) /\ rows[u].parent = t /\ rows[u].position = "LEADER"

\* The foreign keys, and the columns that a kind of row has.
WellFormed(x) ==
  \/ IsA("role", x) /\ rows[x].parent = None /\ rows[x].position = None
                     /\ rows[x].key \in RoleNames
  \/ IsA("team", x) /\ IsA("role", rows[x].parent) /\ rows[x].position = None
                     /\ rows[x].key \in TeamNames
  \/ IsA("user", x) /\ IsA("team", rows[x].parent) /\ rows[x].position # None
                     /\ rows[x].key \in Emails

TypeOK ==
  /\ rows \in [Ids -> Row \cup {None}]
  /\ \A x \in Ids : rows[x] # None => WellFormed(x)
  /\ tokens \subseteq Subject
  /\ call \in [Requests -> Call]
  /\ pc \in [Requests -> {"idle"} \cup Steps \cup Ends]
  /\ snap \in [Requests -> Row \cup {None}]
  /\ emitted \subseteq Requests
  /\ met \in [Requests -> SUBSET Requests]
  /\ led \subseteq Ids
  /\ tainted \subseteq Ids

Init ==
  /\ rows = [x \in Ids |-> IF x \in DOMAIN SeedRows THEN SeedRows[x] ELSE None]
  /\ tokens = {}
  /\ call = [r \in Requests |-> NoCall]
  /\ pc = [r \in Requests |-> "idle"]
  /\ snap = [r \in Requests |-> None]
  /\ emitted = {}
  /\ met = [r \in Requests |-> {}]
  /\ led = {t \in Ids : \E u \in Ids : Leads(u, t)}
  /\ tainted = {}

-----------------------------------------------------------------------------
(* The roster of TeamRosterReadModel: one SQL query past MikroORM and its filter *)

\* Mutant of Joining: no condition on the deleted_at of users.
JoiningAll(t) == {u \in Ids : IsA("user", u) /\ rows[u].parent = t}

\* The users that the LEFT JOIN adds to a team.
Joining(t) == {u \in Ids : IsA("user", u) /\ Active(u) /\ rows[u].parent = t}

\* teams JOIN roles LEFT JOIN users, as triples of ids; None where no user joins.
RosterJoin ==
  LET teams == {t \in Ids : IsA("team", t) /\ Active(t) /\ Active(rows[t].parent)}
  IN UNION {{<<t, rows[t].parent, u>> :
               u \in IF Joining(t) = {} THEN {None} ELSE Joining(t)} : t \in teams}

\* GROUP BY team and role; count(users.id) leaves out the absent ones.
Roster ==
  {LET members == {j[3] : j \in {j \in RosterJoin : j[1] = g[1]}} \ {None}
   IN [team |-> g[1], role |-> g[2], memberCount |-> Cardinality(members),
       leaderCount |-> Cardinality({u \in members : rows[u].position = "LEADER"})] :
   g \in {<<j[1], j[2]>> : j \in RosterJoin}}

-----------------------------------------------------------------------------
(* Requests *)

Goto(r, step) == pc' = [pc EXCEPT ![r] = step]

\* The table an operation works on.
KindOf(op) ==
  IF op \in {"createRole", "updateRole", "deleteRole"} THEN "role"
  ELSE IF op \in {"createTeam", "updateTeam", "deleteTeam"} THEN "team"
  ELSE "user"

InProgress == {s \in Requests : pc[s] \in Steps}

HistoryUnchanged == UNCHANGED <<met, led, tainted>>

\* A request whose subject passed AuthGuard and PolicyGuard starts; one that
\* PolicyGuard refuses changes nothing.
Start(r, step, c) ==
  /\ c.op \in Ops
  /\ call' = [call EXCEPT ![r] = c]
  /\ Goto(r, step)
  /\ met' = [s \in Requests |-> IF s = r THEN InProgress
                               ELSE IF s \in InProgress THEN met[s] \cup {r}
                               ELSE met[s]]
  /\ UNCHANGED <<rows, tokens, snap, emitted, led, tainted>>

CallOf(op, who) == [NoCall EXCEPT !.op = op, !.actor = who]

StartCreateRole(r, who, name) ==
  /\ PolicyGuard(who, "create", "role")
  /\ Start(r, "dup", [CallOf("createRole", who) EXCEPT !.key = name])

\* name is None when the dto has no name.
StartUpdateRole(r, who, x, name) ==
  /\ PolicyGuard(who, "update", "role")
  /\ Start(r, "load", [CallOf("updateRole", who) EXCEPT !.id = x, !.key = name])

StartDeleteRole(r, who, x) ==
  /\ PolicyGuard(who, "delete", "role")
  /\ Start(r, "load", [CallOf("deleteRole", who) EXCEPT !.id = x])

StartCreateTeam(r, who, name, x) ==
  /\ PolicyGuard(who, "create", "team")
  /\ Start(r, "parent", [CallOf("createTeam", who) EXCEPT !.key = name, !.parent = x])

StartUpdateTeam(r, who, x, name) ==
  /\ PolicyGuard(who, "update", "team")
  /\ Start(r, "load", [CallOf("updateTeam", who) EXCEPT !.id = x, !.key = name])

StartDeleteTeam(r, who, x) ==
  /\ PolicyGuard(who, "delete", "team")
  /\ Start(r, "load", [CallOf("deleteTeam", who) EXCEPT !.id = x])

\* createUser authorizes before the first query: it needs no row for that.
StartCreateUser(r, who, email, t, position) ==
  /\ PolicyGuard(who, "create", "user")
  /\ Authorize(who, "create", None, t)
  /\ Start(r, "dup", [CallOf("createUser", who) EXCEPT
                         !.key = email, !.parent = t, !.position = position])

\* position is None when the dto changes the name only.
StartUpdateUser(r, who, x, position) ==
  /\ PolicyGuard(who, "update", "user")
  /\ Start(r, "load", [CallOf("updateUser", who) EXCEPT !.id = x, !.position = position])

StartDeleteUser(r, who, x) ==
  /\ PolicyGuard(who, "delete", "user")
  /\ Start(r, "load", [CallOf("deleteUser", who) EXCEPT !.id = x])

-----------------------------------------------------------------------------
(* Creation *)

\* findByName, findByEmail: refuse a key in use (a courtesy; the index decides).
FindDup(r) ==
  LET c == call[r]
      same == {x \in Ids : Finds(KindOf(c.op), x) /\ rows[x].key = c.key}
  IN /\ pc[r] = "dup"
     /\ \/ same # {} /\ Goto(r, "refused")
        \/ /\ \A x \in same : Misses(KindOf(c.op), x)
           /\ Goto(r, IF c.op = "createUser" THEN "parent" ELSE "insert")
     /\ UNCHANGED <<rows, tokens, call, snap, emitted>> /\ HistoryUnchanged

\* findById of the role of a new team, or of the team of a new user.
FindParent(r) ==
  LET c == call[r]
      kind == IF c.op = "createUser" THEN "team" ELSE "role"
  IN /\ pc[r] = "parent"
     /\ \/ /\ Finds(kind, c.parent)
           /\ Goto(r, IF c.op = "createUser" THEN "insert" ELSE "dup")
        \/ Misses(kind, c.parent) /\ Goto(r, "refused")
     /\ UNCHANGED <<rows, tokens, call, snap, emitted>> /\ HistoryUnchanged

\* Role.create, Team.create, User.create: globalRoles is always empty.
NewRow(c) ==
  [kind |-> KindOf(c.op), key |-> c.key, parent |-> c.parent,
   position |-> c.position, super |-> FALSE, active |-> TRUE]

\* Mutant of Insert: the INSERT is not awaited, its failure goes unnoticed.
InsertUnawaited(r) ==
  LET c == call[r]
  IN /\ pc[r] = "insert"
     /\ \/ UNCHANGED rows
        \/ ~Clashes(r, NewRow(c)) /\ rows' = [rows EXCEPT ![r] = NewRow(c)]
     /\ Goto(r, IF c.op = "createUser" THEN "emit" ELSE "done")
     /\ UNCHANGED <<tokens, call, snap, emitted>> /\ HistoryUnchanged

\* save of a new entity: INSERT. A violated index is an error of the database.
Insert(r) ==
  LET c == call[r]
  IN /\ pc[r] = "insert"
     /\ \/ /\ Clashes(r, NewRow(c))
           /\ Goto(r, "failed")
           /\ UNCHANGED <<rows, led>>
        \/ /\ ~Clashes(r, NewRow(c))
           /\ rows' = [rows EXCEPT ![r] = NewRow(c)]
           /\ led' = IF c.position = "LEADER" THEN led \cup {c.parent} ELSE led
           /\ Goto(r, IF c.op = "createUser" THEN "emit" ELSE "done")
     /\ UNCHANGED <<tokens, call, snap, emitted, met, tainted>>

\* USER_CREATED is emitted and its asynchronous handler runs.
Emit(r) ==
  /\ pc[r] = "emit"
  /\ emitted' = emitted \cup {r}
  /\ Goto(r, "done")
  /\ UNCHANGED <<rows, tokens, call, snap>> /\ HistoryUnchanged

-----------------------------------------------------------------------------
(* Change and deletion *)

\* What the loaded row must satisfy: nothing for roles and teams, Tier 2 for
\* users, where a change of position is authorized on top of the update.
Permitted(c, row) ==
  CASE c.op = "updateUser" ->
         /\ Authorize(c.actor, "update", c.id, row.parent)
         /\ c.position # None => AuthorizeChangeRole(c.actor, c.id, row.parent)
    [] c.op = "deleteUser" -> Authorize(c.actor, "delete", c.id, row.parent)
    [] OTHER -> TRUE

\* getOrThrow, getUserOrThrow, loadAndAuthorize.
Load(r) ==
  LET c == call[r]
      x == c.id
  IN /\ pc[r] = "load"
     /\ \/ /\ Finds(KindOf(c.op), x) /\ Permitted(c, rows[x])
           /\ snap' = [snap EXCEPT ![r] = rows[x]]
           /\ Goto(r, IF c.op \in {"deleteRole", "deleteTeam"} THEN "count" ELSE "write")
        \/ /\ Misses(KindOf(c.op), x) \/ ~Permitted(c, rows[x])
           /\ UNCHANGED snap
           /\ Goto(r, "refused")
     /\ UNCHANGED <<rows, tokens, call, emitted>> /\ HistoryUnchanged

\* Mutant of Count: only leaders are counted.
CountLeaders(r) ==
  /\ pc[r] = "count"
  /\ Goto(r, IF \E y \in Ids : Leads(y, call[r].id) THEN "refused" ELSE "write")
  /\ UNCHANGED <<rows, tokens, call, snap, emitted>> /\ HistoryUnchanged

\* countByTeam, countByRole: only a parent without active children goes on. The
\* filter may hide the children of a parent that another request has deleted.
Count(r) ==
  LET x == call[r].id
  IN /\ pc[r] = "count"
     /\ \/ /\ Children(x) # {}
           /\ snap' = [snap EXCEPT ![r] = None]
           /\ Goto(r, "refused")
        \/ /\ Children(x) = {} \/ ~Active(x)
           /\ UNCHANGED snap
           /\ Goto(r, "write")
     /\ UNCHANGED <<rows, tokens, call, emitted>> /\ HistoryUnchanged

\* Mutants of Written: every column of the loaded entity is written back; a dto
\* without a position erases it.
WrittenWhole(r) ==
  LET c == call[r]
  IN CASE c.op \in {"deleteRole", "deleteTeam", "deleteUser"} ->
            [snap[r] EXCEPT !.active = FALSE]
       [] c.op = "updateUser" ->
            IF c.position = None THEN snap[r] ELSE [snap[r] EXCEPT !.position = c.position]
       [] OTHER -> IF c.key = None THEN snap[r] ELSE [snap[r] EXCEPT !.key = c.key]

WrittenUndefined(r) ==
  LET c == call[r]
  IN CASE c.op \in {"deleteRole", "deleteTeam", "deleteUser"} ->
            [rows[c.id] EXCEPT !.active = FALSE]
       [] c.op = "updateUser" -> [rows[c.id] EXCEPT !.position = c.position]
       [] OTHER -> rows[c.id]

\* The row after the flush: MikroORM updates the columns that differ from the
\* loaded entity, and only those.
Written(r) ==
  LET c == call[r]
      row == rows[c.id]
  IN CASE c.op \in {"deleteRole", "deleteTeam", "deleteUser"} ->
            [row EXCEPT !.active = FALSE]
       [] c.op = "updateUser" ->
            IF c.position \in {None, snap[r].position} THEN row
            ELSE [row EXCEPT !.position = c.position]
       [] OTHER ->
            IF c.key \in {None, snap[r].key} THEN row ELSE [row EXCEPT !.key = c.key]

\* cascadeSoftDeleteAndFlush, or save of a loaded entity: UPDATE by id.
Write(r) ==
  LET c == call[r]
      row == Written(r)
      t == rows[c.id].parent
      changed == row.kind = "user" /\ row # rows[c.id]
      entitled == ~c.actor.super /\ Leads(c.actor.id, t)
  IN /\ pc[r] = "write"
     /\ \/ /\ row # rows[c.id] /\ Clashes(c.id, row)
           /\ Goto(r, "failed")
           /\ UNCHANGED <<rows, led, tainted>>
        \/ /\ row = rows[c.id] \/ ~Clashes(c.id, row)
           /\ rows' = [rows EXCEPT ![c.id] = row]
           /\ led' = IF changed /\ row.active /\ row.position = "LEADER"
                     THEN led \cup {t} ELSE led
           /\ tainted' = IF changed /\ ~entitled THEN tainted \cup {t} ELSE tainted
           /\ Goto(r, "done")
     /\ snap' = [snap EXCEPT ![r] = None]
     /\ UNCHANGED <<tokens, call, emitted, met>>

-----------------------------------------------------------------------------
(* Environment *)

\* Login or refresh: the subject of u's token is what the tables say now.
SignIn(u) ==
  /\ Finds("user", u)
  /\ LET t == rows[u].parent
     IN tokens' = tokens \cup
          {[id |-> u, super |-> rows[u].super, role |-> rows[rows[t].parent].key,
            team |-> t, position |-> rows[u].position]}
  /\ UNCHANGED <<rows, call, pc, snap, emitted>> /\ HistoryUnchanged

\* A query fails, or the process dies.
Abort(r) ==
  /\ pc[r] \in Steps
  /\ Goto(r, "aborted")
  /\ snap' = [snap EXCEPT ![r] = None]
  /\ UNCHANGED <<rows, tokens, call, emitted>> /\ HistoryUnchanged

-----------------------------------------------------------------------------

ArriveAtRoles(r, who) ==
  \/ \E name \in RoleNames : StartCreateRole(r, who, name)
  \/ \E x \in {x \in Ids : IsA("role", x)} :
       \/ \E name \in RoleNames \cup {None} : StartUpdateRole(r, who, x, name)
       \/ StartDeleteRole(r, who, x)

ArriveAtTeams(r, who) ==
  \/ \E name \in TeamNames, x \in {x \in Ids : IsA("role", x)} :
       StartCreateTeam(r, who, name, x)
  \/ \E x \in {x \in Ids : IsA("team", x)} :
       \/ \E name \in TeamNames \cup {None} : StartUpdateTeam(r, who, x, name)
       \/ StartDeleteTeam(r, who, x)

ArriveAtUsers(r, who) ==
  \/ \E email \in Emails, position \in Positions, x \in {x \in Ids : IsA("team", x)} :
       StartCreateUser(r, who, email, x, position)
  \/ \E x \in {x \in Ids : IsA("user", x)} :
       \/ \E position \in Positions \cup {None} : StartUpdateUser(r, who, x, position)
       \/ StartDeleteUser(r, who, x)

Arrive(r) ==
  /\ pc[r] = "idle"
  /\ \E who \in tokens :
       ArriveAtRoles(r, who) \/ ArriveAtTeams(r, who) \/ ArriveAtUsers(r, who)

Step(r) ==
  \/ FindDup(r) \/ FindParent(r) \/ Insert(r) \/ Emit(r)
  \/ Load(r) \/ Count(r) \/ Write(r)

Next ==
  \/ \E r \in Requests : Arrive(r) \/ Step(r) \/ Abort(r)
  \/ \E u \in Ids : SignIn(u)

Spec == Init /\ [][Next]_vars

-----------------------------------------------------------------------------
(* Properties *)

\* Whatever checks interleave with whatever writes, no two active roles, teams
\* or users share a name or an email (create*, and rename, which does not check).
KeysAreUnique ==
  \A x, y \in Ids :
    Active(x) /\ Active(y) /\ rows[x].kind = rows[y].kind /\ rows[x].key = rows[y].key
      => x = y

\* A user's row is written only for SUPER or for an actor whose own row is in
\* the same team, however old his token is; nobody but SUPER changes his own
\* position or account, or appoints anybody without having been a leader there.
TeamsAreIsolated ==
  [][\A x \in Ids : rows'[x] # rows[x] /\ rows'[x].kind = "user" =>
       \E r \in Requests :
         LET who == call[r].actor
         IN /\ pc[r] \in {"insert", "write"} /\ pc'[r] # pc[r]
            /\ \/ who.super
               \/ /\ rows[who.id].parent = rows'[x].parent
                  /\ who.id # x
                  /\ rows'[x].parent \in led]_vars

\* Requests that change the same row do not undo each other: a row comes back
\* from no deletion, and a column changes only to what a request in its last
\* step was asked to write there.
WritesMerge ==
  [][\A x \in Ids : rows[x] # None /\ rows'[x] # rows[x] =>
       \E r \in Requests :
         LET c == call[r]
         IN /\ pc[r] = "write" /\ c.id = x
            /\ rows'[x] \in {[rows[x] EXCEPT !.active = FALSE],
                             [rows[x] EXCEPT !.position = c.position],
                             [rows[x] EXCEPT !.key = c.key]}
            /\ rows'[x].active # rows[x].active =>
                  c.op \in {"deleteRole", "deleteTeam", "deleteUser"}]_vars

\* A team that had a leader keeps one, as long as its users are changed neither
\* by SUPER nor by an actor who is not a leader any more: excluding oneself in
\* canDelete and authorizeChangeRole is enough, and only for fresh tokens.
LeaderRemains ==
  \A t \in led \ tainted : \E u \in Ids : Leads(u, t)

\* deleteTeam and deleteRole leave a child behind only if the request that
\* created it was in progress together with the one that deleted its parent.
OrphansComeFromRaces ==
  \A x \in Ids :
    Active(x) /\ ~UnderActive(x) =>
      \E s \in Requests :
        /\ call[s].op \in {"deleteTeam", "deleteRole"} /\ call[s].id = rows[x].parent
        /\ x \in Requests /\ s \in met[x]

\* The roster, whose query names every deleted_at itself, tells what the filtered
\* lists tell, in every state between the writes: it has one row for each team
\* that they are bound to show, counts exactly the users of that team that they
\* may show, and a leader for every team that has kept one.
RosterAgrees ==
  LET roster == Roster IN
  /\ {row.team : row \in roster} = {t \in Ids : Finds("team", t) /\ ~Misses("team", t)}
  /\ \A row, other \in roster : row.team = other.team => row = other
  /\ \A row \in roster :
       /\ row.memberCount =
            Cardinality({u \in Ids : Finds("user", u) /\ rows[u].parent = row.team})
       /\ row.team \in led \ tainted => row.leaderCount # 0

\* USER_CREATED is emitted only for users that are in the table.
EmittedIsCreated == \A x \in emitted : IsA("user", x)

\* What the repository says, and the code does not do: team.exception.ts:11 and
\* role.exception.ts:10 say that a team with users, and a role with teams,
\* cannot be deleted.
ParentsAreActive == \A x \in Ids : Active(x) => UnderActive(x)
=============================================================================
