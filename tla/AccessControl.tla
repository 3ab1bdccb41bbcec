--------------------------- MODULE AccessControl ---------------------------
(***************************************************************************)
(* The decisions of src/lib/access-control and src/modules/identity/access *)
(* as pure operators.  Tier 1 (PolicyGuard): may this role do this action  *)
(* to this type of resource.  Tier 2 (UserResourcePolicy): may this actor  *)
(* do it to this user.                                                     *)
(*                                                                         *)
(* A subject is what AuthGuard takes from the access token: the user, his  *)
(* globalRoles (super), the name of his role, and his one team with his    *)
(* position in it (TokenService signs exactly one).                        *)
(***************************************************************************)

Actions == {"create", "read", "update", "delete"}

Positions == {"LEADER", "MEMBER"}

-----------------------------------------------------------------------------
(* Tier 1 *)

\* toUpperCase of the role names that occur: two of them differ only in case.
RoleKey(name) ==
  IF name \in {"Red", "red"} THEN "RED" ELSE IF name = "Blue" THEN "BLUE" ELSE name

\* IDENTITY_ROLE_MATRIX, its rows (role key) and entries (resource type).
MatrixRow(key) ==
  IF key = "RED" THEN {<<"user", {"manage"}>>}
  ELSE IF key = "BLUE" THEN {<<"user", {"read"}>>}
  ELSE {}

\* The entry for the type, else the one for '*'; none when neither is there.
Granted(key, type) ==
  LET entry(t) == UNION {e[2] : e \in {e \in MatrixRow(key) : e[1] = t}}
  IN IF \E e \in MatrixRow(key) : e[1] = type THEN entry(type) ELSE entry("*")

Can(subject, action, type) ==
  {action, "manage", "*"} \cap Granted(RoleKey(subject.role), type) # {}

\* PolicyGuard on a route with @Requires(action, type).
PolicyGuard(subject, action, type) == subject.super \/ Can(subject, action, type)

-----------------------------------------------------------------------------
(* Tier 2: user is the target's id, team the team it belongs to. *)

IsTeamMember(actor, team) == actor.team = team

\* Mutant of IsTeamOwner: a leader is a leader everywhere.
IsAnyLeader(actor, team) == actor.position = "LEADER"

IsTeamOwner(actor, team) == actor.team = team /\ actor.position = "LEADER"

IsSelf(actor, user) == actor.id = user

CanUpdate(actor, user, team) == IsTeamOwner(actor, team) \/ IsSelf(actor, user)

CanDelete(actor, user, team) == IsTeamOwner(actor, team) /\ ~IsSelf(actor, user)

\* authorize and authorizeCreate, with the bypass for SUPER.
Authorize(actor, action, user, team) ==
  \/ actor.super
  \/ action = "read" /\ IsTeamMember(actor, team)
  \/ action = "create" /\ IsTeamOwner(actor, team)
  \/ action = "update" /\ CanUpdate(actor, user, team)
  \/ action = "delete" /\ CanDelete(actor, user, team)

\* Mutant of AuthorizeChangeRole: a leader may change his own position.
AuthorizeChangeOwnRole(actor, user, team) == actor.super \/ IsTeamOwner(actor, team)

\* authorizeChangeRole: the position of a user, by a leader and not his own.
AuthorizeChangeRole(actor, user, team) ==
  actor.super \/ (IsTeamOwner(actor, team) /\ ~IsSelf(actor, user))
=============================================================================
