----------------------------- MODULE MCIdentity -----------------------------
(* The instances of Identity that TLC checks. *)
EXTENDS Identity, TLC

\* Requests differ only in their name.
RequestSymmetry == Permutations(Requests)

RoleSeed(name) ==
  [kind |-> "role", key |-> name, parent |-> None, position |-> None,
   super |-> FALSE, active |-> TRUE]

TeamSeed(name, role) == [RoleSeed(name) EXCEPT !.kind = "team", !.parent = role]

UserSeed(email, team, position) ==
  [TeamSeed(email, team) EXCEPT !.kind = "user", !.position = position]

\* A team of a SUPER user and a leader, an empty team and an empty role.
PlatformSeed ==
  "oRed" :> RoleSeed("Red") @@ "oBlue" :> RoleSeed("Blue")
  @@ "tA" :> TeamSeed("a", "oRed") @@ "tNew" :> TeamSeed("new", "oRed")
  @@ "root" :> [UserSeed("root@", "tA", "MEMBER") EXCEPT !.super = TRUE]
  @@ "ann" :> UserSeed("ann@", "tA", "LEADER")

\* One team with two leaders.
StaffSeed ==
  "oRed" :> RoleSeed("Red") @@ "tA" :> TeamSeed("a", "oRed")
  @@ "ann" :> UserSeed("ann@", "tA", "LEADER") @@ "bob" :> UserSeed("bob@", "tA", "LEADER")
=============================================================================
