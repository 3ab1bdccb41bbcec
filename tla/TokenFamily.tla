---------------------------- MODULE TokenFamily ----------------------------
(***************************************************************************)
(* What the refresh-token store promises its callers, with no Redis, no    *)
(* requests and no failures in sight: a login opens a family with its      *)
(* first token; at any time at most one token of the family is live; a     *)
(* token is replaced by one that never existed before; a family that is    *)
(* closed is closed for ever, so no token is live twice.                   *)
(* AuthSession implements this specification (AuthSession!FamilySpec).     *)
(***************************************************************************)

CONSTANTS Id,     \* identities of tokens; a family is named by its first one
          None    \* "no live token"

VARIABLES live,   \* live[f]: the one token of family f that can be rotated
          minted  \* every token that has ever been live

familyVars == <<live, minted>>

TypeOK ==
  /\ live \in [Id -> Id \cup {None}]
  /\ minted \subseteq Id

Init ==
  /\ live = [f \in Id |-> None]
  /\ minted = {}

Open(f) ==
  /\ f \notin minted
  /\ live' = [live EXCEPT ![f] = f]
  /\ minted' = minted \cup {f}

Rotate(f, j) ==
  /\ live[f] # None
  /\ j \notin minted
  /\ live' = [live EXCEPT ![f] = j]
  /\ minted' = minted \cup {j}

Close(F) ==
  /\ live' = [f \in Id |-> IF f \in F THEN None ELSE live[f]]
  /\ UNCHANGED minted

Next ==
  \/ \E f \in Id : Open(f)
  \/ \E f, j \in Id : Rotate(f, j)
  \/ \E F \in SUBSET Id : Close(F)

Spec == Init /\ [][Next]_familyVars
=============================================================================
