----------------------------- MODULE Membership -----------------------------
(***************************************************************************)
(* What team management (app/services/team.py) promises about the members  *)
(* of one team: there is exactly one owner and it is the creator, members  *)
(* join as admin or member only, everyone but the owner can be removed,    *)
(* and a team that was deleted has no members, for good.                   *)
(***************************************************************************)
CONSTANTS Users, Owner

VARIABLE role

Roles == {"owner", "admin", "member", "none"}

Init == role = [u \in Users |-> IF u = Owner THEN "owner" ELSE "none"]

Invite(u) ==
  /\ role[u] = "none" /\ role[Owner] = "owner"
  /\ \E as \in {"admin", "member"} : role' = [role EXCEPT ![u] = as]

Remove(u) ==
  /\ role[u] \in {"admin", "member"}
  /\ role' = [role EXCEPT ![u] = "none"]

Dissolve == role' = [u \in Users |-> "none"]

Next == Dissolve \/ \E u \in Users : Invite(u) \/ Remove(u)

Spec == Init /\ [][Next]_role
=============================================================================
