-------------------------------- MODULE Teams ----------------------------------
(***************************************************************************)
(* The members of one team (app/services/team.py over crud/team.py).       *)
(* Every SELECT of a request is a step that sees what is committed then;   *)
(* the write and its COMMIT are one.  A request acts on what its SELECTs   *)
(* returned: its own role, and the row of team_members it will delete.     *)
(***************************************************************************)
EXTENDS Naturals, FiniteSets

CONSTANTS
  Users, Owner,
  MaxRequests,      \* bound: requests submitted in one behaviour
  MaxInFlight       \* bound: requests being served at the same time

ASSUME OwnerAssumption == Owner \in Users
ASSUME BoundsAssumption == MaxRequests \in Nat /\ MaxInFlight \in Nat

VARIABLES
  team,             \* TRUE as long as the row of teams is there
  members,          \* the rows of team_members
  reqs,             \* the requests being served
  count,            \* requests submitted so far, and with it the next row id
  removed           \* history: who removed whom

vars == <<team, members, reqs, count, removed>>

TeamRole == {"owner", "admin", "member"}
Invitable == {"admin", "member"}

Member == [id: Nat, user: Users, role: TeamRole]
NoRow == [id |-> 0, user |-> Owner, role |-> "owner"]

Request == [n: Nat, op: {"invite", "remove", "delete"}, user: Users, whom: Users,
            as: Invitable, role: TeamRole \cup {"none"}, row: Member,
            step: {"team", "role", "target", "write"}]

\* create_team: the team and the row of its owner come in one transaction.
Init ==
  /\ team = TRUE /\ members = {NoRow}
  /\ reqs = {} /\ count = 0 /\ removed = {}

RowsOf(u) == {m \in members : m.user = u}
RoleOf(u) == IF RowsOf(u) = {} THEN "none" ELSE (CHOOSE m \in RowsOf(u) : TRUE).role

-----------------------------------------------------------------------------
Submit(op, u, w, as) ==
  /\ count < MaxRequests /\ Cardinality(reqs) < MaxInFlight
  /\ op # "invite" => as = "member"
  /\ op = "delete" => w = u
  /\ count' = count + 1
  /\ reqs' = reqs \cup {[n |-> count + 1, op |-> op, user |-> u, whom |-> w, as |-> as,
                         role |-> "none", row |-> NoRow, step |-> "team"]}
  /\ UNCHANGED <<team, members, removed>>

Become(r, q) == reqs' = (reqs \ {r}) \cup {q}
Finish(r) == reqs' = reqs \ {r}

\* A check that fails raises 403, 404 or 409.
Check(r, ok, q) ==
  /\ IF ok THEN Become(r, q) ELSE Finish(r)
  /\ UNCHANGED <<team, members, count, removed>>

\* get_team_for_user; delete_team wants the owner.
SeeTeam(r) ==
  /\ r.step = "team"
  /\ IF r.op = "delete"
     THEN Check(r, team /\ r.user = Owner, [r EXCEPT !.step = "write"])
     ELSE Check(r, team /\ (r.user = Owner \/ RowsOf(r.user) # {}), [r EXCEPT !.step = "role"])

\* Mutant: the role is read, and not looked at.
SeeRoleAny(r) ==
  /\ r.step = "role"
  /\ Check(r, TRUE, [r EXCEPT !.role = RoleOf(r.user), !.step = "target"])

\* team_membership of the caller.
SeeRole(r) ==
  /\ r.step = "role"
  /\ Check(r, RoleOf(r.user) \in {"owner", "admin"},
           [r EXCEPT !.role = RoleOf(r.user), !.step = "target"])

\* invite_member: not yet a member.
SeeStranger(r) ==
  /\ r.op = "invite" /\ r.step = "target"
  /\ Check(r, RowsOf(r.whom) = {}, [r EXCEPT !.step = "write"])

\* remove_member: the owner is not removed, and an admin removes members only.
SeeMember(r) ==
  /\ r.op = "remove" /\ r.step = "target"
  /\ \/ \E m \in RowsOf(r.whom) :
          Check(r, m.role # "owner" /\ (r.role = "admin" => m.role = "member"),
                [r EXCEPT !.row = m, !.step = "write"])
     \/ RowsOf(r.whom) = {} /\ Check(r, FALSE, r)

-----------------------------------------------------------------------------
\* Mutant: no UNIQUE (team_id, user_id).
InviteNoKey(r) ==
  /\ r.op = "invite" /\ team
  /\ members' = members \cup {[id |-> r.n, user |-> r.whom, role |-> r.as]}
  /\ UNCHANGED <<team, removed>>

\* The foreign key and UNIQUE (team_id, user_id) let the row in.
Invite(r) ==
  /\ r.op = "invite" /\ team /\ RowsOf(r.whom) = {}
  /\ members' = members \cup {[id |-> r.n, user |-> r.whom, role |-> r.as]}
  /\ UNCHANGED <<team, removed>>

\* Mutant: DELETE ... WHERE user_id, whatever row the user has by now.
RemoveByUser(r) ==
  /\ r.op = "remove"
  /\ members' = members \ RowsOf(r.whom)
  /\ removed' = removed \cup {[by |-> r.role, role |-> m.role] : m \in RowsOf(r.whom)}
  /\ UNCHANGED team

\* DELETE ... WHERE id: of a row that is gone it affects nothing and still commits.
Remove(r) ==
  /\ r.op = "remove"
  /\ members' = members \ {r.row}
  /\ removed' = removed \cup {[by |-> r.role, role |-> m.role] : m \in members \cap {r.row}}
  /\ UNCHANGED team

Delete(r) ==
  /\ r.op = "delete"
  /\ team' = FALSE /\ members' = {} /\ UNCHANGED removed

Write(r) ==
  /\ r.step = "write"
  /\ Invite(r) \/ Remove(r) \/ Delete(r)
  /\ Finish(r) /\ UNCHANGED count

\* The worker dies, or the database refuses the row: nothing was written.
Fail(r) == Finish(r) /\ UNCHANGED <<team, members, count, removed>>

Next ==
  \/ \E op \in {"invite", "remove", "delete"}, u \in Users, w \in Users, as \in Invitable :
       Submit(op, u, w, as)
  \/ \E r \in reqs :
       \/ SeeTeam(r) \/ SeeRole(r) \/ SeeStranger(r) \/ SeeMember(r)
       \/ Write(r) \/ Fail(r)

Spec == Init /\ [][Next]_vars

-----------------------------------------------------------------------------
\* The variables have their types.
TypeOK ==
  /\ team \in BOOLEAN
  /\ members \subseteq Member
  /\ reqs \subseteq Request
  /\ count \in Nat
  /\ removed \subseteq [by: TeamRole, role: TeamRole]

\* OWNER > ADMIN > MEMBER, also for requests that overtake one another: no admin
\* ever takes an admin out of the team, not even one who was a mere member when the
\* request looked, and nobody takes out the owner (services/team.py:191-202).
HierarchyKept ==
  \A x \in removed : x.role # "owner" /\ (x.by = "admin" => x.role = "member")

\* The members are what Membership promises, whatever overlaps.
Promise == INSTANCE Membership WITH role <- [u \in Users |-> RoleOf(u)]
MembershipSpec == Promise!Spec
=============================================================================
