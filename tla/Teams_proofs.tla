----------------------------- MODULE Teams_proofs -----------------------------
(***************************************************************************)
(* For any users, requests and overlaps: the hierarchy of roles is kept,   *)
(* and the members of a team are what Membership promises.                 *)
(***************************************************************************)
EXTENDS Teams, TLAPS

USE OwnerAssumption

\* What a request has found out by the time it acts on it.
Checked ==
  \A r \in reqs :
    /\ r.step = "target" => r.role \in {"owner", "admin"}
    /\ r.op = "delete" => r.step \in {"team", "write"}
    /\ r.op = "remove" /\ r.step = "write" =>
         /\ r.role \in {"owner", "admin"} /\ r.row.role # "owner"
         /\ r.role = "admin" => r.row.role = "member"

\* The owner's row lives as long as the team, and is the only one of its kind.
OwnerRow ==
  /\ team => NoRow \in members
  /\ ~team => members = {}
  /\ \A m \in members : m.role = "owner" => m = NoRow

\* Of two invitations that both found no member, one alone adds a row.
OneRolePerUser == \A m, o \in members : m.user = o.user => m = o

TeamInv == TypeOK /\ Checked /\ OneRolePerUser /\ OwnerRow /\ HierarchyKept

-----------------------------------------------------------------------------
\* RoleOf returns the role of the one row of a user.
LEMMA RoleOfMember ==
  ASSUME OneRolePerUser, NEW m \in members
  PROVE  RoleOf(m.user) = m.role
<1>1. m \in RowsOf(m.user) BY DEF RowsOf
<1>2. \A o \in RowsOf(m.user) : o = m BY DEF RowsOf, OneRolePerUser
<1>3. (CHOOSE o \in RowsOf(m.user) : TRUE) = m BY <1>1, <1>2
<1> QED BY <1>1, <1>3 DEF RoleOf

LEMMA RoleOfStranger ==
  ASSUME NEW u, \A m \in members : m.user # u
  PROVE  RoleOf(u) = "none"
BY DEF RoleOf, RowsOf

LEMMA RoleType ==
  ASSUME TypeOK, NEW u
  PROVE  RoleOf(u) \in TeamRole \cup {"none"}
BY DEF RoleOf, RowsOf, TypeOK, Member

-----------------------------------------------------------------------------
LEMMA InitInv == Init => TeamInv
<1> SUFFICES ASSUME Init PROVE TeamInv OBVIOUS
<1>1. NoRow \in Member BY DEF NoRow, Member, TeamRole
<1>2. team \in BOOLEAN BY Zenon DEF Init
<1>3. TypeOK BY <1>1, <1>2 DEF Init, TypeOK
<1> QED BY <1>3 DEF Init, TeamInv, Checked, OneRolePerUser, OwnerRow, HierarchyKept, NoRow

\* A step that only moves requests on keeps everything but the requests' own part.
LEMMA ReadStep ==
  ASSUME TeamInv, UNCHANGED <<team, members, removed>>,
         count' \in Nat, reqs' \subseteq Request, Checked'
  PROVE  TeamInv'
<1>1. TypeOK' BY DEF TeamInv, TypeOK
<1> QED BY <1>1 DEF TeamInv, OneRolePerUser, OwnerRow, HierarchyKept

LEMMA SubmitStep ==
  ASSUME TeamInv, NEW op \in {"invite", "remove", "delete"}, NEW u \in Users,
         NEW w \in Users, NEW as \in Invitable, Submit(op, u, w, as)
  PROVE  TeamInv'
<1> DEFINE new == [n |-> count + 1, op |-> op, user |-> u, whom |-> w, as |-> as,
                   role |-> "none", row |-> NoRow, step |-> "team"]
<1>1. count \in Nat /\ reqs \subseteq Request BY DEF TeamInv, TypeOK
<1>2. count' = count + 1 /\ reqs' = reqs \cup {new} BY DEF Submit
<1>3. NoRow \in Member BY DEF NoRow, Member, TeamRole
<1>4. new \in Request
  <2>1. count + 1 \in Nat BY <1>1
  <2>2. "none" \in TeamRole \cup {"none"} OBVIOUS
  <2>3. "team" \in {"team", "role", "target", "write"} OBVIOUS
  <2> QED BY <1>3, <2>1, <2>2, <2>3, Zenon DEF Request
<1>5. new.step = "team" /\ (op = "delete" <=> new.op = "delete") OBVIOUS
<1> HIDE DEF new
<1>6. reqs' \subseteq Request /\ count' \in Nat BY <1>1, <1>2, <1>4
<1>7. Checked' BY <1>2, <1>5 DEF Checked, TeamInv
<1> QED BY <1>6, <1>7, ReadStep DEF Submit

\* The checks of a request.
LEMMA CheckStep ==
  ASSUME TeamInv, NEW r \in reqs,
         SeeTeam(r) \/ SeeRole(r) \/ SeeStranger(r) \/ SeeMember(r) \/ Fail(r)
  PROVE  TeamInv'
<1>1. UNCHANGED <<team, members, removed, count>>
  BY DEF SeeTeam, SeeRole, SeeStranger, SeeMember, Fail, Check
<1>2. r \in Request /\ count \in Nat /\ reqs \subseteq Request BY DEF TeamInv, TypeOK
<1>3. ASSUME NEW q \in Request, reqs' = (reqs \ {r}) \cup {q},
             /\ q.step = "target" => q.role \in {"owner", "admin"}
             /\ q.op = "delete" => q.step \in {"team", "write"}
             /\ q.op = "remove" /\ q.step = "write" =>
                  /\ q.role \in {"owner", "admin"} /\ q.row.role # "owner"
                  /\ q.role = "admin" => q.row.role = "member"
      PROVE  TeamInv'
  <2>1. reqs' \subseteq Request BY <1>2, <1>3
  <2>2. Checked' BY <1>3 DEF TeamInv, Checked
  <2> QED BY <1>1, <1>2, <2>1, <2>2, ReadStep
<1>4. CASE Finish(r)
  <2>1. reqs' \subseteq Request /\ Checked' BY <1>2, <1>4 DEF Finish, TeamInv, Checked
  <2> QED BY <1>1, <1>2, <2>1, ReadStep
<1>5. CASE SeeTeam(r) /\ ~Finish(r)
  <2> DEFINE q == IF r.op = "delete" THEN [r EXCEPT !.step = "write"]
                                     ELSE [r EXCEPT !.step = "role"]
  <2>1. reqs' = (reqs \ {r}) \cup {q} BY <1>5 DEF SeeTeam, Check, Become
  <2>2. q \in Request BY <1>2 DEF Request
  <2>3. q.op = r.op /\ q.step = IF r.op = "delete" THEN "write" ELSE "role"
    BY <1>2 DEF Request
  <2> HIDE DEF q
  <2> QED BY <1>3, <2>1, <2>2, <2>3
<1>6. CASE SeeRole(r) /\ ~Finish(r)
  <2> DEFINE q == [r EXCEPT !.role = RoleOf(r.user), !.step = "target"]
  <2>1. reqs' = (reqs \ {r}) \cup {q} /\ r.step = "role" /\ RoleOf(r.user) \in {"owner", "admin"}
    BY <1>6 DEF SeeRole, Check, Become
  <2>2. q \in Request BY <1>2, <2>1 DEF Request, TeamRole
  <2>3. q.op = r.op /\ q.step = "target" /\ q.role \in {"owner", "admin"}
    BY <1>2, <2>1 DEF Request
  <2>4. r.op # "delete" BY <2>1 DEF TeamInv, Checked
  <2> HIDE DEF q
  <2> QED BY <1>3, <2>1, <2>2, <2>3, <2>4
<1>7. CASE SeeStranger(r) /\ ~Finish(r)
  <2> DEFINE q == [r EXCEPT !.step = "write"]
  <2>1. reqs' = (reqs \ {r}) \cup {q} /\ r.op = "invite"
    BY <1>7 DEF SeeStranger, Check, Become
  <2>2. q \in Request /\ q.op = r.op /\ q.step = "write" BY <1>2 DEF Request
  <2> HIDE DEF q
  <2> QED BY <1>3, <2>1, <2>2
<1>8. CASE SeeMember(r) /\ ~Finish(r)
  <2>1. PICK m \in RowsOf(r.whom) :
          /\ r.op = "remove" /\ r.step = "target"
          /\ m.role # "owner" /\ (r.role = "admin" => m.role = "member")
          /\ reqs' = (reqs \ {r}) \cup {[r EXCEPT !.row = m, !.step = "write"]}
    BY <1>8 DEF SeeMember, Check, Become
  <2> DEFINE q == [r EXCEPT !.row = m, !.step = "write"]
  <2>2. m \in Member BY DEF RowsOf, TeamInv, TypeOK
  <2>3. q \in Request /\ q.op = r.op /\ q.step = "write" /\ q.role = r.role /\ q.row = m
    BY <1>2, <2>2 DEF Request
  <2>4. r.role \in {"owner", "admin"} BY <2>1 DEF TeamInv, Checked
  <2>5. reqs' = (reqs \ {r}) \cup {q} BY <2>1
  <2> HIDE DEF q
  <2> QED BY <1>3, <2>1, <2>3, <2>4, <2>5
<1>9. Fail(r) => Finish(r) BY DEF Fail
<1> QED BY <1>4, <1>5, <1>6, <1>7, <1>8, <1>9

\* The writes.
LEMMA WriteStep ==
  ASSUME TeamInv, NEW r \in reqs, Write(r)
  PROVE  TeamInv'
<1> USE DEF TeamInv
<1>1. r \in Request /\ reqs' \subseteq Request /\ count' \in Nat
  BY DEF TypeOK, Write, Finish
<1>2. Checked' BY DEF Checked, Write, Finish
<1>3. CASE Invite(r)
  <2> DEFINE m == [id |-> r.n, user |-> r.whom, role |-> r.as]
  <2>1. m \in Member /\ m.role # "owner" /\ m.user = r.whom
    BY <1>1 DEF Member, Request, Invitable, TeamRole
  <2>2. members' = members \cup {m} /\ team /\ RowsOf(r.whom) = {} /\ UNCHANGED <<team, removed>>
    BY <1>3 DEF Invite
  <2> HIDE DEF m
  <2>3. \A o \in members : o.user # m.user BY <2>1, <2>2 DEF RowsOf
  <2>4. OneRolePerUser' BY <2>2, <2>3 DEF OneRolePerUser
  <2>5. OwnerRow' BY <2>1, <2>2 DEF OwnerRow
  <2>6. TypeOK' BY <1>1, <2>1, <2>2 DEF TypeOK
  <2> QED BY <1>2, <2>2, <2>4, <2>5, <2>6 DEF HierarchyKept
<1>4. CASE Remove(r)
  <2>1. /\ r.role \in {"owner", "admin"} /\ r.row.role # "owner"
        /\ r.role = "admin" => r.row.role = "member"
    BY <1>4 DEF Remove, Write, Checked
  <2>2. members' = members \ {r.row} /\ UNCHANGED team
        /\ removed' = removed \cup {[by |-> r.role, role |-> m.role] : m \in members \cap {r.row}}
    BY <1>4 DEF Remove
  <2>3. \A x \in removed' : x \in removed \/ x = [by |-> r.role, role |-> r.row.role]
    BY <2>2
  <2>4. r.row.role \in TeamRole BY <1>1 DEF Request, Member
  <2>5. HierarchyKept' BY <2>1, <2>3 DEF HierarchyKept
  <2>6. TypeOK' BY <1>1, <2>1, <2>2, <2>3, <2>4 DEF TypeOK, TeamRole
  <2>7. OneRolePerUser' BY <2>2 DEF OneRolePerUser
  <2>8. OwnerRow' BY <2>1, <2>2 DEF OwnerRow, NoRow
  <2> QED BY <1>2, <2>5, <2>6, <2>7, <2>8
<1>5. CASE Delete(r)
  <2>1. team' = FALSE /\ members' = {} /\ removed' = removed BY <1>5 DEF Delete
  <2>2. TypeOK' BY <1>1, <2>1 DEF TypeOK
  <2> QED BY <1>2, <2>1, <2>2 DEF OneRolePerUser, OwnerRow, HierarchyKept
<1> QED BY <1>3, <1>4, <1>5 DEF Write

LEMMA TeamInvariant == Spec => []TeamInv
<1>1. TeamInv /\ [Next]_vars => TeamInv'
  <2> SUFFICES ASSUME TeamInv, [Next]_vars PROVE TeamInv' OBVIOUS
  <2>1. CASE UNCHANGED vars
    BY <2>1 DEF vars, TeamInv, TypeOK, Checked, OneRolePerUser, OwnerRow, HierarchyKept
  <2>2. CASE Next BY <2>2, SubmitStep, CheckStep, WriteStep DEF Next
  <2> QED BY <2>1, <2>2
<1> QED BY InitInv, <1>1, PTL DEF Spec

\* Every reachable state of a team and of the requests on it is well typed
\* (services/team.py:56-213).
THEOREM TypeCorrect == Spec => []TypeOK
<1>1. TeamInv => TypeOK BY DEF TeamInv
<1> QED BY <1>1, TeamInvariant, PTL

\* However requests overlap, a user has one role at most, no admin takes an admin out
\* of the team, and nobody the owner.
THEOREM HierarchyCorrect == Spec => [](OneRolePerUser /\ HierarchyKept)
<1>1. TeamInv => OneRolePerUser /\ HierarchyKept BY DEF TeamInv
<1> QED BY <1>1, TeamInvariant, PTL

-----------------------------------------------------------------------------
\* What a user is depends on the user's rows only.
LEMMA SameRows ==
  ASSUME NEW u, RowsOf(u)' = RowsOf(u)
  PROVE  RoleOf(u)' = RoleOf(u)
BY DEF RoleOf

LEMMA InviteImplements ==
  ASSUME TeamInv, NEW r \in reqs, Invite(r)
  PROVE  Promise!Invite(r.whom) /\ r.whom \in Users
<1> DEFINE m == [id |-> r.n, user |-> r.whom, role |-> r.as]
<1>1. r.whom \in Users /\ r.as \in {"admin", "member"}
  BY DEF TeamInv, TypeOK, Request, Invitable
<1>2. members' = members \cup {m} /\ team /\ RowsOf(r.whom) = {} BY DEF Invite
<1>3. m.user = r.whom /\ m.role = r.as OBVIOUS
<1> HIDE DEF m
<1>4. RowsOf(r.whom)' = {m} BY <1>2, <1>3 DEF RowsOf
<1>5. RoleOf(r.whom)' = r.as
  <2>1. (CHOOSE o \in {m} : TRUE) = m OBVIOUS
  <2> QED BY <1>3, <1>4, <2>1 DEF RoleOf
<1>6. ASSUME NEW u \in Users, u # r.whom PROVE RoleOf(u)' = RoleOf(u)
  <2>1. RowsOf(u)' = RowsOf(u) BY <1>2, <1>3, <1>6 DEF RowsOf
  <2> QED BY <2>1, SameRows
<1>7. RoleOf(r.whom) = "none" BY <1>2 DEF RoleOf
<1>8. RoleOf(Owner) = "owner"
  <2>1. NoRow \in members /\ OneRolePerUser BY <1>2 DEF TeamInv, OwnerRow
  <2>2. RoleOf(NoRow.user) = NoRow.role BY <2>1, RoleOfMember
  <2> QED BY <2>2 DEF NoRow
<1>9. [u \in Users |-> RoleOf(u)']
      = [[u \in Users |-> RoleOf(u)] EXCEPT ![r.whom] = r.as]
  BY <1>1, <1>5, <1>6
<1> QED BY <1>1, <1>7, <1>8, <1>9 DEF Promise!Invite

LEMMA RemoveImplements ==
  ASSUME TeamInv, NEW r \in reqs, r.step = "write", Remove(r), r.row \in members
  PROVE  Promise!Remove(r.row.user) /\ r.row.user \in Users
<1>1. r.row \in Member /\ r.row.role # "owner" /\ OneRolePerUser
  BY DEF TeamInv, TypeOK, Request, Checked, Remove
<1>2. r.row.user \in Users /\ r.row.role \in {"admin", "member"}
  BY <1>1 DEF Member, TeamRole
<1>3. members' = members \ {r.row} BY DEF Remove
<1>4. RoleOf(r.row.user) = r.row.role BY <1>1, RoleOfMember
<1>5. RowsOf(r.row.user)' = {} BY <1>1, <1>3 DEF RowsOf, OneRolePerUser
<1>6. RoleOf(r.row.user)' = "none" BY <1>5 DEF RoleOf
<1>7. ASSUME NEW u \in Users, u # r.row.user PROVE RoleOf(u)' = RoleOf(u)
  <2>1. RowsOf(u)' = RowsOf(u) BY <1>3, <1>7 DEF RowsOf
  <2> QED BY <2>1, SameRows
<1>8. [u \in Users |-> RoleOf(u)']
      = [[u \in Users |-> RoleOf(u)] EXCEPT ![r.row.user] = "none"]
  BY <1>2, <1>6, <1>7
<1> QED BY <1>2, <1>4, <1>8 DEF Promise!Remove

\* A step that leaves the rows alone leaves the roles alone.
LEMMA RowsKept ==
  ASSUME UNCHANGED members
  PROVE  [u \in Users |-> RoleOf(u)'] = [u \in Users |-> RoleOf(u)]
<1>1. \A u \in Users : RowsOf(u)' = RowsOf(u) BY DEF RowsOf
<1>2. \A u \in Users : RoleOf(u)' = RoleOf(u) BY <1>1, SameRows
<1> QED BY <1>2

LEMMA StepImplements ==
  ASSUME TeamInv, [Next]_vars
  PROVE  [Promise!Next]_([u \in Users |-> RoleOf(u)])
<1>1. CASE UNCHANGED members BY <1>1, RowsKept
<1>2. ASSUME NEW r \in reqs, Write(r) PROVE [Promise!Next]_([u \in Users |-> RoleOf(u)])
  <2>1. CASE Invite(r) BY <2>1, InviteImplements DEF Promise!Next
  <2>2. CASE Remove(r)
    <3>1. CASE r.row \in members
      BY <1>2, <2>2, <3>1, RemoveImplements DEF Promise!Next, Write
    <3>2. CASE r.row \notin members
      <4>1. UNCHANGED members BY <2>2, <3>2 DEF Remove
      <4> QED BY <4>1, RowsKept
    <3> QED BY <3>1, <3>2
  <2>3. CASE Delete(r)
    <3>1. \A u \in Users : RowsOf(u)' = {} BY <2>3 DEF Delete, RowsOf
    <3>2. \A u \in Users : RoleOf(u)' = "none" BY <3>1 DEF RoleOf
    <3>3. [u \in Users |-> RoleOf(u)'] = [u \in Users |-> "none"] BY <3>2
    <3> QED BY <3>3 DEF Promise!Next, Promise!Dissolve
  <2> QED BY <1>2, <2>1, <2>2, <2>3 DEF Write
<1> QED
  BY <1>1, <1>2 DEF Next, vars, Submit, SeeTeam, SeeRole, SeeStranger, SeeMember, Fail, Check

\* However requests overlap, the members of a team do what Membership promises.
THEOREM MembershipImplemented == Spec => MembershipSpec
<1>1. Init => Promise!Init
  <2> SUFFICES ASSUME Init PROVE Promise!Init OBVIOUS
  <2>1. members = {NoRow} BY DEF Init
  <2>2. OneRolePerUser /\ NoRow \in members BY <2>1 DEF OneRolePerUser
  <2>3. RoleOf(NoRow.user) = NoRow.role BY <2>2, RoleOfMember
  <2>4. \A u \in Users : u # Owner => RoleOf(u) = "none" BY <2>1, RoleOfStranger DEF NoRow
  <2>5. RoleOf(Owner) = "owner" BY <2>3 DEF NoRow
  <2>6. [u \in Users |-> RoleOf(u)] = [u \in Users |-> IF u = Owner THEN "owner" ELSE "none"]
    BY <2>4, <2>5
  <2> QED BY <2>6 DEF Promise!Init
<1> QED BY <1>1, StepImplements, TeamInvariant, PTL DEF Spec, MembershipSpec, Promise!Spec
=============================================================================
