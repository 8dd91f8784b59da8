------------------------------ MODULE TaskFlow ------------------------------
(***************************************************************************)
(* The task service (app/services/task.py) over PostgreSQL.  Every request *)
(* runs in a session of its own at READ COMMITTED: each SELECT is a step   *)
(* that sees what is committed at that moment, and the flush, the audit    *)
(* row and the COMMIT are one step, because the row lock taken by the      *)
(* flush is held to the commit.  Nothing is locked between the reads and   *)
(* that step.  Notifications are handed to the broker after the commit.    *)
(*                                                                         *)
(* All tasks belong to one project of one team; who is in that team        *)
(* changes underneath as Membership says.                                  *)
(***************************************************************************)
EXTENDS TaskStatus, Naturals, Sequences, FiniteSets

CONSTANTS
  Users, Owner, Tasks,
  MaxRequests,      \* bound: requests submitted in one behaviour
  MaxInFlight       \* bound: requests being served at the same time

ASSUME OwnerAssumption == Owner \in Users
ASSUME BoundsAssumption == MaxRequests \in Nat /\ MaxInFlight \in Nat

VARIABLES
  task,             \* tasks.status, or NEW before the row and DELETED after it
  role,             \* team_members
  assignees,        \* task_assignees
  logs,             \* operation_logs with action task:transition, in commit order
  sent,             \* notifications handed to the broker
  reqs,             \* the requests being served
  count,            \* requests submitted so far
  committed,        \* history: the requests whose transaction committed
  crossed           \* history: tasks that two transitions had read at the same time

vars == <<task, role, assignees, logs, sent, reqs, count, committed, crossed>>

Team == INSTANCE Membership
Rows == INSTANCE TaskLifecycle

Ops == {"create", "transition", "update", "assign", "unassign", "delete"}
Steps == {"read", "member", "target", "assigned", "manager", "write", "notify"}

Request == [n: Nat, op: Ops, user: Users, task: Tasks, to: Statuses,
            whom: Users, seen: Rows!Row, step: Steps]
Log == [task: Tasks, user: Users, old: Statuses, new: Statuses]
Notice == [n: Nat, kind: {"task_assigned", "task_status_changed"}, to: Users]

Init ==
  /\ Rows!Init
  /\ Team!Init
  /\ assignees = {} /\ logs = <<>> /\ sent = {}
  /\ reqs = {} /\ count = 0 /\ committed = {} /\ crossed = {}

-----------------------------------------------------------------------------
\* Transitions of t between their first read and their commit.
Transitioning(t) ==
  {r \in reqs : r.op = "transition" /\ r.task = t /\ r.step \in {"member", "write"}}

\* A request arrives; create looks at the project first, the others at the
\* task.  Parameters the operation does not have are fixed.
Submit(op, u, t, to, w) ==
  /\ count < MaxRequests /\ Cardinality(reqs) < MaxInFlight
  /\ op # "transition" => to = "TODO"
  /\ op \notin {"assign", "unassign"} => w = u
  /\ count' = count + 1
  /\ reqs' = reqs \cup
       {[n |-> count + 1, op |-> op, user |-> u, task |-> t, to |-> to, whom |-> w,
         seen |-> "NEW", step |-> IF op = "create" THEN "member" ELSE "read"]}
  /\ UNCHANGED <<task, role, assignees, logs, sent, committed, crossed>>

Advance(r, s) == reqs' = (reqs \ {r}) \cup {[r EXCEPT !.step = s]}
Finish(r) == reqs' = reqs \ {r}

\* A check that fails raises 403, 404 or 409, and the session rolls back.
Check(r, ok, s) ==
  /\ IF ok THEN Advance(r, s) ELSE Finish(r)
  /\ UNCHANGED <<task, role, assignees, logs, sent, count, committed, crossed>>

ReadTask(r) ==
  /\ r.step = "read"
  /\ IF task[r.task] \in Statuses
     THEN reqs' = (reqs \ {r}) \cup {[r EXCEPT !.seen = task[r.task], !.step = "member"]}
     ELSE Finish(r)
  /\ crossed' = IF /\ r.op = "transition" /\ task[r.task] \in Statuses
                   /\ Transitioning(r.task) # {}
                THEN crossed \cup {r.task} ELSE crossed
  /\ UNCHANGED <<task, role, assignees, logs, sent, count, committed>>

NextCheck(op) ==
  CASE op = "assign"   -> "target"
    [] op = "unassign" -> "assigned"
    [] op = "delete"   -> "manager"
    [] OTHER           -> "write"

\* Mutant: the state machine is not consulted.
CheckMemberOnly(r) ==
  r.step = "member" /\ Check(r, role[r.user] # "none", NextCheck(r.op))

\* is_project_visible, and for a transition validate_transition on the status read.
CheckMember(r) ==
  /\ r.step = "member"
  /\ Check(r, /\ role[r.user] # "none"
              /\ r.op = "transition" => can_transition(r.seen, r.to),
           NextCheck(r.op))

CheckTarget(r) == r.step = "target" /\ Check(r, role[r.whom] # "none", "assigned")

CheckAssigned(r) ==
  /\ r.step = "assigned"
  /\ Check(r, (<<r.task, r.whom>> \in assignees) = (r.op = "unassign"), "write")

CheckManager(r) ==
  r.step = "manager" /\ Check(r, role[r.user] \in {"owner", "admin"}, "write")

-----------------------------------------------------------------------------
\* The flush found what it needs, and the transaction commits.
Commit(r, s) ==
  /\ committed' = committed \cup {r}
  /\ IF s = "done" THEN Finish(r) ELSE Advance(r, s)
  /\ UNCHANGED <<role, sent, count, crossed>>

RowExists(r) == task[r.task] \in Statuses

\* Mutant: a new row is given a status the enumeration does not have.
CreateTaskOpen(r) ==
  /\ r.op = "create" /\ task[r.task] = "NEW"
  /\ task' = [task EXCEPT ![r.task] = "OPEN"]
  /\ Commit(r, "done") /\ UNCHANGED <<assignees, logs>>

CreateTask(r) ==
  /\ r.op = "create" /\ task[r.task] = "NEW"
  /\ task' = [task EXCEPT ![r.task] = "TODO"]
  /\ Commit(r, "done") /\ UNCHANGED <<assignees, logs>>

\* Mutant: old_status is taken after the assignment.
TransitionTaskLateOld(r) ==
  /\ r.op = "transition" /\ RowExists(r)
  /\ task' = [task EXCEPT ![r.task] = r.to]
  /\ logs' = Append(logs, [task |-> r.task, user |-> r.user, old |-> r.to, new |-> r.to])
  /\ Commit(r, "notify") /\ UNCHANGED assignees

TransitionTask(r) ==
  /\ r.op = "transition" /\ RowExists(r)
  /\ task' = [task EXCEPT ![r.task] = r.to]
  /\ logs' = Append(logs, [task |-> r.task, user |-> r.user, old |-> r.seen, new |-> r.to])
  /\ Commit(r, "notify") /\ UNCHANGED assignees

\* Mutant: the whole row is written back, as it was read.
UpdateTaskWholeRow(r) ==
  /\ r.op = "update" /\ RowExists(r)
  /\ task' = [task EXCEPT ![r.task] = r.seen]
  /\ Commit(r, "done") /\ UNCHANGED <<assignees, logs>>

\* PATCH writes the columns it was given, and status is not one of them.
UpdateTask(r) ==
  /\ r.op = "update" /\ RowExists(r)
  /\ Commit(r, "done") /\ UNCHANGED <<task, assignees, logs>>

\* Mutant: no primary key behind the check made before.
AssignTaskNoKey(r) ==
  /\ r.op = "assign" /\ RowExists(r)
  /\ assignees' = assignees \cup {<<r.task, r.whom>>}
  /\ Commit(r, IF r.whom = r.user THEN "done" ELSE "notify") /\ UNCHANGED <<task, logs>>

\* The primary key and the foreign key of task_assignees let the row in.
AssignTask(r) ==
  /\ r.op = "assign" /\ RowExists(r) /\ <<r.task, r.whom>> \notin assignees
  /\ assignees' = assignees \cup {<<r.task, r.whom>>}
  /\ Commit(r, IF r.whom = r.user THEN "done" ELSE "notify") /\ UNCHANGED <<task, logs>>

\* DELETE of a row that is already gone affects nothing and still commits.
UnassignTask(r) ==
  /\ r.op = "unassign"
  /\ assignees' = assignees \ {<<r.task, r.whom>>}
  /\ Commit(r, "done") /\ UNCHANGED <<task, logs>>

\* Mutant: the assignees do not go with the task.
DeleteTaskNoCascade(r) ==
  /\ r.op = "delete"
  /\ task' = [task EXCEPT ![r.task] = "DELETED"]
  /\ Commit(r, "done") /\ UNCHANGED <<assignees, logs>>

DeleteTask(r) ==
  /\ r.op = "delete"
  /\ task' = [task EXCEPT ![r.task] = "DELETED"]
  /\ assignees' = {a \in assignees : a[1] # r.task}
  /\ Commit(r, "done") /\ UNCHANGED logs

Write(r) ==
  /\ r.step = "write"
  /\ \/ CreateTask(r) \/ TransitionTask(r) \/ UpdateTask(r)
     \/ AssignTask(r) \/ UnassignTask(r) \/ DeleteTask(r)

\* The request dies: the worker is killed, the flush finds the row gone or
\* taken (StaleDataError, IntegrityError), the database refuses the commit.
Fail(r) ==
  /\ Finish(r)
  /\ UNCHANGED <<task, role, assignees, logs, sent, count, committed, crossed>>

\* Mutant: whoever made the change is told as well.
AudienceWithActor(r) ==
  IF r.op = "assign" THEN {r.whom} ELSE {u \in Users : <<r.task, u>> \in assignees}

\* After the commit: who is told, read in a new statement.
Audience(r) ==
  IF r.op = "assign" THEN {r.whom}
  ELSE {u \in Users : <<r.task, u>> \in assignees} \ {r.user}

\* Dispatch is best effort: any of them may fail to reach the broker.
Dispatch(r) ==
  /\ r.step = "notify"
  /\ \E told \in SUBSET Audience(r) :
       sent' = sent \cup
         {[n |-> r.n, to |-> u,
           kind |-> IF r.op = "assign" THEN "task_assigned" ELSE "task_status_changed"]
            : u \in told}
  /\ Finish(r)
  /\ UNCHANGED <<task, role, assignees, logs, count, committed, crossed>>

ChangeMembers ==
  /\ \E u \in Users : Team!Invite(u) \/ Team!Remove(u)
  /\ UNCHANGED <<task, assignees, logs, sent, reqs, count, committed, crossed>>

Next ==
  \/ \E op \in Ops, u \in Users, t \in Tasks, to \in Statuses, w \in Users :
       Submit(op, u, t, to, w)
  \/ \E r \in reqs :
       \/ ReadTask(r) \/ CheckMember(r) \/ CheckTarget(r) \/ CheckAssigned(r)
       \/ CheckManager(r) \/ Write(r) \/ Dispatch(r) \/ Fail(r)
  \/ ChangeMembers

Spec == Init /\ [][Next]_vars

-----------------------------------------------------------------------------
\* The variables have their types.
TypeOK ==
  /\ task \in [Tasks -> Rows!Row]
  /\ role \in [Users -> Team!Roles]
  /\ assignees \subseteq Tasks \X Users
  /\ logs \in Seq(Log)
  /\ sent \subseteq Notice
  /\ reqs \subseteq Request
  /\ count \in Nat
  /\ committed \subseteq Request
  /\ crossed \subseteq Tasks

LastLog(i) == \A j \in DOMAIN logs : logs[j].task = logs[i].task => j <= i

\* The audit trail never disagrees with the data, whatever overlaps: the last
\* transition logged for a task that still exists leads to its current
\* status, and a task without one is still TODO (services/task.py:319-329).
AuditTrail ==
  /\ \A i \in DOMAIN logs :
       LastLog(i) => task[logs[i].task] \in {logs[i].new, "DELETED"}
  /\ \A t \in Tasks :
       task[t] \in Statuses /\ (\A i \in DOMAIN logs : logs[i].task # t)
         => task[t] = "TODO"

\* No notification about something that did not happen, and none to oneself:
\* each one comes from a request that committed (services/task.py:79-81).
NoticeBacked ==
  \A m \in sent : \E r \in committed :
    /\ r.n = m.n /\ r.user # m.to
    /\ IF m.kind = "task_assigned" THEN r.op = "assign" /\ r.whom = m.to
       ELSE r.op = "transition"

Granted(op, t, u) == {r \in committed : r.op = op /\ r.task = t /\ r.whom = u}

\* Two requests that both saw "not yet assigned" cannot both assign: between
\* two assignments of a user to a task lies an unassignment (services/task.py:263-269).
AssignedOnce ==
  \A t \in Tasks, u \in Users :
    Cardinality(Granted("assign", t, u)) <= 1 + Cardinality(Granted("unassign", t, u))

\* A deleted task keeps no assignee, even one whose assignment was under way
\* when the task was deleted (services/task.py:218-228).
NoGhostAssignee == \A a \in assignees : task[a[1]] \in Statuses

-----------------------------------------------------------------------------
\* What the state machine is documented to guarantee: nothing leaves DONE or
\* CANCELLED (services/state_machine.py:9-11).  With overlapping requests the
\* code does not keep it.
TerminalSealed ==
  [][\A t \in Tasks : task[t] \in TERMINAL_STATUSES => task'[t] \in {task[t], "DELETED"}]_vars

\* A task that was crossed is withdrawn from what the lifecycle promises.
Lifecycle == INSTANCE TaskLifecycle WITH
  task <- [t \in Tasks |-> IF t \in crossed THEN "DELETED" ELSE task[t]]

\* Up to the moment when two transitions of a task have both read its status, the
\* status column does exactly what the lifecycle allows, whatever else is running.
LifecycleSpec == Lifecycle!Spec

\* And then the audit trail is a connected history: every entry starts from
\* the status the one before it of the same task led to (services/task.py:316-328).
AuditChain ==
  \A i \in DOMAIN logs :
    LET before == {j \in 1 .. i - 1 : logs[j].task = logs[i].task}
    IN logs[i].task \in crossed
       \/ /\ before = {} => logs[i].old = "TODO"
          /\ \A j \in before : (\A k \in before : k <= j) => logs[i].old = logs[j].new
=============================================================================
