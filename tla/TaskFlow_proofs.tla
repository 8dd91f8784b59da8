--------------------------- MODULE TaskFlow_proofs --------------------------
(***************************************************************************)
(* Proofs about TaskFlow, for any users, tasks and bounds.                 *)
(***************************************************************************)
EXTENDS TaskFlow, FiniteSetTheorems, TLAPS

USE DEF Rows!Row, Rows!Statuses

LEMMA StatusFacts ==
  /\ \A s, d \in Statuses : can_transition(s, d) => d \in Statuses
  /\ "TODO" \in Statuses /\ "NEW" \notin Statuses /\ "DELETED" \notin Statuses
BY DEF Statuses, can_transition

\* A request past its first read has read the status of an existing row.
ReadOK ==
  \A r \in reqs : r.op # "create" /\ r.step # "read" =>
    r.seen \in Statuses /\ task[r.task] # "NEW"

\* What a commit leaves of the typed variables it touches itself.
LEMMA CommitType ==
  ASSUME TypeOK, NEW r \in reqs, NEW s \in {"done", "notify"}, Commit(r, s)
  PROVE  /\ role' \in [Users -> Team!Roles] /\ sent' \subseteq Notice
         /\ reqs' \subseteq Request /\ count' \in Nat /\ committed' \subseteq Request
         /\ crossed' \subseteq Tasks
<1>1. r \in Request BY DEF TypeOK
<1>2. [r EXCEPT !.step = "notify"] \in Request BY <1>1 DEF Request, Steps
<1>q. QED BY <1>1, <1>2 DEF TypeOK, Commit, Advance, Finish

\* The variables keep their types.
LEMMA TypeStep == TypeOK /\ ReadOK /\ [Next]_vars => TypeOK'
<1> SUFFICES ASSUME TypeOK, ReadOK, [Next]_vars PROVE TypeOK'
  OBVIOUS
<1>1. ASSUME NEW op \in Ops, NEW u \in Users, NEW t \in Tasks, NEW to \in Statuses,
             NEW w \in Users, Submit(op, u, t, to, w)
      PROVE  TypeOK'
  BY <1>1 DEF TypeOK, Submit, Request, Steps, Statuses
<1>2. ASSUME NEW r \in reqs, ReadTask(r) PROVE TypeOK'
  <2>1. r \in Request BY DEF TypeOK
  <2>2. [r EXCEPT !.seen = task[r.task], !.step = "member"] \in Request
    BY <2>1 DEF Request, TypeOK, Steps
  <2>3. r.task \in Tasks BY <2>1 DEF Request
  <2>q. QED BY <1>2, <2>2, <2>3 DEF TypeOK, ReadTask, Finish
<1>3. ASSUME NEW r \in reqs, NEW ok, NEW s \in Steps, Check(r, ok, s) PROVE TypeOK'
  <2>1. r \in Request BY DEF TypeOK
  <2>2. [r EXCEPT !.step = s] \in Request
    BY <2>1 DEF Request
  <2>q. QED BY <1>3, <2>2 DEF TypeOK, Check, Advance, Finish
<1>4. ASSUME NEW r \in reqs, CheckMember(r) PROVE TypeOK'
  <2>1. NextCheck(r.op) \in Steps BY DEF NextCheck, Steps
  <2>q. QED BY <1>3, <1>4, <2>1 DEF CheckMember
<1>5. ASSUME NEW r \in reqs, CheckTarget(r) \/ CheckAssigned(r) \/ CheckManager(r)
      PROVE  TypeOK'
  <2>1. "assigned" \in Steps /\ "write" \in Steps BY DEF Steps
  <2>q. QED BY <1>3, <1>5, <2>1 DEF CheckTarget, CheckAssigned, CheckManager
<1>6. ASSUME NEW r \in reqs, Write(r) PROVE TypeOK'
  <2>1. r \in Request BY DEF TypeOK
  <2>2. CASE CreateTask(r)
    BY <2>1, <2>2, CommitType DEF TypeOK, CreateTask, Request, Statuses
  <2>3. CASE TransitionTask(r)
    <3>1. [task |-> r.task, user |-> r.user, old |-> r.seen, new |-> r.to] \in Log
      BY <1>6, <2>1, <2>3 DEF Write, TransitionTask, ReadOK, Request, Log
    <3>2. logs' \in Seq(Log) BY <3>1, <2>3 DEF TypeOK, TransitionTask
    <3>3. task' \in [Tasks -> Rows!Row]
      BY <2>1, <2>3 DEF TypeOK, TransitionTask, Request, Statuses
    <3>4. Commit(r, "notify") /\ assignees' = assignees BY <2>3 DEF TransitionTask
    <3>q. QED BY <3>2, <3>3, <3>4, CommitType DEF TypeOK
  <2>4. CASE UpdateTask(r)
    BY <2>1, <2>4, CommitType DEF TypeOK, UpdateTask
  <2>5. CASE AssignTask(r)
    BY <2>1, <2>5, CommitType DEF TypeOK, AssignTask, Request
  <2>6. CASE UnassignTask(r)
    BY <2>1, <2>6, CommitType DEF TypeOK, UnassignTask
  <2>7. CASE DeleteTask(r)
    BY <2>1, <2>7, CommitType DEF TypeOK, DeleteTask, Request
  <2>q. QED BY <1>6, <2>2, <2>3, <2>4, <2>5, <2>6, <2>7 DEF Write
<1>7. ASSUME NEW r \in reqs, Dispatch(r) PROVE TypeOK'
  <2>1. r \in Request BY DEF TypeOK
  <2>2. Audience(r) \subseteq Users BY <2>1 DEF Audience, Request
  <2>q. QED BY <1>7, <2>1, <2>2 DEF TypeOK, Dispatch, Finish, Notice, Request
<1>8. ASSUME NEW r \in reqs, Fail(r) PROVE TypeOK'
  BY <1>8 DEF TypeOK, Fail, Finish
<1>9. ASSUME ChangeMembers PROVE TypeOK'
  BY <1>9 DEF TypeOK, ChangeMembers, Team!Invite, Team!Remove, Team!Roles
<1>10. CASE UNCHANGED vars
  BY <1>10 DEF TypeOK, vars
<1>q. QED
  BY <1>1, <1>2, <1>4, <1>5, <1>6, <1>7, <1>8, <1>9, <1>10 DEF Next

\* A step that only moves one request along, past its first read, and turns no
\* existing row into a missing one.
LEMMA ReadKept ==
  ASSUME TypeOK, ReadOK, NEW r \in reqs, r.step # "read", NEW s,
         reqs' \subseteq reqs \cup {[r EXCEPT !.step = s]},
         \A t \in Tasks : task[t] # "NEW" => task'[t] # "NEW"
  PROVE  ReadOK'
<1>1. r \in Request BY DEF TypeOK
<1>2. SUFFICES ASSUME NEW q \in reqs', q.op # "create", q.step # "read"
               PROVE  q.seen \in Statuses /\ task'[q.task] # "NEW"
  BY DEF ReadOK
<1>3. CASE q \in reqs BY <1>3, <1>2 DEF ReadOK, TypeOK, Request
<1>4. CASE q = [r EXCEPT !.step = s]
  <2>1. q.op = r.op /\ q.seen = r.seen /\ q.task = r.task BY <1>1, <1>4 DEF Request
  <2>q. QED BY <2>1, <1>1, <1>2 DEF ReadOK, Request
<1>q. QED BY <1>2, <1>3, <1>4

LEMMA ReadStep == TypeOK /\ ReadOK /\ [Next]_vars => ReadOK'
<1> SUFFICES ASSUME TypeOK, ReadOK, [Next]_vars PROVE ReadOK'
  OBVIOUS
<1>1. ASSUME NEW op \in Ops, NEW u \in Users, NEW t \in Tasks, NEW to \in Statuses,
             NEW w \in Users, Submit(op, u, t, to, w)
      PROVE  ReadOK'
  BY <1>1 DEF ReadOK, Submit
<1>2. ASSUME NEW r \in reqs, ReadTask(r) PROVE ReadOK'
  <2>1. r \in Request BY DEF TypeOK
  <2>2. CASE task[r.task] \in Statuses
    <3> DEFINE q == [r EXCEPT !.seen = task[r.task], !.step = "member"]
    <3>1. q.seen = task[r.task] /\ q.task = r.task BY <2>1 DEF Request
    <3>2. reqs' = (reqs \ {r}) \cup {q} /\ task' = task BY <1>2, <2>2 DEF ReadTask
    <3> HIDE DEF q
    <3>q. QED BY <2>2, <3>1, <3>2, StatusFacts DEF ReadOK
  <2>3. CASE task[r.task] \notin Statuses
    BY <1>2, <2>3 DEF ReadTask, Finish, ReadOK
  <2>q. QED BY <2>2, <2>3
<1>3. ASSUME NEW r \in reqs, r.step # "read", NEW ok, NEW s, Check(r, ok, s) PROVE ReadOK'
  BY <1>3, ReadKept DEF Check, Advance, Finish
<1>4. ASSUME NEW r \in reqs,
             CheckMember(r) \/ CheckTarget(r) \/ CheckAssigned(r) \/ CheckManager(r)
      PROVE  ReadOK'
  BY <1>3, <1>4 DEF CheckMember, CheckTarget, CheckAssigned, CheckManager
<1>5. ASSUME NEW r \in reqs, Write(r) PROVE ReadOK'
  <2>1. r \in Request BY DEF TypeOK
  <2>2. \A t \in Tasks : task[t] # "NEW" => task'[t] # "NEW"
    BY <1>5, <2>1 DEF Write, CreateTask, TransitionTask, UpdateTask, AssignTask,
       UnassignTask, DeleteTask, TypeOK, Request, Statuses
  <2>3. ASSUME NEW s, Commit(r, s) PROVE reqs' \subseteq reqs \cup {[r EXCEPT !.step = s]}
    BY <2>3 DEF Commit, Advance, Finish
  <2>4. \E s : Commit(r, s)
    BY <1>5 DEF Write, CreateTask, TransitionTask, UpdateTask, AssignTask,
       UnassignTask, DeleteTask
  <2>q. QED BY <1>5, <2>2, <2>3, <2>4, ReadKept DEF Write
<1>6. ASSUME NEW r \in reqs, Dispatch(r) \/ Fail(r) PROVE ReadOK'
  BY <1>6 DEF ReadOK, Dispatch, Fail, Finish
<1>7. ASSUME ChangeMembers \/ UNCHANGED vars PROVE ReadOK'
  BY <1>7 DEF ReadOK, ChangeMembers, vars
<1>q. QED BY <1>1, <1>2, <1>4, <1>5, <1>6, <1>7 DEF Next

\* The variables of TaskFlow keep their types: no request ever stores a status
\* the enumeration does not have.
THEOREM TypeCorrect == Spec => [](TypeOK /\ ReadOK)
<1>1. Init => TypeOK /\ ReadOK
  BY OwnerAssumption DEF Init, TypeOK, ReadOK, Rows!Init, Team!Init, Team!Roles
<1>2. TypeOK /\ ReadOK /\ [Next]_vars => (TypeOK /\ ReadOK)'
  BY TypeStep, ReadStep
<1>q. QED BY <1>1, <1>2, PTL DEF Spec

-----------------------------------------------------------------------------
\* A task with an audit entry has, or had, a row.
LogsOfRows == \A i \in DOMAIN logs : task[logs[i].task] # "NEW"

AuditInv == AuditTrail /\ LogsOfRows

\* Everything but a write leaves the tasks, the assignees, the log and what committed,
\* and takes no task out of crossed.
LEMMA Others ==
  ASSUME [Next]_vars
  PROVE  \/ UNCHANGED <<task, assignees, logs, committed>> /\ crossed \subseteq crossed'
         \/ \E r \in reqs : Write(r)
<1>1. ASSUME NEW r \in reqs, ReadTask(r)
      PROVE  UNCHANGED <<task, assignees, logs, committed>> /\ crossed \subseteq crossed'
  BY <1>1 DEF ReadTask
<1>2. ASSUME NEW r \in reqs, CheckMember(r) \/ CheckTarget(r) \/ CheckAssigned(r) \/ CheckManager(r)
      PROVE  UNCHANGED <<task, assignees, logs, committed, crossed>>
  BY <1>2 DEF CheckMember, CheckTarget, CheckAssigned, CheckManager, Check
<1>3. ASSUME NEW r \in reqs, Dispatch(r) \/ Fail(r)
      PROVE  UNCHANGED <<task, assignees, logs, committed, crossed>>
  BY <1>3 DEF Dispatch, Fail
<1>4. CASE \E op \in Ops, u \in Users, t \in Tasks, to \in Statuses, w \in Users :
             Submit(op, u, t, to, w)
  BY <1>4 DEF Submit
<1>5. CASE ChangeMembers \/ UNCHANGED vars BY <1>5 DEF ChangeMembers, vars
<1>q. QED BY <1>1, <1>2, <1>3, <1>4, <1>5 DEF Next

\* Which writes touch the log, and which the status.
LEMMA Writes ==
  ASSUME NEW r, Write(r)
  PROVE  /\ crossed' = crossed /\ (logs' = logs \/ TransitionTask(r))
         /\ task' = task \/ CreateTask(r) \/ TransitionTask(r) \/ DeleteTask(r)
<1>1. CASE CreateTask(r) \/ TransitionTask(r) BY <1>1 DEF CreateTask, TransitionTask, Commit
<1>2. CASE UpdateTask(r) BY <1>2 DEF UpdateTask, Commit
<1>3. CASE AssignTask(r) \/ UnassignTask(r) BY <1>3 DEF AssignTask, UnassignTask, Commit
<1>4. CASE DeleteTask(r) BY <1>4 DEF DeleteTask, Commit
<1>q. QED BY <1>1, <1>2, <1>3, <1>4 DEF Write

LEMMA AuditStep == TypeOK /\ ReadOK /\ AuditInv /\ [Next]_vars => AuditInv'
<1> SUFFICES ASSUME TypeOK, ReadOK, AuditInv, [Next]_vars PROVE AuditInv'
  OBVIOUS
<1>1. CASE UNCHANGED <<task, logs>>
  BY <1>1 DEF AuditInv, AuditTrail, LogsOfRows, LastLog
<1>2. ASSUME NEW r \in reqs, Write(r) PROVE AuditInv'
  <2>1. r \in Request BY DEF TypeOK
  <2>2. CASE CreateTask(r)
    BY <2>1, <2>2 DEF CreateTask, AuditInv, AuditTrail, LogsOfRows, LastLog, TypeOK,
       Request, Log, Statuses
  <2>3. CASE TransitionTask(r)
    <3> DEFINE e == [task |-> r.task, user |-> r.user, old |-> r.seen, new |-> r.to]
    <3>1. e.task = r.task /\ e.new = r.to OBVIOUS
    <3>2. logs' = Append(logs, e) /\ task' = [task EXCEPT ![r.task] = r.to]
      BY <2>3 DEF TransitionTask
    <3>3. logs \in Seq(Log) /\ r.task \in Tasks /\ r.to \in Statuses /\ DOMAIN task = Tasks
      BY <2>1 DEF TypeOK, Request
    <3>0. e \in Log BY <1>2, <2>1, <2>3 DEF Write, TransitionTask, ReadOK, Request, Log
    <3> HIDE DEF e
    <3>4. /\ Len(logs) \in Nat /\ DOMAIN logs = 1 .. Len(logs)
          /\ DOMAIN logs' = 1 .. (Len(logs) + 1)
          /\ \A i \in DOMAIN logs : logs'[i] = logs[i] /\ logs[i].task \in Tasks
          /\ logs'[Len(logs) + 1] = e
      <4> HIDE DEF Log
      <4>1. Len(logs) \in Nat /\ DOMAIN logs = 1 .. Len(logs) BY <3>3
      <4>2. \A i \in DOMAIN logs : logs[i] \in Log BY <3>3
      <4>3. DOMAIN logs' = 1 .. (Len(logs) + 1) BY <3>0, <3>2, <3>3
      <4>4. \A i \in DOMAIN logs : logs'[i] = logs[i] BY <3>0, <3>2, <3>3
      <4>5. logs'[Len(logs) + 1] = e BY <3>0, <3>2, <3>3
      <4>q. QED BY <4>1, <4>2, <4>3, <4>4, <4>5 DEF Log
    <3>5. ASSUME NEW i \in DOMAIN logs', LastLog(i)'
          PROVE  task'[logs'[i].task] \in {logs'[i].new, "DELETED"}
      <4>1. CASE i = Len(logs) + 1 BY <4>1, <3>1, <3>2, <3>3, <3>4
      <4>2. CASE i \in DOMAIN logs
        <5>1. logs[i].task # r.task
          BY <4>2, <3>1, <3>4, <3>5 DEF LastLog
        <5>2. LastLog(i) BY <4>2, <3>4, <3>5 DEF LastLog
        <5>q. QED BY <5>1, <5>2, <4>2, <3>2, <3>3, <3>4 DEF AuditInv, AuditTrail
      <4>q. QED BY <4>1, <4>2, <3>4
    <3>6. ASSUME NEW t \in Tasks, task'[t] \in Statuses,
                 \A i \in DOMAIN logs' : logs'[i].task # t
          PROVE  task'[t] = "TODO"
      <4>1. t # r.task BY <3>1, <3>4, <3>6
      <4>2. \A i \in DOMAIN logs : logs[i].task # t BY <3>4, <3>6
      <4>q. QED BY <4>1, <4>2, <3>2, <3>3, <3>6 DEF AuditInv, AuditTrail
    <3>7. LogsOfRows'
      BY <3>1, <3>2, <3>3, <3>4, StatusFacts DEF LogsOfRows, AuditInv
    <3>q. QED BY <3>5, <3>6, <3>7 DEF AuditInv, AuditTrail
  <2>4. CASE UpdateTask(r) \/ AssignTask(r) \/ UnassignTask(r)
    BY <2>4, <1>1 DEF UpdateTask, AssignTask, UnassignTask
  <2>5. CASE DeleteTask(r)
    BY <2>1, <2>5 DEF DeleteTask, AuditInv, AuditTrail, LogsOfRows, LastLog, TypeOK,
       Request, Log, Statuses
  <2>q. QED BY <1>2, <2>2, <2>3, <2>4, <2>5 DEF Write
<1>3. \/ UNCHANGED <<task, logs>> \/ \E r \in reqs : Write(r) BY Others
<1>q. QED BY <1>1, <1>2, <1>3

\* The audit trail agrees with the status column whatever requests overlap.
THEOREM AuditTrailCorrect == Spec => []AuditTrail
<1>1. Init => AuditInv
  BY DEF Init, AuditInv, AuditTrail, LogsOfRows, Rows!Init, Statuses
<1>2. AuditInv => AuditTrail BY DEF AuditInv
<1>q. QED BY <1>1, <1>2, TypeCorrect, AuditStep, PTL DEF Spec

-----------------------------------------------------------------------------
\* No row of task_assignees outlives its task.
THEOREM NoGhostAssigneeCorrect == Spec => []NoGhostAssignee
<1>1. Init => NoGhostAssignee BY DEF Init, NoGhostAssignee
<1>2. TypeOK /\ NoGhostAssignee /\ [Next]_vars => NoGhostAssignee'
  <2> SUFFICES ASSUME TypeOK, NoGhostAssignee, [Next]_vars PROVE NoGhostAssignee'
    OBVIOUS
  <2>1. \A a \in assignees : a[1] \in Tasks BY DEF TypeOK
  <2>2. CASE UNCHANGED <<task, assignees>> BY <2>2 DEF NoGhostAssignee
  <2>3. ASSUME NEW r \in reqs, Write(r) PROVE NoGhostAssignee'
    <3>1. r \in Request BY DEF TypeOK
    <3>2. CASE CreateTask(r) \/ TransitionTask(r)
      BY <2>1, <3>1, <3>2, StatusFacts DEF CreateTask, TransitionTask, NoGhostAssignee, TypeOK, Request
    <3>3. CASE UpdateTask(r) BY <3>3, <2>2 DEF UpdateTask
    <3>4. CASE AssignTask(r)
      <4>1. \A a \in assignees' : a \in assignees \/ a[1] = r.task
        BY <3>4 DEF AssignTask
      <4>q. QED BY <4>1, <3>4 DEF AssignTask, RowExists, NoGhostAssignee
    <3>5. CASE UnassignTask(r) BY <3>5 DEF UnassignTask, NoGhostAssignee
    <3>6. CASE DeleteTask(r)
      BY <2>1, <3>1, <3>6 DEF DeleteTask, NoGhostAssignee, TypeOK, Request
    <3>q. QED BY <2>3, <3>2, <3>3, <3>4, <3>5, <3>6 DEF Write
  <2>4. UNCHANGED <<task, assignees>> \/ \E r \in reqs : Write(r) BY Others
  <2>q. QED BY <2>2, <2>3, <2>4
<1>q. QED BY <1>1, <1>2, TypeCorrect, PTL DEF Spec

-----------------------------------------------------------------------------
\* A request that is to notify has committed, and tells nobody about themselves.
NoticeInv ==
  /\ NoticeBacked
  /\ \A r \in reqs : r.step = "notify" =>
       /\ \/ r.op = "transition"
          \/ (r.op = "assign" /\ r.whom # r.user)
       /\ \E c \in committed : c.n = r.n /\ c.op = r.op /\ c.user = r.user /\ c.whom = r.whom

LEMMA NoticeStep == TypeOK /\ NoticeInv /\ [Next]_vars => NoticeInv'
<1> SUFFICES ASSUME TypeOK, NoticeInv, [Next]_vars PROVE NoticeInv'
  OBVIOUS
<1>1. ASSUME UNCHANGED <<sent, committed>>,
             \A q \in reqs' : q.step = "notify" => q \in reqs
      PROVE  NoticeInv'
  BY <1>1 DEF NoticeInv, NoticeBacked
<1>2. ASSUME NEW op \in Ops, NEW u \in Users, NEW t \in Tasks, NEW to \in Statuses,
             NEW w \in Users, Submit(op, u, t, to, w)
      PROVE  NoticeInv'
  BY <1>1, <1>2 DEF Submit
<1>3. ASSUME NEW r \in reqs, ReadTask(r) PROVE NoticeInv'
  <2>1. r \in Request BY DEF TypeOK
  <2>2. [r EXCEPT !.seen = task[r.task], !.step = "member"].step = "member"
    BY <2>1 DEF Request
  <2>q. QED BY <1>1, <1>3, <2>2 DEF ReadTask, Finish
<1>4. ASSUME NEW r \in reqs, NEW ok, NEW s, s # "notify", Check(r, ok, s) PROVE NoticeInv'
  <2>1. r \in Request BY DEF TypeOK
  <2>2. [r EXCEPT !.step = s].step = s BY <2>1 DEF Request
  <2>q. QED BY <1>1, <1>4, <2>2 DEF Check, Advance, Finish
<1>5. ASSUME NEW r \in reqs,
             CheckMember(r) \/ CheckTarget(r) \/ CheckAssigned(r) \/ CheckManager(r)
      PROVE  NoticeInv'
  <2>1. NextCheck(r.op) # "notify" BY DEF NextCheck
  <2>q. QED BY <1>4, <1>5, <2>1 DEF CheckMember, CheckTarget, CheckAssigned, CheckManager
<1>6. ASSUME NEW r \in reqs, NEW s, Commit(r, s),
             s = "notify" => r.op = "transition" \/ (r.op = "assign" /\ r.whom # r.user)
      PROVE  NoticeInv'
  <2> DEFINE x == [r EXCEPT !.step = s]
  <2>1. r \in Request BY DEF TypeOK
  <2>2. x.n = r.n /\ x.op = r.op /\ x.user = r.user /\ x.whom = r.whom /\ x.step = s
    BY <2>1 DEF Request
  <2>3. /\ committed' = committed \cup {r} /\ sent' = sent
        /\ reqs' \subseteq reqs \cup {x} /\ (s = "done" => reqs' \subseteq reqs)
    BY <1>6 DEF Commit, Advance, Finish
  <2> HIDE DEF x
  <2>4. NoticeBacked' BY <2>3 DEF NoticeInv, NoticeBacked
  <2>5. ASSUME NEW q \in reqs', q.step = "notify"
        PROVE  /\ q.op = "transition" \/ (q.op = "assign" /\ q.whom # q.user)
               /\ \E c \in committed' : c.n = q.n /\ c.op = q.op /\ c.user = q.user /\ c.whom = q.whom
    <3>1. CASE q \in reqs BY <3>1, <2>3, <2>5 DEF NoticeInv
    <3>2. CASE q = x /\ s = "notify" BY <3>2, <1>6, <2>2, <2>3
    <3>q. QED BY <3>1, <3>2, <2>2, <2>3, <2>5
  <2>q. QED BY <2>4, <2>5 DEF NoticeInv
<1>7. ASSUME NEW r \in reqs, Write(r) PROVE NoticeInv'
  <2>1. Commit(r, "done") \/ Commit(r, "notify")
    BY <1>7 DEF Write, CreateTask, TransitionTask, UpdateTask, AssignTask, UnassignTask, DeleteTask
  <2>2. Commit(r, "done") \/ r.op = "transition" \/ (r.op = "assign" /\ r.whom # r.user)
    BY <1>7 DEF Write, CreateTask, TransitionTask, UpdateTask, AssignTask, UnassignTask, DeleteTask
  <2>q. QED BY <1>6, <2>1, <2>2
<1>8. ASSUME NEW r \in reqs, Dispatch(r) PROVE NoticeInv'
  <2>1. PICK told \in SUBSET Audience(r) : sent' = sent \cup
         {[n |-> r.n, to |-> u,
           kind |-> IF r.op = "assign" THEN "task_assigned" ELSE "task_status_changed"]
            : u \in told}
    BY <1>8 DEF Dispatch
  <2>2. committed' = committed /\ reqs' \subseteq reqs /\ r.step = "notify"
    BY <1>8 DEF Dispatch, Finish
  <2>3. ASSUME NEW u \in told PROVE u # r.user /\ (r.op = "assign" => u = r.whom)
    BY <2>2 DEF Audience, NoticeInv
  <2>4. ASSUME NEW m \in sent' PROVE \E c \in committed' :
          /\ c.n = m.n /\ c.user # m.to
          /\ IF m.kind = "task_assigned" THEN c.op = "assign" /\ c.whom = m.to
             ELSE c.op = "transition"
    <3>1. CASE m \in sent BY <3>1, <2>2 DEF NoticeInv, NoticeBacked
    <3>2. ASSUME NEW u \in told,
                 m = [n |-> r.n, to |-> u,
                      kind |-> IF r.op = "assign" THEN "task_assigned" ELSE "task_status_changed"]
          PROVE  \E c \in committed' :
                   /\ c.n = m.n /\ c.user # m.to
                   /\ IF m.kind = "task_assigned" THEN c.op = "assign" /\ c.whom = m.to
                      ELSE c.op = "transition"
      <4>1. /\ m.n = r.n /\ m.to = u
            /\ m.kind = IF r.op = "assign" THEN "task_assigned" ELSE "task_status_changed"
        BY <3>2
      <4>2. PICK c \in committed : c.n = r.n /\ c.op = r.op /\ c.user = r.user /\ c.whom = r.whom
        BY <2>2 DEF NoticeInv
      <4>3. r.op \in {"transition", "assign"} BY <2>2 DEF NoticeInv
      <4>q. QED BY <4>1, <4>2, <4>3, <2>2, <2>3
    <3>q. QED BY <3>1, <3>2, <2>1
  <2>q. QED BY <2>2, <2>4 DEF NoticeInv, NoticeBacked
<1>9. ASSUME NEW r \in reqs, Fail(r) PROVE NoticeInv'
  BY <1>1, <1>9 DEF Fail, Finish
<1>10. CASE ChangeMembers \/ UNCHANGED vars
  BY <1>1, <1>10 DEF ChangeMembers, vars
<1>q. QED BY <1>2, <1>3, <1>5, <1>7, <1>8, <1>9, <1>10 DEF Next

\* Every notification handed to the broker is about a change that committed,
\* and none goes to the user who made it.
THEOREM NoticeBackedCorrect == Spec => []NoticeBacked
<1>1. Init => NoticeInv BY DEF Init, NoticeInv, NoticeBacked
<1>2. NoticeInv => NoticeBacked BY DEF NoticeInv
<1>q. QED BY <1>1, <1>2, TypeCorrect, NoticeStep, PTL DEF Spec

-----------------------------------------------------------------------------
\* A transition that was not crossed has read the current status of its task,
\* unless the task has been deleted since, and is alone with it.
Transition(r) == r.op = "transition" /\ r.step # "notify"
Looked(r) == Transition(r) /\ r.step # "read" /\ r.task \notin crossed

OrderInv ==
  /\ \A r \in reqs : Transition(r) =>
       /\ r.step \in {"read", "member", "write"}
       /\ r.step = "write" => can_transition(r.seen, r.to)
  /\ \A r \in reqs : Looked(r) => task[r.task] \in {r.seen, "DELETED"}
  /\ \A q, r \in reqs : Looked(q) /\ Looked(r) /\ q.task = r.task => q = r

\* A step that leaves the tasks alone and moves at most one request, which has
\* looked before and stays consistent.
LEMMA OrderKept ==
  ASSUME OrderInv, task' = task, crossed' = crossed, NEW r \in reqs, NEW x,
         reqs' \subseteq (reqs \ {r}) \cup {x},
         Transition(x) => /\ Transition(r) /\ r.step # "read"
                          /\ x.task = r.task /\ x.seen = r.seen
                          /\ x.step \in {"member", "write"}
                          /\ x.step = "write" => can_transition(x.seen, x.to)
  PROVE  OrderInv'
<1>1. \A q : (Transition(q)' <=> Transition(q)) /\ (Looked(q)' <=> Looked(q))
  BY DEF Transition, Looked
<1>2. \A q \in reqs' : Transition(q) =>
        /\ q.step \in {"read", "member", "write"}
        /\ q.step = "write" => can_transition(q.seen, q.to)
  BY DEF OrderInv
<1>3. Looked(x) => Looked(r) BY DEF Looked
<1>4. \A q \in reqs' : Looked(q) => task'[q.task] \in {q.seen, "DELETED"}
  <2>1. Looked(x) => task'[x.task] \in {x.seen, "DELETED"}
    BY <1>3 DEF OrderInv, Looked
  <2>q. QED BY <2>1 DEF OrderInv
<1>5. ASSUME NEW p \in reqs', NEW q \in reqs', Looked(p), Looked(q), p.task = q.task
      PROVE  p = q
  <2>1. Looked(x) => x.task = r.task BY DEF Looked
  <2>q. QED BY <1>3, <1>5, <2>1 DEF OrderInv
<1>q. QED BY <1>1, <1>2, <1>4, <1>5 DEF OrderInv

LEMMA OrderStep == TypeOK /\ ReadOK /\ OrderInv /\ [Next]_vars => OrderInv'
<1> SUFFICES ASSUME TypeOK, ReadOK, OrderInv, [Next]_vars PROVE OrderInv'
  OBVIOUS
<1>1. CASE UNCHANGED <<task, crossed>> /\ reqs' \subseteq reqs
  BY <1>1 DEF OrderInv, Transition, Looked
<1>2. ASSUME NEW op \in Ops, NEW u \in Users, NEW t \in Tasks, NEW to \in Statuses,
             NEW w \in Users, Submit(op, u, t, to, w)
      PROVE  OrderInv'
  <2> DEFINE x == [n |-> count + 1, op |-> op, user |-> u, task |-> t, to |-> to, whom |-> w,
                   seen |-> "NEW", step |-> IF op = "create" THEN "member" ELSE "read"]
  <2>1. reqs' = reqs \cup {x} /\ task' = task /\ crossed' = crossed
    BY <1>2 DEF Submit
  <2>2. x.op = op /\ (op = "transition" => x.step = "read")
    OBVIOUS
  <2> HIDE DEF x
  <2>q. QED BY <2>1, <2>2 DEF OrderInv, Transition, Looked
<1>3. ASSUME NEW r \in reqs, ReadTask(r) PROVE OrderInv'
  <2>0. PICK x : x = [r EXCEPT !.seen = task[r.task], !.step = "member"] OBVIOUS
  <2>1. r \in Request BY DEF TypeOK
  <2>2. x.op = r.op /\ x.task = r.task /\ x.step = "member" /\ x.seen = task[r.task]
    BY <2>0, <2>1 DEF Request
  <2>3. r.step = "read" /\ task' = task BY <1>3 DEF ReadTask
  <2>4. CASE task[r.task] \in Statuses
    <3>1. reqs' = (reqs \ {r}) \cup {x} BY <1>3, <2>0, <2>4 DEF ReadTask
    <3>2. crossed' = IF r.op = "transition" /\ Transitioning(r.task) # {}
                     THEN crossed \cup {r.task} ELSE crossed
      BY <1>3, <2>4 DEF ReadTask
    <3>3. crossed \subseteq crossed' BY <3>2
    <3>4. \A q : Looked(q)' => Looked(q) BY <3>3 DEF Looked, Transition
    <3>5. \A q \in reqs' : Transition(q) =>
            /\ q.step \in {"read", "member", "write"}
            /\ q.step = "write" => can_transition(q.seen, q.to)
      BY <2>2, <3>1 DEF OrderInv
    <3>6. \A q \in reqs' : Looked(q)' => task'[q.task] \in {q.seen, "DELETED"}
      BY <2>2, <2>3, <3>1, <3>4 DEF OrderInv
    <3>7. ASSUME NEW q \in reqs \ {r}, Looked(q)', Looked(x)' PROVE q.task # x.task
      <4>1. r.op = "transition" /\ r.task \notin crossed'
        BY <2>2, <3>7 DEF Looked, Transition
      <4>2. Transitioning(r.task) = {} BY <3>2, <4>1
      <4>3. q.op = "transition" /\ q.step \in {"member", "write"}
        BY <3>4, <3>7 DEF Looked, Transition, OrderInv
      <4>q. QED BY <2>2, <3>7, <4>2, <4>3 DEF Transitioning
    <3>8. \A p, q \in reqs' : Looked(p)' /\ Looked(q)' /\ p.task = q.task => p = q
      BY <3>1, <3>4, <3>7 DEF OrderInv
    <3>9. \A q : Transition(q)' <=> Transition(q) BY DEF Transition
    <3>q. QED BY <3>5, <3>6, <3>8, <3>9 DEF OrderInv
  <2>5. CASE task[r.task] \notin Statuses
    BY <1>1, <1>3, <2>5 DEF ReadTask, Finish
  <2>q. QED BY <2>4, <2>5
<1>4. ASSUME NEW r \in reqs, CheckMember(r) PROVE OrderInv'
  <2> DEFINE x == [r EXCEPT !.step = NextCheck(r.op)]
  <2>1. r \in Request BY DEF TypeOK
  <2>2. /\ x.op = r.op /\ x.task = r.task /\ x.step = NextCheck(r.op)
        /\ x.seen = r.seen /\ x.to = r.to
    BY <2>1 DEF Request
  <2>3. r.step = "member" /\ task' = task /\ crossed' = crossed
    BY <1>4 DEF CheckMember, Check
  <2>4. CASE r.op = "transition" /\ can_transition(r.seen, r.to)
    <3>1. reqs' \subseteq (reqs \ {r}) \cup {x}
      BY <1>4 DEF CheckMember, Check, Advance, Finish
    <3>2. NextCheck(r.op) = "write" BY <2>4 DEF NextCheck
    <3> HIDE DEF x
    <3>q. QED BY <3>1, <3>2, <2>2, <2>3, <2>4, OrderKept DEF Transition
  <2>5. CASE r.op # "transition"
    <3>1. reqs' \subseteq (reqs \ {r}) \cup {x}
      BY <1>4 DEF CheckMember, Check, Advance, Finish
    <3> HIDE DEF x
    <3>q. QED BY <3>1, <2>2, <2>3, <2>5, OrderKept DEF Transition
  <2>6. CASE r.op = "transition" /\ ~can_transition(r.seen, r.to)
    BY <1>1, <1>4, <2>6 DEF CheckMember, Check, Finish
  <2>q. QED BY <2>4, <2>5, <2>6
<1>5. ASSUME NEW r \in reqs, CheckTarget(r) \/ CheckAssigned(r) \/ CheckManager(r)
      PROVE  OrderInv'
  <2>1. r.op # "transition"
    BY <1>5 DEF CheckTarget, CheckAssigned, CheckManager, OrderInv, Transition
  <2>2. r \in Request BY DEF TypeOK
  <2>3. PICK s : reqs' \subseteq (reqs \ {r}) \cup {[r EXCEPT !.step = s]}
    BY <1>5 DEF CheckTarget, CheckAssigned, CheckManager, Check, Advance, Finish
  <2>4. [r EXCEPT !.step = s].op = r.op BY <2>2 DEF Request
  <2>5. task' = task /\ crossed' = crossed
    BY <1>5 DEF CheckTarget, CheckAssigned, CheckManager, Check
  <2>q. QED BY <2>1, <2>3, <2>4, <2>5, OrderKept DEF Transition
<1>6. ASSUME NEW r \in reqs, Write(r) PROVE OrderInv'
  <2>1. r \in Request BY DEF TypeOK
  <2>2. ~Transition([r EXCEPT !.step = "notify"])
    BY <2>1 DEF Transition, Request
  <2>0. PICK s \in {"done", "notify"} : Commit(r, s)
    BY <1>6 DEF Write, CreateTask, TransitionTask, UpdateTask, AssignTask, UnassignTask, DeleteTask
  <2>3. ASSUME NEW q \in reqs', Transition(q) PROVE q \in reqs \ {r}
    BY <2>0, <2>2, <2>3 DEF Commit, Advance, Finish
  <2>4. ASSUME NEW q \in reqs \ {r}, Looked(q) PROVE task'[q.task] \in {q.seen, "DELETED"}
    <3>1. q \in Request BY DEF TypeOK
    <3>2. /\ task[q.task] \in {q.seen, "DELETED"} /\ task[q.task] # "NEW"
      BY <2>4 DEF OrderInv, ReadOK, Looked, Transition
    <3>3. CASE CreateTask(r) BY <3>1, <3>2, <3>3, <2>1 DEF CreateTask, TypeOK, Request
    <3>4. CASE TransitionTask(r)
      <4>1. Transition(r) /\ r.step # "read"
        BY <1>6, <3>4 DEF TransitionTask, Write, Transition
      <4>2. q.task # r.task BY <4>1, <2>4 DEF OrderInv, Looked
      <4>q. QED BY <4>2, <3>1, <3>2, <3>4, <2>1 DEF TransitionTask, TypeOK, Request
    <3>5. CASE UpdateTask(r) \/ AssignTask(r) \/ UnassignTask(r)
      BY <3>2, <3>5 DEF UpdateTask, AssignTask, UnassignTask
    <3>6. CASE DeleteTask(r)
      BY <3>1, <3>2, <3>6, <2>1 DEF DeleteTask, TypeOK, Request
    <3>q. QED BY <1>6, <3>3, <3>4, <3>5, <3>6 DEF Write
  <2>5. \A q : (Transition(q)' <=> Transition(q)) /\ (Looked(q)' <=> Looked(q))
    BY <2>0 DEF Transition, Looked, Commit
  <2>6. \A q : Looked(q) => Transition(q) BY DEF Looked
  <2>q. QED BY <2>3, <2>4, <2>5, <2>6 DEF OrderInv
<1>7. ASSUME NEW r \in reqs, Dispatch(r) \/ Fail(r) PROVE OrderInv'
  BY <1>1, <1>7 DEF Dispatch, Fail, Finish
<1>8. CASE ChangeMembers \/ UNCHANGED vars
  BY <1>1, <1>8 DEF ChangeMembers, vars
<1>q. QED BY <1>2, <1>3, <1>4, <1>5, <1>6, <1>7, <1>8 DEF Next

\* The column as the lifecycle sees it.
Promised == [t \in Tasks |-> IF t \in crossed THEN "DELETED" ELSE task[t]]

USE DEF Lifecycle!Statuses, Lifecycle!Row

\* The documented life cycle of a task (TaskLifecycle) is implemented up to the
\* moment when two of its transitions overlap, whatever else runs beside them.
THEOREM LifecycleImplemented == Spec => LifecycleSpec
<1>1. Init => Lifecycle!Init /\ OrderInv
  BY DEF Init, OrderInv, Rows!Init, Lifecycle!Init
<1>2. TypeOK /\ ReadOK /\ OrderInv /\ [Next]_vars => OrderInv'
  BY OrderStep
<1>3. TypeOK /\ ReadOK /\ OrderInv /\ [Next]_vars => [Lifecycle!Next]_Promised
  <2> SUFFICES ASSUME TypeOK, ReadOK, OrderInv, [Next]_vars
               PROVE  [Lifecycle!Next]_Promised
    OBVIOUS
  <2>1. \/ UNCHANGED <<task, crossed>> \/ \E r \in reqs : ReadTask(r)
        \/ \E r \in reqs : Write(r) /\ crossed' = crossed
    <3>1. ASSUME NEW op, NEW u, NEW t, NEW to, NEW w, Submit(op, u, t, to, w)
          PROVE  UNCHANGED <<task, crossed>>
      BY <3>1 DEF Submit
    <3>2. ASSUME NEW r \in reqs, \/ CheckMember(r) \/ CheckTarget(r) \/ CheckAssigned(r)
                                \/ CheckManager(r) \/ Dispatch(r) \/ Fail(r)
          PROVE  UNCHANGED <<task, crossed>>
      BY <3>2 DEF CheckMember, CheckTarget, CheckAssigned, CheckManager, Check, Dispatch, Fail
    <3>3. ASSUME NEW r \in reqs, Write(r) PROVE crossed' = crossed
      BY <3>3 DEF Write, CreateTask, TransitionTask, UpdateTask, AssignTask, UnassignTask,
         DeleteTask, Commit
    <3>4. CASE ChangeMembers \/ UNCHANGED vars BY <3>4 DEF ChangeMembers, vars
    <3>q. QED BY <3>1, <3>2, <3>3, <3>4 DEF Next
  <2>2. CASE UNCHANGED <<task, crossed>> BY <2>2 DEF Promised
  <2>3. ASSUME NEW r \in reqs, ReadTask(r) PROVE [Lifecycle!Next]_Promised
    <3>1. r.task \in Tasks /\ DOMAIN task = Tasks BY DEF TypeOK, Request
    <3>2. task' = task BY <2>3 DEF ReadTask
    <3>3. CASE crossed' = crossed BY <2>2, <3>2, <3>3
    <3>4. CASE crossed' # crossed
      <4>1. crossed' = crossed \cup {r.task} /\ task[r.task] \in Statuses
        BY <2>3, <3>4 DEF ReadTask
      <4>2. r.task \notin crossed BY <4>1, <3>4
      <4>3. Promised' = [Promised EXCEPT ![r.task] = "DELETED"] /\ Promised[r.task] \in Statuses
        BY <3>1, <3>2, <4>1, <4>2 DEF Promised
      <4>4. Lifecycle!Delete(r.task) BY <4>3 DEF Lifecycle!Delete, Promised, Statuses
      <4>q. QED BY <3>1, <4>4 DEF Lifecycle!Next
    <3>q. QED BY <3>3, <3>4
  <2>4. ASSUME NEW r \in reqs, Write(r), crossed' = crossed PROVE [Lifecycle!Next]_Promised
    <3>1. r \in Request /\ r.task \in Tasks /\ r.to \in Statuses /\ DOMAIN task = Tasks
      BY DEF TypeOK, Request
    <3>2. ASSUME NEW v, task' = [task EXCEPT ![r.task] = v]
          PROVE  /\ r.task \in crossed => Promised' = Promised
                 /\ r.task \notin crossed => /\ Promised' = [Promised EXCEPT ![r.task] = v]
                                             /\ Promised[r.task] = task[r.task]
      BY <2>4, <3>1, <3>2 DEF Promised
    <3>3. CASE CreateTask(r)
      <4>1. CASE r.task \in crossed BY <3>2, <3>3, <4>1 DEF CreateTask
      <4>2. CASE r.task \notin crossed
        <5>1. Lifecycle!Create(r.task)
          BY <3>2, <3>3, <4>2 DEF CreateTask, Lifecycle!Create, Promised
        <5>q. QED BY <3>1, <5>1 DEF Lifecycle!Next
      <4>q. QED BY <4>1, <4>2
    <3>4. CASE TransitionTask(r)
      <4>1. CASE r.task \in crossed BY <3>2, <3>4, <4>1 DEF TransitionTask
      <4>2. CASE r.task \notin crossed
        <5>1. Looked(r) /\ can_transition(r.seen, r.to)
          BY <2>4, <3>4, <4>2 DEF Write, TransitionTask, Looked, Transition, OrderInv
        <5>2. can_transition(task[r.task], r.to) /\ task[r.task] \in Statuses
          BY <3>4, <5>1, StatusFacts DEF TransitionTask, RowExists, OrderInv
        <5>3. Lifecycle!Move(r.task, r.to)
          BY <3>2, <3>4, <4>2, <5>2 DEF TransitionTask, Lifecycle!Move, can_transition,
             TRANSITIONS, Statuses, Lifecycle!can_transition, Lifecycle!TRANSITIONS, Promised
        <5>q. QED BY <3>1, <5>3 DEF Lifecycle!Next, Statuses
      <4>q. QED BY <4>1, <4>2
    <3>5. CASE UpdateTask(r) \/ AssignTask(r) \/ UnassignTask(r)
      BY <2>2, <2>4, <3>5 DEF UpdateTask, AssignTask, UnassignTask
    <3>6. CASE DeleteTask(r)
      <4>1. task[r.task] \in Statuses \cup {"DELETED"}
        BY <2>4, <3>1, <3>6 DEF DeleteTask, Write, ReadOK, TypeOK, Statuses
      <4>2. CASE r.task \in crossed BY <3>2, <3>6, <4>2 DEF DeleteTask
      <4>3. CASE r.task \notin crossed /\ task[r.task] = "DELETED"
        <5>1. task' = task BY <3>1, <3>6, <4>3 DEF DeleteTask, TypeOK
        <5>q. QED BY <5>1, <2>2, <2>4
      <4>4. CASE r.task \notin crossed /\ task[r.task] \in Statuses
        <5>1. Lifecycle!Delete(r.task)
          BY <3>2, <3>6, <4>4 DEF DeleteTask, Lifecycle!Delete, Statuses, Promised
        <5>q. QED BY <3>1, <5>1 DEF Lifecycle!Next
      <4>q. QED BY <4>1, <4>2, <4>3, <4>4
    <3>q. QED BY <2>4, <3>3, <3>4, <3>5, <3>6 DEF Write
  <2>q. QED BY <2>1, <2>2, <2>3, <2>4
<1>q. QED BY <1>1, <1>2, <1>3, TypeCorrect, PTL DEF Spec, LifecycleSpec, Lifecycle!Spec, Promised

-----------------------------------------------------------------------------
\* What AuditChain asks of the entry at i, read from the sequence s.
Linked(s, i) ==
  /\ (\A j \in 1 .. i - 1 : s[j].task # s[i].task) => s[i].old = "TODO"
  /\ \A j \in 1 .. i - 1 :
       /\ s[j].task = s[i].task
       /\ \A k \in 1 .. i - 1 : s[k].task = s[i].task => k <= j
       => s[i].old = s[j].new

LEMMA ChainLinked ==
  AuditChain <=> \A i \in DOMAIN logs : logs[i].task \in crossed \/ Linked(logs, i)
<1> DEFINE before(i) == {j \in 1 .. i - 1 : logs[j].task = logs[i].task}
           Entry(i) == /\ before(i) = {} => logs[i].old = "TODO"
                       /\ \A j \in before(i) :
                            (\A k \in before(i) : k <= j) => logs[i].old = logs[j].new
<1>1. ASSUME NEW i PROVE Entry(i) <=> Linked(logs, i)
  <2>1. before(i) = {} <=> \A j \in 1 .. i - 1 : logs[j].task # logs[i].task
    OBVIOUS
  <2>2. \A j : j \in before(i) <=> j \in 1 .. i - 1 /\ logs[j].task = logs[i].task
    OBVIOUS
  <2> HIDE DEF before
  <2>3. (before(i) = {} => logs[i].old = "TODO")
          <=> ((\A j \in 1 .. i - 1 : logs[j].task # logs[i].task) => logs[i].old = "TODO")
    BY <2>1
  <2>4. (\A j \in before(i) : (\A k \in before(i) : k <= j) => logs[i].old = logs[j].new)
          <=> \A j \in 1 .. i - 1 :
                 /\ logs[j].task = logs[i].task
                 /\ \A k \in 1 .. i - 1 : logs[k].task = logs[i].task => k <= j
                 => logs[i].old = logs[j].new
    BY <2>2
  <2>q. QED BY <2>3, <2>4 DEF Linked
<1>2. AuditChain <=> \A i \in DOMAIN logs : logs[i].task \in crossed \/ Entry(i)
  BY DEF AuditChain
<1> HIDE DEF Entry
<1>q. QED BY <1>1, <1>2

LEMMA ChainStep ==
  ASSUME TypeOK, ReadOK, AuditInv, OrderInv, AuditChain, [Next]_vars
  PROVE  AuditChain'
<1>0. \A i \in DOMAIN logs : logs[i].task \in crossed \/ Linked(logs, i)
  BY ChainLinked
<1>00. AuditChain' <=> (\A i \in DOMAIN logs : logs[i].task \in crossed \/ Linked(logs, i))'
  BY ChainLinked, PTL
<1>1. ASSUME logs' = logs, crossed \subseteq crossed' PROVE AuditChain'
  <2>1. \A i \in DOMAIN logs' : logs'[i].task \in crossed' \/ Linked(logs', i)
    BY <1>0, <1>1
  <2>q. QED BY <2>1, <1>00
<1>2. ASSUME NEW r \in reqs, Write(r), TransitionTask(r) PROVE AuditChain'
  <2> DEFINE e == [task |-> r.task, user |-> r.user, old |-> r.seen, new |-> r.to]
             n == Len(logs)
  <2>1. r \in Request BY DEF TypeOK
  <2>2. e \in Log /\ e.task = r.task /\ e.old = r.seen
    BY <1>2, <2>1 DEF Write, TransitionTask, ReadOK, Request, Log
  <2>3. r.task \notin crossed => task[r.task] = r.seen /\ task[r.task] \in Statuses
    BY <1>2, StatusFacts DEF Write, TransitionTask, RowExists, OrderInv, Transition, Looked
  <2>4. logs \in Seq(Log) /\ logs' = Append(logs, e) /\ crossed' = crossed
        /\ r.task \in Tasks
    BY <1>2, <2>1 DEF TypeOK, TransitionTask, Commit, Request
  <2> HIDE DEF e
  <2>5. /\ n \in Nat /\ DOMAIN logs = 1 .. n /\ DOMAIN logs' = 1 .. (n + 1)
        /\ \A i \in 1 .. n : logs'[i] = logs[i]
        /\ logs'[n + 1] = e
    <3> HIDE DEF Log
    <3>1. n \in Nat /\ DOMAIN logs = 1 .. n BY <2>4
    <3>2. DOMAIN logs' = 1 .. (n + 1) BY <2>2, <2>4
    <3>3. \A i \in 1 .. n : logs'[i] = logs[i] BY <2>2, <2>4
    <3>4. logs'[n + 1] = e BY <2>2, <2>4
    <3>q. QED BY <3>1, <3>2, <3>3, <3>4
  <2> HIDE DEF n
  <2>6. ASSUME NEW i \in 1 .. n PROVE logs'[i].task \in crossed' \/ Linked(logs', i)
    <3>1. \A j \in 1 .. i - 1 : logs'[j] = logs[j] BY <2>5
    <3>2. logs'[i] = logs[i] BY <2>5
    <3>3. Linked(logs, i) <=> Linked(logs', i) BY <3>1, <3>2 DEF Linked
    <3>q. QED BY <1>0, <2>4, <2>5, <3>2, <3>3
  <2>7. ASSUME r.task \notin crossed PROVE Linked(logs', n + 1)
    <3>1. \A j \in 1 .. n : logs'[j] = logs[j] BY <2>5
    <3>2. ASSUME \A j \in 1 .. n : logs[j].task # r.task PROVE r.seen = "TODO"
      BY <2>3, <2>4, <2>5, <2>7, <3>2 DEF AuditInv, AuditTrail
    <3>3. ASSUME NEW j \in 1 .. n, logs[j].task = r.task,
                 \A k \in 1 .. n : logs[k].task = r.task => k <= j
          PROVE  r.seen = logs[j].new
      <4>1. LastLog(j) BY <3>3, <2>5 DEF LastLog
      <4>2. task[r.task] \in {logs[j].new, "DELETED"}
        BY <4>1, <3>3, <2>5 DEF AuditInv, AuditTrail
      <4>q. QED BY <4>2, <2>3, <2>7, StatusFacts
    <3>4. (n + 1) - 1 = n BY <2>5
    <3>5. logs'[n + 1].task = r.task /\ logs'[n + 1].old = r.seen BY <2>2, <2>5
    <3>q. QED BY <3>1, <3>2, <3>3, <3>4, <3>5 DEF Linked
  <2>8. \A i \in 1 .. (n + 1) : logs'[i].task \in crossed' \/ Linked(logs', i)
    <3>1. \A i \in 1 .. (n + 1) : i \in 1 .. n \/ i = n + 1 BY <2>5
    <3>2. logs'[n + 1].task \in crossed' \/ Linked(logs', n + 1)
      BY <2>2, <2>4, <2>5, <2>7
    <3>q. QED BY <2>6, <3>1, <3>2
  <2>9. \A i \in DOMAIN logs' : logs'[i].task \in crossed' \/ Linked(logs', i)
    BY <2>5, <2>8
  <2>q. QED BY <2>9, <1>00
<1>3. \/ logs' = logs /\ crossed \subseteq crossed'
      \/ \E r \in reqs : Write(r) /\ TransitionTask(r)
  BY Others, Writes
<1>q. QED BY <1>1, <1>2, <1>3

\* The audit trail of a task is a connected history that starts at TODO, for
\* as long as no two of its transitions have overlapped.
THEOREM AuditChainCorrect == Spec => []AuditChain
<1>1. Init => AuditInv /\ OrderInv /\ AuditChain
  BY DEF Init, AuditInv, AuditTrail, LogsOfRows, OrderInv, AuditChain, Rows!Init, Statuses
<1>2. TypeOK /\ ReadOK /\ OrderInv /\ [Next]_vars => OrderInv'
  BY OrderStep
<1>3. TypeOK /\ ReadOK /\ AuditInv /\ OrderInv /\ AuditChain /\ [Next]_vars => AuditChain'
  BY ChainStep
<1>q. QED BY <1>1, <1>2, <1>3, TypeCorrect, AuditStep, PTL DEF Spec

-----------------------------------------------------------------------------
LEMMA OrderCorrect == Spec => []OrderInv
<1>1. Init => OrderInv BY DEF Init, OrderInv
<1>q. QED BY <1>1, TypeCorrect, OrderStep, PTL DEF Spec

\* Every entry of the trail is a move that the state machine allows.
LegalEntries == \A i \in DOMAIN logs : can_transition(logs[i].old, logs[i].new)

LEMMA LegalStep == TypeOK /\ ReadOK /\ OrderInv /\ LegalEntries /\ [Next]_vars => LegalEntries'
<1> SUFFICES ASSUME TypeOK, ReadOK, OrderInv, LegalEntries, [Next]_vars PROVE LegalEntries'
  OBVIOUS
<1>1. ASSUME NEW r \in reqs, Write(r), TransitionTask(r) PROVE LegalEntries'
  <2>1. PICK e : e = [task |-> r.task, user |-> r.user, old |-> r.seen, new |-> r.to] OBVIOUS
  <2>2. e.old = r.seen /\ e.new = r.to BY <2>1
  <2>3. e \in Log
    <3>1. r \in Request BY DEF TypeOK
    <3>q. QED BY <1>1, <2>1, <3>1 DEF Write, TransitionTask, ReadOK, Request, Log
  <2>4. logs \in Seq(Log) /\ logs' = Append(logs, e)
    BY <1>1, <2>1 DEF TypeOK, TransitionTask
  <2>5. can_transition(e.old, e.new)
    BY <1>1, <2>2 DEF Write, TransitionTask, OrderInv, Transition
  <2>6. \A i \in DOMAIN logs' : logs'[i] = e \/ (i \in DOMAIN logs /\ logs'[i] = logs[i])
    <3> HIDE DEF Log
    <3>q. QED BY <2>3, <2>4
  <2>q. QED BY <2>5, <2>6 DEF LegalEntries
<1>2. CASE logs' = logs BY <1>2 DEF LegalEntries
<1>3. logs' = logs \/ \E r \in reqs : Write(r) /\ TransitionTask(r) BY Others, Writes
<1>q. QED BY <1>1, <1>2, <1>3

\* Also where transitions overlap, no entry shows a move that validate_transition would
\* refuse: what an overlap breaks is only that an entry starts where the last one ended.
THEOREM LegalEntriesCorrect == Spec => []LegalEntries
<1>1. Init => LegalEntries BY DEF Init, LegalEntries
<1>q. QED BY <1>1, TypeCorrect, OrderCorrect, LegalStep, PTL DEF Spec

\* Nothing leaves DONE or CANCELLED, except a task two of whose transitions have read the
\* status at the same time: the condition under which TerminalSealed holds.
THEOREM SealedUncrossed ==
  Spec => [][\A t \in Tasks : task[t] \in TERMINAL_STATUSES =>
               task'[t] \in {task[t], "DELETED"} \/ t \in crossed]_vars
<1>1. TypeOK /\ ReadOK /\ OrderInv /\ [Next]_vars =>
        [\A t \in Tasks : task[t] \in TERMINAL_STATUSES =>
           task'[t] \in {task[t], "DELETED"} \/ t \in crossed]_vars
  <2> SUFFICES ASSUME TypeOK, ReadOK, OrderInv, [Next]_vars, NEW t \in Tasks,
                      task[t] \in TERMINAL_STATUSES, t \notin crossed
               PROVE  task'[t] \in {task[t], "DELETED"}
    OBVIOUS
  <2>1. CASE task' = task BY <2>1
  <2>2. ASSUME NEW r \in reqs, Write(r), CreateTask(r) \/ TransitionTask(r) \/ DeleteTask(r)
        PROVE  task'[t] \in {task[t], "DELETED"}
    <3>1. DOMAIN task = Tasks BY DEF TypeOK
    <3>2. \E v : task' = [task EXCEPT ![r.task] = v]
      BY <2>2 DEF CreateTask, TransitionTask, DeleteTask
    <3>3. CASE t # r.task BY <3>1, <3>2, <3>3
    <3>4. CASE t = r.task
      <4>1. CASE DeleteTask(r) BY <3>1, <3>4, <4>1 DEF DeleteTask
      <4>2. CASE CreateTask(r) BY <3>4, <4>2 DEF CreateTask, TERMINAL_STATUSES
      <4>3. CASE TransitionTask(r)
        <5>1. Looked(r) /\ can_transition(r.seen, r.to)
          BY <2>2, <3>4, <4>3 DEF Write, TransitionTask, Looked, Transition, OrderInv
        <5>2. can_transition(task[t], r.to)
          BY <3>4, <5>1 DEF TERMINAL_STATUSES, OrderInv
        <5>3. \A s \in TERMINAL_STATUSES : \A d : ~can_transition(s, d)
          BY DEF TERMINAL_STATUSES, can_transition, TRANSITIONS
        <5>q. QED BY <5>2, <5>3
      <4>q. QED BY <2>2, <4>1, <4>2, <4>3
    <3>q. QED BY <3>3, <3>4
  <2>3. \/ task' = task
        \/ \E r \in reqs : Write(r) /\ (CreateTask(r) \/ TransitionTask(r) \/ DeleteTask(r))
    BY Others, Writes
  <2>q. QED BY <2>1, <2>2, <2>3
<1>q. QED BY <1>1, TypeCorrect, OrderCorrect, PTL DEF Spec

-----------------------------------------------------------------------------
(***************************************************************************)
(* Assignments.  A request commits once, so every unassignment that        *)
(* removes the row counts, and the primary key lets an assignment in only  *)
(* where there is no row.                                                  *)
(***************************************************************************)
Numbered ==
  /\ IsFiniteSet(committed)
  /\ \A r \in reqs : r.n <= count
  /\ \A c \in committed : c.n <= count
  /\ \A q, r \in reqs : q.n = r.n => q = r
  /\ \A r \in reqs, c \in committed : c.n = r.n => r.step = "notify"

\* One request moves along before its commit, or is done with.
LEMMA NumberedMoves ==
  ASSUME TypeOK, Numbered, NEW r \in reqs, NEW x, x.n = r.n,
         reqs' = reqs \ {r} \/ (r.step # "notify" /\ reqs' = (reqs \ {r}) \cup {x}),
         UNCHANGED <<count, committed>>
  PROVE  Numbered'
BY DEF Numbered

LEMMA NumberedCommit ==
  ASSUME TypeOK, Numbered, NEW r \in reqs, NEW s \in {"done", "notify"}, Commit(r, s)
  PROVE  Numbered'
<1> DEFINE x == [r EXCEPT !.step = s]
<1>1. r \in Request BY DEF TypeOK
<1>2. x.n = r.n /\ x.step = s BY <1>1 DEF Request
<1>3. /\ committed' = committed \cup {r} /\ count' = count
      /\ reqs' = reqs \ {r} \/ (s = "notify" /\ reqs' = (reqs \ {r}) \cup {x})
  BY DEF Commit, Advance, Finish
<1> HIDE DEF x
<1>4. IsFiniteSet(committed') BY <1>3, FS_AddElement DEF Numbered
<1>5. \A y \in reqs \ {r} : y.n # r.n BY DEF Numbered
<1> QED BY <1>2, <1>3, <1>4, <1>5 DEF Numbered

LEMMA NumberedStep == TypeOK /\ Numbered /\ [Next]_vars => Numbered'
<1> SUFFICES ASSUME TypeOK, Numbered, [Next]_vars PROVE Numbered'
  OBVIOUS
<1>1. ASSUME NEW op \in Ops, NEW u \in Users, NEW t \in Tasks, NEW to \in Statuses,
             NEW w \in Users, Submit(op, u, t, to, w)
      PROVE  Numbered'
  <2> DEFINE x == [n |-> count + 1, op |-> op, user |-> u, task |-> t, to |-> to, whom |-> w,
                   seen |-> "NEW", step |-> IF op = "create" THEN "member" ELSE "read"]
  <2>1. reqs' = reqs \cup {x} /\ count' = count + 1 /\ committed' = committed
    BY <1>1 DEF Submit
  <2>2. x.n = count + 1 OBVIOUS
  <2> HIDE DEF x
  <2>3. /\ count \in Nat /\ \A r \in reqs : r.n \in Nat /\ r.n <= count
        /\ \A c \in committed : c.n \in Nat /\ c.n <= count
    BY DEF TypeOK, Request, Numbered
  <2>4. IsFiniteSet(committed') BY <2>1 DEF Numbered
  <2>5. \A q, r \in reqs' : q.n = r.n => q = r BY <2>1, <2>2, <2>3 DEF Numbered
  <2>6. \A r \in reqs', c \in committed' : c.n = r.n => r.step = "notify"
    BY <2>1, <2>2, <2>3 DEF Numbered
  <2> QED BY <2>1, <2>2, <2>3, <2>4, <2>5, <2>6 DEF Numbered
<1>2. ASSUME NEW r \in reqs, ReadTask(r) PROVE Numbered'
  <2>1. r \in Request BY DEF TypeOK
  <2>2. [r EXCEPT !.seen = task[r.task], !.step = "member"].n = r.n BY <2>1 DEF Request
  <2> QED BY <1>2, <2>2, NumberedMoves DEF ReadTask, Finish
<1>3. ASSUME NEW r \in reqs, NEW ok, NEW s, r.step # "notify", Check(r, ok, s) PROVE Numbered'
  <2>1. r \in Request BY DEF TypeOK
  <2>2. [r EXCEPT !.step = s].n = r.n BY <2>1 DEF Request
  <2> QED BY <1>3, <2>2, NumberedMoves DEF Check, Advance, Finish
<1>4. ASSUME NEW r \in reqs,
             CheckMember(r) \/ CheckTarget(r) \/ CheckAssigned(r) \/ CheckManager(r)
      PROVE  Numbered'
  BY <1>3, <1>4 DEF CheckMember, CheckTarget, CheckAssigned, CheckManager
<1>5. ASSUME NEW r \in reqs, Write(r) PROVE Numbered'
  <2>1. Commit(r, "done") \/ Commit(r, "notify")
    BY <1>5 DEF Write, CreateTask, TransitionTask, UpdateTask, AssignTask, UnassignTask, DeleteTask
  <2> QED BY <2>1, NumberedCommit
<1>6. ASSUME NEW r \in reqs, Dispatch(r) \/ Fail(r) PROVE Numbered'
  BY <1>6, NumberedMoves DEF Dispatch, Fail, Finish
<1>7. CASE ChangeMembers \/ UNCHANGED vars
  BY <1>7 DEF ChangeMembers, vars, Numbered
<1> QED BY <1>1, <1>2, <1>4, <1>5, <1>6, <1>7 DEF Next

OnceInv ==
  \A t \in Tasks, u \in Users :
    LET given == Cardinality(Granted("assign", t, u))
        taken == Cardinality(Granted("unassign", t, u))
    IN /\ given <= 1 + taken
       /\ <<t, u>> \notin assignees /\ task[t] # "DELETED" => given <= taken

\* A request that commits is counted where it belongs.
LEMMA Counted ==
  ASSUME Numbered, NEW r \in reqs, r.step # "notify", committed' = committed \cup {r},
         NEW op, NEW t, NEW u
  PROVE  /\ Cardinality(Granted(op, t, u)) \in Nat
         /\ Cardinality(Granted(op, t, u))' =
              Cardinality(Granted(op, t, u)) + IF r.op = op /\ r.task = t /\ r.whom = u THEN 1 ELSE 0
<1>1. IsFiniteSet(Granted(op, t, u)) BY FS_Subset DEF Granted, Numbered
<1>2. r \notin Granted(op, t, u) BY DEF Granted, Numbered
<1>3. Granted(op, t, u)' = IF r.op = op /\ r.task = t /\ r.whom = u
                           THEN Granted(op, t, u) \cup {r} ELSE Granted(op, t, u)
  BY DEF Granted
<1>4. Cardinality(Granted(op, t, u)) \in Nat BY <1>1, FS_CardinalityType
<1>5. Cardinality(Granted(op, t, u) \cup {r}) = Cardinality(Granted(op, t, u)) + 1
  BY <1>1, <1>2, FS_AddElement
<1> QED BY <1>3, <1>4, <1>5

LEMMA OnceStep == TypeOK /\ Numbered /\ OnceInv /\ [Next]_vars => OnceInv'
<1> SUFFICES ASSUME TypeOK, Numbered, OnceInv, [Next]_vars PROVE OnceInv'
  OBVIOUS
<1>1. CASE UNCHANGED <<task, assignees, committed>> BY <1>1 DEF OnceInv, Granted
<1>2. ASSUME NEW r \in reqs, Write(r) PROVE OnceInv'
  <2>1. r \in Request /\ r.step = "write" BY <1>2 DEF TypeOK, Write
  <2>2. committed' = committed \cup {r}
    BY <1>2 DEF Write, CreateTask, TransitionTask, UpdateTask, AssignTask, UnassignTask, DeleteTask,
       Commit
  <2> SUFFICES ASSUME NEW t \in Tasks, NEW u \in Users
               PROVE  /\ Cardinality(Granted("assign", t, u))' <=
                           1 + Cardinality(Granted("unassign", t, u))'
                      /\ <<t, u>> \notin assignees' /\ task'[t] # "DELETED" =>
                           Cardinality(Granted("assign", t, u))' <=
                             Cardinality(Granted("unassign", t, u))'
    BY DEF OnceInv
  <2> DEFINE about == r.task = t /\ r.whom = u
  <2>3. PICK given, taken :
          /\ given \in Nat /\ taken \in Nat
          /\ given <= 1 + taken
          /\ <<t, u>> \notin assignees /\ task[t] # "DELETED" => given <= taken
          /\ Cardinality(Granted("assign", t, u))' = given + IF r.op = "assign" /\ about THEN 1 ELSE 0
          /\ Cardinality(Granted("unassign", t, u))' = taken + IF r.op = "unassign" /\ about THEN 1 ELSE 0
    BY <2>1, <2>2, Counted DEF OnceInv
  <2>4. CASE CreateTask(r) \/ TransitionTask(r) \/ UpdateTask(r)
    <3>1. /\ assignees' = assignees /\ r.op \notin {"assign", "unassign"}
          /\ task[t] = "DELETED" => task'[t] = "DELETED"
      BY <2>1, <2>4 DEF CreateTask, TransitionTask, UpdateTask, RowExists, TypeOK, Request, Statuses
    <3> QED BY <2>3, <3>1
  <2>5. CASE AssignTask(r)
    <3>1. /\ r.op = "assign" /\ task' = task /\ assignees' = assignees \cup {<<r.task, r.whom>>}
          /\ task[r.task] # "DELETED" /\ <<r.task, r.whom>> \notin assignees
      BY <2>5, StatusFacts DEF AssignTask, RowExists
    <3> QED BY <2>3, <3>1
  <2>6. CASE UnassignTask(r)
    <3>1. r.op = "unassign" /\ task' = task /\ assignees' = assignees \ {<<r.task, r.whom>>}
      BY <2>6 DEF UnassignTask
    <3>2. CASE about BY <2>3, <3>1, <3>2
    <3>3. CASE ~ about
      <4>1. <<t, u>> # <<r.task, r.whom>> BY <3>3
      <4> QED BY <2>3, <3>1, <3>3, <4>1
    <3> QED BY <3>2, <3>3
  <2>7. CASE DeleteTask(r)
    <3>1. /\ r.op = "delete" /\ task' = [task EXCEPT ![r.task] = "DELETED"]
          /\ assignees' = {a \in assignees : a[1] # r.task}
      BY <2>7 DEF DeleteTask
    <3>2. t # r.task => (task'[t] = task[t] /\ (<<t, u>> \in assignees' <=> <<t, u>> \in assignees))
      BY <2>1, <3>1 DEF TypeOK, Request
    <3>3. t = r.task => task'[t] = "DELETED" BY <2>1, <3>1 DEF TypeOK, Request
    <3> QED BY <2>3, <3>1, <3>2, <3>3
  <2> QED BY <1>2, <2>4, <2>5, <2>6, <2>7 DEF Write
<1> QED BY <1>1, <1>2, Others

LEMMA OnceInit == Init => Numbered /\ OnceInv
<1> SUFFICES ASSUME Init PROVE Numbered /\ OnceInv OBVIOUS
<1>1. committed = {} /\ reqs = {} BY DEF Init
<1>2. Numbered BY <1>1, FS_EmptySet DEF Numbered
<1>3. \A op, t, u : Granted(op, t, u) = {} BY <1>1 DEF Granted
<1>4. \A op, t, u : Cardinality(Granted(op, t, u)) = 0 BY <1>3, FS_EmptySet
<1> QED BY <1>2, <1>4 DEF OnceInv

\* Between two assignments of a user to a task lies an unassignment, however many
\* requests have seen that the user is not yet assigned (services/task.py:247-281).
THEOREM AssignedOnceCorrect == Spec => []AssignedOnce
<1>1. Spec => [](Numbered /\ OnceInv)
  BY TypeCorrect, OnceInit, NumberedStep, OnceStep, PTL DEF Spec
<1>2. OnceInv => AssignedOnce BY DEF OnceInv, AssignedOnce
<1> QED BY <1>1, <1>2, PTL
=============================================================================
