--------------------------- MODULE TaskLifecycle ----------------------------
(***************************************************************************)
(* What the task API promises about the status column, whoever calls it    *)
(* and however often: a task is born TODO, every change of its status is   *)
(* an edge of TRANSITIONS, and a task may be deleted at any point, for     *)
(* good.  TaskFlow implements this up to the moment when two transitions   *)
(* of a task overlap (docs/API_CONTRACT.md:361, docs/PROJECT_SPEC.md:42).  *)
(***************************************************************************)
EXTENDS TaskStatus

CONSTANT Tasks
VARIABLE task

Row == Statuses \cup {"NEW", "DELETED"}

Init == task = [t \in Tasks |-> "NEW"]

Create(t) == task[t] = "NEW" /\ task' = [task EXCEPT ![t] = "TODO"]

Move(t, to) ==
  /\ task[t] \in Statuses
  /\ can_transition(task[t], to)
  /\ task' = [task EXCEPT ![t] = to]

Delete(t) == task[t] \in Statuses /\ task' = [task EXCEPT ![t] = "DELETED"]

Next == \E t \in Tasks : Create(t) \/ Delete(t) \/ \E to \in Statuses : Move(t, to)

Spec == Init /\ [][Next]_task
=============================================================================
