----------------------------- MODULE TaskStatus -----------------------------
(***************************************************************************)
(* The pure rules of app/services/state_machine.py: which status a task    *)
(* may move to from which.                                                 *)
(***************************************************************************)

Statuses == {"TODO", "IN_PROGRESS", "REVIEW", "DONE", "CANCELLED"}

TRANSITIONS ==
  [ TODO        |-> {"IN_PROGRESS", "CANCELLED"},
    IN_PROGRESS |-> {"REVIEW", "CANCELLED"},
    REVIEW      |-> {"DONE", "CANCELLED"},
    DONE        |-> {},
    CANCELLED   |-> {} ]

TERMINAL_STATUSES == {"DONE", "CANCELLED"}

can_transition(current, target) == target \in TRANSITIONS[current]
=============================================================================
