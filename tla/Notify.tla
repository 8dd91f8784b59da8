-------------------------------- MODULE Notify ---------------------------------
(***************************************************************************)
(* The delivery of one notification: dispatched after the commit of a      *)
(* request (services/task.py), carried by a broker that delivers at least  *)
(* once (tasks/celery_app.py), stored by a worker that deduplicates with a *)
(* mark in Redis (tasks/notification_tasks.py).  Dispatches have keys of   *)
(* their own and share nothing, so one is modelled.                        *)
(*                                                                         *)
(* A message is one element of Messages while the broker keeps it; any     *)
(* number of them may be executed at once.  A slip is a fault that the     *)
(* code accepts a duplicate for.                                           *)
(***************************************************************************)
EXTENDS Integers, FiniteSets

CONSTANTS
  Messages,
  MaxRetries,       \* max_retries of the task
  MaxSlips,         \* bound on the slips
  RedisFails        \* TRUE: Redis may fail to answer a command

ASSUME MessagesAssumption == IsFiniteSet(Messages)
ASSUME BoundsAssumption == MaxRetries \in Nat /\ MaxSlips \in Nat /\ RedisFails \in BOOLEAN

VARIABLES
  sent,             \* the request has dispatched the notification
  step,             \* where each message is
  tries,            \* the retries a message carries
  rows,             \* number of notifications stored under the key
  done,             \* the mark taskflow:notify_done:<key>
  losses,           \* history: why a message went without being carried out
  slips             \* history: number of slips

vars == <<sent, step, tries, rows, done, losses, slips>>

Steps == {"none", "queued", "checked", "stored", "failed", "retrying", "settled"}

\* The dispatch failed, a worker had no retry left, or the time limit ended it.
Causes == {"dispatch", "retries", "limit"}

Init ==
  /\ sent = FALSE
  /\ step = [m \in Messages |-> "none"] /\ tries = [m \in Messages |-> 0]
  /\ rows = 0 /\ done = FALSE /\ losses = {} /\ slips = 0

Slip == slips < MaxSlips /\ slips' = slips + 1

Move(m, from, to) == step[m] = from /\ step' = [step EXCEPT ![m] = to]

-----------------------------------------------------------------------------
\* _dispatch_notification: best effort, a broker that is down is logged.
Dispatch(m) ==
  /\ ~sent /\ sent' = TRUE
  /\ \/ Move(m, "none", "queued") /\ UNCHANGED losses
     \/ losses' = {"dispatch"} /\ UNCHANGED step
  /\ UNCHANGED <<tries, rows, done, slips>>

\* Mutant: the mark is not looked at.
CheckNothing(m) ==
  /\ Move(m, "queued", "checked")
  /\ UNCHANGED <<sent, tries, rows, done, losses, slips>>

\* A worker takes the message; _already_done.
Check(m) ==
  /\ Move(m, "queued", IF done THEN "settled" ELSE "checked")
  /\ UNCHANGED <<sent, tries, rows, done, losses, slips>>

\* Redis does not answer: go on as if there were no mark.
CheckBlind(m) ==
  /\ RedisFails /\ done /\ Slip /\ Move(m, "queued", "checked")
  /\ UNCHANGED <<sent, tries, rows, done, losses>>

\* Mutant: the mark is set before the row is committed.
InsertMarked(m) ==
  /\ \/ ~done /\ done' = TRUE /\ UNCHANGED <<step, rows>>
     \/ done /\ Move(m, "checked", "stored") /\ rows' = rows + 1 /\ UNCHANGED done
  /\ step[m] = "checked"
  /\ UNCHANGED <<sent, tries, losses, slips>>

\* _insert_notification commits ...
Insert(m) ==
  /\ Move(m, "checked", "stored") /\ rows' = rows + 1
  /\ UNCHANGED <<sent, tries, done, losses, slips>>

\* ... or fails ...
InsertFails(m) ==
  /\ Move(m, "checked", "failed")
  /\ UNCHANGED <<sent, tries, rows, done, losses, slips>>

\* ... or commits, and the answer to the COMMIT, or the refresh after it, fails.
InsertUnheard(m) ==
  /\ Slip /\ Move(m, "checked", "failed") /\ rows' = rows + 1
  /\ UNCHANGED <<sent, tries, done, losses>>

\* Mutant: one retry more than the limit.
RetryOneMore(m, n) ==
  /\ step[m] = "failed" /\ tries[m] <= MaxRetries /\ step[n] = "none"
  /\ step' = [step EXCEPT ![m] = "retrying", ![n] = "queued"]
  /\ tries' = [tries EXCEPT ![n] = tries[m] + 1]
  /\ UNCHANGED <<sent, rows, done, losses, slips>>

\* autoretry_for: a message of its own, with one try more.
Retry(m, n) ==
  /\ step[m] = "failed" /\ tries[m] < MaxRetries /\ step[n] = "none"
  /\ step' = [step EXCEPT ![m] = "retrying", ![n] = "queued"]
  /\ tries' = [tries EXCEPT ![n] = tries[m] + 1]
  /\ UNCHANGED <<sent, rows, done, losses, slips>>

\* No retry is left.
GiveUp(m) ==
  /\ tries[m] = MaxRetries /\ Move(m, "failed", "none")
  /\ tries' = [tries EXCEPT ![m] = 0] /\ losses' = losses \cup {"retries"}
  /\ UNCHANGED <<sent, rows, done, slips>>

\* _mark_done, SET NX.
Mark(m) ==
  /\ Move(m, "stored", "settled") /\ done' = TRUE
  /\ UNCHANGED <<sent, tries, rows, losses, slips>>

MarkFails(m) ==
  /\ RedisFails /\ Slip /\ Move(m, "stored", "settled")
  /\ UNCHANGED <<sent, tries, rows, done, losses>>

\* acks_late: the message goes when the task has returned, or has been retried.
Ack(m) ==
  /\ step[m] \in {"settled", "retrying"}
  /\ step' = [step EXCEPT ![m] = "none"] /\ tries' = [tries EXCEPT ![m] = 0]
  /\ UNCHANGED <<sent, rows, done, losses, slips>>

\* The time limit ends the task, and Celery acknowledges it all the same: if the row
\* is not stored yet, this message will not store it, whatever retries it had left.
TimeOut(m) ==
  /\ step[m] \in {"checked", "stored", "failed"}
  /\ step' = [step EXCEPT ![m] = "none"] /\ tries' = [tries EXCEPT ![m] = 0]
  /\ losses' = IF step[m] = "stored" THEN losses ELSE losses \cup {"limit"}
  /\ UNCHANGED <<sent, rows, done, slips>>

\* Mutant: the message was acknowledged before it was executed.
RedeliverNothing(m) ==
  /\ step[m] \in {"checked", "failed", "settled"}
  /\ step' = [step EXCEPT ![m] = "none"] /\ tries' = [tries EXCEPT ![m] = 0]
  /\ UNCHANGED <<sent, rows, done, losses, slips>>

\* The worker dies and the message is delivered again.
Redeliver(m) ==
  /\ step[m] \in {"checked", "failed", "settled"}
  /\ step' = [step EXCEPT ![m] = "queued"]
  /\ UNCHANGED <<sent, tries, rows, done, losses, slips>>

\* The worker dies between the commit and the mark, or between the publication of
\* the retry and the acknowledgement.
RedeliverSlip(m) ==
  /\ Slip /\ step[m] \in {"stored", "retrying"}
  /\ step' = [step EXCEPT ![m] = "queued"]
  /\ UNCHANGED <<sent, tries, rows, done, losses>>

Next ==
  \E m \in Messages :
    \/ Dispatch(m) \/ Check(m) \/ CheckBlind(m)
    \/ Insert(m) \/ InsertFails(m) \/ InsertUnheard(m)
    \/ (\E n \in Messages : Retry(m, n)) \/ GiveUp(m)
    \/ Mark(m) \/ MarkFails(m) \/ Ack(m)
    \/ TimeOut(m) \/ Redeliver(m) \/ RedeliverSlip(m)

Spec == Init /\ [][Next]_vars

\* Workers keep taking messages and going on with them, and do not die in every
\* execution of the task.
Fairness ==
  \A m \in Messages :
    /\ WF_vars(Check(m)) /\ SF_vars(Insert(m))
    /\ SF_vars((\E n \in Messages : Retry(m, n)) \/ GiveUp(m))

FairSpec == Spec /\ Fairness

-----------------------------------------------------------------------------
\* The variables have their types.
TypeOK ==
  /\ sent \in BOOLEAN /\ done \in BOOLEAN /\ losses \subseteq Causes
  /\ step \in [Messages -> Steps]
  /\ tries \in [Messages -> 0 .. MaxRetries]
  /\ rows \in Nat /\ slips \in 0 .. MaxSlips

\* A retry or a redelivery adds no second notification, except for one per slip: a
\* crash between COMMIT and mark, or Redis not answering
\* (tasks/notification_tasks.py:27-33).
OneCopyPerSlip == rows <= 1 + slips

\* No crash loses a notification.  One that is not stored is still on its way, unless
\* its dispatch failed, a worker had used up the retries, or the time limit ended an
\* execution before the row was stored: that message is acknowledged with retries left
\* (tasks/notification_tasks.py:29-31, tasks/celery_app.py:118-130).
NotLost ==
  sent /\ rows = 0 /\ losses = {} => \E m \in Messages : step[m] # "none"

\* It is stored in the end, with the same three exceptions
\* (tasks/notification_tasks.py:24-26, :144-151).
Stored == sent ~> (rows > 0 \/ losses # {})
=============================================================================
