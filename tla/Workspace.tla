----------------------------- MODULE Workspace ------------------------------
(***************************************************************************)
(* The services around the tasks: projects (app/services/project.py),      *)
(* comments (comment.py), the audit entries and their archive              *)
(* (operation_log.py, tasks/maintenance_tasks.py) and the overview of a    *)
(* user (overview.py).  Team members and task rows change underneath, as   *)
(* Membership and TaskLifecycle allow.                                     *)
(*                                                                         *)
(* As in TaskFlow every SELECT is a step at READ COMMITTED, and the writes *)
(* of a transaction are one step with its COMMIT.  One team, one project   *)
(* and the tasks in it.  A comment is known by its author and its task, a  *)
(* count by the set of the rows it counts.                                 *)
(***************************************************************************)
EXTENDS Naturals, Sequences, FiniteSets

CONSTANTS
  Users, Owner, Viewer,   \* the owner of the team, and who looks at an overview
  Tasks,
  Comments,               \* records with author and on
  Earlier,                \* how many audit entries there are at the start
  BatchSize,              \* maintenance_batch_size
  MaxRequests,            \* bound: requests and archive runs in one behaviour
  MaxInFlight,            \* bound: those being served at the same time
  MaxChanges              \* bound: changes of members, tasks and ages

ASSUME WorkspaceAssumption ==
  /\ Owner \in Users /\ Viewer \in Users /\ "none" \notin Tasks
  /\ \A c \in Comments : c.author \in Users /\ c.on \in Tasks
  /\ Earlier \in Nat /\ BatchSize \in Nat \ {0}
  /\ MaxRequests \in Nat /\ MaxInFlight \in Nat /\ MaxChanges \in Nat

VARIABLES
  role, task,       \* team_members, and tasks.status
  project,          \* the row of the project: NEW, there, GONE
  mine, late,       \* tasks assigned to the viewer, tasks whose due_at is past
  comments,         \* for each comment: NEW, there, GONE
  logs, archive,    \* ids in operation_logs and in operation_logs_archive
  old, expired,     \* entries past the retention of the one, and of the other
  entries,          \* every audit entry ever written: comment, request, `beside`
  purged,           \* history: entries deleted for good
  asked,            \* the requests so far: op, user and what it is about
  reqs,             \* those being served: what is left to do, and what was found
  answers,          \* for each request: none yet, or its status
  figures,          \* the overviews that were answered, with what they counted
  stood,            \* history: how things stood for a request while it was served
  changes           \* changes so far

rows == <<role, task, project, mine, late, comments>>
trail == <<logs, archive, old, expired, entries, purged>>
served == <<asked, figures, changes>>
vars == <<rows, trail, served, reqs, answers, stood>>

Team == INSTANCE Membership
Rows == INSTANCE TaskLifecycle

OPEN_STATUSES == {"TODO", "IN_PROGRESS", "REVIEW"}
NoComment == [author |-> Owner, on |-> "none"]

\* Mutant: what is done is counted before what is open.
OverviewDoneFirst == <<"done", "open", "overdue", "write">>

OverviewPath == <<"open", "overdue", "done", "write">>

\* The statements of a request, in the order of the code.
Path ==
  [ create_project |-> <<"member", "write">>,
    get_project    |-> <<"project", "visible", "member", "write">>,
    update_project |-> <<"project", "visible", "member", "role", "write">>,
    delete_project |-> <<"project", "visible", "member", "role", "write">>,
    create_comment |-> <<"task", "visible", "member", "write">>,
    list_comments  |-> <<"task", "visible", "member", "write">>,
    list_logs      |-> <<"task", "visible", "member", "write">>,
    delete_comment |-> <<"comment", "task", "visible", "member", "assert", "role", "write">>,
    overview       |-> OverviewPath,
    archive        |-> <<"select">> ]   \* and then as the batches turn out

Ops == DOMAIN Path
Found == [open |-> {}, overdue |-> {}, done |-> {}, batch |-> {}, cutoff |-> {}, final |-> {}]

\* The team, with its project or without; someone may have worked on it before,
\* and a task that is there is overdue.
Init ==
  /\ role \in {f \in [Users -> Team!Roles] : \A u \in Users : (f[u] = "owner") = (u = Owner)}
  /\ project \in {"NEW", "there"}
  /\ \E at \in IF project = "there" THEN {"NEW", "REVIEW"} ELSE {"NEW"} :
       LET with == IF at = "NEW" THEN {} ELSE Tasks
       IN /\ task = [t \in Tasks |-> at]
          /\ late = with
          /\ mine \in {{}, IF role[Viewer] = "none" THEN {} ELSE with}
          /\ comments = [c \in Comments |-> IF c.on \in with THEN "there" ELSE "NEW"]
  /\ entries = [i \in 1 .. Earlier |-> [comment |-> NoComment, n |-> 0, beside |-> {}]]
  /\ logs = 1 .. Earlier /\ archive = {} /\ old = logs /\ expired = {} /\ purged = {}
  /\ asked = <<>> /\ reqs = {} /\ answers = <<>> /\ figures = {} /\ stood = <<>> /\ changes = 0

-----------------------------------------------------------------------------
\* How things stand for the request q, and for an overview what it would count.
OpenMine == {t \in mine : task[t] \in OPEN_STATUSES /\ role[Viewer] # "none"}
DoneMine == {t \in mine : task[t] = "DONE" /\ role[Viewer] # "none"}

IsThere(q) ==
  CASE q.op = "create_project" -> role[Owner] # "none"
    [] q.op \in {"get_project", "update_project", "delete_project"} -> project = "there"
    [] q.op \in {"create_comment", "list_comments", "list_logs"} -> task[q.on] \in Rows!Statuses
    [] q.op = "delete_comment" -> comments[q.comment] = "there"
    [] OTHER -> TRUE

Standing(q) == [there |-> IsThere(q), role |-> role[q.user],
                open |-> IF q.op = "overview" THEN OpenMine ELSE {},
                done |-> IF q.op = "overview" THEN DoneMine ELSE {}]

\* History: what held at some moment while a request was being served.
Remember ==
  stood' = [n \in DOMAIN asked' |->
              IF n \in DOMAIN asked /\ answers[n] # "none" THEN stood[n]
              ELSE (IF n \in DOMAIN asked THEN stood[n] ELSE {}) \cup {Standing(asked[n])'}]

Submit(op, u, t, c) ==
  /\ Len(asked) < MaxRequests /\ Cardinality(reqs) < MaxInFlight
  /\ op = "create_project" => project = "NEW"
  /\ IF op \in {"create_comment", "delete_comment"}
     THEN c \in Comments /\ t = c.on /\ (op = "create_comment" => comments[c] = "NEW" /\ u = c.author)
     ELSE c = NoComment
  /\ op = "overview" => u = Viewer
  /\ op = "archive" => u = Owner
  /\ asked' = Append(asked, [op |-> op, user |-> u, on |-> t, comment |-> c])
  /\ answers' = Append(answers, "none")
  /\ reqs' = reqs \cup {[n |-> Len(asked) + 1, todo |-> Path[op],
                         found |-> IF op = "archive"
                                   THEN [Found EXCEPT !.cutoff = old, !.final = expired]
                                   ELSE Found]}
  /\ UNCHANGED <<rows, trail, figures, changes>>

-----------------------------------------------------------------------------
At(r, step) == Head(r.todo) = step
Go(r, todo) == reqs' = (reqs \ {r}) \cup {[r EXCEPT !.todo = todo]}
Find(r, name, what) ==
  reqs' = (reqs \ {r}) \cup {[r EXCEPT !.found[name] = what, !.todo = Tail(r.todo)]}
Answer(r, status) ==
  reqs' = reqs \ {r} /\ answers' = [answers EXCEPT ![r.n] = status]

\* A check: on with the next statement, or an error answer and a rollback.
Check(r, step, ok, status) ==
  /\ At(r, step)
  /\ IF ok THEN Go(r, Tail(r.todo)) /\ UNCHANGED answers ELSE Answer(r, status)
  /\ UNCHANGED <<rows, trail, served>>

get_project(r) == Check(r, "project", project = "there", "404")
get_comment(r) == Check(r, "comment", comments[asked[r.n].comment] = "there", "404")
get_task(r) == Check(r, "task", task[asked[r.n].on] \in Rows!Statuses, "404")

\* is_project_visible: the project once more, then team_members.
IsProjectThere(r) == Check(r, "visible", project = "there", "404")

\* The author of a comment may delete it: the last two checks are left out.
IsTeamMember(r) ==
  /\ At(r, "member")
  /\ LET q == asked[r.n]
         ok == role[q.user] # "none"
         author == q.op = "delete_comment" /\ q.user = q.comment.author
     IN IF ok THEN Go(r, IF author THEN <<"write">> ELSE Tail(r.todo)) /\ UNCHANGED answers
        ELSE Answer(r, "404")
  /\ UNCHANGED <<rows, trail, served>>

\* assert project is not None
AssertProject(r) == Check(r, "assert", project = "there", "500")

\* Mutant: membership is enough.
TeamMembershipAny(r) == Check(r, "role", role[asked[r.n].user] # "none", "403")

team_membership(r) == Check(r, "role", role[asked[r.n].user] \in {"owner", "admin"}, "403")

-----------------------------------------------------------------------------
Write(r, op) == At(r, "write") /\ asked[r.n].op = op

\* The foreign key wants the team; a second project is outside the model.
CreateProject(r) ==
  /\ Write(r, "create_project")
  /\ IF role[Owner] = "owner"
     THEN Answer(r, "ok") /\ project' = (IF project = "NEW" THEN "there" ELSE project)
     ELSE Answer(r, "500") /\ UNCHANGED project
  /\ UNCHANGED <<role, task, mine, late, comments, trail, served>>

\* The SELECT of a list, or nothing more.
List(r) ==
  /\ At(r, "write")
  /\ asked[r.n].op \in {"get_project", "list_comments", "list_logs"}
  /\ Answer(r, "ok")
  /\ UNCHANGED <<rows, trail, served>>

\* An UPDATE that matches no row is a StaleDataError.
UpdateProject(r) ==
  /\ Write(r, "update_project")
  /\ Answer(r, IF project = "there" THEN "ok" ELSE "500")
  /\ UNCHANGED <<rows, trail, served>>

\* What goes with the tasks T, by ON DELETE CASCADE.
Cascade(T) ==
  /\ mine' = mine \ T
  /\ comments' = [c \in Comments |-> IF c.on \in T /\ comments[c] = "there" THEN "GONE" ELSE comments[c]]
  /\ UNCHANGED late

\* What goes with the project: a DELETE that matches no row is only warned about.
DropProject ==
  /\ project' = IF project = "there" THEN "GONE" ELSE project
  /\ task' = [t \in Tasks |-> IF task[t] \in Rows!Statuses THEN "DELETED" ELSE task[t]]
  /\ Cascade(Tasks)

DeleteProject(r) ==
  /\ Write(r, "delete_project")
  /\ DropProject /\ Answer(r, "ok")
  /\ UNCHANGED <<role, trail, served>>

\* The foreign key wants the task; the same comment twice is outside the model.
CreateComment(r) ==
  /\ Write(r, "create_comment")
  /\ IF task[asked[r.n].on] \in Rows!Statuses
     THEN /\ Answer(r, "ok")
          /\ comments' = [comments EXCEPT ![asked[r.n].comment] = IF @ = "NEW" THEN "there" ELSE @]
     ELSE Answer(r, "500") /\ UNCHANGED comments
  /\ UNCHANGED <<role, task, project, mine, late, trail, served>>

\* Mutant: nothing is written to operation_logs.
WriteLogNot(r, c) == UNCHANGED trail

\* write_operation_log, in the transaction of the request r.
WriteLog(r, c) ==
  /\ entries' = Append(entries, [comment |-> c, n |-> r.n, beside |-> {x.n : x \in reqs}])
  /\ logs' = logs \cup {Len(entries) + 1}
  /\ UNCHANGED <<archive, old, expired, purged>>

\* Whether the DELETE found its row or not, the entry is written.
DeleteComment(r) ==
  /\ Write(r, "delete_comment")
  /\ comments' = [comments EXCEPT ![asked[r.n].comment] = "GONE"]
  /\ WriteLog(r, asked[r.n].comment)
  /\ Answer(r, "ok")
  /\ UNCHANGED <<role, task, project, mine, late, served>>

-----------------------------------------------------------------------------
\* get_my_overview: three statements, in this order.
CountOpen(r) ==
  /\ At(r, "open") /\ Find(r, "open", OpenMine)
  /\ UNCHANGED <<rows, trail, served, answers>>

CountOverdue(r) ==
  /\ At(r, "overdue") /\ Find(r, "overdue", OpenMine \cap late)
  /\ UNCHANGED <<rows, trail, served, answers>>

CountDone(r) ==
  /\ At(r, "done") /\ Find(r, "done", DoneMine)
  /\ UNCHANGED <<rows, trail, served, answers>>

ShowOverview(r) ==
  /\ Write(r, "overview") /\ Answer(r, "ok")
  /\ figures' = figures \cup {[n |-> r.n, found |-> r.found]}
  /\ UNCHANGED <<rows, trail, asked, changes>>

-----------------------------------------------------------------------------
\* ORDER BY id LIMIT batch_size
First(S) == {e \in S : Cardinality({f \in S : f <= e}) <= BatchSize}

\* One SELECT of an archive run: a batch to work on, or on with what is next.
Batch(r, S, work, next) ==
  /\ reqs' = (reqs \ {r}) \cup
       {[r EXCEPT !.found.batch = First(S), !.todo = IF S = {} THEN next ELSE <<work>>]}
  /\ UNCHANGED <<rows, trail, served, answers>>

SelectBatch(r) == At(r, "select") /\ Batch(r, logs \cap r.found.cutoff, "move", <<"expired">>)
SelectExpired(r) == At(r, "expired") /\ Batch(r, archive \cap r.found.final, "purge", <<"write">>)

\* Mutant: the rows are deleted by age and not by id.
MoveBatchByAge(r) ==
  /\ At(r, "move") /\ Go(r, <<"select">>)
  /\ archive' = archive \cup r.found.batch
  /\ logs' = logs \ r.found.cutoff
  /\ UNCHANGED <<rows, old, expired, entries, purged, served, answers>>

\* INSERT ... ON CONFLICT DO NOTHING, DELETE ... WHERE id IN, and COMMIT.
MoveBatch(r) ==
  /\ At(r, "move") /\ Go(r, <<"select">>)
  /\ archive' = archive \cup r.found.batch
  /\ logs' = logs \ r.found.batch
  /\ UNCHANGED <<rows, old, expired, entries, purged, served, answers>>

PurgeBatch(r) ==
  /\ At(r, "purge") /\ Go(r, <<"expired">>)
  /\ archive' = archive \ r.found.batch
  /\ purged' = purged \cup (r.found.batch \cap archive)
  /\ UNCHANGED <<rows, logs, old, expired, entries, served, answers>>

FinishArchive(r) ==
  /\ Write(r, "archive") /\ Answer(r, "ok")
  /\ UNCHANGED <<rows, trail, served>>

\* The process dies, or the database refuses; what was not committed is lost.
Fail(r) == Answer(r, "died") /\ UNCHANGED <<rows, trail, served>>

-----------------------------------------------------------------------------
Changed == changes < MaxChanges /\ changes' = changes + 1 /\ UNCHANGED <<asked, figures, reqs, answers>>

ChangeMembers ==
  /\ \E u \in Users : Team!Invite(u) \/ Team!Remove(u)
  /\ UNCHANGED <<task, project, mine, late, comments, trail>>

\* delete_team: everything in it goes with it.
Dissolve == Team!Dissolve /\ DropProject /\ UNCHANGED trail

ChangeTask(t) ==
  /\ project = "there"
  /\ \/ /\ Rows!Create(t) \/ \E to \in Rows!Statuses : Rows!Move(t, to)
        /\ UNCHANGED <<mine, late, comments>>
     \/ Rows!Delete(t) /\ Cascade({t})
  /\ UNCHANGED <<role, project, trail>>

\* Somebody assigns the task to the viewer or takes it away, or sets its due_at.
ChangeFields(t) ==
  /\ task[t] \in Rows!Statuses
  /\ \/ t \notin mine /\ role[Viewer] # "none" /\ mine' = mine \cup {t} /\ UNCHANGED late
     \/ t \in mine /\ mine' = mine \ {t} /\ UNCHANGED late
     \/ late' = (IF t \in late THEN late \ {t} ELSE late \cup {t}) /\ UNCHANGED mine
  /\ UNCHANGED <<role, task, project, comments, trail>>

\* A batch is done long before anything in it has been archived for
\* archive_final_retention_days.
Age(e) ==
  /\ \/ e \in logs \ old /\ old' = old \cup {e} /\ UNCHANGED expired
     \/ /\ e \in archive \ expired /\ \A r \in reqs : e \notin r.found.batch
        /\ expired' = expired \cup {e} /\ UNCHANGED old
  /\ UNCHANGED <<rows, logs, archive, entries, purged>>

Change ==
  /\ Changed
  /\ \/ ChangeMembers \/ Dissolve
     \/ \E t \in Tasks : ChangeTask(t) \/ ChangeFields(t)
     \/ \E e \in DOMAIN entries : Age(e)

Serve(r) ==
  \/ get_project(r) \/ get_comment(r) \/ get_task(r) \/ IsProjectThere(r) \/ IsTeamMember(r)
  \/ AssertProject(r) \/ team_membership(r)
  \/ CreateProject(r) \/ List(r) \/ UpdateProject(r) \/ DeleteProject(r)
  \/ CreateComment(r) \/ DeleteComment(r)
  \/ CountOpen(r) \/ CountOverdue(r) \/ CountDone(r) \/ ShowOverview(r)
  \/ SelectBatch(r) \/ MoveBatch(r) \/ SelectExpired(r) \/ PurgeBatch(r) \/ FinishArchive(r)
  \/ Fail(r)

Next ==
  /\ \/ \E op \in Ops, u \in Users, t \in Tasks, c \in Comments \cup {NoComment} : Submit(op, u, t, c)
     \/ \E r \in reqs : Serve(r)
     \/ Change
  /\ Remember

Spec == Init /\ [][Next]_vars

-----------------------------------------------------------------------------
\* The entries written for the comment c.
EntriesOf(c) == {e \in DOMAIN entries : entries[e].comment = c}

\* The trail of the comments: one that is gone has an entry, or went with its
\* task; one with an entry is gone; and a second entry is written only by a
\* deletion that was under way beside the first (services/comment.py:103-113).
CommentTrail ==
  \A c \in Comments :
    /\ comments[c] = "GONE" => EntriesOf(c) # {} \/ task[c.on] = "DELETED"
    /\ EntriesOf(c) # {} => comments[c] = "GONE"
    /\ \A e, f \in EntriesOf(c) : e < f => entries[f].n \in entries[e].beside

\* No audit entry is lost, kept twice or deleted before its time, whatever runs
\* of the archive overlap or are killed (tasks/maintenance_tasks.py:95-191).
LogKept ==
  /\ DOMAIN entries = logs \cup archive \cup purged
  /\ logs \cap archive = {} /\ (logs \cup archive) \cap purged = {}
  /\ archive \cup purged \subseteq old /\ purged \subseteq expired

\* The rights with which a request may be granted.
Entitled(q) ==
  CASE q.op \in {"update_project", "delete_project"} -> {"owner", "admin"}
    [] q.op = "delete_comment" /\ q.user # q.comment.author -> {"owner", "admin"}
    [] OTHER -> {"owner", "admin", "member"}

\* Every answer was right while the request was served, whatever changed in the
\* meantime: what was granted was there, and the user entitled to it; what was
\* hidden was missing, or the user no member; who was refused was no manager;
\* and an error means that the row went away (services/project.py:110-128,
\* services/comment.py:87-130).
Justified ==
  \A n \in {i \in DOMAIN answers : asked[i].op \notin {"overview", "archive"}} :
    /\ answers[n] = "ok" => /\ \E s \in stood[n] : s.there
                            /\ \E s \in stood[n] : s.role \in Entitled(asked[n])
    /\ answers[n] = "404" => \E s \in stood[n] : ~ s.there \/ s.role = "none"
    /\ answers[n] = "403" => \E s \in stood[n] : s.role \notin {"owner", "admin"}
    /\ answers[n] = "500" => \E s, x \in stood[n] : s.there /\ ~ x.there

\* The figures of an overview fit together although each has a snapshot of its
\* own: a task that was the viewer's, open or done, all along is in one of
\* them, and one that is overdue but not open came in between
\* (services/overview.py:155-177).
OverviewFits ==
  \A f \in figures, t \in Tasks :
    /\ (\A s \in stood[f.n] : t \in s.open \cup s.done) => t \in f.found.open \cup f.found.done
    /\ t \in f.found.overdue \ f.found.open => \E s \in stood[f.n] : t \notin s.open
=============================================================================
