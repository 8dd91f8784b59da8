-------------------------- MODULE Workspace_proofs ---------------------------
(***************************************************************************)
(* For any users, tasks, comments, batches and overlaps: no audit entry is *)
(* lost, the trail of the comments is complete, every answer was right     *)
(* while it was made, and the figures of an overview fit together.         *)
(***************************************************************************)
EXTENDS Workspace, SequenceTheorems, TLAPS

USE WorkspaceAssumption

-----------------------------------------------------------------------------
(***************************************************************************)
(* What a request has left to do: some checks, and a step that ends it or  *)
(* that belongs to the archive.                                            *)
(***************************************************************************)
Checks == {"project", "visible", "member", "role", "task", "comment", "assert",
           "open", "overdue", "done"}
Ends == {"write", "select", "move", "expired", "purge"}

Well(s) ==
  /\ s \in Seq(Checks \cup Ends) /\ Len(s) > 0
  /\ s[Len(s)] \in Ends
  /\ \A i \in 1 .. Len(s) - 1 : s[i] \in Checks
  /\ \A i \in 2 .. Len(s) : s[i] # "comment"

Left(s) == {s[i] : i \in 1 .. Len(s)}

\* A check that was passed leaves the rest.
LEMMA WellTail ==
  ASSUME NEW s, Well(s), Head(s) \in Checks
  PROVE  /\ Well(Tail(s)) /\ "comment" \notin Left(Tail(s))
         /\ Left(Tail(s)) \subseteq Left(s) /\ Left(s) \subseteq Left(Tail(s)) \cup {Head(s)}
<1>1. /\ Tail(s) \in Seq(Checks \cup Ends) /\ Len(s) > 1 /\ Len(Tail(s)) = Len(s) - 1
      /\ \A i \in 1 .. Len(s) - 1 : Tail(s)[i] = s[i + 1]
      /\ Head(s) = s[1]
  BY DEF Well, Checks, Ends
<1>2. Well(Tail(s))
  BY <1>1 DEF Well
<1>3. "comment" \notin Left(Tail(s))
  BY <1>1 DEF Well, Left
<1>4. Left(Tail(s)) \subseteq Left(s)
  BY <1>1 DEF Left
<1>5. ASSUME NEW i \in 1 .. Len(s), i # 1 PROVE s[i] \in Left(Tail(s))
  <2>1. i - 1 \in 1 .. Len(Tail(s)) /\ Tail(s)[i - 1] = s[i] BY <1>1, <1>5
  <2> QED BY <2>1 DEF Left
<1>6. Left(s) \subseteq Left(Tail(s)) \cup {Head(s)}
  BY <1>1, <1>5 DEF Left
<1> QED BY <1>2, <1>3, <1>4, <1>6

\* What comes last stands alone.
LEMMA WellEnd ==
  ASSUME NEW s, Well(s), Head(s) \in Ends
  PROVE  Left(s) = {Head(s)}
<1>1. Head(s) = s[1] /\ Len(s) \in Nat \ {0} BY DEF Well
<1>2. s[1] \notin Checks BY <1>1 DEF Checks, Ends
<1>3. ASSUME NEW n \in Nat \ {0, 1} PROVE 1 \in 1 .. n - 1 BY <1>3
<1>4. Len(s) = 1 BY <1>1, <1>2, <1>3 DEF Well
<1> QED BY <1>1, <1>4 DEF Left

LEMMA WellHead ==
  ASSUME NEW s, Well(s)
  PROVE  Head(s) \in Left(s) /\ ("comment" \in Left(s) => Head(s) = "comment")
<1>1. Head(s) = s[1] /\ 1 \in 1 .. Len(s) BY DEF Well
<1> QED BY <1>1 DEF Well, Left

LEMMA WellOne ==
  ASSUME NEW x \in Ends PROVE Well(<<x>>) /\ Left(<<x>>) = {x}
<1>1. Well(<<x>>) BY DEF Well, Checks, Ends
<1>2. Left(<<x>>) = {x} BY DEF Left
<1> QED BY <1>1, <1>2

\* The paths, as the sets of their steps.
LEMMA Paths ==
  /\ \A op \in Ops : Well(Path[op])
  /\ Left(Path.create_project) = {"member", "write"}
  /\ Left(Path.get_project) = {"project", "visible", "member", "write"}
  /\ Left(Path.update_project) = {"project", "visible", "member", "role", "write"}
  /\ Left(Path.delete_project) = {"project", "visible", "member", "role", "write"}
  /\ Left(Path.create_comment) = {"task", "visible", "member", "write"}
  /\ Left(Path.list_comments) = {"task", "visible", "member", "write"}
  /\ Left(Path.list_logs) = {"task", "visible", "member", "write"}
  /\ Left(Path.delete_comment) =
       {"comment", "task", "visible", "member", "assert", "role", "write"}
  /\ Left(Path.overview) = {"open", "overdue", "done", "write"}
  /\ Left(Path.archive) = {"select"}
<1>1. Well(Path.create_project) /\ Left(Path.create_project) = {"member", "write"}
  BY DEF Path, Well, Left, Checks, Ends
<1>2. Well(Path.get_project) /\ Left(Path.get_project) = {"project", "visible", "member", "write"}
  BY DEF Path, Well, Left, Checks, Ends
<1>3. /\ Well(Path.update_project)
      /\ Left(Path.update_project) = {"project", "visible", "member", "role", "write"}
  BY DEF Path, Well, Left, Checks, Ends
<1>4. Path.delete_project = Path.update_project BY DEF Path
<1>5. Well(Path.create_comment) /\ Left(Path.create_comment) = {"task", "visible", "member", "write"}
  BY DEF Path, Well, Left, Checks, Ends
<1>6. Path.list_comments = Path.create_comment /\ Path.list_logs = Path.create_comment BY DEF Path
<1>7. /\ Well(Path.delete_comment)
      /\ Left(Path.delete_comment) =
           {"comment", "task", "visible", "member", "assert", "role", "write"}
  BY DEF Path, Well, Left, Checks, Ends
<1>8. Well(Path.overview) /\ Left(Path.overview) = {"open", "overdue", "done", "write"}
  BY DEF Path, OverviewPath, Well, Left, Checks, Ends
<1>9. Well(Path.archive) /\ Left(Path.archive) = {"select"}
  BY DEF Path, Well, Left, Checks, Ends
<1>10. \A op \in Ops : Well(Path[op])
  BY <1>1, <1>2, <1>3, <1>4, <1>5, <1>6, <1>7, <1>8, <1>9 DEF Ops, Path
<1> QED BY <1>1, <1>2, <1>3, <1>4, <1>5, <1>6, <1>7, <1>8, <1>9, <1>10

-----------------------------------------------------------------------------
(***************************************************************************)
(* The shape of the state.                                                 *)
(***************************************************************************)
Entry == [comment : Comments \cup {NoComment}, n : Nat, beside : SUBSET Nat]
Asked == {q \in [op : Ops, user : Users, on : Tasks, comment : Comments \cup {NoComment}] :
            q.op \in {"create_comment", "delete_comment"} =>
              q.comment \in Comments /\ q.on = q.comment.on}
FoundSet == [open : SUBSET Tasks, overdue : SUBSET Tasks, done : SUBSET Tasks,
             batch : SUBSET Nat, cutoff : SUBSET Nat, final : SUBSET Nat]
Request == [n : Nat, todo : Seq(Checks \cup Ends), found : FoundSet]

\* The ids of the audit entries, and the requests.
Shape ==
  /\ mine \subseteq Tasks /\ late \subseteq Tasks
  /\ entries \in Seq(Entry) /\ asked \in Seq(Asked)
  /\ logs \subseteq Nat /\ archive \subseteq Nat /\ old \subseteq Nat /\ expired \subseteq Nat
  /\ reqs \subseteq Request
  /\ \A r \in reqs : r.n \in DOMAIN asked /\ Well(r.todo)
  /\ \A r, x \in reqs : r.n = x.n => r = x

\* The steps of a request that leave it with less to do, and those of the archive.
Goes(r, x) ==
  /\ x.n = r.n /\ Well(x.todo)
  /\ \/ x.todo = Tail(r.todo) /\ Head(r.todo) \in Checks
     \/ x.todo = <<"write">>
  /\ x.found.batch = r.found.batch /\ x.found.cutoff = r.found.cutoff
  /\ x.found.final = r.found.final

LEMMA InitShape == Init => Shape
<1> SUFFICES ASSUME Init PROVE Shape OBVIOUS
<1>1. mine \subseteq Tasks /\ late \subseteq Tasks
  <2>1. PICK at \in IF project = "there" THEN {"NEW", "REVIEW"} ELSE {"NEW"} :
          /\ late = (IF at = "NEW" THEN {} ELSE Tasks)
          /\ mine \in {{}, IF role[Viewer] = "none" THEN {} ELSE (IF at = "NEW" THEN {} ELSE Tasks)}
    BY DEF Init
  <2> QED BY <2>1
<1>2. entries \in Seq(Entry)
  <2>1. \A i \in 1 .. Earlier : [comment |-> NoComment, n |-> 0, beside |-> {}] \in Entry
    BY DEF Entry
  <2>2. Earlier \in Nat BY DEF WorkspaceAssumption
  <2>3. entries \in [1 .. Earlier -> Entry] BY <2>1 DEF Init
  <2> QED BY <2>2, <2>3, SeqDef
<1>3. asked \in Seq(Asked) /\ reqs = {} BY DEF Init
<1>4. /\ logs \subseteq Nat /\ archive \subseteq Nat /\ old \subseteq Nat /\ expired \subseteq Nat
  BY DEF Init
<1> QED BY <1>1, <1>2, <1>3, <1>4 DEF Shape

\* A request is answered.
LEMMA ShapeAnswered ==
  ASSUME Shape, NEW r \in reqs, reqs' = reqs \ {r}, UNCHANGED <<asked, mine, late, trail>>
  PROVE  Shape'
BY DEF Shape, trail

\* A request goes on as x.
LEMMA ShapeGoes ==
  ASSUME Shape, NEW r \in reqs, NEW x \in Request, x.n = r.n, Well(x.todo),
         reqs' = (reqs \ {r}) \cup {x}, asked' = asked, mine' = mine, late' = late,
         entries' = entries, logs' \subseteq Nat, archive' \subseteq Nat, old' = old, expired' = expired
  PROVE  Shape'
BY DEF Shape

-----------------------------------------------------------------------------
(***************************************************************************)
(* The actions of a request, by what they do to the trail.                 *)
(***************************************************************************)
Quiet(r) ==
  /\ UNCHANGED trail /\ asked' = asked /\ mine' \subseteq mine /\ late' = late
  /\ \/ reqs' = reqs \ {r}
     \/ \E x \in Request : Goes(r, x) /\ reqs' = (reqs \ {r}) \cup {x}

LEMMA GoGoes ==
  ASSUME NEW r \in Request, Well(r.todo), NEW s, Go(r, s),
         s = <<"write">> \/ (s = Tail(r.todo) /\ Head(r.todo) \in Checks)
  PROVE  \E x \in Request : Goes(r, x) /\ reqs' = (reqs \ {r}) \cup {x}
<1> DEFINE x == [r EXCEPT !.todo = s]
<1>1. Well(s)
  <2>1. CASE s = <<"write">> BY <2>1, WellOne DEF Ends
  <2>2. CASE s = Tail(r.todo) /\ Head(r.todo) \in Checks
    <3>1. Well(Tail(r.todo)) BY <2>2, WellTail
    <3> QED BY <2>2, <3>1
  <2> QED BY <2>1, <2>2
<1>2. x \in Request /\ x.todo = s /\ x.n = r.n /\ x.found = r.found BY <1>1 DEF Well, Request
<1>3. Goes(r, x) BY <1>1, <1>2 DEF Goes
<1> QED BY <1>2, <1>3 DEF Go

LEMMA CheckQuiet ==
  ASSUME Shape, NEW r \in reqs, NEW step \in Checks, NEW ok, NEW status, Check(r, step, ok, status)
  PROVE  Quiet(r) /\ (ok \/ reqs' = reqs \ {r}) /\ UNCHANGED <<rows, trail, served>>
<1>1. r \in Request /\ Well(r.todo) BY DEF Shape
<1>2. UNCHANGED <<rows, trail, served>> BY DEF Check
<1>3. CASE ok
  BY <1>1, <1>2, <1>3, GoGoes DEF Check, At, Quiet, rows, served
<1>4. CASE ~ ok
  BY <1>1, <1>2, <1>4 DEF Check, Answer, Quiet, rows, served
<1> QED BY <1>2, <1>3, <1>4

LEMMA FindQuiet ==
  ASSUME Shape, NEW r \in reqs, NEW name \in {"open", "overdue", "done"}, NEW S \in SUBSET Tasks,
         At(r, name), Find(r, name, S), UNCHANGED <<rows, trail, served>>
  PROVE  Quiet(r)
<1>1. r \in Request /\ Well(r.todo) /\ Head(r.todo) \in Checks BY DEF Shape, At, Checks
<1> DEFINE x == [r EXCEPT !.found[name] = S, !.todo = Tail(r.todo)]
<1>2. Well(Tail(r.todo)) /\ Tail(r.todo) \in Seq(Checks \cup Ends) BY <1>1, WellTail DEF Well
<1>3. /\ x \in Request /\ x.n = r.n /\ x.todo = Tail(r.todo)
      /\ x.found.batch = r.found.batch /\ x.found.cutoff = r.found.cutoff
      /\ x.found.final = r.found.final
  BY <1>1, <1>2 DEF Request, FoundSet
<1>4. Goes(r, x) BY <1>1, <1>2, <1>3 DEF Goes
<1> QED BY <1>3, <1>4 DEF Find, Quiet, rows, served

LEMMA Kinds ==
  ASSUME Shape, NEW r \in reqs, Serve(r)
  PROVE  \/ Quiet(r) \/ DeleteComment(r)
         \/ SelectBatch(r) \/ SelectExpired(r) \/ MoveBatch(r) \/ PurgeBatch(r)
<1>1. r \in Request /\ Well(r.todo) BY DEF Shape
<1>2. CASE get_project(r) BY <1>2, CheckQuiet DEF get_project, Checks
<1>3. CASE get_comment(r) BY <1>3, CheckQuiet DEF get_comment, Checks
<1>4. CASE get_task(r) BY <1>4, CheckQuiet DEF get_task, Checks
<1>5. CASE IsProjectThere(r) BY <1>5, CheckQuiet DEF IsProjectThere, Checks
<1>6. CASE AssertProject(r) BY <1>6, CheckQuiet DEF AssertProject, Checks
<1>7. CASE team_membership(r) BY <1>7, CheckQuiet DEF team_membership, Checks
<1>8. CASE IsTeamMember(r)
  <2>1. UNCHANGED <<rows, trail, served>> /\ At(r, "member") BY <1>8 DEF IsTeamMember
  <2>2. reqs' = reqs \ {r} \/ Go(r, <<"write">>) \/ Go(r, Tail(r.todo))
    BY <1>8 DEF IsTeamMember, Answer
  <2>3. reqs' = reqs \ {r} \/ \E x \in Request : Goes(r, x) /\ reqs' = (reqs \ {r}) \cup {x}
    BY <1>1, <2>1, <2>2, GoGoes DEF At, Checks
  <2> QED BY <2>1, <2>3 DEF Quiet, rows, served
<1>9. CASE CreateProject(r) \/ List(r) \/ UpdateProject(r) \/ CreateComment(r) \/ ShowOverview(r)
           \/ FinishArchive(r) \/ Fail(r)
  <2>1. UNCHANGED <<trail, asked, mine, late>> /\ reqs' = reqs \ {r}
    BY <1>9 DEF CreateProject, List, UpdateProject, CreateComment, ShowOverview, FinishArchive,
       Fail, Answer, rows, served
  <2> QED BY <2>1 DEF Quiet
<1>10. CASE DeleteProject(r)
  <2>1. UNCHANGED <<trail, asked, late>> /\ reqs' = reqs \ {r} /\ mine' \subseteq mine
    BY <1>10 DEF DeleteProject, DropProject, Cascade, Answer, served
  <2> QED BY <2>1 DEF Quiet
<1>11. OpenMine \in SUBSET Tasks /\ DoneMine \in SUBSET Tasks BY DEF OpenMine, DoneMine, Shape
<1>12. CASE CountOpen(r) BY <1>11, <1>12, FindQuiet DEF CountOpen
<1>13. CASE CountDone(r) BY <1>11, <1>13, FindQuiet DEF CountDone
<1>14. CASE CountOverdue(r)
  <2>1. OpenMine \cap late \in SUBSET Tasks BY <1>11
  <2> QED BY <1>14, <2>1, FindQuiet DEF CountOverdue
<1> QED
  BY <1>2, <1>3, <1>4, <1>5, <1>6, <1>7, <1>8, <1>9, <1>10, <1>12, <1>13, <1>14 DEF Serve

\* The members, the tasks and their fields change; the requests do not.
LEMMA ChangeKinds ==
  ASSUME Shape, Change
  PROVE  /\ reqs' = reqs /\ asked' = asked /\ answers' = answers /\ figures' = figures
         /\ mine' \subseteq Tasks /\ late' \subseteq Tasks
         /\ UNCHANGED trail \/ \E e \in DOMAIN entries : Age(e)
<1>1. /\ reqs' = reqs /\ asked' = asked /\ answers' = answers /\ figures' = figures
  BY DEF Change, Changed
<1>2. CASE ChangeMembers BY <1>1, <1>2 DEF ChangeMembers, Shape
<1>3. CASE Dissolve BY <1>1, <1>3 DEF Dissolve, DropProject, Cascade, Shape
<1>4. ASSUME NEW t \in Tasks, ChangeTask(t)
      PROVE  mine' \subseteq Tasks /\ late' \subseteq Tasks /\ UNCHANGED trail
  BY <1>4 DEF ChangeTask, Cascade, Shape
<1>5. ASSUME NEW t \in Tasks, ChangeFields(t)
      PROVE  mine' \subseteq Tasks /\ late' \subseteq Tasks /\ UNCHANGED trail
  <2>1. UNCHANGED trail BY <1>5 DEF ChangeFields
  <2>2. mine' \subseteq Tasks BY <1>5 DEF ChangeFields, Shape
  <2>3. late' \subseteq Tasks BY <1>5 DEF ChangeFields, Shape
  <2> QED BY <2>1, <2>2, <2>3
<1>6. ASSUME NEW e \in DOMAIN entries, Age(e)
      PROVE  mine' \subseteq Tasks /\ late' \subseteq Tasks
  BY <1>6 DEF Age, rows, Shape
<1> QED BY <1>1, <1>2, <1>3, <1>4, <1>5, <1>6 DEF Change

LEMMA Submitted ==
  ASSUME Shape, NEW op \in Ops, NEW u \in Users, NEW t \in Tasks, NEW c \in Comments \cup {NoComment},
         Submit(op, u, t, c)
  PROVE  \E x \in Request :
           /\ x.n = Len(asked) + 1 /\ x.todo = Path[op] /\ Well(x.todo)
           /\ reqs' = reqs \cup {x}
           /\ asked' \in Seq(Asked) /\ Len(asked') = Len(asked) + 1
           /\ asked'[Len(asked) + 1] = [op |-> op, user |-> u, on |-> t, comment |-> c]
           /\ \A i \in DOMAIN asked : asked'[i] = asked[i]
           /\ x.found.cutoff \subseteq old /\ x.found.final \subseteq expired
           /\ UNCHANGED <<rows, trail, figures>> /\ answers' = Append(answers, "none")
<1>1. Len(asked) \in Nat /\ asked \in Seq(Asked) BY DEF Shape
<1>2. [op |-> op, user |-> u, on |-> t, comment |-> c] \in Asked BY DEF Asked, Submit
<1>3. Well(Path[op]) /\ Path[op] \in Seq(Checks \cup Ends) BY Paths DEF Well
<1> DEFINE f == IF op = "archive" THEN [Found EXCEPT !.cutoff = old, !.final = expired] ELSE Found
           x == [n |-> Len(asked) + 1, todo |-> Path[op], found |-> f]
<1>4. f \in FoundSet /\ f.cutoff \subseteq old /\ f.final \subseteq expired
  BY DEF Found, FoundSet, Shape
<1>5. x \in Request BY <1>1, <1>3, <1>4 DEF Request
<1>6. reqs' = reqs \cup {x} /\ asked' = Append(asked, [op |-> op, user |-> u, on |-> t, comment |-> c])
  BY DEF Submit
<1>7. UNCHANGED <<rows, trail, figures>> /\ answers' = Append(answers, "none") BY DEF Submit
<1>8. /\ asked' \in Seq(Asked) /\ Len(asked') = Len(asked) + 1
      /\ asked'[Len(asked) + 1] = [op |-> op, user |-> u, on |-> t, comment |-> c]
      /\ \A i \in DOMAIN asked : asked'[i] = asked[i]
  <2> DEFINE q == [op |-> op, user |-> u, on |-> t, comment |-> c]
  <2>1. q \in Asked BY <1>2
  <2> HIDE DEF q
  <2> QED BY <1>1, <1>6, <2>1 DEF q
<1> HIDE DEF x
<1>9. x.n = Len(asked) + 1 /\ x.todo = Path[op] /\ x.found = f BY DEF x
<1> QED BY <1>3, <1>4, <1>5, <1>6, <1>7, <1>8, <1>9

LEMMA Batched ==
  ASSUME Shape, NEW r \in reqs, NEW S, NEW work \in Ends, NEW next \in {<<"expired">>, <<"write">>},
         Batch(r, S, work, next), S \subseteq logs \cup archive
  PROVE  \E x \in Request :
           /\ x.n = r.n /\ Well(x.todo) /\ reqs' = (reqs \ {r}) \cup {x}
           /\ x.found.batch \subseteq S /\ x.found.cutoff = r.found.cutoff
           /\ x.found.final = r.found.final
           /\ Left(x.todo) \in {{work}, {"expired"}, {"write"}}
           /\ UNCHANGED <<rows, trail, served, answers>>
<1> DEFINE s == IF S = {} THEN next ELSE <<work>>
           x == [r EXCEPT !.found.batch = First(S), !.todo = s]
<1>1. r \in Request BY DEF Shape
<1>2. Well(s) /\ Left(s) \in {{work}, {"expired"}, {"write"}} BY WellOne DEF Ends
<1>3. First(S) \subseteq S /\ First(S) \subseteq Nat BY DEF First, Shape
<1>4. x \in Request /\ x.n = r.n /\ x.todo = s /\ x.found.batch = First(S)
      /\ x.found.cutoff = r.found.cutoff /\ x.found.final = r.found.final
  BY <1>1, <1>2, <1>3 DEF Request, FoundSet, Well
<1>5. reqs' = (reqs \ {r}) \cup {x} /\ UNCHANGED <<rows, trail, served, answers>> BY DEF Batch
<1> QED BY <1>2, <1>3, <1>4, <1>5

\* A run of the archive moves or deletes its batch.
LEMMA Worked ==
  ASSUME Shape, NEW r \in reqs, MoveBatch(r) \/ PurgeBatch(r)
  PROVE  \E x \in Request :
           /\ x.n = r.n /\ Well(x.todo) /\ reqs' = (reqs \ {r}) \cup {x} /\ x.found = r.found
           /\ Left(x.todo) \in {{"select"}, {"expired"}}
           /\ UNCHANGED <<rows, old, expired, entries, served, answers>>
<1> DEFINE s == IF At(r, "move") THEN <<"select">> ELSE <<"expired">>
           x == [r EXCEPT !.todo = s]
<1>1. r \in Request BY DEF Shape
<1>2. Well(s) /\ Left(s) \in {{"select"}, {"expired"}} BY WellOne DEF Ends
<1>3. x \in Request /\ x.n = r.n /\ x.todo = s /\ x.found = r.found
  BY <1>1, <1>2 DEF Request, Well
<1>4. reqs' = (reqs \ {r}) \cup {x} /\ UNCHANGED <<rows, old, expired, entries, served, answers>>
  BY DEF MoveBatch, PurgeBatch, At, Go
<1> QED BY <1>2, <1>3, <1>4

\* The entry of a deletion gets the next id.
LEMMA Written ==
  ASSUME Shape, NEW r \in reqs, DeleteComment(r)
  PROVE  /\ entries' \in Seq(Entry) /\ Len(entries') = Len(entries) + 1
         /\ DOMAIN entries' = DOMAIN entries \cup {Len(entries) + 1}
         /\ Len(entries) + 1 \notin DOMAIN entries
         /\ \A e \in DOMAIN entries : entries'[e] = entries[e]
         /\ entries'[Len(entries) + 1] =
              [comment |-> asked[r.n].comment, n |-> r.n, beside |-> {x.n : x \in reqs}]
         /\ logs' = logs \cup {Len(entries) + 1} /\ reqs' = reqs \ {r}
         /\ UNCHANGED <<archive, old, expired, purged, asked, mine, late>>
<1> DEFINE e == [comment |-> asked[r.n].comment, n |-> r.n, beside |-> {x.n : x \in reqs}]
<1>1. r \in Request /\ r.n \in DOMAIN asked /\ asked[r.n] \in Asked BY DEF Shape
<1>2. {x.n : x \in reqs} \subseteq Nat BY DEF Shape, Request
<1>3. e \in Entry BY <1>1, <1>2 DEF Entry, Asked, Request
<1>4. entries' = Append(entries, e) /\ logs' = logs \cup {Len(entries) + 1} /\ reqs' = reqs \ {r}
      /\ UNCHANGED <<archive, old, expired, purged, asked, mine, late>>
  BY DEF DeleteComment, WriteLog, Answer, served
<1> HIDE DEF e
<1>5. entries \in Seq(Entry) /\ Len(entries) \in Nat /\ DOMAIN entries = 1 .. Len(entries) BY DEF Shape
<1>6. /\ entries' \in Seq(Entry) /\ Len(entries') = Len(entries) + 1
      /\ \A i \in DOMAIN entries : entries'[i] = entries[i]
      /\ entries'[Len(entries) + 1] = e
  BY <1>3, <1>4, <1>5
<1>7. DOMAIN entries' = 1 .. Len(entries) + 1 BY <1>6
<1> QED BY <1>4, <1>5, <1>6, <1>7 DEF e

LEMMA ShapeStep == Shape /\ [Next]_vars => Shape'
<1> SUFFICES ASSUME Shape, [Next]_vars PROVE Shape'
  OBVIOUS
<1>1. ASSUME NEW op \in Ops, NEW u \in Users, NEW t \in Tasks, NEW c \in Comments \cup {NoComment},
             Submit(op, u, t, c)
      PROVE  Shape'
  <2>1. PICK x \in Request :
           /\ x.n = Len(asked) + 1 /\ x.todo = Path[op] /\ Well(x.todo)
           /\ reqs' = reqs \cup {x}
           /\ asked' \in Seq(Asked) /\ Len(asked') = Len(asked) + 1
           /\ UNCHANGED <<rows, trail>>
    BY <1>1, Submitted
  <2>2. /\ DOMAIN asked = 1 .. Len(asked) /\ DOMAIN asked' = 1 .. Len(asked) + 1
        /\ Len(asked) \in Nat
    BY <2>1 DEF Shape
  <2>3. \A r \in reqs' : r.n \in DOMAIN asked' /\ Well(r.todo)
    BY <2>1, <2>2 DEF Shape
  <2>4. \A r \in reqs : r.n # x.n
    BY <2>1, <2>2 DEF Shape
  <2>5. \A r, y \in reqs' : r.n = y.n => r = y
    BY <2>1, <2>4 DEF Shape
  <2> QED BY <2>1, <2>3, <2>5 DEF Shape, rows, trail
<1>2. ASSUME NEW r \in reqs, Serve(r) PROVE Shape'
  <2>1. CASE Quiet(r)
    <3>1. CASE reqs' = reqs \ {r}
      BY <2>1, <3>1 DEF Quiet, Shape, trail
    <3>2. CASE \E x \in Request : Goes(r, x) /\ reqs' = (reqs \ {r}) \cup {x}
      <4>1. PICK x \in Request : Goes(r, x) /\ reqs' = (reqs \ {r}) \cup {x} BY <3>2
      <4> QED BY <2>1, <4>1 DEF Quiet, Goes, Shape, trail
    <3> QED BY <2>1, <3>1, <3>2 DEF Quiet
  <2>2. CASE DeleteComment(r)
    <3>1. /\ entries' \in Seq(Entry) /\ logs' = logs \cup {Len(entries) + 1}
          /\ reqs' = reqs \ {r} /\ UNCHANGED <<archive, old, expired, purged, asked, mine, late>>
      BY <2>2, Written
    <3>2. Len(entries) + 1 \in Nat BY DEF Shape
    <3> QED BY <3>1, <3>2 DEF Shape
  <2>3. CASE SelectBatch(r)
    <3>1. PICK x \in Request : /\ x.n = r.n /\ Well(x.todo) /\ reqs' = (reqs \ {r}) \cup {x}
                               /\ UNCHANGED <<rows, trail, served, answers>>
      BY <2>3, Batched DEF SelectBatch, Ends
    <3> QED BY <3>1, ShapeGoes DEF rows, trail, served, Shape
  <2>4. CASE SelectExpired(r)
    <3>1. PICK x \in Request : /\ x.n = r.n /\ Well(x.todo) /\ reqs' = (reqs \ {r}) \cup {x}
                               /\ UNCHANGED <<rows, trail, served, answers>>
      BY <2>4, Batched DEF SelectExpired, Ends
    <3> QED BY <3>1, ShapeGoes DEF rows, trail, served, Shape
  <2>5. CASE MoveBatch(r) \/ PurgeBatch(r)
    <3>1. PICK x \in Request : /\ x.n = r.n /\ Well(x.todo) /\ reqs' = (reqs \ {r}) \cup {x}
                               /\ UNCHANGED <<rows, old, expired, entries, served, answers>>
      BY <2>5, Worked
    <3>2. r \in Request BY DEF Shape
    <3>3. logs' \subseteq Nat /\ archive' \subseteq Nat
      BY <2>5, <3>2 DEF MoveBatch, PurgeBatch, Shape, Request, FoundSet
    <3> QED BY <3>1, <3>3, ShapeGoes DEF rows, served
  <2> QED BY <1>2, <2>1, <2>2, <2>3, <2>4, <2>5, Kinds
<1>3. CASE Change
  <2>1. /\ reqs' = reqs /\ asked' = asked /\ mine' \subseteq Tasks /\ late' \subseteq Tasks
        /\ UNCHANGED trail \/ \E e \in DOMAIN entries : Age(e)
    BY <1>3, ChangeKinds
  <2>2. CASE UNCHANGED trail BY <2>1, <2>2 DEF Shape, trail
  <2>3. ASSUME NEW e \in DOMAIN entries, Age(e) PROVE Shape'
    <3>1. old' \subseteq Nat /\ expired' \subseteq Nat BY <2>3 DEF Age, Shape
    <3> QED BY <2>1, <2>3, <3>1 DEF Age, Shape
  <2> QED BY <2>1, <2>2, <2>3
<1>4. CASE UNCHANGED vars
  BY <1>4 DEF vars, rows, trail, served, Shape
<1> QED BY <1>1, <1>2, <1>3, <1>4 DEF Next

-----------------------------------------------------------------------------
(***************************************************************************)
(* The audit entries and their archive.  An entry may only go on to be     *)
(* archived or deleted, so a batch that was selected stays fit for its     *)
(* step: what is to be moved is in one of the tables and not yet due for   *)
(* deletion, and what is to be deleted was due when the run began.         *)
(***************************************************************************)
Selected(r) ==
  /\ r.found.cutoff \subseteq old /\ r.found.final \subseteq expired
  /\ "move" \in Left(r.todo) => /\ r.found.batch \subseteq r.found.cutoff
                                /\ r.found.batch \subseteq logs \cup archive
                                /\ r.found.batch \cap expired = {}
  /\ "purge" \in Left(r.todo) => r.found.batch \subseteq r.found.final

LogInv ==
  /\ LogKept
  /\ expired \subseteq archive \cup purged
  /\ \A r \in reqs : Selected(r)

\* A request that was not served.
LEMMA SelectedStays ==
  ASSUME NEW r, Selected(r), old \subseteq old', expired \subseteq expired',
         (logs \cup archive) \ expired \subseteq logs' \cup archive',
         "move" \in Left(r.todo) => r.found.batch \cap (expired' \ expired) = {}
  PROVE  Selected(r)'
<1>1. r.found.cutoff \subseteq old' /\ r.found.final \subseteq expired' BY DEF Selected
<1>2. "purge" \in Left(r.todo) => r.found.batch \subseteq r.found.final BY DEF Selected
<1>3. ASSUME "move" \in Left(r.todo)
      PROVE  /\ r.found.batch \subseteq r.found.cutoff
             /\ r.found.batch \subseteq logs' \cup archive'
             /\ r.found.batch \cap expired' = {}
  <2>1. /\ r.found.batch \subseteq r.found.cutoff
        /\ r.found.batch \subseteq logs \cup archive
        /\ r.found.batch \cap expired = {}
    BY <1>3 DEF Selected
  <2> QED BY <1>3, <2>1
<1> QED BY <1>1, <1>2, <1>3 DEF Selected

\* One that went on, when neither its batch nor the tables changed.
LEMMA SelectedGoes ==
  ASSUME Shape, NEW r \in reqs, NEW x \in Request, Selected(r), Goes(r, x), UNCHANGED trail
  PROVE  Selected(x)'
<1>1. Well(r.todo) BY DEF Shape
<1>2. "move" \in Left(x.todo) => "move" \in Left(r.todo)
  BY <1>1, WellTail, WellOne DEF Goes, Ends
<1>3. "purge" \in Left(x.todo) => "purge" \in Left(r.todo)
  BY <1>1, WellTail, WellOne DEF Goes, Ends
<1> QED BY <1>2, <1>3 DEF Selected, Goes, trail

LEMMA LogInit == Init => LogInv
<1> SUFFICES ASSUME Init PROVE LogInv OBVIOUS
<1>1. DOMAIN entries = 1 .. Earlier BY DEF Init
<1>2. logs = 1 .. Earlier /\ archive = {} /\ old = logs /\ expired = {} /\ purged = {} /\ reqs = {}
  BY DEF Init
<1> QED BY <1>1, <1>2 DEF LogInv, LogKept

LEMMA LogStep == Shape /\ LogInv /\ [Next]_vars => LogInv'
<1> SUFFICES ASSUME Shape, LogInv, [Next]_vars PROVE LogInv'
  OBVIOUS
<1>1. ASSUME NEW op \in Ops, NEW u \in Users, NEW t \in Tasks, NEW c \in Comments \cup {NoComment},
             Submit(op, u, t, c)
      PROVE  LogInv'
  <2>1. PICK x \in Request :
           /\ x.todo = Path[op] /\ reqs' = reqs \cup {x}
           /\ x.found.cutoff \subseteq old /\ x.found.final \subseteq expired
           /\ UNCHANGED <<rows, trail>>
    BY <1>1, Submitted
  <2>2. "move" \notin Left(x.todo) /\ "purge" \notin Left(x.todo)
    <3>1. op \in {"create_project", "get_project", "update_project", "delete_project", "create_comment",
                  "list_comments", "list_logs", "delete_comment", "overview", "archive"}
      BY DEF Ops, Path
    <3>2. "move" \notin Left(Path[op]) /\ "purge" \notin Left(Path[op]) BY <3>1, Paths
    <3> QED BY <2>1, <3>2
  <2>3. Selected(x)' BY <2>1, <2>2 DEF Selected, trail
  <2>4. \A r \in reqs : Selected(r)' BY <2>1 DEF LogInv, Selected, trail
  <2> QED BY <2>1, <2>3, <2>4 DEF LogInv, LogKept, trail
<1>2. ASSUME NEW r \in reqs, Serve(r) PROVE LogInv'
  <2>1. CASE Quiet(r)
    <3>1. UNCHANGED trail BY <2>1 DEF Quiet
    <3>2. \A y \in reqs : Selected(y)' BY <3>1 DEF LogInv, Selected, trail
    <3>3. \A y \in reqs' : Selected(y)'
      <4>1. CASE reqs' = reqs \ {r} BY <3>2, <4>1
      <4>2. CASE \E x \in Request : Goes(r, x) /\ reqs' = (reqs \ {r}) \cup {x}
        BY <3>1, <3>2, <4>2, SelectedGoes DEF LogInv
      <4> QED BY <2>1, <4>1, <4>2 DEF Quiet
    <3> QED BY <3>1, <3>3 DEF LogInv, LogKept, trail
  <2>2. CASE DeleteComment(r)
    <3>1. /\ DOMAIN entries' = DOMAIN entries \cup {Len(entries) + 1}
          /\ Len(entries) + 1 \notin DOMAIN entries
          /\ logs' = logs \cup {Len(entries) + 1} /\ reqs' = reqs \ {r}
          /\ UNCHANGED <<archive, old, expired, purged>>
      BY <2>2, Written
    <3>2. \A y \in reqs' : Selected(y)'
      BY <3>1, SelectedStays DEF LogInv
    <3> QED BY <3>1, <3>2 DEF LogInv, LogKept
  <2>3. CASE SelectBatch(r)
    <3> DEFINE S == logs \cap r.found.cutoff
    <3>1. Batch(r, S, "move", <<"expired">>) /\ S \subseteq logs \cup archive
      BY <2>3 DEF SelectBatch
    <3>2. "move" \in Ends BY DEF Ends
    <3>3. PICK x \in Request :
             /\ x.n = r.n /\ Well(x.todo) /\ reqs' = (reqs \ {r}) \cup {x}
             /\ x.found.batch \subseteq S /\ x.found.cutoff = r.found.cutoff
             /\ x.found.final = r.found.final
             /\ Left(x.todo) \in {{"move"}, {"expired"}, {"write"}}
             /\ UNCHANGED <<rows, trail, served, answers>>
      <4> HIDE DEF S
      <4> QED BY <3>1, <3>2, Batched
    <3>4. Selected(x)' BY <3>3 DEF Selected, LogInv, LogKept, trail
    <3>5. \A y \in reqs : Selected(y)' BY <3>3 DEF LogInv, Selected, trail
    <3> QED BY <3>3, <3>4, <3>5 DEF LogInv, LogKept, trail
  <2>4. CASE SelectExpired(r)
    <3> DEFINE S == archive \cap r.found.final
    <3>1. Batch(r, S, "purge", <<"write">>) /\ S \subseteq logs \cup archive
      BY <2>4 DEF SelectExpired
    <3>2. "purge" \in Ends BY DEF Ends
    <3>3. PICK x \in Request :
             /\ x.n = r.n /\ Well(x.todo) /\ reqs' = (reqs \ {r}) \cup {x}
             /\ x.found.batch \subseteq S /\ x.found.cutoff = r.found.cutoff
             /\ x.found.final = r.found.final
             /\ Left(x.todo) \in {{"purge"}, {"expired"}, {"write"}}
             /\ UNCHANGED <<rows, trail, served, answers>>
      <4> HIDE DEF S
      <4> QED BY <3>1, <3>2, Batched
    <3>4. Selected(x)' BY <3>3 DEF Selected, LogInv, LogKept, trail
    <3>5. \A y \in reqs : Selected(y)' BY <3>3 DEF LogInv, Selected, trail
    <3> QED BY <3>3, <3>4, <3>5 DEF LogInv, LogKept, trail
  <2>5. CASE MoveBatch(r) \/ PurgeBatch(r)
    <3>1. PICK x \in Request :
             /\ reqs' = (reqs \ {r}) \cup {x} /\ x.found = r.found
             /\ Left(x.todo) \in {{"select"}, {"expired"}}
             /\ UNCHANGED <<old, expired, entries>>
      BY <2>5, Worked
    <3>2. Head(r.todo) \in Left(r.todo) BY WellHead DEF Shape
    <3>3. Selected(r) BY DEF LogInv
    <3>4. CASE MoveBatch(r)
      <4>1. /\ archive' = archive \cup r.found.batch /\ logs' = logs \ r.found.batch
            /\ purged' = purged /\ "move" \in Left(r.todo)
        BY <3>2, <3>4 DEF MoveBatch, At
      <4>2. LogKept' /\ expired' \subseteq archive' \cup purged'
        BY <3>1, <3>3, <4>1 DEF LogInv, LogKept, Selected
      <4> QED BY <3>1, <3>3, <4>1, <4>2, SelectedStays DEF LogInv, Selected
    <3>5. CASE PurgeBatch(r)
      <4>1. /\ archive' = archive \ r.found.batch /\ logs' = logs
            /\ purged' = purged \cup (r.found.batch \cap archive) /\ "purge" \in Left(r.todo)
        BY <3>2, <3>5 DEF PurgeBatch, At
      <4>2. r.found.batch \subseteq expired BY <3>3, <4>1 DEF Selected
      <4>3. LogKept' /\ expired' \subseteq archive' \cup purged'
        BY <3>1, <4>1, <4>2 DEF LogInv, LogKept
      <4>4. \A y \in reqs : Selected(y)'
        BY <3>1, <4>1, <4>2, SelectedStays DEF LogInv
      <4> QED BY <3>1, <3>3, <4>3, <4>4 DEF LogInv, Selected
    <3> QED BY <2>5, <3>4, <3>5
  <2> QED BY <1>2, <2>1, <2>2, <2>3, <2>4, <2>5, Kinds
<1>3. CASE Change
  <2>1. reqs' = reqs /\ (UNCHANGED trail \/ \E e \in DOMAIN entries : Age(e))
    BY <1>3, ChangeKinds
  <2>2. CASE UNCHANGED trail BY <2>1, <2>2 DEF LogInv, LogKept, Selected, trail
  <2>3. ASSUME NEW e \in DOMAIN entries, Age(e) PROVE LogInv'
    <3>1. /\ UNCHANGED <<logs, archive, entries, purged>> /\ old \subseteq old' /\ expired \subseteq expired'
          /\ \A y \in expired' \ expired : y \in archive /\ \A r \in reqs : y \notin r.found.batch
      BY <2>3 DEF Age
    <3>2. \A r \in reqs : Selected(r)' BY <3>1, SelectedStays DEF LogInv
    <3> QED BY <2>1, <3>1, <3>2 DEF LogInv, LogKept
  <2> QED BY <2>1, <2>2, <2>3
<1>4. CASE UNCHANGED vars
  BY <1>4 DEF vars, trail, LogInv, LogKept, Selected
<1> QED BY <1>1, <1>2, <1>3, <1>4 DEF Next

LEMMA ShapeAlways == Spec => []Shape
<1> QED BY InitShape, ShapeStep, PTL DEF Spec

\* No audit entry is lost, is in two tables or is deleted before its time,
\* however many runs of the archive overlap and are killed, whatever the size of
\* their batches (tasks/maintenance_tasks.py:95-191).
THEOREM LogKeptCorrect == Spec => []LogKept
<1>1. Spec => []LogInv BY ShapeAlways, LogInit, LogStep, PTL DEF Spec
<1>2. LogInv => LogKept BY DEF LogInv
<1> QED BY <1>1, <1>2, PTL

-----------------------------------------------------------------------------
(***************************************************************************)
(* The rows: a team that was deleted has no members, a task has its        *)
(* project and a comment its task.                                         *)
(***************************************************************************)
Comment == {"NEW", "there", "GONE"}

Data ==
  /\ role \in [Users -> Team!Roles] /\ task \in [Tasks -> Rows!Row]
  /\ project \in {"NEW", "there", "GONE"} /\ comments \in [Comments -> Comment]
  /\ role[Owner] \in {"owner", "none"}
  /\ role[Owner] = "none" => \A u \in Users : role[u] = "none"
  /\ \A t \in Tasks : task[t] \in Rows!Statuses => project = "there"
  /\ \A c \in Comments : comments[c] = "there" => task[c.on] \in Rows!Statuses

\* What may become of a comment and of a task, apart from delete_comment.
Ages ==
  /\ \A c \in Comments : \/ comments'[c] = comments[c]
                         \/ comments[c] = "NEW" /\ comments'[c] = "there"
                         \/ comments'[c] = "GONE" /\ task'[c.on] = "DELETED"
  /\ \A t \in Tasks : /\ task[t] = "DELETED" => task'[t] = "DELETED"
                      /\ task[t] = "DONE" => task'[t] \in {"DONE", "DELETED"}

LEMMA DataInit == Init => Data
<1> SUFFICES ASSUME Init PROVE Data OBVIOUS
<1>1. role \in [Users -> Team!Roles] /\ \A u \in Users : (role[u] = "owner") = (u = Owner)
  BY DEF Init
<1>2. role[Owner] = "owner" BY <1>1 DEF WorkspaceAssumption
<1>3. PICK at \in IF project = "there" THEN {"NEW", "REVIEW"} ELSE {"NEW"} :
        /\ task = [t \in Tasks |-> at]
        /\ comments = [c \in Comments |-> IF c.on \in (IF at = "NEW" THEN {} ELSE Tasks)
                                          THEN "there" ELSE "NEW"]
  BY DEF Init
<1>4. project \in {"NEW", "there"} BY DEF Init
<1>5. task \in [Tasks -> Rows!Row] /\ \A t \in Tasks : task[t] \in Rows!Statuses => project = "there"
  BY <1>3, <1>4 DEF Rows!Row, Rows!Statuses
<1>6. comments \in [Comments -> Comment] BY <1>3 DEF Comment
<1>7. ASSUME NEW c \in Comments, comments[c] = "there" PROVE task[c.on] \in Rows!Statuses
  BY <1>3, <1>4, <1>7 DEF Rows!Statuses, WorkspaceAssumption
<1> QED BY <1>1, <1>2, <1>4, <1>5, <1>6, <1>7 DEF Data

\* The members change, and with the team goes all that is in it.
LEMMA DataMembers ==
  ASSUME Data, role' \in [Users -> Team!Roles], role'[Owner] \in {"owner", "none"},
         role'[Owner] = "none" => \A u \in Users : role'[u] = "none",
         UNCHANGED <<task, project, comments>>
  PROVE  Data' /\ Ages
BY DEF Data, Ages

\* Everything in the project goes with it.
LEMMA DataDrop ==
  ASSUME Data, DropProject
  PROVE  /\ Ages /\ task' \in [Tasks -> Rows!Row] /\ comments' \in [Comments -> Comment]
         /\ project' \in {"NEW", "there", "GONE"}
         /\ \A t \in Tasks : task'[t] \notin Rows!Statuses
         /\ \A c \in Comments : comments'[c] # "there"
<1>1. /\ task' = [t \in Tasks |-> IF task[t] \in Rows!Statuses THEN "DELETED" ELSE task[t]]
      /\ comments' = [c \in Comments |-> IF c.on \in Tasks /\ comments[c] = "there"
                                         THEN "GONE" ELSE comments[c]]
      /\ project' = IF project = "there" THEN "GONE" ELSE project
  BY DEF DropProject, Cascade
<1>2. \A c \in Comments : c.on \in Tasks BY DEF WorkspaceAssumption
<1>3. task' \in [Tasks -> Rows!Row] /\ comments' \in [Comments -> Comment]
  BY <1>1 DEF Data, Rows!Row, Comment
<1>4. \A t \in Tasks : task'[t] = IF task[t] \in Rows!Statuses THEN "DELETED" ELSE task[t]
  BY <1>1
<1>5. \A c \in Comments : comments'[c] = IF comments[c] = "there" THEN "GONE" ELSE comments[c]
  BY <1>1, <1>2
<1>6. ASSUME NEW c \in Comments, comments[c] = "there" PROVE task'[c.on] = "DELETED"
  BY <1>2, <1>4, <1>6 DEF Data
<1>7. Ages BY <1>4, <1>5, <1>6 DEF Ages, Rows!Statuses
<1> QED BY <1>1, <1>3, <1>4, <1>5, <1>7 DEF Data, Rows!Statuses

LEMMA DataServe ==
  ASSUME Data, Shape, NEW r \in reqs, Serve(r), ~ DeleteComment(r)
  PROVE  Data' /\ Ages
<1>1. CASE UNCHANGED rows BY <1>1 DEF Data, Ages, rows
<1>2. CASE CreateProject(r)
  BY <1>2 DEF CreateProject, Data, Ages
<1>3. CASE DeleteProject(r)
  <2>1. DropProject /\ role' = role BY <1>3 DEF DeleteProject
  <2> QED BY <2>1, DataDrop DEF Data
<1>4. CASE CreateComment(r)
  <2>1. UNCHANGED <<role, task, project>> BY <1>4 DEF CreateComment
  <2> DEFINE k == asked[r.n].comment
  <2>2. comments' = comments \/ (/\ task[asked[r.n].on] \in Rows!Statuses
                                 /\ comments' = [comments EXCEPT ![k] = IF @ = "NEW" THEN "there" ELSE @])
    BY <1>4 DEF CreateComment
  <2>3. k \in Comments /\ asked[r.n].on = k.on
    <3>1. asked[r.n] \in Asked /\ asked[r.n].op = "create_comment"
      BY <1>4 DEF CreateComment, Write, Shape
    <3> QED BY <3>1 DEF Asked
  <2> HIDE DEF k
  <2> QED BY <2>1, <2>2, <2>3 DEF Data, Ages, Comment
<1> QED
  BY <1>1, <1>2, <1>3, <1>4 DEF Serve, get_project, get_comment, get_task, IsProjectThere, IsTeamMember,
     AssertProject, team_membership, Check, List, UpdateProject, CountOpen, CountOverdue, CountDone,
     ShowOverview, SelectBatch, SelectExpired, Batch, MoveBatch, PurgeBatch, FinishArchive, Fail

LEMMA DataDelete ==
  ASSUME Data, Shape, NEW r \in reqs, DeleteComment(r)
  PROVE  /\ Data' /\ UNCHANGED <<role, task, project>>
         /\ asked[r.n] \in Asked /\ asked[r.n].op = "delete_comment"
         /\ asked[r.n].comment \in Comments
         /\ comments' = [comments EXCEPT ![asked[r.n].comment] = "GONE"]
<1>1. asked[r.n] \in Asked /\ asked[r.n].op = "delete_comment"
  BY DEF DeleteComment, Write, Shape
<1>2. asked[r.n].comment \in Comments BY <1>1 DEF Asked
<1>3. /\ UNCHANGED <<role, task, project>>
      /\ comments' = [comments EXCEPT ![asked[r.n].comment] = "GONE"]
  BY DEF DeleteComment
<1>4. Data' BY <1>2, <1>3 DEF Data, Comment
<1> QED BY <1>1, <1>2, <1>3, <1>4

LEMMA DataChange ==
  ASSUME Data, Change PROVE Data' /\ Ages
<1>1. CASE ChangeMembers
  <2>1. UNCHANGED <<task, project, comments>> BY <1>1 DEF ChangeMembers
  <2>2. PICK u \in Users : Team!Invite(u) \/ Team!Remove(u) BY <1>1 DEF ChangeMembers
  <2>3. /\ role' \in [Users -> Team!Roles] /\ role'[Owner] \in {"owner", "none"}
        /\ role'[Owner] = "none" => \A v \in Users : role'[v] = "none"
    BY <2>2 DEF Team!Invite, Team!Remove, Data, Team!Roles, WorkspaceAssumption
  <2> QED BY <2>1, <2>3, DataMembers
<1>2. CASE Dissolve
  <2>1. DropProject /\ role' = [u \in Users |-> "none"] BY <1>2 DEF Dissolve, Team!Dissolve
  <2>2. Owner \in Users BY DEF WorkspaceAssumption
  <2>3. role' \in [Users -> Team!Roles] /\ \A u \in Users : role'[u] = "none"
    BY <2>1 DEF Team!Roles
  <2> QED BY <2>1, <2>2, <2>3, DataDrop DEF Data
<1>3. ASSUME NEW t \in Tasks, ChangeTask(t) PROVE Data' /\ Ages
  <2>1. UNCHANGED <<role, project>> /\ project = "there" BY <1>3 DEF ChangeTask
  <2>2. CASE Rows!Create(t) /\ comments' = comments
    BY <2>1, <2>2 DEF Rows!Create, Data, Ages, Rows!Row, Rows!Statuses
  <2>3. ASSUME NEW to \in Rows!Statuses, Rows!Move(t, to), comments' = comments
        PROVE  Data' /\ Ages
    <3>1. task[t] \in Rows!Statuses /\ task' = [task EXCEPT ![t] = to] BY <2>3 DEF Rows!Move
    <3>2. task[t] # "DONE"
      BY <2>3, <3>1 DEF Rows!Move, Rows!can_transition, Rows!TRANSITIONS
    <3>3. task[t] # "DELETED" BY <3>1 DEF Rows!Statuses
    <3> QED BY <2>1, <2>3, <3>1, <3>2, <3>3 DEF Data, Ages, Rows!Row
  <2>4. CASE Rows!Delete(t) /\ Cascade({t})
    <3>1. task' = [task EXCEPT ![t] = "DELETED"] /\ task[t] \in Rows!Statuses
      BY <2>4 DEF Rows!Delete
    <3>2. comments' = [c \in Comments |-> IF c.on = t /\ comments[c] = "there"
                                          THEN "GONE" ELSE comments[c]]
      BY <2>4 DEF Cascade
    <3>3. comments' \in [Comments -> Comment] BY <3>2 DEF Data, Comment
    <3>4. Ages BY <3>1, <3>2 DEF Ages, Data, Rows!Statuses
    <3>5. \A c \in Comments : comments'[c] = "there" => task'[c.on] \in Rows!Statuses
      BY <3>1, <3>2 DEF Data
    <3>6. task' \in [Tasks -> Rows!Row] /\ \A x \in Tasks : task'[x] \in Rows!Statuses => project' = "there"
      BY <2>1, <3>1 DEF Data, Rows!Row
    <3> QED BY <2>1, <3>3, <3>4, <3>5, <3>6 DEF Data
  <2> QED BY <1>3, <2>2, <2>3, <2>4 DEF ChangeTask
<1>4. ASSUME NEW t \in Tasks, ChangeFields(t) PROVE Data' /\ Ages
  BY <1>4 DEF ChangeFields, Data, Ages
<1>5. ASSUME NEW e \in DOMAIN entries, Age(e) PROVE Data' /\ Ages
  BY <1>5 DEF Age, rows, Data, Ages
<1> QED BY <1>1, <1>2, <1>3, <1>4, <1>5 DEF Change

LEMMA DataStep == Shape /\ Data /\ [Next]_vars => Data'
<1> SUFFICES ASSUME Shape, Data, [Next]_vars PROVE Data'
  OBVIOUS
<1>1. ASSUME NEW op \in Ops, NEW u \in Users, NEW t \in Tasks, NEW c \in Comments \cup {NoComment},
             Submit(op, u, t, c)
      PROVE  Data'
  BY <1>1 DEF Submit, rows, Data
<1>2. ASSUME NEW r \in reqs, Serve(r) PROVE Data'
  BY <1>2, DataServe, DataDelete
<1>3. CASE Change BY <1>3, DataChange
<1>4. CASE UNCHANGED vars BY <1>4 DEF vars, rows, Data
<1> QED BY <1>1, <1>2, <1>3, <1>4 DEF Next

-----------------------------------------------------------------------------
(***************************************************************************)
(* The trail of the comments.  A deletion that found its comment stands    *)
(* beside every entry that was written for it since.                       *)
(***************************************************************************)
Beside(r) ==
  asked[r.n].op = "delete_comment" /\ "comment" \notin Left(r.todo) =>
    \A e \in EntriesOf(asked[r.n].comment) : r.n \in entries[e].beside

TrailInv == CommentTrail /\ \A r \in reqs : Beside(r)

LEMMA TrailInit == Init => TrailInv
<1> SUFFICES ASSUME Init PROVE TrailInv OBVIOUS
<1>1. NoComment \notin Comments BY DEF NoComment, WorkspaceAssumption
<1>2. \A e \in DOMAIN entries : entries[e].comment = NoComment BY DEF Init
<1>3. \A c \in Comments : EntriesOf(c) = {} BY <1>1, <1>2 DEF EntriesOf
<1>4. \A c \in Comments : comments[c] # "GONE" BY DEF Init
<1>5. reqs = {} BY DEF Init
<1> QED BY <1>3, <1>4, <1>5 DEF TrailInv, CommentTrail

\* A request that looks for its comment and goes on has found it.
LEMMA Looked ==
  ASSUME Shape, NEW r \in reqs, Serve(r), At(r, "comment"), NEW x, x.n = r.n, reqs' = (reqs \ {r}) \cup {x}
  PROVE  comments[asked[r.n].comment] = "there"
<1>1. get_comment(r) \/ Fail(r)
  BY DEF Serve, At, get_project, get_task, IsProjectThere, IsTeamMember,
     AssertProject, team_membership, Check, List, UpdateProject, CountOpen, CountOverdue, CountDone,
     ShowOverview, SelectBatch, SelectExpired, MoveBatch, PurgeBatch, FinishArchive,
     CreateProject, DeleteProject, CreateComment, DeleteComment, Write
<1>2. x \in reqs' /\ x.n = r.n OBVIOUS
<1>3. \A y \in reqs \ {r} : y.n # r.n BY DEF Shape
<1>4. reqs' # reqs \ {r} BY <1>2, <1>3
<1>5. get_comment(r) BY <1>1, <1>4 DEF Fail, Answer
<1> QED BY <1>4, <1>5 DEF get_comment, Check, Answer

\* Nothing is written and no comment comes back.
LEMMA TrailKeeps ==
  ASSUME Data, CommentTrail, Ages, UNCHANGED entries PROVE CommentTrail'
<1> SUFFICES ASSUME NEW c \in Comments
             PROVE  /\ comments'[c] = "GONE" => EntriesOf(c) # {} \/ task'[c.on] = "DELETED"
                    /\ EntriesOf(c) # {} => comments'[c] = "GONE"
  BY DEF CommentTrail, EntriesOf
<1>1. /\ comments[c] = "GONE" => EntriesOf(c) # {} \/ task[c.on] = "DELETED"
      /\ EntriesOf(c) # {} => comments[c] = "GONE"
  BY DEF CommentTrail
<1>2. c.on \in Tasks BY DEF WorkspaceAssumption
<1>3. \/ comments'[c] = comments[c]
      \/ comments[c] = "NEW" /\ comments'[c] = "there"
      \/ comments'[c] = "GONE" /\ task'[c.on] = "DELETED"
  BY DEF Ages
<1> QED BY <1>1, <1>2, <1>3 DEF Ages

LEMMA TrailStep == Shape /\ Data /\ TrailInv /\ [Next]_vars => TrailInv'
<1> SUFFICES ASSUME Shape, Data, TrailInv, [Next]_vars PROVE TrailInv'
  OBVIOUS
<1>1. ASSUME NEW op \in Ops, NEW u \in Users, NEW t \in Tasks, NEW c \in Comments \cup {NoComment},
             Submit(op, u, t, c)
      PROVE  TrailInv'
  <2>1. PICK x \in Request :
           /\ x.n = Len(asked) + 1 /\ x.todo = Path[op] /\ reqs' = reqs \cup {x}
           /\ asked'[Len(asked) + 1] = [op |-> op, user |-> u, on |-> t, comment |-> c]
           /\ \A i \in DOMAIN asked : asked'[i] = asked[i]
           /\ UNCHANGED <<rows, trail, figures>>
    BY <1>1, Submitted
  <2>2. op = "delete_comment" => "comment" \in Left(x.todo) BY <2>1, Paths DEF Ops, Path
  <2>3. Beside(x)' BY <2>1, <2>2 DEF Beside
  <2>4. UNCHANGED <<task, comments, entries>> BY <2>1 DEF rows, trail
  <2>5. ASSUME NEW r \in reqs PROVE Beside(r)'
    <3>1. asked'[r.n] = asked[r.n] BY <2>1 DEF Shape
    <3> QED BY <2>4, <3>1 DEF TrailInv, Beside, EntriesOf
  <2>6. CommentTrail' BY <2>4 DEF TrailInv, CommentTrail, EntriesOf
  <2> QED BY <2>1, <2>3, <2>5, <2>6 DEF TrailInv
<1>2. ASSUME NEW r \in reqs, Serve(r), ~ DeleteComment(r) PROVE TrailInv'
  <2>1. Ages BY <1>2, DataServe
  <2>2. Quiet(r) \/ SelectBatch(r) \/ SelectExpired(r) \/ MoveBatch(r) \/ PurgeBatch(r)
    BY <1>2, Kinds
  <2>3. UNCHANGED <<entries, asked>>
    BY <2>2 DEF Quiet, SelectBatch, SelectExpired, Batch, MoveBatch, PurgeBatch, trail, served
  <2>4. CommentTrail' BY <2>1, <2>3, TrailKeeps DEF TrailInv
  <2>5. \A y \in reqs : Beside(y)' BY <2>3 DEF TrailInv, Beside, EntriesOf
  <2>6. CASE Quiet(r)
    <3>1. CASE reqs' = reqs \ {r} BY <2>4, <2>5, <3>1 DEF TrailInv
    <3>2. ASSUME NEW x \in Request, Goes(r, x), reqs' = (reqs \ {r}) \cup {x}
          PROVE  Beside(x)'
      <4>1. x.n = r.n /\ Well(r.todo) BY <3>2 DEF Goes, Shape
      <4>2. CASE At(r, "comment")
        <5>1. comments[asked[r.n].comment] = "there" BY <1>2, <3>2, <4>1, <4>2, Looked
        <5> SUFFICES ASSUME asked[r.n].op = "delete_comment" PROVE Beside(x)'
          BY <2>3, <4>1 DEF Beside
        <5>2. asked[r.n].comment \in Comments BY DEF Shape, Asked
        <5>3. EntriesOf(asked[r.n].comment) = {}
          BY <5>1, <5>2 DEF TrailInv, CommentTrail
        <5> QED BY <2>3, <4>1, <5>3 DEF Beside, EntriesOf
      <4>3. CASE ~ At(r, "comment")
        <5>1. "comment" \notin Left(r.todo) BY <4>1, <4>3, WellHead DEF At
        <5> QED BY <2>3, <4>1, <5>1 DEF TrailInv, Beside, EntriesOf
      <4> QED BY <4>2, <4>3
    <3> QED BY <2>4, <2>5, <2>6, <3>1, <3>2 DEF TrailInv, Quiet
  <2>7. CASE ~ Quiet(r)
    <3>1. ~ At(r, "comment")
      BY <2>2, <2>7 DEF At, SelectBatch, SelectExpired, MoveBatch, PurgeBatch
    <3>2. "comment" \notin Left(r.todo) BY <3>1, WellHead DEF At, Shape
    <3>3. PICK x : x.n = r.n /\ reqs' = (reqs \ {r}) \cup {x}
      <4>1. CASE SelectBatch(r) \/ SelectExpired(r)
        <5>1. PICK s, b : reqs' = (reqs \ {r}) \cup {[r EXCEPT !.found.batch = b, !.todo = s]}
          BY <4>1 DEF SelectBatch, SelectExpired, Batch
        <5>2. [r EXCEPT !.found.batch = b, !.todo = s].n = r.n BY DEF Shape, Request
        <5> QED BY <5>1, <5>2
      <4>2. CASE MoveBatch(r) \/ PurgeBatch(r) BY <4>2, Worked
      <4> QED BY <2>2, <2>7, <4>1, <4>2
    <3>4. Beside(x)' BY <2>3, <3>2, <3>3 DEF TrailInv, Beside, EntriesOf
    <3> QED BY <2>4, <2>5, <3>3, <3>4 DEF TrailInv
  <2> QED BY <2>6, <2>7
<1>3. ASSUME NEW r \in reqs, DeleteComment(r) PROVE TrailInv'
  <2> DEFINE f == Len(entries) + 1
  <2>0. PICK k \in Comments : k = asked[r.n].comment BY <1>3, DataDelete
  <2>1. /\ UNCHANGED <<role, task, project>>
        /\ comments' = [comments EXCEPT ![k] = "GONE"]
        /\ asked[r.n].op = "delete_comment"
    BY <1>3, <2>0, DataDelete
  <2>2. /\ DOMAIN entries' = DOMAIN entries \cup {f} /\ f \notin DOMAIN entries
        /\ \A e \in DOMAIN entries : entries'[e] = entries[e]
        /\ entries'[f] = [comment |-> k, n |-> r.n, beside |-> {x.n : x \in reqs}]
        /\ reqs' = reqs \ {r} /\ UNCHANGED asked
    BY <1>3, <2>0, Written
  <2>3. At(r, "write") BY <1>3 DEF DeleteComment, Write
  <2>4. "comment" \notin Left(r.todo) BY <2>3, WellHead DEF At, Shape
  <2>5. DOMAIN entries = 1 .. Len(entries) /\ Len(entries) \in Nat BY DEF Shape
  <2>6. \A e \in DOMAIN entries : e < f BY <2>5
  <2> HIDE DEF f
  <2>7. EntriesOf(k)' = EntriesOf(k) \cup {f} BY <2>2 DEF EntriesOf
  <2>8. \A c \in Comments \ {k} : EntriesOf(c)' = EntriesOf(c) BY <2>2 DEF EntriesOf
  <2>9. \A e \in EntriesOf(k) : r.n \in entries[e].beside
    BY <2>0, <2>1, <2>4 DEF TrailInv, Beside
  <2>10. CommentTrail'
    <3> SUFFICES ASSUME NEW c \in Comments
                 PROVE  /\ comments'[c] = "GONE" => EntriesOf(c)' # {} \/ task'[c.on] = "DELETED"
                        /\ EntriesOf(c)' # {} => comments'[c] = "GONE"
                        /\ \A e, g \in EntriesOf(c)' : e < g => entries'[g].n \in entries'[e].beside
      BY DEF CommentTrail
    <3>1. CASE c # k
      <4>1. EntriesOf(c)' = EntriesOf(c) /\ comments'[c] = comments[c] /\ task' = task
        BY <2>1, <2>8, <3>1 DEF Data
      <4>2. \A e \in EntriesOf(c) : entries'[e] = entries[e] BY <2>2 DEF EntriesOf
      <4> QED BY <4>1, <4>2 DEF TrailInv, CommentTrail
    <3>2. CASE c = k
      <4>1. comments'[k] = "GONE" /\ EntriesOf(k)' # {} BY <2>1, <2>7 DEF Data
      <4>2. \A e \in EntriesOf(k) : e \in DOMAIN entries /\ entries'[e] = entries[e] /\ e < f
        BY <2>2, <2>6 DEF EntriesOf
      <4>3. \A e, g \in EntriesOf(k) : e < g => entries[g].n \in entries[e].beside
        BY <2>1 DEF TrailInv, CommentTrail
      <4>4. entries'[f].n = r.n BY <2>2
      <4>5. f \in Nat /\ EntriesOf(k) \subseteq Nat BY <2>5 DEF EntriesOf, f
      <4>6. ASSUME NEW e \in EntriesOf(k)', NEW g \in EntriesOf(k)', e < g
            PROVE  entries'[g].n \in entries'[e].beside
        <5>1. e \in EntriesOf(k) BY <2>7, <4>2, <4>5, <4>6
        <5>2. CASE g = f BY <2>9, <4>2, <4>4, <5>1, <5>2
        <5>3. CASE g \in EntriesOf(k) BY <4>2, <4>3, <4>6, <5>1, <5>3
        <5> QED BY <2>7, <5>2, <5>3
      <4> QED BY <3>2, <4>1, <4>6
    <3> QED BY <3>1, <3>2
  <2>11. ASSUME NEW y \in reqs' PROVE Beside(y)'
    <3>1. y \in reqs /\ asked'[y.n] = asked[y.n] BY <2>2
    <3> SUFFICES ASSUME asked[y.n].op = "delete_comment", "comment" \notin Left(y.todo),
                        NEW e \in EntriesOf(asked[y.n].comment)'
                 PROVE  y.n \in entries'[e].beside
      BY <3>1 DEF Beside
    <3>2. CASE e = f BY <2>2, <3>1, <3>2
    <3>3. CASE e # f
      <4>1. e \in DOMAIN entries /\ entries'[e] = entries[e] BY <2>2, <3>3 DEF EntriesOf
      <4>2. e \in EntriesOf(asked[y.n].comment) BY <2>2, <4>1 DEF EntriesOf
      <4> QED BY <3>1, <4>1, <4>2 DEF TrailInv, Beside
    <3> QED BY <3>2, <3>3
  <2> QED BY <2>10, <2>11 DEF TrailInv
<1>4. CASE Change
  <2>1. reqs' = reqs /\ asked' = asked /\ Ages /\ (UNCHANGED trail \/ \E e \in DOMAIN entries : Age(e))
    BY <1>4, ChangeKinds, DataChange
  <2>2. entries' = entries BY <2>1 DEF trail, Age
  <2>3. CommentTrail' BY <2>1, <2>2, TrailKeeps DEF TrailInv
  <2> QED BY <2>1, <2>2, <2>3 DEF TrailInv, Beside, EntriesOf
<1>5. CASE UNCHANGED vars
  BY <1>5 DEF vars, rows, trail, served, TrailInv, CommentTrail, Beside, EntriesOf
<1> QED BY <1>1, <1>2, <1>3, <1>4, <1>5 DEF Next

LEMMA DataAlways == Spec => []Data
<1> QED BY ShapeAlways, DataInit, DataStep, PTL DEF Spec

\* A comment that is gone has an entry, or went with its task; one with an entry
\* is gone; and a second entry is only of a deletion that was under way beside
\* the first, whatever is deleted around it (services/comment.py:87-130).
THEOREM CommentTrailCorrect == Spec => []CommentTrail
<1>1. Spec => []TrailInv BY ShapeAlways, DataAlways, TrailInit, TrailStep, PTL DEF Spec
<1>2. TrailInv => CommentTrail BY DEF TrailInv
<1> QED BY <1>1, <1>2, PTL

-----------------------------------------------------------------------------
(***************************************************************************)
(* What a request has seen.  While it is being served, `stood` holds how   *)
(* things stand for it; once it is answered, that is settled.              *)
(***************************************************************************)
Codes == {"ok", "403", "404", "500", "died"}

History ==
  /\ answers \in Seq(Codes \cup {"none"}) /\ Len(answers) = Len(asked)
  /\ DOMAIN stood = DOMAIN asked
  /\ \A r \in reqs : answers[r.n] = "none"
  /\ \A n \in DOMAIN asked : answers[n] = "none" => Standing(asked[n]) \in stood[n]

\* A step adds to what was seen, and to nothing that is settled.
Grows ==
  \A n \in DOMAIN asked :
    /\ n \in DOMAIN asked' /\ asked'[n] = asked[n] /\ stood[n] \subseteq stood'[n]
    /\ answers[n] # "none" => stood'[n] = stood[n] /\ answers'[n] = answers[n]
    /\ answers[n] = "none" => Standing(asked[n])' \in stood'[n]

\* A request goes on, or is answered.
Resumed(r) ==
  \E x \in Request :
    /\ x.n = r.n /\ reqs' = (reqs \ {r}) \cup {x} /\ Well(x.todo) /\ answers' = answers

Answered(r, status) == reqs' = reqs \ {r} /\ answers' = [answers EXCEPT ![r.n] = status]

LEMMA AnswerKinds ==
  ASSUME Shape, NEW r \in reqs, Serve(r)
  PROVE  /\ asked' = asked
         /\ Resumed(r) \/ \E status \in Codes : Answered(r, status)
<1>1. r \in Request /\ Well(r.todo) BY DEF Shape
<1>2. ASSUME NEW step \in Checks, NEW ok, NEW status \in Codes, Check(r, step, ok, status)
      PROVE  asked' = asked /\ (Resumed(r) \/ \E s \in Codes : Answered(r, s))
  <2>1. asked' = asked BY <1>2 DEF Check, served
  <2>2. CASE ok
    <3>1. Go(r, Tail(r.todo)) /\ Head(r.todo) \in Checks /\ answers' = answers
      BY <1>2, <2>2 DEF Check, At
    <3>2. \E x \in Request : Goes(r, x) /\ reqs' = (reqs \ {r}) \cup {x}
      BY <1>1, <3>1, GoGoes
    <3> QED BY <2>1, <3>1, <3>2 DEF Resumed, Goes
  <2>3. CASE ~ ok BY <1>2, <2>1, <2>3 DEF Check, Answer, Answered
  <2> QED BY <2>2, <2>3
<1>3. CASE \/ get_project(r) \/ get_comment(r) \/ get_task(r) \/ IsProjectThere(r)
           \/ AssertProject(r) \/ team_membership(r)
  BY <1>2, <1>3 DEF get_project, get_comment, get_task, IsProjectThere, AssertProject,
     team_membership, Checks, Codes
<1>4. CASE IsTeamMember(r)
  <2>1. asked' = asked /\ At(r, "member") BY <1>4 DEF IsTeamMember, served
  <2>2. \/ Answer(r, "404")
        \/ (Go(r, <<"write">>) \/ Go(r, Tail(r.todo))) /\ answers' = answers
    BY <1>4 DEF IsTeamMember
  <2>3. CASE Answer(r, "404") BY <2>1, <2>3 DEF Answer, Answered, Codes
  <2>4. CASE (Go(r, <<"write">>) \/ Go(r, Tail(r.todo))) /\ answers' = answers
    <3>1. \E x \in Request : Goes(r, x) /\ reqs' = (reqs \ {r}) \cup {x}
      BY <1>1, <2>1, <2>4, GoGoes DEF At, Checks
    <3> QED BY <2>1, <2>4, <3>1 DEF Resumed, Goes
  <2> QED BY <2>2, <2>3, <2>4
<1>5. CASE \/ CreateProject(r) \/ List(r) \/ UpdateProject(r) \/ DeleteProject(r) \/ CreateComment(r)
           \/ DeleteComment(r) \/ ShowOverview(r) \/ FinishArchive(r) \/ Fail(r)
  <2>1. asked' = asked
    BY <1>5 DEF CreateProject, List, UpdateProject, DeleteProject, CreateComment, DeleteComment,
       ShowOverview, FinishArchive, Fail, served
  <2>2. \E s \in Codes : Answer(r, s)
    BY <1>5 DEF CreateProject, List, UpdateProject, DeleteProject, CreateComment, DeleteComment,
       ShowOverview, FinishArchive, Fail, Codes
  <2> QED BY <2>1, <2>2 DEF Answer, Answered
<1>6. ASSUME NEW name \in {"open", "overdue", "done"}, NEW S \in SUBSET Tasks,
             At(r, name), Find(r, name, S), UNCHANGED <<rows, trail, served, answers>>
      PROVE  asked' = asked /\ Resumed(r)
  <2>1. Quiet(r) BY <1>6, FindQuiet
  <2>2. \E x \in Request : Goes(r, x) /\ reqs' = (reqs \ {r}) \cup {x}
    <3>1. [r EXCEPT !.found[name] = S, !.todo = Tail(r.todo)].n = r.n BY <1>1 DEF Request
    <3>2. \A y \in reqs \ {r} : y.n # r.n BY DEF Shape
    <3>3. reqs' # reqs \ {r} BY <1>6, <3>1, <3>2 DEF Find
    <3> QED BY <2>1, <3>3 DEF Quiet
  <2> QED BY <1>6, <2>2 DEF Resumed, Goes, served
<1>7. OpenMine \in SUBSET Tasks /\ DoneMine \in SUBSET Tasks BY DEF OpenMine, DoneMine, Shape
<1>8. CASE CountOpen(r) BY <1>6, <1>7, <1>8 DEF CountOpen
<1>9. CASE CountDone(r) BY <1>6, <1>7, <1>9 DEF CountDone
<1>10. CASE CountOverdue(r)
  <2>1. OpenMine \cap late \in SUBSET Tasks BY <1>7
  <2> QED BY <1>6, <1>10, <2>1 DEF CountOverdue
<1>11. CASE SelectBatch(r)
  <2>1. Batch(r, logs \cap r.found.cutoff, "move", <<"expired">>) BY <1>11 DEF SelectBatch
  <2> QED BY <2>1, Batched DEF Resumed, served, Ends
<1>12. CASE SelectExpired(r)
  <2>1. Batch(r, archive \cap r.found.final, "purge", <<"write">>) BY <1>12 DEF SelectExpired
  <2> QED BY <2>1, Batched DEF Resumed, served, Ends
<1>13. CASE MoveBatch(r) \/ PurgeBatch(r)
  <2>1. PICK x \in Request :
          /\ x.n = r.n /\ Well(x.todo) /\ reqs' = (reqs \ {r}) \cup {x}
          /\ UNCHANGED <<rows, old, expired, entries, served, answers>>
    BY <1>13, Worked
  <2> QED BY <2>1 DEF Resumed, served
<1> QED BY <1>3, <1>4, <1>5, <1>8, <1>9, <1>10, <1>11, <1>12, <1>13 DEF Serve

LEMMA HistoryInit == Init => History
<1> SUFFICES ASSUME Init PROVE History OBVIOUS
<1>1. answers = <<>> /\ asked = <<>> /\ stood = <<>> /\ reqs = {} BY DEF Init
<1> QED BY <1>1 DEF History

LEMMA HistoryStep == Shape /\ History /\ [Next]_vars => History' /\ Grows
<1> SUFFICES ASSUME Shape, History, [Next]_vars PROVE History' /\ Grows
  OBVIOUS
<1>1. /\ asked \in Seq(Asked) /\ DOMAIN asked = 1 .. Len(asked) /\ Len(asked) \in Nat
      /\ DOMAIN answers = DOMAIN asked
  BY DEF Shape, History
\* Once the requests and the answers are known to go on, the rest is Remember.
<1>2. ASSUME Remember, DOMAIN asked \subseteq DOMAIN asked',
             \A n \in DOMAIN asked : asked'[n] = asked[n]
                                     /\ (answers[n] # "none" => answers'[n] = answers[n]),
             answers' \in Seq(Codes \cup {"none"}), Len(answers') = Len(asked'),
             \A r \in reqs' : answers'[r.n] = "none"
      PROVE  History' /\ Grows
  <2>1. /\ DOMAIN stood' = DOMAIN asked'
        /\ \A n \in DOMAIN asked' :
             stood'[n] = IF n \in DOMAIN asked /\ answers[n] # "none" THEN stood[n]
                         ELSE (IF n \in DOMAIN asked THEN stood[n] ELSE {}) \cup {Standing(asked[n])'}
    BY <1>2 DEF Remember
  <2>2. ASSUME NEW n \in DOMAIN asked
        PROVE  /\ n \in DOMAIN asked' /\ asked'[n] = asked[n] /\ stood[n] \subseteq stood'[n]
               /\ answers[n] # "none" => stood'[n] = stood[n] /\ answers'[n] = answers[n]
               /\ answers[n] = "none" => Standing(asked[n])' \in stood'[n]
    BY <1>2, <2>1
  <2>3. \A n \in DOMAIN asked' : answers'[n] = "none" => Standing(asked[n])' \in stood'[n]
    BY <1>2, <2>1
  <2> QED BY <1>2, <2>1, <2>2, <2>3 DEF History, Grows
<1>3. ASSUME NEW op \in Ops, NEW u \in Users, NEW t \in Tasks, NEW c \in Comments \cup {NoComment},
             Submit(op, u, t, c), Remember
      PROVE  History' /\ Grows
  <2>1. PICK x \in Request :
           /\ x.n = Len(asked) + 1 /\ reqs' = reqs \cup {x}
           /\ asked' \in Seq(Asked) /\ Len(asked') = Len(asked) + 1
           /\ \A i \in DOMAIN asked : asked'[i] = asked[i]
           /\ answers' = Append(answers, "none")
    BY <1>3, Submitted
  <2>2. /\ answers' \in Seq(Codes \cup {"none"}) /\ Len(answers') = Len(asked')
        /\ \A n \in DOMAIN asked : answers'[n] = answers[n]
        /\ answers'[Len(asked) + 1] = "none"
    BY <1>1, <2>1 DEF History
  <2>3. \A r \in reqs' : answers'[r.n] = "none" BY <2>1, <2>2 DEF History, Shape
  <2>4. DOMAIN asked \subseteq DOMAIN asked' BY <1>1, <2>1
  <2> QED BY <1>2, <1>3, <2>1, <2>2, <2>3, <2>4
<1>4. ASSUME NEW r \in reqs, Serve(r), Remember PROVE History' /\ Grows
  <2>1. asked' = asked /\ (Resumed(r) \/ \E status \in Codes : Answered(r, status))
    BY <1>4, AnswerKinds
  <2>2. r.n \in DOMAIN asked /\ answers[r.n] = "none" BY DEF Shape, History
  <2>3. CASE Resumed(r)
    <3>1. PICK x \in Request : x.n = r.n /\ reqs' = (reqs \ {r}) \cup {x} /\ answers' = answers
      BY <2>3 DEF Resumed
    <3>2. \A y \in reqs' : answers'[y.n] = "none" BY <2>2, <3>1 DEF History
    <3> QED BY <1>2, <1>4, <2>1, <3>1, <3>2 DEF History
  <2>4. ASSUME NEW status \in Codes, Answered(r, status) PROVE History' /\ Grows
    <3>1. reqs' = reqs \ {r} /\ answers' = [answers EXCEPT ![r.n] = status] BY <2>4 DEF Answered
    <3>2. answers' \in Seq(Codes \cup {"none"}) /\ Len(answers') = Len(asked')
      BY <1>1, <2>1, <2>2, <3>1 DEF History
    <3>3. \A n \in DOMAIN asked : n # r.n => answers'[n] = answers[n] BY <1>1, <3>1
    <3>4. \A y \in reqs' : y.n \in DOMAIN asked /\ y.n # r.n BY <3>1 DEF Shape
    <3>5. \A y \in reqs' : answers'[y.n] = "none" BY <3>1, <3>3, <3>4 DEF History
    <3> QED BY <1>2, <1>4, <2>1, <2>2, <3>2, <3>3, <3>5
  <2> QED BY <2>1, <2>3, <2>4
<1>5. CASE Change /\ Remember
  <2>1. reqs' = reqs /\ asked' = asked /\ answers' = answers BY <1>5, ChangeKinds
  <2> QED BY <1>2, <1>5, <2>1 DEF History
<1>6. CASE UNCHANGED vars
  <2>1. /\ UNCHANGED <<asked, answers, stood, reqs>>
        /\ \A n \in DOMAIN asked : Standing(asked[n])' = Standing(asked[n])
    BY <1>6 DEF vars, rows, trail, served, Standing, IsThere, OpenMine, DoneMine
  <2> QED BY <2>1 DEF History, Grows
<1> QED BY <1>3, <1>4, <1>5, <1>6 DEF Next

-----------------------------------------------------------------------------
(***************************************************************************)
(* The answers.  A check that was passed is a moment that is remembered;   *)
(* what is left to check when a request is answered has not been seen yet. *)
(***************************************************************************)
Plain == Ops \ {"overview", "archive"}

\* The check that finds what the request is about.
Gate == [ create_project |-> "member", get_project |-> "project", update_project |-> "project",
          delete_project |-> "project", create_comment |-> "task", list_comments |-> "task",
          list_logs |-> "task", delete_comment |-> "comment" ]

\* The requests that want a manager.
Restricted(q) ==
  \/ q.op \in {"update_project", "delete_project"}
  \/ q.op = "delete_comment" /\ q.user # q.comment.author

\* With the steps todo left, S holds what was checked for q.
Seen(todo, q, S) ==
  /\ Left(todo) \subseteq Left(Path[q.op])
  /\ Gate[q.op] \notin Left(todo) => \E s \in S : s.there
  /\ "member" \notin Left(todo) => \E s \in S : s.role \in {"owner", "admin", "member"}
  /\ "role" \notin Left(todo) /\ Restricted(q) => \E s \in S : s.role \in {"owner", "admin"}

\* What Justified says of one answer.
Right(q, status, S) ==
  /\ status = "ok" => /\ \E s \in S : s.there
                      /\ \E s \in S : s.role \in Entitled(q)
  /\ status = "404" => \E s \in S : ~ s.there \/ s.role = "none"
  /\ status = "403" => \E s \in S : s.role \notin {"owner", "admin"}
  /\ status = "500" => \E s, x \in S : s.there /\ ~ x.there

JustInv ==
  /\ \A n \in DOMAIN asked : asked[n].op \in Plain => Right(asked[n], answers[n], stood[n])
  /\ \A r \in reqs : asked[r.n].op \in Plain => Seen(r.todo, asked[r.n], stood[r.n])

LEMMA Grown ==
  ASSUME NEW q, NEW S, NEW T, S \subseteq T
  PROVE  /\ \A status : Right(q, status, S) => Right(q, status, T)
         /\ \A todo : Seen(todo, q, S) => Seen(todo, q, T)
BY DEF Right, Seen

LEMMA EntitledIs ==
  ASSUME NEW q
  PROVE  Entitled(q) = IF Restricted(q) THEN {"owner", "admin"} ELSE {"owner", "admin", "member"}
BY DEF Entitled, Restricted

LEMMA StandingIs ==
  ASSUME NEW q PROVE Standing(q).there = IsThere(q) /\ Standing(q).role = role[q.user]
BY DEF Standing

LEMMA ThereIs ==
  ASSUME NEW q
  PROVE  /\ q.op = "create_project" => (IsThere(q) <=> role[Owner] # "none")
         /\ q.op \in {"get_project", "update_project", "delete_project"} =>
              (IsThere(q) <=> project = "there")
         /\ q.op \in {"create_comment", "list_comments", "list_logs"} =>
              (IsThere(q) <=> task[q.on] \in Rows!Statuses)
         /\ q.op = "delete_comment" => (IsThere(q) <=> comments[q.comment] = "there")
BY DEF IsThere

\* What a request is about is in a project that is there.
LEMMA ThereProject ==
  ASSUME Data, NEW q \in Asked, q.op \in Plain, q.op # "create_project", IsThere(q)
  PROVE  /\ project = "there"
         /\ q.op = "delete_comment" => task[q.on] \in Rows!Statuses
<1>1. q.op \in {"get_project", "update_project", "delete_project", "create_comment",
                "list_comments", "list_logs", "delete_comment"}
  BY DEF Plain, Ops, Path
<1>2. q.on \in Tasks /\ (q.op = "delete_comment" => q.comment \in Comments /\ q.on = q.comment.on)
  BY DEF Asked
<1> QED BY <1>1, <1>2, ThereIs DEF Data

\* A check is passed.
LEMMA Pass ==
  ASSUME NEW todo, NEW q, NEW S, Well(todo), Head(todo) \in Checks, Seen(todo, q, S),
         Standing(q) \in S,
         Head(todo) = Gate[q.op] => IsThere(q),
         Head(todo) = "member" => role[q.user] \in {"owner", "admin", "member"},
         Head(todo) = "role" => role[q.user] \in {"owner", "admin"}
  PROVE  Seen(Tail(todo), q, S)
<1>1. Left(Tail(todo)) \subseteq Left(todo) /\ Left(todo) \subseteq Left(Tail(todo)) \cup {Head(todo)}
  BY WellTail
<1>2. Left(Tail(todo)) \subseteq Left(Path[q.op]) BY <1>1 DEF Seen
<1>3. Gate[q.op] \notin Left(Tail(todo)) => \E s \in S : s.there
  BY <1>1, StandingIs DEF Seen
<1>4. "member" \notin Left(Tail(todo)) => \E s \in S : s.role \in {"owner", "admin", "member"}
  BY <1>1, StandingIs DEF Seen
<1>5. "role" \notin Left(Tail(todo)) /\ Restricted(q) => \E s \in S : s.role \in {"owner", "admin"}
  BY <1>1, StandingIs DEF Seen
<1> QED BY <1>2, <1>3, <1>4, <1>5 DEF Seen

\* What was asked for is missing, or the user is no member.
LEMMA Hidden ==
  ASSUME NEW q, NEW S, Standing(q) \in S, ~ IsThere(q) \/ role[q.user] = "none"
  PROVE  Right(q, "404", S)
BY StandingIs DEF Right

\* It was there, and is gone.
LEMMA WentAway ==
  ASSUME NEW q, NEW S, Standing(q) \in S, ~ IsThere(q), \E s \in S : s.there
  PROVE  Right(q, "500", S)
BY StandingIs DEF Right

\* Nothing is left to check but the write.
LEMMA Granted ==
  ASSUME NEW todo, NEW q \in Asked, NEW S, q.op \in Plain, Well(todo), Head(todo) = "write",
         Seen(todo, q, S)
  PROVE  Right(q, "ok", S) /\ \E s \in S : s.there
<1>1. Left(todo) = {"write"} BY WellEnd DEF Ends
<1>2. Gate[q.op] # "write" BY DEF Gate, Plain, Ops, Path
<1>3. \E s \in S : s.there BY <1>1, <1>2 DEF Seen
<1>4. \E s \in S : s.role \in Entitled(q)
  BY <1>1, EntitledIs DEF Seen
<1> QED BY <1>3, <1>4 DEF Right

\* What is done for a request leaves it with what it has seen, or with an answer
\* that is right.
Outcome(r, q, S) ==
  \/ \E s : Go(r, s) /\ answers' = answers /\ Seen(s, q, S)
  \/ \E status : Answer(r, status) /\ Right(q, status, S)

\* A check that is not the one that finds the row, the members or the role.
LEMMA OutcomeCheck ==
  ASSUME NEW r \in reqs, NEW q, NEW S, NEW step \in Checks, NEW ok, NEW status,
         Check(r, step, ok, status), Well(r.todo), Seen(r.todo, q, S), Standing(q) \in S,
         ok => /\ step = Gate[q.op] => IsThere(q)
               /\ step = "member" => role[q.user] \in {"owner", "admin", "member"}
               /\ step = "role" => role[q.user] \in {"owner", "admin"},
         ~ ok => Right(q, status, S)
  PROVE  Outcome(r, q, S)
<1>1. Head(r.todo) = step BY DEF Check, At
<1>2. CASE ok
  <2>1. Go(r, Tail(r.todo)) /\ answers' = answers BY <1>2 DEF Check
  <2>2. Seen(Tail(r.todo), q, S) BY <1>1, <1>2, Pass
  <2> QED BY <2>1, <2>2 DEF Outcome
<1>3. CASE ~ ok
  <2>1. Answer(r, status) BY <1>3 DEF Check
  <2> QED BY <1>3, <2>1 DEF Outcome
<1> QED BY <1>2, <1>3

LEMMA Outcomes ==
  ASSUME Shape, Data, NEW r \in reqs, NEW q \in Asked, q = asked[r.n], q.op \in Plain,
         NEW S, Seen(r.todo, q, S), Standing(q) \in S, Serve(r)
  PROVE  Outcome(r, q, S)
<1>1. Well(r.todo) /\ Head(r.todo) \in Left(r.todo) BY WellHead DEF Shape
<1>2. Head(r.todo) \in Left(Path[q.op]) BY <1>1 DEF Seen
<1>3. Head(r.todo) \in {"project", "visible", "member", "role", "task", "comment", "assert", "write"}
  BY <1>2, Paths DEF Plain, Ops, Path
<1>4. /\ q.op \in {"get_project", "update_project", "delete_project", "create_project",
                   "create_comment", "list_comments", "list_logs", "delete_comment"}
      /\ q.user \in Users /\ q.on \in Tasks
  BY DEF Plain, Ops, Path, Asked
<1>5. role[q.user] \in Team!Roles BY <1>4 DEF Data
<1>6. CASE get_project(r)
  <2>1. Check(r, "project", project = "there", "404") /\ At(r, "project")
    BY <1>6 DEF get_project, Check
  <2>2. q.op \in {"get_project", "update_project", "delete_project"}
    BY <1>2, <1>4, <2>1, Paths DEF At
  <2>3. project # "there" => Right(q, "404", S) BY <2>2, ThereIs, Hidden
  <2> QED BY <1>1, <2>1, <2>2, <2>3, ThereIs, OutcomeCheck DEF Checks
<1>7. CASE get_comment(r)
  <2>1. Check(r, "comment", comments[q.comment] = "there", "404") /\ At(r, "comment")
    BY <1>7 DEF get_comment, Check
  <2>2. q.op = "delete_comment" BY <1>2, <1>4, <2>1, Paths DEF At
  <2>3. comments[q.comment] # "there" => Right(q, "404", S) BY <2>2, ThereIs, Hidden
  <2> QED BY <1>1, <2>1, <2>2, <2>3, ThereIs, OutcomeCheck DEF Checks
<1>8. CASE get_task(r)
  <2>1. Check(r, "task", task[q.on] \in Rows!Statuses, "404") /\ At(r, "task")
    BY <1>8 DEF get_task, Check
  <2>2. q.op \in {"create_comment", "list_comments", "list_logs", "delete_comment"}
    BY <1>2, <1>4, <2>1, Paths DEF At
  <2>3. task[q.on] \notin Rows!Statuses => Right(q, "404", S)
    BY <2>2, ThereIs, ThereProject, Hidden
  <2>4. Gate[q.op] = "task" => (IsThere(q) <=> task[q.on] \in Rows!Statuses)
    BY <2>2, ThereIs DEF Gate
  <2> QED BY <1>1, <2>1, <2>3, <2>4, OutcomeCheck DEF Checks
<1>9. CASE IsProjectThere(r)
  <2>1. Check(r, "visible", project = "there", "404") /\ At(r, "visible")
    BY <1>9 DEF IsProjectThere, Check
  <2>2. q.op # "create_project" BY <1>2, <2>1, Paths DEF At
  <2>3. project # "there" => Right(q, "404", S) BY <2>2, ThereProject, Hidden
  <2>4. Gate[q.op] # "visible" BY <1>4 DEF Gate
  <2> QED BY <1>1, <2>1, <2>3, <2>4, OutcomeCheck DEF Checks
<1>10. CASE AssertProject(r)
  <2>1. Check(r, "assert", project = "there", "500") /\ At(r, "assert")
    BY <1>10 DEF AssertProject, Check
  <2>2. q.op = "delete_comment" BY <1>2, <1>4, <2>1, Paths DEF At
  <2>3. "comment" \notin Left(r.todo) BY <1>1, <2>1, WellHead DEF At
  <2>4. \E s \in S : s.there BY <2>2, <2>3 DEF Seen, Gate
  <2>5. project # "there" => Right(q, "500", S) BY <2>2, <2>4, ThereProject, WentAway
  <2>6. Gate[q.op] # "assert" BY <1>4 DEF Gate
  <2> QED BY <1>1, <2>1, <2>5, <2>6, OutcomeCheck DEF Checks
<1>11. CASE team_membership(r)
  <2>1. Check(r, "role", role[q.user] \in {"owner", "admin"}, "403")
    BY <1>11 DEF team_membership
  <2>2. role[q.user] \notin {"owner", "admin"} => Right(q, "403", S) BY StandingIs DEF Right
  <2>3. Gate[q.op] # "role" BY <1>4 DEF Gate
  <2> QED BY <1>1, <2>1, <2>2, <2>3, OutcomeCheck DEF Checks
<1>12. CASE IsTeamMember(r)
  <2>1. At(r, "member") BY <1>12 DEF IsTeamMember
  <2>2. CASE role[q.user] = "none"
    <3>1. Answer(r, "404") BY <1>12, <2>2 DEF IsTeamMember
    <3>2. Right(q, "404", S) BY <2>2, Hidden
    <3> QED BY <3>1, <3>2 DEF Outcome
  <2>3. CASE role[q.user] # "none"
    <3>1. role[q.user] \in {"owner", "admin", "member"} BY <1>5, <2>3 DEF Team!Roles
    <3>2. Gate[q.op] = "member" => IsThere(q)
      <4>1. role[Owner] # "none" BY <1>4, <2>3 DEF Data
      <4> QED BY <1>4, <4>1, ThereIs DEF Gate
    <3>3. Seen(Tail(r.todo), q, S) BY <1>1, <2>1, <3>1, <3>2, Pass DEF At, Checks
    <3> DEFINE author == q.op = "delete_comment" /\ q.user = q.comment.author
    <3>4. Go(r, IF author THEN <<"write">> ELSE Tail(r.todo)) /\ answers' = answers
      BY <1>12, <2>3 DEF IsTeamMember
    <3>5. CASE author
      <4>1. Left(<<"write">>) = {"write"} BY WellOne DEF Ends
      <4>2. Left(<<"write">>) \subseteq Left(Path[q.op]) BY <3>5, <4>1, Paths
      <4>3. \E s \in S : s.there
        <5>1. "comment" \notin Left(r.todo) BY <1>1, <2>1, WellHead DEF At
        <5> QED BY <3>5, <5>1 DEF Seen, Gate
      <4>4. \E s \in S : s.role \in {"owner", "admin", "member"} BY <3>1, StandingIs
      <4>5. ~ Restricted(q) BY <3>5 DEF Restricted
      <4>6. Seen(<<"write">>, q, S) BY <4>2, <4>3, <4>4, <4>5 DEF Seen
      <4> QED BY <3>4, <3>5, <4>6 DEF Outcome
    <3>6. CASE ~ author BY <3>3, <3>4, <3>6 DEF Outcome
    <3> QED BY <3>5, <3>6
  <2> QED BY <2>2, <2>3
<1>13. CASE At(r, "write") /\ Serve(r) /\ ~ Fail(r)
  <2>1. Right(q, "ok", S) /\ \E s \in S : s.there BY <1>1, <1>13, Granted DEF At
  <2>2. CASE Answer(r, "ok") BY <2>1, <2>2 DEF Outcome
  <2>3. CASE CreateProject(r)
    <3>1. q.op = "create_project" BY <2>3 DEF CreateProject, Write
    <3>2. CASE role[Owner] = "owner" BY <2>2, <2>3, <3>2 DEF CreateProject
    <3>3. CASE role[Owner] # "owner"
      <4>1. Answer(r, "500") BY <2>3, <3>3 DEF CreateProject
      <4>2. ~ IsThere(q) BY <3>1, <3>3, ThereIs DEF Data
      <4> QED BY <2>1, <4>1, <4>2, WentAway DEF Outcome
    <3> QED BY <3>2, <3>3
  <2>4. CASE UpdateProject(r)
    <3>1. q.op = "update_project" BY <2>4 DEF UpdateProject, Write
    <3>2. CASE project = "there" BY <2>2, <2>4, <3>2 DEF UpdateProject
    <3>3. CASE project # "there"
      <4>1. Answer(r, "500") BY <2>4, <3>3 DEF UpdateProject
      <4>2. ~ IsThere(q) BY <3>1, <3>3, ThereIs
      <4> QED BY <2>1, <4>1, <4>2, WentAway DEF Outcome
    <3> QED BY <3>2, <3>3
  <2>5. CASE CreateComment(r)
    <3>1. q.op = "create_comment" BY <2>5 DEF CreateComment, Write
    <3>2. CASE task[q.on] \in Rows!Statuses BY <2>2, <2>5, <3>2 DEF CreateComment
    <3>3. CASE task[q.on] \notin Rows!Statuses
      <4>1. Answer(r, "500") BY <2>5, <3>3 DEF CreateComment
      <4>2. ~ IsThere(q) BY <3>1, <3>3, ThereIs
      <4> QED BY <2>1, <4>1, <4>2, WentAway DEF Outcome
    <3> QED BY <3>2, <3>3
  <2>6. CASE List(r) \/ DeleteProject(r) \/ DeleteComment(r) \/ ShowOverview(r) \/ FinishArchive(r)
    BY <2>2, <2>6 DEF List, DeleteProject, DeleteComment, ShowOverview, FinishArchive
  <2> QED
    BY <1>13, <2>3, <2>4, <2>5, <2>6 DEF Serve, At, get_project, get_comment, get_task, IsProjectThere,
       IsTeamMember, AssertProject, team_membership, Check, CountOpen, CountOverdue, CountDone,
       SelectBatch, SelectExpired, MoveBatch, PurgeBatch
<1>14. CASE Fail(r)
  <2>1. Right(q, "died", S) BY DEF Right
  <2> QED BY <1>14, <2>1 DEF Fail, Outcome
<1>15. CASE ~ At(r, "write") /\ ~ Fail(r)
  BY <1>3, <1>6, <1>7, <1>8, <1>9, <1>10, <1>11, <1>12, <1>15
     DEF Serve, At, Write, CreateProject, List, UpdateProject, DeleteProject, CreateComment,
         DeleteComment, ShowOverview, FinishArchive, CountOpen, CountOverdue, CountDone,
         SelectBatch, SelectExpired, MoveBatch, PurgeBatch
<1> QED BY <1>13, <1>14, <1>15

LEMMA JustInit == Init => JustInv
<1>1. Init => asked = <<>> /\ reqs = {} BY DEF Init
<1> QED BY <1>1 DEF JustInv

LEMMA JustStep == Shape /\ Data /\ History /\ JustInv /\ [Next]_vars => JustInv'
<1> SUFFICES ASSUME Shape, Data, History, JustInv, [Next]_vars PROVE JustInv'
  OBVIOUS
<1>1. Grows BY HistoryStep
<1>2. \A r \in reqs : r.n \in DOMAIN asked /\ asked[r.n] \in Asked /\ answers[r.n] = "none"
  BY DEF Shape, History
\* Requests that are not served, and answers that have been given.
<1>3. ASSUME NEW r \in reqs, asked'[r.n].op \in Plain
      PROVE  Seen(r.todo, asked'[r.n], stood'[r.n])
  <2>1. asked'[r.n] = asked[r.n] /\ stood[r.n] \subseteq stood'[r.n] BY <1>1, <1>2 DEF Grows
  <2> QED BY <1>3, <2>1, Grown DEF JustInv
<1>4. ASSUME NEW n \in DOMAIN asked, asked'[n].op \in Plain, answers'[n] = answers[n]
      PROVE  Right(asked'[n], answers'[n], stood'[n])
  <2>1. asked'[n] = asked[n] /\ stood[n] \subseteq stood'[n] BY <1>1 DEF Grows
  <2> QED BY <1>4, <2>1, Grown DEF JustInv
<1>5. ASSUME NEW op \in Ops, NEW u \in Users, NEW t \in Tasks, NEW c \in Comments \cup {NoComment},
             Submit(op, u, t, c)
      PROVE  JustInv'
  <2>1. PICK x \in Request :
           /\ x.n = Len(asked) + 1 /\ x.todo = Path[op] /\ reqs' = reqs \cup {x}
           /\ asked' \in Seq(Asked) /\ Len(asked') = Len(asked) + 1
           /\ asked'[Len(asked) + 1] = [op |-> op, user |-> u, on |-> t, comment |-> c]
           /\ answers' = Append(answers, "none")
    BY <1>5, Submitted
  <2>2. DOMAIN asked = 1 .. Len(asked) /\ DOMAIN asked' = 1 .. Len(asked) + 1 /\ Len(asked) \in Nat
    BY <2>1 DEF Shape
  <2>3. \A n \in DOMAIN asked : answers'[n] = answers[n] BY <2>1, <2>2 DEF History
  <2>4. answers'[Len(asked) + 1] = "none" BY <2>1, <2>2 DEF History
  <2>5. ASSUME NEW n \in DOMAIN asked', asked'[n].op \in Plain
        PROVE  Right(asked'[n], answers'[n], stood'[n])
    <3>1. CASE n = Len(asked) + 1 BY <2>4, <3>1 DEF Right
    <3>2. CASE n \in DOMAIN asked BY <1>4, <2>3, <2>5, <3>2
    <3> QED BY <2>2, <3>1, <3>2
  <2>6. ASSUME asked'[x.n].op \in Plain PROVE Seen(x.todo, asked'[x.n], stood'[x.n])
    <3>1. asked'[x.n].op = op BY <2>1
    <3>2. Gate[op] \in Left(Path[op]) /\ "member" \in Left(Path[op])
      BY <2>6, <3>1, Paths DEF Plain, Gate, Ops, Path
    <3>3. Restricted(asked'[x.n]) => "role" \in Left(Path[op])
      BY <3>1, Paths DEF Restricted
    <3> QED BY <2>1, <3>1, <3>2, <3>3 DEF Seen
  <2> QED BY <1>3, <2>1, <2>5, <2>6 DEF JustInv
<1>6. ASSUME NEW r \in reqs, Serve(r) PROVE JustInv'
  <2>1. asked' = asked /\ (Resumed(r) \/ \E status \in Codes : Answered(r, status))
    BY <1>6, AnswerKinds
  <2> DEFINE q == asked[r.n]
             S == stood[r.n]
  <2>2. r.n \in DOMAIN asked /\ q \in Asked /\ Standing(q) \in S BY <1>2 DEF History
  <2>3. q.op \in Plain => Outcome(r, q, S) BY <1>6, <2>2, Outcomes DEF JustInv
  <2>4. S \subseteq stood'[r.n] BY <1>1, <2>2 DEF Grows
  <2>5. r \in Request /\ \A y \in reqs \ {r} : y.n # r.n BY DEF Shape
  <2>6. CASE Resumed(r)
    <3>1. PICK x \in Request : x.n = r.n /\ reqs' = (reqs \ {r}) \cup {x} /\ answers' = answers
      BY <2>6 DEF Resumed
    <3>2. ASSUME q.op \in Plain PROVE Seen(x.todo, q, stood'[r.n])
      <4>1. reqs' # reqs \ {r} BY <2>5, <3>1
      <4>2. PICK s : Go(r, s) /\ Seen(s, q, S) BY <2>3, <3>2, <4>1 DEF Outcome, Answer
      <4>3. [r EXCEPT !.todo = s].n = r.n /\ [r EXCEPT !.todo = s].todo = s BY <2>5 DEF Request
      <4>4. x.todo = s BY <2>5, <3>1, <4>2, <4>3 DEF Go
      <4> QED BY <2>4, <4>2, <4>4, Grown
    <3> QED BY <1>3, <1>4, <2>1, <3>1, <3>2 DEF JustInv
  <2>7. ASSUME NEW status \in Codes, Answered(r, status) PROVE JustInv'
    <3>1. reqs' = reqs \ {r} /\ answers' = [answers EXCEPT ![r.n] = status]
      BY <2>7 DEF Answered
    <3>2. DOMAIN answers = DOMAIN asked BY DEF History, Shape
    <3>3. answers'[r.n] = status /\ \A n \in DOMAIN asked \ {r.n} : answers'[n] = answers[n]
      BY <2>2, <3>1, <3>2
    <3>4. ASSUME q.op \in Plain PROVE Right(q, status, stood'[r.n])
      <4>1. ~ \E s : Go(r, s)
        <5> SUFFICES ASSUME NEW s, Go(r, s) PROVE FALSE OBVIOUS
        <5>1. [r EXCEPT !.todo = s].n = r.n BY <2>5 DEF Request
        <5> QED BY <2>5, <3>1, <5>1 DEF Go
      <4>2. PICK o : Answer(r, o) /\ Right(q, o, S) BY <2>3, <3>4, <4>1 DEF Outcome
      <4>3. o = status BY <2>2, <3>1, <3>2, <4>2 DEF Answer
      <4> QED BY <2>4, <4>2, <4>3, Grown
    <3>5. ASSUME NEW n \in DOMAIN asked', asked'[n].op \in Plain
          PROVE  Right(asked'[n], answers'[n], stood'[n])
      <4>1. CASE n = r.n BY <2>1, <3>3, <3>4, <3>5, <4>1
      <4>2. CASE n # r.n BY <1>4, <2>1, <3>3, <3>5, <4>2
      <4> QED BY <4>1, <4>2
    <3> QED BY <1>3, <3>1, <3>5 DEF JustInv
  <2> QED BY <2>1, <2>6, <2>7
<1>7. CASE Change
  <2>1. reqs' = reqs /\ asked' = asked /\ answers' = answers BY <1>7, ChangeKinds
  <2> QED BY <1>3, <1>4, <2>1 DEF JustInv
<1>8. CASE UNCHANGED vars
  <2>1. reqs' = reqs /\ asked' = asked /\ answers' = answers BY <1>8 DEF vars, served
  <2> QED BY <1>3, <1>4, <2>1 DEF JustInv
<1> QED BY <1>5, <1>6, <1>7, <1>8 DEF Next

LEMMA HistoryAlways == Spec => []History
<1> QED BY ShapeAlways, HistoryInit, HistoryStep, PTL DEF Spec

LEMMA JustImplies == Shape /\ History /\ JustInv => Justified
<1> SUFFICES ASSUME Shape, History, JustInv, NEW n \in DOMAIN answers,
                    asked[n].op \notin {"overview", "archive"}
             PROVE  Right(asked[n], answers[n], stood[n])
  BY DEF Justified, Right
<1>1. n \in DOMAIN asked /\ asked[n] \in Asked BY DEF Shape, History
<1>2. asked[n].op \in Plain BY <1>1 DEF Plain, Asked
<1> QED BY <1>1, <1>2 DEF JustInv

\* Every answer was right at a moment at which the request was being served:
\* what was granted was there and the user entitled to it, what was hidden was
\* missing or the user no member, and an error means that the row went away
\* (services/project.py:110-128, services/comment.py:87-130).
THEOREM JustifiedCorrect == Spec => []Justified
<1>1. Spec => []JustInv BY ShapeAlways, DataAlways, HistoryAlways, JustInit, JustStep, PTL DEF Spec
<1> QED BY <1>1, ShapeAlways, HistoryAlways, JustImplies, PTL

-----------------------------------------------------------------------------
(***************************************************************************)
(* The overview.  A task that is done stays done, so one that was not      *)
(* counted as open and is the viewer's all along is still there when what  *)
(* is done is counted.                                                     *)
(***************************************************************************)
AllAlong(t, S) == \A s \in S : t \in s.open \cup s.done

Uncounted == {<<"overdue", "done", "write">>, <<"done", "write">>}

Counted(r) ==
  LET S == stood[r.n] IN
  asked[r.n].op = "overview" =>
    /\ r.todo \in {OverviewPath, <<"write">>} \cup Uncounted
    /\ r.todo # OverviewPath => \A t \in Tasks : t \notin r.found.open => \E s \in S : t \notin s.open
    /\ r.todo \in Uncounted =>
         \A t \in Tasks : AllAlong(t, S) => t \in r.found.open \cup DoneMine
    /\ r.todo = <<"write">> =>
         \A t \in Tasks : AllAlong(t, S) => t \in r.found.open \cup r.found.done

OverInv ==
  /\ OverviewFits
  /\ \A f \in figures : f.n \in DOMAIN asked /\ answers[f.n] # "none"
  /\ \A r \in reqs : Counted(r)

LEMMA OverInit == Init => OverInv
<1>1. Init => figures = {} /\ reqs = {} BY DEF Init
<1> QED BY <1>1 DEF OverInv, OverviewFits

LEMMA DoneStays ==
  ASSUME Shape, Data, [Next]_vars
  PROVE  \A t \in Tasks : task[t] = "DONE" => task'[t] \in {"DONE", "DELETED"}
<1>1. ASSUME NEW op \in Ops, NEW u \in Users, NEW t \in Tasks, NEW c \in Comments \cup {NoComment},
             Submit(op, u, t, c)
      PROVE  task' = task
  BY <1>1 DEF Submit, rows
<1>2. ASSUME NEW r \in reqs, Serve(r) PROVE Ages \/ task' = task
  BY <1>2, DataServe, DataDelete
<1>3. CASE Change BY <1>3, DataChange DEF Ages
<1>4. CASE UNCHANGED vars BY <1>4 DEF vars, rows
<1> QED BY <1>1, <1>2, <1>3, <1>4 DEF Next, Ages

LEMMA OverviewStanding ==
  ASSUME NEW q, q.op = "overview"
  PROVE  Standing(q).open = OpenMine /\ Standing(q).done = DoneMine
BY DEF Standing

\* A request that is not served keeps what it counted.
LEMMA CountedStays ==
  ASSUME Shape, Data, History, [Next]_vars, NEW r \in reqs, Counted(r) PROVE Counted(r)'
<1>1. Grows /\ r.n \in DOMAIN asked /\ answers[r.n] = "none" BY HistoryStep DEF Shape, History
<1>2. /\ asked'[r.n] = asked[r.n] /\ stood[r.n] \subseteq stood'[r.n]
      /\ Standing(asked[r.n])' \in stood'[r.n]
  BY <1>1 DEF Grows
<1> SUFFICES ASSUME asked[r.n].op = "overview" PROVE Counted(r)'
  BY <1>2 DEF Counted
<1>3. Standing(asked[r.n])'.open = OpenMine' /\ Standing(asked[r.n])'.done = DoneMine'
  BY <1>2 DEF Standing
<1>4. \A t : AllAlong(t, stood'[r.n]) => AllAlong(t, stood[r.n]) /\ t \in OpenMine' \cup DoneMine'
  BY <1>2, <1>3 DEF AllAlong
<1>5. ASSUME NEW t \in DoneMine, t \in Tasks PROVE t \notin OpenMine'
  <2>1. task[t] = "DONE" BY DEF DoneMine
  <2>2. task'[t] \in {"DONE", "DELETED"} BY <1>5, <2>1, DoneStays
  <2> QED BY <2>2 DEF OpenMine, OPEN_STATUSES
<1>6. ASSUME r.todo \in Uncounted, NEW t \in Tasks, AllAlong(t, stood'[r.n])
      PROVE  t \in r.found.open \cup DoneMine'
  <2>1. t \in r.found.open \cup DoneMine BY <1>4, <1>6 DEF Counted
  <2> QED BY <1>4, <1>5, <1>6, <2>1
<1>7. r.todo = <<"write">> =>
         \A t \in Tasks : AllAlong(t, stood'[r.n]) => t \in r.found.open \cup r.found.done
  BY <1>4 DEF Counted
<1>8. r.todo # OverviewPath => \A t \in Tasks : t \notin r.found.open => \E s \in stood'[r.n] : t \notin s.open
  BY <1>2 DEF Counted
<1>9. r.todo \in {OverviewPath, <<"write">>} \cup Uncounted BY DEF Counted
<1> QED BY <1>2, <1>6, <1>7, <1>8, <1>9 DEF Counted

LEMMA PathIs ==
  /\ Head(OverviewPath) = "open" /\ Tail(OverviewPath) = <<"overdue", "done", "write">>
  /\ Head(<<"overdue", "done", "write">>) = "overdue"
  /\ Tail(<<"overdue", "done", "write">>) = <<"done", "write">>
  /\ Head(<<"done", "write">>) = "done" /\ Tail(<<"done", "write">>) = <<"write">>
  /\ Head(<<"write">>) = "write"
  /\ <<"write">> \notin Uncounted /\ OverviewPath \notin Uncounted /\ OverviewPath # <<"write">>
  /\ <<"overdue", "done", "write">> # <<"done", "write">>
<1>1. Head(OverviewPath) = "open" BY DEF OverviewPath
<1>2. Tail(OverviewPath) = <<"overdue", "done", "write">> BY DEF OverviewPath
<1>3. Tail(<<"overdue", "done", "write">>) = <<"done", "write">> OBVIOUS
<1>4. Tail(<<"done", "write">>) = <<"write">> OBVIOUS
<1>5. /\ Head(<<"overdue", "done", "write">>) = "overdue" /\ Head(<<"done", "write">>) = "done"
      /\ Head(<<"write">>) = "write"
  OBVIOUS
<1> QED BY <1>1, <1>2, <1>3, <1>4, <1>5 DEF Uncounted

\* A request for an overview counts, is answered or dies.
LEMMA OverviewSteps ==
  ASSUME Shape, NEW r \in reqs, Serve(r), asked[r.n].op = "overview", Counted(r)
  PROVE  /\ UNCHANGED rows
         /\ CountOpen(r) \/ CountOverdue(r) \/ CountDone(r) \/ ShowOverview(r) \/ Fail(r)
<1>1. Head(r.todo) \in {"open", "overdue", "done", "write"} BY PathIs DEF Counted, Uncounted
<1>2. CountOpen(r) \/ CountOverdue(r) \/ CountDone(r) \/ ShowOverview(r) \/ Fail(r)
  BY <1>1 DEF Serve, At, Write, get_project, get_comment, get_task, IsProjectThere, IsTeamMember,
     AssertProject, team_membership, Check, CreateProject, List, UpdateProject, DeleteProject,
     CreateComment, DeleteComment, FinishArchive, SelectBatch, SelectExpired, MoveBatch, PurgeBatch
<1>3. UNCHANGED rows BY <1>2 DEF CountOpen, CountOverdue, CountDone, ShowOverview, Fail
<1> QED BY <1>2, <1>3

\* What a count leaves behind.
LEMMA Counts ==
  ASSUME Shape, Data, History, [Next]_vars, NEW r \in reqs, Counted(r), Serve(r),
         asked[r.n].op = "overview", NEW x \in reqs', x.n = r.n
  PROVE  Counted(x)'
<1>1. Grows /\ r.n \in DOMAIN asked /\ answers[r.n] = "none" BY HistoryStep DEF Shape, History
<1> DEFINE S == stood[r.n]
           T == stood'[r.n]
<1>2. /\ asked'[r.n] = asked[r.n] /\ S \subseteq T /\ Standing(asked[r.n]) \in S
  BY <1>1 DEF Grows, History
<1>3. r \in Request /\ \A y \in reqs \ {r} : y.n # r.n BY DEF Shape
<1>4. UNCHANGED rows /\ (CountOpen(r) \/ CountOverdue(r) \/ CountDone(r) \/ ShowOverview(r) \/ Fail(r))
  BY OverviewSteps
<1>5. reqs' # reqs \ {r} BY <1>3
<1>6. DoneMine' = DoneMine BY <1>4 DEF rows, DoneMine
<1>7. ASSUME NEW name \in {"open", "overdue", "done"}, NEW V, Find(r, name, V)
      PROVE  x.todo = Tail(r.todo) /\ x.found = [r.found EXCEPT ![name] = V]
  <2>1. x = [r EXCEPT !.found[name] = V, !.todo = Tail(r.todo)]
    <3>1. [r EXCEPT !.found[name] = V, !.todo = Tail(r.todo)].n = r.n BY <1>3 DEF Request
    <3> QED BY <1>3, <1>7, <3>1 DEF Find
  <2> QED BY <1>3, <2>1 DEF Request
<1>8. \A t \in Tasks : AllAlong(t, T) => AllAlong(t, S) /\ t \in OpenMine \cup DoneMine
  BY <1>2, OverviewStanding DEF AllAlong
<1>9. r.found \in FoundSet BY <1>3 DEF Request
<1>10. CASE CountOpen(r)
  <2>1. Head(r.todo) = "open" /\ Find(r, "open", OpenMine) BY <1>10 DEF CountOpen, At
  <2>2. r.todo = OverviewPath BY <2>1, PathIs DEF Counted, Uncounted
  <2>3. x.todo = <<"overdue", "done", "write">> /\ x.found.open = OpenMine
    <3>1. x.todo = Tail(r.todo) /\ x.found = [r.found EXCEPT !["open"] = OpenMine] BY <1>7, <2>1
    <3>2. x.found.open = OpenMine BY <1>9, <3>1 DEF FoundSet
    <3> QED BY <2>2, <3>1, <3>2, PathIs
  <2>4. \A t \in Tasks : t \notin x.found.open => \E s \in T : t \notin s.open
    BY <1>2, <2>3, OverviewStanding
  <2>5. \A t \in Tasks : AllAlong(t, T) => t \in x.found.open \cup DoneMine'
    BY <1>6, <1>8, <2>3
  <2> QED BY <1>2, <2>3, <2>4, <2>5, PathIs DEF Counted, Uncounted
<1>11. CASE CountOverdue(r)
  <2>1. Head(r.todo) = "overdue" /\ Find(r, "overdue", OpenMine \cap late)
    BY <1>11 DEF CountOverdue, At
  <2>2. r.todo = <<"overdue", "done", "write">> BY <2>1, PathIs DEF Counted, Uncounted
  <2>3. x.todo = <<"done", "write">> /\ x.found.open = r.found.open
    BY <1>7, <1>9, <2>1, <2>2, PathIs DEF FoundSet
  <2>4. \A t \in Tasks : t \notin x.found.open => \E s \in T : t \notin s.open
    BY <1>2, <2>2, <2>3, PathIs DEF Counted, Uncounted
  <2>5. \A t \in Tasks : AllAlong(t, T) => t \in x.found.open \cup DoneMine'
    BY <1>6, <1>8, <2>2, <2>3 DEF Counted, Uncounted
  <2> QED BY <1>2, <2>3, <2>4, <2>5, PathIs DEF Counted, Uncounted
<1>12. CASE CountDone(r)
  <2>1. Head(r.todo) = "done" /\ Find(r, "done", DoneMine) BY <1>12 DEF CountDone, At
  <2>2. r.todo = <<"done", "write">> BY <2>1, PathIs DEF Counted, Uncounted
  <2>3. x.todo = <<"write">> /\ x.found.open = r.found.open /\ x.found.done = DoneMine
    <3>1. x.todo = Tail(r.todo) /\ x.found = [r.found EXCEPT !["done"] = DoneMine] BY <1>7, <2>1
    <3>2. x.found.done = DoneMine /\ x.found.open = r.found.open BY <1>9, <3>1 DEF FoundSet
    <3> QED BY <2>2, <3>1, <3>2, PathIs
  <2>4. \A t \in Tasks : t \notin x.found.open => \E s \in T : t \notin s.open
    BY <1>2, <2>2, <2>3, PathIs DEF Counted, Uncounted
  <2>5. \A t \in Tasks : AllAlong(t, T) => t \in x.found.open \cup x.found.done
    BY <1>8, <2>2, <2>3 DEF Counted, Uncounted
  <2> QED BY <1>2, <2>3, <2>4, <2>5, PathIs DEF Counted, Uncounted
<1>13. CASE ShowOverview(r) \/ Fail(r)
  BY <1>5, <1>13 DEF ShowOverview, Fail, Answer
<1> QED BY <1>4, <1>10, <1>11, <1>12, <1>13

LEMMA OverStep == Shape /\ Data /\ History /\ OverInv /\ [Next]_vars => OverInv'
<1> SUFFICES ASSUME Shape, Data, History, OverInv, [Next]_vars PROVE OverInv'
  OBVIOUS
<1>1. Grows BY HistoryStep
<1>2. \A f \in figures : /\ f.n \in DOMAIN asked' /\ answers'[f.n] = answers[f.n]
                         /\ stood'[f.n] = stood[f.n]
  BY <1>1 DEF OverInv, Grows
<1>3. \A r \in reqs : Counted(r)' BY CountedStays DEF OverInv
<1>4. ASSUME figures' = figures, \A r \in reqs' : Counted(r)' PROVE OverInv'
  BY <1>2, <1>4 DEF OverInv, OverviewFits
<1>5. ASSUME NEW op \in Ops, NEW u \in Users, NEW t \in Tasks, NEW c \in Comments \cup {NoComment},
             Submit(op, u, t, c)
      PROVE  OverInv'
  <2>1. PICK x \in Request :
           /\ x.n = Len(asked) + 1 /\ x.todo = Path[op] /\ reqs' = reqs \cup {x}
           /\ asked'[Len(asked) + 1] = [op |-> op, user |-> u, on |-> t, comment |-> c]
           /\ UNCHANGED <<rows, trail, figures>>
    BY <1>5, Submitted
  <2>2. op = "overview" => x.todo = OverviewPath BY <2>1 DEF Path
  <2>3. Counted(x)' BY <2>1, <2>2, PathIs DEF Counted
  <2> QED BY <1>3, <1>4, <2>1, <2>3
<1>6. ASSUME NEW r \in reqs, Serve(r) PROVE OverInv'
  <2>1. asked' = asked /\ (Resumed(r) \/ \E status \in Codes : Answered(r, status))
    BY <1>6, AnswerKinds
  <2>2. r.n \in DOMAIN asked /\ \A y \in reqs \ {r} : y.n # r.n BY DEF Shape
  <2>3. reqs' \ reqs \subseteq {x \in reqs' : x.n = r.n} BY <2>1 DEF Resumed, Answered
  <2>4. \A x \in reqs' : Counted(x)'
    <3>1. ASSUME NEW x \in reqs', x.n = r.n PROVE Counted(x)'
      <4>1. CASE asked[r.n].op = "overview" BY <1>6, <3>1, <4>1, Counts DEF OverInv
      <4>2. CASE asked[r.n].op # "overview" BY <2>1, <3>1, <4>2 DEF Counted
      <4> QED BY <4>1, <4>2
    <3> QED BY <1>3, <2>3, <3>1
  <2>5. CASE ~ ShowOverview(r)
    <3>1. figures' = figures
      BY <1>6, <2>5 DEF Serve, get_project, get_comment, get_task, IsProjectThere, IsTeamMember,
         AssertProject, team_membership, Check, CreateProject, List, UpdateProject, DeleteProject,
         CreateComment, DeleteComment, FinishArchive, SelectBatch, SelectExpired, Batch, MoveBatch,
         PurgeBatch, CountOpen, CountOverdue, CountDone, Fail, served
    <3> QED BY <1>4, <2>4, <3>1
  <2>6. CASE ShowOverview(r)
    <3> DEFINE f == [n |-> r.n, found |-> r.found]
    <3>1. /\ At(r, "write") /\ asked[r.n].op = "overview"
          /\ figures' = figures \cup {f}
          /\ answers' = [answers EXCEPT ![r.n] = "ok"]
      BY <2>6 DEF ShowOverview, Write, Answer
    <3>2. Counted(r) BY DEF OverInv
    <3>3. r.todo = <<"write">> BY <3>1, <3>2, PathIs DEF Counted, Uncounted, At
    <3>4. stood[r.n] \subseteq stood'[r.n] BY <1>1, <2>2 DEF Grows
    <3>5. ASSUME NEW t \in Tasks
          PROVE  /\ AllAlong(t, stood'[r.n]) => t \in f.found.open \cup f.found.done
                 /\ t \in f.found.overdue \ f.found.open => \E s \in stood'[r.n] : t \notin s.open
      <4>1. AllAlong(t, stood'[r.n]) => AllAlong(t, stood[r.n]) BY <3>4 DEF AllAlong
      <4>2. AllAlong(t, stood[r.n]) => t \in r.found.open \cup r.found.done
        BY <3>1, <3>2, <3>3 DEF Counted
      <4>3. t \notin r.found.open => \E s \in stood[r.n] : t \notin s.open
        BY <3>1, <3>2, <3>3, PathIs DEF Counted
      <4> QED BY <3>4, <4>1, <4>2, <4>3
    <3>6. DOMAIN answers = DOMAIN asked BY DEF History, Shape
    <3>7. answers'[r.n] = "ok" BY <2>2, <3>1, <3>6
    <3>8. f.n = r.n OBVIOUS
    <3>9. \A g \in figures' : g.n \in DOMAIN asked' /\ answers'[g.n] # "none"
      BY <1>2, <2>1, <2>2, <3>1, <3>7, <3>8 DEF OverInv
    <3>10. OverviewFits'
      <4>1. ASSUME NEW g \in figures, NEW t \in Tasks
            PROVE  /\ AllAlong(t, stood'[g.n]) => t \in g.found.open \cup g.found.done
                   /\ t \in g.found.overdue \ g.found.open => \E s \in stood'[g.n] : t \notin s.open
        BY <1>2, <4>1 DEF OverInv, OverviewFits, AllAlong
      <4> HIDE DEF f
      <4>2. ASSUME NEW g \in figures', NEW t \in Tasks
            PROVE  /\ AllAlong(t, stood'[g.n]) => t \in g.found.open \cup g.found.done
                   /\ t \in g.found.overdue \ g.found.open => \E s \in stood'[g.n] : t \notin s.open
        BY <3>1, <3>5, <3>8, <4>1
      <4> QED BY <4>2 DEF OverviewFits, AllAlong
    <3> QED BY <2>4, <3>9, <3>10 DEF OverInv
  <2> QED BY <2>5, <2>6
<1>7. CASE Change
  <2>1. reqs' = reqs /\ figures' = figures BY <1>7, ChangeKinds
  <2> QED BY <1>3, <1>4, <2>1
<1>8. CASE UNCHANGED vars
  <2>1. reqs' = reqs /\ figures' = figures BY <1>8 DEF vars, served
  <2> QED BY <1>3, <1>4, <2>1
<1> QED BY <1>5, <1>6, <1>7, <1>8 DEF Next

\* A task that is the viewer's and open or done all along is in one of the
\* figures, and one that is overdue but not open came in between: the order of
\* the three statements loses no task (services/overview.py:155-177).
THEOREM OverviewFitsCorrect == Spec => []OverviewFits
<1>1. Spec => []OverInv
  BY ShapeAlways, DataAlways, HistoryAlways, OverInit, OverStep, PTL DEF Spec
<1>2. OverInv => OverviewFits BY DEF OverInv
<1> QED BY <1>1, <1>2, PTL
=============================================================================
