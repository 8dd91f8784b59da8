# TaskFlow: specifications, model checking and proofs

TaskFlow is a collaboration back end (FastAPI on PostgreSQL, Redis and Celery) with a
Vue front end. This directory holds TLA+ modules translated from its source, the TLC
configurations that check them on small instances, and proofs of their main properties
for all values of the constants. Paths below are relative to the repository; `app/` is
the back end, `frontend/src/` the client.

The unit tests of the repository run one request at a time against one session. Nearly
everything that can go wrong here happens *between* statements: two requests of which
each acted on what it read before the other committed, a process that dies after one of
two writes, a message delivered twice, a cleanup that lists files while others write
them, two tabs that refresh one token. That is what the modules describe.

## 1. Inventory

### How a request runs

Every request gets a session of its own (`app/db/session.py:25-42`), at PostgreSQL's
default READ COMMITTED, with `autoflush=False`. The services first read (does the row
exist, may the caller see it, which role has the caller), then write, and commit once at
the end. No statement of the services takes a lock (`FOR UPDATE` occurs nowhere), and no
`UPDATE` or `DELETE` mentions the value it was decided on. So

* each `SELECT` is a step of its own and sees what is committed at that moment;
* the flush, the audit row and the `COMMIT` form one step: the row lock of the flush is
  held until the commit, and nobody sees anything in between;
* between those steps any other request may commit.

All modules that have requests (`TaskFlow`, `Teams`, `AuthTokens`, `Workspace`, `Access`)
are built like this: a request is a record in the set `reqs` (or `calls`) with what it has
left to do, each step an action, each failing check the end of the request, and `Fail`
its end at any point.

### Components

| Component | State | Operations | Hard | What makes it correct | Modelled |
|---|---|---|---|---|---|
| Tasks (`services/task.py`, `state_machine.py`) | `tasks.status`, `task_assignees`, `operation_logs` | create, update, transition, assign, unassign, delete; dispatch after commit | check-then-write on the status; two assignments; deletion under way | the state machine is kept, the audit trail tells the truth, no assignee of a deleted task, no notification without cause | `TaskFlow` |
| Refresh tokens (`services/auth.py`) | `refresh_tokens` | login, refresh (rotation), logout, expiry | two refreshes with one token; logout beside a refresh | a token is good for one exchange, a session that ended stays ended | `AuthTokens` |
| Teams (`services/team.py`) | `teams`, `team_members` | create, invite, remove, delete | roles and rows read before the write | one owner, one role per user, no removal above one's rank | `Teams`, but for `update_team` |
| Attachments (`services/attachment.py`, `storage.py`) | a row and a file | upload, download, delete, cascade | two stores without a common transaction; crashes; a directory that goes meanwhile | a listed attachment has its file, no file leaks | `Attachments` |
| Orphan cleanup (`tasks/maintenance_tasks.py`) | none | read rows, list files, delete | acts on two snapshots of different age | deletes no file in use, reclaims all others in the end | `Attachments` |
| Notification delivery (`tasks/notification_tasks.py`, `celery_app.py`) | broker, Redis mark, `notifications` | dispatch, execute, retry, redeliver | at-least-once delivery, two stores, killed workers | lost only by a failed dispatch, used-up retries or a time limit; duplicates only for documented faults | `Notify` |
| Rate limiter (`services/rate_limit.py`) | a ZSET per key in Redis | one Lua script | window edges, expiry of the key, rounding | never more than the limit in a window, honest Retry-After | `RateLimit` |
| Gateway (`core/middleware.py`, `client_ip.py`, `main.py`) | context variables, gauge, counters, log | four layers in, route, four layers out; readiness | contexts that are copied, exceptions that cross layers, a Redis that answers late | log, metrics and response agree, each sender pays for itself, everyone is answered | `Gateway`, but for cancellation |
| Audit log and archive (`operation_log.py`, `maintenance_tasks.py:88-230`) | `operation_logs`, `operation_logs_archive` | write with the change, move a batch, purge | overlapping and killed runs | no entry lost, kept twice or purged early | `Workspace` |
| Projects, comments (`services/project.py`, `comment.py`) | their tables | create, read, update, delete with cascade | cascade into work under way; double deletion | answers that were right when they were made, one audit entry per deletion | `Workspace` |
| Overview (`services/overview.py`) | none | counts, one statement each | each from a snapshot of its own | counts that fit one another | `Workspace`, three of the counts |
| Users and roles (`services/user.py`, `rbac.py`, `core/deps.py`) | `user_roles`, `roles` | register, replace roles, check a permission, list | overlapping replacements; two admins | a replacement that was granted holds, an admin remains | `Access` |
| Tenants (`services/tenant.py`) | `tenants` | create, change status, update | two transactions in one creation; check-then-write | legal transitions, no tenant without roles | `Access` |
| Tenant scope (`core/tenant_context.py`) | a ContextVar and a setting per transaction | what is seen, filled in, admitted | no user known yet; two scopes in one request | no row of another tenant | `Access`, but for `bypass_tenant_scope` |
| Client session (`frontend/src/utils/request.ts`, `stores/auth.ts`) | tokens in local storage, shared by tabs | refresh once for many 401s, replay, logout | two tabs, timeouts, replay errors | the stored token stays good unless an answer was lost, no session alive after a calm logout, no request waits for ever | `ClientSession` |
| Notification inbox (`services/notification.py`, `stores/notification.ts`) | `notifications.is_read` | list, mark read | see section 8 | — | no |
| Views, configuration, wiring, password hashing and JWT, migrations, documentation checks | — | — | — | presentation, wiring or library code | no |

How they interact: a task, project or comment request reads team membership
(`crud/project.py:35-55`); a task request dispatches notifications after its commit;
deleting a project, a team or a task cascades to what is below, while the files stay for
the cleanup; a client trades its refresh token for a new pair whenever an access token is
refused; every endpoint asks for the roles of its user first, in the scope of the user's
tenant; the middleware asks the limiter before anything else runs.

## 2. Modules

| Module | Role |
|---|---|
| `TaskStatus` | the statuses and the table `TRANSITIONS` of `state_machine.py` |
| `TaskLifecycle` | abstract: what may ever happen to the status of a task |
| `Membership` | abstract: what may ever happen to the members of a team |
| `RefreshSession` | abstract: what a login is promised about its refresh tokens |
| `TaskFlow` | the task service; runs over `Membership`, implements `TaskLifecycle` |
| `Teams` | the team service; implements `Membership` |
| `AuthTokens` | the server side of refresh tokens; implements `RefreshSession` |
| `ClientSession` | the tabs of a browser, over `AuthTokens` |
| `Attachments` | upload, download, deletion, cascade and the cleanup task |
| `Notify` | the life of one notification from dispatch to row |
| `RateLimit` | the sliding window |
| `Gateway`, `MCGateway` | the middleware around a request, over `RateLimit` |
| `Workspace`, `MCWorkspace` | projects, comments, audit log with archive, overview; over `Membership` and `TaskLifecycle` |
| `Access`, `MCAccess` | tenants, roles, registration and permission checks |
| `*_proofs` | the theorems about each; those about `ClientSession` are in `AuthTokens_proofs`, those about `Gateway` in `RateLimit_proofs`, since each composition rests on the theorems about what it is composed with |

The compositions: `Teams` shows that the statements of the team service, however they
overlap, do to the members only what `Membership` allows, and `TaskFlow` and `Workspace`
let their members change by the steps of `Membership`; `TaskFlow` shows in the same way
that a status moves as `TaskLifecycle` says, up to transitions that cross, and the rows of
tasks in `Workspace` change by its steps, without asking which transitions are legal.
`ClientSession` extends `AuthTokens` and takes the steps of the server from it, as
`Gateway` extends `RateLimit`: each script it sends is an `Admit` or a `Refuse` there. So
both implement what they extend, which is proved (`ClientImplements`,
`GatewayImplements`), and what is proved of the part holds of the whole.

### TaskFlow

`task[t]` is the status column, `"NEW"` before the row is there and `"DELETED"` after it
has gone. A request walks through `read` (`_get_task_on_chain`), `member`
(`is_project_visible`, and `validate_transition` on the status it has read, `seen`),
`target`, `assigned` and `manager` (the further checks of assign, unassign and delete),
`write` (one action per operation) and `notify`. A `PATCH` writes the columns it was
given, never the status, because the ORM emits only changed columns: `UpdateTask` leaves
`task` alone, and the mutant that writes back the whole row shows what would happen
otherwise. An assignment needs its primary key and its foreign key, which is where two
requests that both saw "not assigned" part. `logs` keeps the transitions, the only
entries properties speak of; `committed` is a history of the requests that committed,
`crossed` one of the tasks of which two transitions had both read the status before
either wrote it. What the state machine promises is stated up to that moment, so that
nothing is assumed about how requests overlap. Dispatch hands any subset of the
notifications to the broker, since it is best effort.

### Teams

Rows of `team_members` have an id, as in the code: `remove_member` deletes the very row
it read (`db.delete(member)`), so a user who was removed and invited again in between is
not hit. The caller's role is read once and used later. Deleting the team takes its
members along, and the foreign key refuses an invitation that comes after.

### AuthTokens and ClientSession

`tokens` are the rows in order of insertion, with the session they descend from as
history; `Live` is "has a row that is not revoked". `shared` remembers the tokens that
two calls presented at the same time. Rotation is one step with its commit, but the look
at the row lies two steps before it.

In `ClientSession` JavaScript between two awaits is one step of its tab. `store` is
localStorage, the only thing tabs share; `refreshing[t]` is the single flight of a tab
(`request.ts:147-158`). A request that gets 401 joins or starts the refresh of its tab,
is sent once more with the new token, and whatever then goes wrong clears the session
(`:198-226`). A logout is such a request too. `Error` is the timeout of 15 seconds or any
other failure, possible at every moment; `lost` remembers the tokens whose exchange or
logout was carried out without the client hearing of it; `quiet` marks a logout over
which nothing else touched the session.

### Attachments

Time is the age of each file since its last write, in ticks. The file comes first, the
row second; a deletion removes the file first, the row second; a run of the cleanup reads
all rows, later lists the files, then deletes one by one what had no row and is at least
`MinAge` old. Each of these may be cut short by the death of its process. `dir` is the
directory of the task: `save` makes it in a step before it opens the file, and the last
deletion in it may take it away in between, which ends the upload with an error and leaks
nothing. A COMMIT that took effect and whose answer was lost puts its key into `doubted`.

### Notify

A message is an element of `Messages` as long as the broker keeps it; a retry is a new
message with one try more, published before the present one is acknowledged; a worker's
death returns its message to the queue. A *slip* is a fault for which the code accepts a
duplicate: a crash between `COMMIT` and mark, Redis not answering, a retry published and
the publisher killed before the acknowledgement, an error after the commit.

### RateLimit and Gateway

One action for each outcome of the script, on the clock of Redis. A member of the ZSET is
named by its place in the history `admitted`; `expires` is the `PEXPIRE` of the key, after
which the whole set is gone.

In `Gateway` a request passes `RequestId -> MetricsError -> RequestLogging -> RateLimit`
up to its first await in one step (`Arrive`), waits for its script (`limit`), is routed,
and passes the layers outward one by one: `LogAccess`, `Count`, `Answer`. The inner layers
run in a task with a copy of the context, so the user that `RequestLogging` sets is known
to its own record and to what is inside, and to nothing outside of it; `r.user` is that
variable. A script that was sent may run after the request gave up waiting (`FailOpen`),
or never. The identity charged is computed by `rate_limit_identity` from token, peer and
forwarding header as in `client_ip.py`; each arrival also names its true client, which
the code does not see, and the property `Charged` compares the two (`Sender`).
`ArrivalsAssumption` says which arrivals there are: a client connects by itself, or a
trusted proxy does it for him and puts the one address it sees into the header
(`nginx/nginx.conf:141-150`).

### Workspace

`Path` lists the statements of each operation in the order of the code; a request drops
the first one as it goes. `stood` is a history of how things stood at each moment of a
request, which is what `Justified` and `OverviewFits` compare its answer with.
`CreateComment` and `UpdateProject` answer 500 where a foreign key or a vanished row makes
the flush fail, `AssertProject` where the assertion of `comment.py:98` does. A DELETE that
matches no row is only warned about by the ORM, so a second deletion of one comment writes
a second entry. A run of the archive keeps its cutoffs for its life, moves batch by batch
in a transaction each, and several runs may be under way. `Change` is what other services
do meanwhile: members, task rows, assignments, due dates, ages of entries, the deletion of
the team with everything in it.

### Access

A request is `user`, `permit` and then the steps of its operation. `scope` is the tenant
the context variable holds: none while the user is looked up, the tenant of the user
afterwards, the default tenant for a registration, the new tenant while its roles are
seeded. `Sees`, `Injected` and `Admits` are what the scope does to a SELECT, to a new row
and by row level security. A creation of a tenant commits before its roles are seeded, and
may die in between. A replacement of roles revokes and grants against the roles it has
read; the UNIQUE of `user_roles` may refuse it. `crossed` records which requests were
being served together.

## 3. Runs

| Run | Shows | Size |
|---|---|---|
| `task` | with requests overlapping freely: the trail matches the data, notifications have a cause, nobody is assigned twice, deleted tasks keep no assignee; until two transitions of a task cross, the status implements `TaskLifecycle` and the trail is one connected history | 4.1 M states |
| `task_sealed` | violation: of two overlapping transitions the later one leaves a terminal state | — |
| `tokens` | stale tokens are refused; a session none of whose tokens was presented twice at once has one good token and implements `RefreshSession`; one that is over stays over, even if its tokens come back several at once | 1.6 M |
| `tokens_single` | violation: one token exchanged twice | — |
| `teams` | hierarchy, implements `Membership` | 2.1 M |
| `rate_limit` | no window above the limit; Retry-After neither short nor a second long | 331 k |
| `gateway` | one story in log, metrics and answer; each sender is charged for its own requests; everyone is answered though Redis may never answer | 310 k |
| `attachments` | a listed attachment has its file, nothing leaks, every orphan is reclaimed | 415 k |
| `notify` | copies bounded by slips; no crash loses a notification; stored in the end, unless the dispatch failed, the retries were used up or a time limit hit | 11 k |
| `session` | a tab presents no token twice, the stored token is good unless an answer was lost, a calm logout ends the login, no request waits for ever | 1.5 M |
| `workspace` | answers that were right while they were made, a complete trail of deleted comments, an archive that loses nothing, figures that fit | 988 k |
| `access` | tenants apart, an administrator remains, replacements hold, the life of a tenant | 2.6 M |

Every property of a passing run has a mutant: an operator next to the definition it
mutates, marked `Mutant:`, that changes it the way a plausible bug would, and that makes
TLC find the property violated.

### Bounds, and why they are enough

* `TaskFlow`: two users, one task, four requests of which two are under way at once. Tasks
  share nothing but the project, so one is representative; the races are between two
  requests, and a third and a fourth prepare the state (create, move on) and look at the
  result. Two users are needed for roles that differ and for "not to oneself". In
  `task_sealed` three requests do: one creates the task, the other two cross.
* `Teams`: three users (owner, admin, member), five requests, two at once: invite an
  admin, invite a member, remove, invite again, with a removal acting on the old row.
* `AuthTokens`: three calls are a race of two and a third that arrives late, and four
  tokens let each of them be an exchange of one session, or make two sessions. One user:
  sessions of different users share nothing but the numbering of tokens, and that somebody
  else's token is refused at logout changes nothing that a property speaks of.
  The theorems hold for any set of users.
* `ClientSession`: two tabs; two calls are a refresh in each tab, or a refresh and a
  logout; four requests are the two of a login and two more, or those of a reload; one
  refresh token may run out. The third token shows what follows an answer that was lost,
  and two refreshes that were both served. What takes three calls, the refresh a tab no
  longer waits for, the one it starts after it was loaded again, and the logout, is beyond
  this run and within the theorem (see `LogoutEnds` in section 6).
* `RateLimit`: limit 3, window 6, one second of 3 ticks and a clock to 11: bursts at both
  edges, an expired key, and remainders 0, 1 and 2 for the rounding.
* `Gateway`: two requests out of four kinds, limit 1: the second is refused if it comes
  from the same sender, in time, by another way. Counter, gauge and log speak of two.
* `Attachments`: two attachments (the directory goes with the other one), one worker, and
  the smallest times for which the assumption on times below is strict. Two workers were
  run as well and behave alike, since a run shares nothing with another but the files.
* `Notify`: retries + slips + 1 messages are the most that can exist at once.
* `Workspace`: two requests or archive runs at once, two comments of different authors on
  one task, two entries in the log, batches of one so that a run has several, one change
  from outside (two changes pass too, with 4.3 M states).
* `Access`: three tenants (the default one, another one, one still to be created), four
  users, each kind of request made by somebody who may and by somebody who may not, three
  requests, two at once.

`MaxRequests`, `MaxInFlight`, `MaxTokens`, `MaxCalls`, `MaxExpired`, `MaxTime`, `MaxSlips`,
`MaxChanges` and `Earlier` are the only bounds; each stands in a guard or in `Init` under
its name, and the theorems hold for every value. `Teams`, `Notify`, `ClientSession`,
`Gateway`, `Workspace` and `Access` stop when their requests or messages are used up and
served; their configurations say `CHECK_DEADLOCK FALSE`. The others never stop, and TLC
checks that they do not.

### Fairness

* `Attachments!Fairness`: time passes; beat starts run after run
  (`celery_app.py:60-89`), hence `WF` on the beginning of a run; runs are killed or
  fail now and then, but not all of them and not always at the same file, hence `SF` on
  the listing and on each deletion. Nothing is assumed of requests.
* `Notify!Fairness`: workers keep taking messages (`WF`), and not every execution of the
  task dies before it reaches the database or its retry (`SF`), which is what late
  acknowledgement counts on. Nothing is assumed of marks, acknowledgements or Redis.
* `Gateway!Fairness`: the event loop goes on with each request (`WF`), the timeout of the
  limiter (`middleware.py:154-160`) included. Nothing is assumed of Redis: scripts may
  never run.
* `ClientSession!Fairness`: axios gives up after 15 seconds (`request.ts:134-140`), so a
  request and a refresh come to an end, if only in that way (`WF` on the two timeouts).
  Nothing is assumed of the server or of the network.

## 4. Proofs

| Theorem | Statement |
|---|---|
| `TaskFlow_proofs!TypeCorrect` | `Spec => [](TypeOK /\ ReadOK)` |
| `AuditTrailCorrect`, `NoGhostAssigneeCorrect`, `NoticeBackedCorrect` | `Spec => []AuditTrail` and so on |
| `AssignedOnceCorrect` | `Spec => []AssignedOnce` |
| `AuditChainCorrect` | `Spec => []AuditChain` |
| `LifecycleImplemented` | `Spec => LifecycleSpec` |
| `LegalEntriesCorrect`, `SealedUncrossed` | `Spec => []LegalEntries`; nothing leaves a terminal state, except in a task in `crossed` |
| `Teams_proofs!TypeCorrect`, `HierarchyCorrect` | `Spec => []TypeOK`, `Spec => [](OneRolePerUser /\ HierarchyKept)` |
| `MembershipImplemented` | `Spec => MembershipSpec` |
| `AuthTokens_proofs!TypeCorrect`, `StaleRejectedCorrect`, `OneGoodTokenCorrect` | `Spec => []TypeOK`, `[]StaleRejected`, `[]OneGoodToken` |
| `SessionImplemented` | `Spec => SessionSpec` |
| `SpentOnceCorrect`, `LogoutFinalCorrect` | `Spec => []SpentOnce`, `[]LogoutFinal` |
| `DeadForGoodCorrect` | `Spec => DeadForGood`: a session that is over stays so |
| `ClientImplements`, `ServerBehindClient` | `ClientSpec => Spec`, and so the guarantees of the server under the client |
| `FrugalRefreshCorrect`, `StoredGoodCorrect`, `LogoutEndsCorrect` | `ClientSpec => []FrugalRefresh` and so on |
| `Attachments_proofs!TypeCorrect`, `StoreCorrect`, `NoLeakCorrect` | `Spec => []TypeOK`, `[]FileBehindRow`, `[]NoLeak` |
| `Notify_proofs!TypeCorrect`, `CopiesCorrect`, `NotLostCorrect` | `Spec => []TypeOK`, `[]OneCopyPerSlip`, `[]NotLost` |
| `RateLimit_proofs!SlidingLimitCorrect`, `RetryAfterCorrect` | `Spec => [](TypeOK /\ SlidingLimit)`, `[]RetryAfterHonest` |
| `RetryAfterBoundedCorrect` | `Spec => []RetryAfterBounded` |
| `Identity` | `rate_limit_identity(a) = Sender(a)` for all arrivals |
| `GatewayImplements`, `GatewayWindow` | `GatewaySpec => Spec`, and so `GatewaySpec => [](SlidingLimit /\ RetryAfterHonest)` |
| `OneStoryCorrect`, `CountsAgreeCorrect`, `ChargedCorrect` | `GatewaySpec => []OneStory` and so on |
| `RefusedOwnCorrect` | `GatewaySpec => []RefusedOwn` |
| `Workspace_proofs!LogKeptCorrect`, `CommentTrailCorrect`, `JustifiedCorrect`, `OverviewFitsCorrect` | `Spec => []LogKept` and so on |
| `Access_proofs!TenantsApartCorrect`, `AdminRemainsCorrect`, `ReplacedCorrect` | `Spec => []TenantsApart` and so on |
| `TenantLifeCorrect` | `Spec => TenantLife` |

The assumptions are those named in the modules; most give the constants their types. Two
have substance:

* `TimesAssumption`, `UploadTime + ScanTime < MinAge`: an upload writes again or commits
  within `UploadTime`, a cleanup lists the files at most `ScanTime` after it read the rows,
  and together they are shorter than the age limit (an hour by default). The code has no
  such check; without it the cleanup may delete the file of an attachment.
* `ArrivalsAssumption` (with `AddressAssumption`: `::ffff:a` is a spelling of `a` and not
  an address of its own). What comes from a trusted peer comes through Nginx, which
  overwrites the header (`nginx/nginx.conf:141-150`), or has no such header.
  `client_ip.py:14-24` rests on the same; who connects by himself may send any header,
  which is not believed. A connection without a peer address (`"unknown"`) is no arrival.

None of the invariants is inductive alone. What carries the proofs:

* *TaskFlow.* `ReadOK`: a request past its first read has seen the status of a row that
  exists or existed. `NoticeInv`: a request about to notify has committed. `OrderInv`:
  unless the task is in `crossed`, the status a transition has read is still the status,
  and the move it checked is still legal; the chain of the trail, the seal of the terminal
  states and the refinement rest on it. That an entry shows a legal move (`LegalEntries`)
  needs no such condition: the request still holds the status it checked. `Numbered` and
  `OnceInv`: requests have numbers of their own, and the assignments of a user to a task
  are as many as the unassignments, plus one if the row is there.
* *Teams.* `Checked`: what a request at its write step has established about its own
  role and the row it will delete. Rows never change, so the role of the row read is the
  role of the row deleted, which is why the hierarchy survives overtaking. `OwnerRow`:
  the owner's row stays as long as the team.
* *AuthTokens.* `LateInv`: a call that came too late finds its token revoked or past its
  time, now and later. `SessionInv`: two calls with one token are in `shared`; past the lookup, a token
  that is not in `shared` is still good; sessions carry the name of their first token.
  `SpentInv`: what a committed call has spent is revoked, so that a second call with that
  token was there already. `Dead`: a session without a good token and without a refresh
  past the lookup; every action keeps it so, and a committed logout makes it so
  (`LogoutDead`).
* *ClientSession* (`ClientInv`, on top of the invariants of `AuthTokens`). `Numbers`,
  `Flight`: a number belongs to one presentation and to one answer, which was carried out,
  and a tab that waits for a refresh has started it for a request that waits too. `Owned`:
  every call is somebody's, or its answer is lost. `Fresh`, `Unused`, `Twice`: a pair on
  its way to its tab is known to nobody yet, and the token in the store was not presented
  before, unless the answer is due or lost. `Ids`, `Counting`: refreshes and requests not
  yet tried again are together no more than the requests sent. `Quiet`: a quiet logout
  shows the access token of the pair it gives up, which no refresh has touched.
  `LogoutDead`, `EndedDead`: in a session whose tokens were never presented twice at once,
  a logout that was carried out is the end.
* *Attachments.* `Uploads`, `Removals`, `Scans`: a file chosen for deletion was too old,
  when listed, to belong to an upload that was still under way when the rows were read.
* *Notify.* `CopiesOwed`, a potential: the copies stored and the messages that may still
  store one are together at most one more than the slips.
* *RateLimit.* `Times`, `Held`, `Sized`: the set holds exactly the recent requests, even
  across the expiry of the key.
* *Gateway* (`GatewayInv`). `Numbering`: a number belongs to one request, waiting or
  answered. `Stories`: the records of each request at each layer; it needs to know what
  `user_id_var` holds on the way (`Story`). `Sent`: a script is on its way for a request
  that waits for it or for one that was passed on without it, and a request with a verdict
  has no script left. `Charges`: those in a window are the judged and at most the `Spent`,
  the requests passed on unjudged whose script has come or was lost since. `Charged` alone
  is not inductive, since it does not say that an unjudged request has only one script.
  `RefusedInv`, on top of `GatewayInv`: a request that waits with a refusal, or carries
  429, was refused by the window of its own sender; `Sent` says that the verdict comes
  from its own script.
* *Workspace.* A batch in hand has been in one of the two tables and has not been purged;
  a request past a check has a moment in `stood` at which that check held, and moments
  are never forgotten; what a figure counted is what some moment would have counted.
* *Access.* `Well`: what a request has left is in order, so that a step which is no longer
  there has been passed. `Known`: what a passed step established and nothing undoes, since
  roles are only added, no user changes tenant and no tenant is removed. `Read`,
  `Permitted`, `Fresh`: what can be undone (the status, the role of the caller, the roles
  of the target) holds still, or a request that undid it was served together with this
  one; any two requests in `reqs` are in `crossed`.

Every invariant and every action property of the passing runs is the statement of a
theorem. Only model-checked are the liveness properties (`OrphansReclaimed`, `Stored`,
`Answered`, `Settles`), which are out of the prover's reach. Properties of functions
defined by recursion over data would need induction over data, which is out of reach as
well; no module has any.

## 5. Findings

1. `services/task.py:317` validates a transition against a status read earlier and then
   writes by id. Two overlapping transitions that both read `TODO` (`TODO -> CANCELLED` and
   `TODO -> IN_PROGRESS`) both commit, and the task leaves `CANCELLED` for `IN_PROGRESS`, which `state_machine.py:10` calls
   completely sealed (run `task_sealed`). `UPDATE ... WHERE status = :old` or
   `FOR UPDATE` would do; `LifecycleImplemented` and `SealedUncrossed` say what
   holds as long as no two cross, `LegalEntriesCorrect` what holds even then.
2. `services/auth.py:197` looks at `revoked` long before `:204` sets it, so a refresh
   token presented twice at once is exchanged twice (run `tokens_single`), although
   `docs/API_CONTRACT.md:121` counts on the second use being refused. A conditional
   `UPDATE ... WHERE revoked = false` with a look at the row count would do.
   `SpentOnceCorrect` says that this overlap is the only way to spend a token twice.

## 6. What the properties except

Behaviour that a reader of the docs may not expect, and that a property therefore names
as its exception:

* *Attachments* (`doubted`). `services/attachment.py:353` deletes the file after any error
  of the transaction, including a COMMIT that took effect and whose answer was lost: the
  phantom attachment that the module's own docstring (`:29-30`) wants to exclude.
* *Notify* (slips). `docker-compose.prod.yml:171-172` calls a killed notification task
  free of repeated side effects; the docstring of the task (`notification_tasks.py:27-33`)
  accepts one duplicate, and so does the code.
* *NotLost*, *Stored* (`losses`). A dispatch that fails is logged and not repeated
  (`services/task.py:70-91`). The task gives up when its retries are used up. And the time
  limit (`celery_app.py:127-130`) raises `SoftTimeLimitExceeded`, which is
  not in `autoretry_for` (`notification_tasks.py:150-157`), or kills the process: the
  message is acknowledged although nothing was stored and retries were left. The
  docstring (`:24-33`) speaks of transient faults of the database and of Redis only, for
  which it promises retries and no loss.
* *LogoutEnds* (`quiet`). A logout whose access token has expired is replayed after a
  refresh with the body it had, so it revokes the old refresh token and the new one stays
  good. A refresh in another tab that ends after the logout puts its pair back into the
  store. The third way (`Orderly`): a tab starts a refresh, is loaded again and starts
  another with the same token while the first is still with the server. Both are served
  (finding 2), the client knows one of the two pairs, and the logout revokes that one only. The proof of
  `LogoutEndsCorrect` brought this to light; the run with its two calls does not reach it.
* *StoredGood* (`lost`). The comment at `request.ts:210` speaks of a refresh that failed,
  but the `try` around it holds the replay too, and any error of the replay clears a
  session that has just been renewed. The property speaks of a token that is stored and
  says nothing once the store is cleared, be it for this reason or because a second tab,
  refused with the token the first one has exchanged, clears the session of both.
* *CommentTrail*. Two deletions of one comment that overlap write two entries.
* *Justified*. The assertion at `comment.py:98` ("the project must exist") fails, with
  500, when the project is deleted meanwhile. `get_project` may answer 200 although there
  was no moment at which both the project was there and the caller a member. After a team
  is dissolved a manager may get 403 for a project that is gone.
* *OverviewFits*. `overdue` may hold a task that `assigned_open` does not, since each has
  a snapshot of its own.
* *TenantLife*. A status change that has read an earlier status can take a tenant out of
  `deleted` (`services/tenant.py:69-82`), and an update change a deleted one.
* *Replaced*, *AdminRemains*. Two replacements of one user's roles may leave neither of
  the two sets, none at all, or answer 500; two administrators may take the role from one
  another and leave none.
* *TenantsApart*. Two creations that race for a slug answer 500 and not the 409 that
  `crud/tenant.py:3-4` announces; one that dies before the seeding leaves a tenant without
  roles whose slug is taken.
* *OneStory*. The comment at `middleware.py:338-343` says that a 500 has no request id in
  its header; as `MetricsError` answers inside of `RequestId`, it has one.

## 7. Abstractions

* Names, texts, payloads and all columns no property speaks of are left out.
* A request under way is one record; its SELECTs are steps, its write and COMMIT one.
  The mutual exclusion that PostgreSQL gives to writers of one row is in that one step.
* Tokens are opaque; signature, audience and expiry of the JWT itself are not modelled,
  expiry of the row is (`Expire`), and that of an access token in `ClientSession`.
* Deletion of a project or a team above a task is a step of `Workspace` and not of
  `TaskFlow`; `Membership!Dissolve` is not taken there.
* Celery, Redis and the broker are modelled by what the code uses of them: late
  acknowledgement, redelivery on worker loss, `SET NX`, `EXISTS`, ZSET commands.
* A failure of Redis in the limiter lets the request through unjudged
  (`core/middleware.py:165-168`); `SlidingLimit` is a claim about judged requests, and
  `Charged` says what the unjudged ones add.
* In `Gateway`, logging and rate limiting are switched on, 200 stands for every status a
  handler may give, and a script is sent once, although the Redis client may send it
  again when the answer is lost.
* In `Notify`, the publication of a retry is taken to succeed.
* In `ClientSession`, a sign-in that succeeds is one step, from the COMMIT of the server to
  the tokens in the store; `SignInFail` is a refusal, or the one whose answer is lost. In
  the second case the server has a row more than the model, whose token nobody holds:
  nothing can be done with it, and its session is a session of `AuthTokens`.
* In `Access`, permissions are those the modelled endpoints ask for; users of tenants
  other than the default one exist from the start, as no endpoint creates them;
  all accounts are enabled (no endpoint switches `is_active`; `AuthTokens` does); the
  SELECTs of a list are one step, and the 404 of `GET /users/{id}/roles` is left out.

## 8. Not modelled

* *Notification inbox.* `mark_read` and `mark_all_read` are single idempotent updates. The
  client's store keeps what it loaded last: a preview under way when the store is reset
  can bring back the items of the user before (`stores/notification.ts:35-62`), and
  `markAllRead` marks items that were loaded meanwhile; both are undone by the next load
  and decide nothing.
* *`update_team`*, the lists that read one statement, and the counts of teams, projects
  and unread notifications in the overview: no check and no write depends on them.
* *`bypass_tenant_scope`* has no caller. (It changes the context variable and not the
  setting of a transaction that is already running, which would matter to one.)
* *Cancellation of requests* when the server shuts down; the `/metrics` page; log layout.
* *Views, configuration, wiring, password hashing, JWT, migrations, deployment,
  `scripts/check_docs.py`*: presentation, constants, library code, code that runs once, or
  a static check of Markdown files.
