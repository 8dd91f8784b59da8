------------------------------- MODULE Access -------------------------------
(***************************************************************************)
(* Who may do what: tenants (app/services/tenant.py), the roles seeded in  *)
(* each (rbac_seed.py), registration (auth.py), the replacement of a       *)
(* user's roles (user.py) and the checks before every endpoint             *)
(* (core/deps.py), within the scope of a tenant (core/tenant_context.py).  *)
(*                                                                         *)
(* Every SELECT is a step at READ COMMITTED, and the writes of a           *)
(* transaction are one step with its COMMIT.  A tenant is known by its     *)
(* slug and a user by a name that is free in no other tenant.  Users of    *)
(* other tenants have no endpoint that creates them: the operators insert  *)
(* them.                                                                   *)
(***************************************************************************)
EXTENDS Naturals, Sequences, FiniteSets

CONSTANTS
  Default, Slugs,    \* the default tenant, and those there are or may be
  Users, Home,       \* the users there may be, and the tenant of each at the start, or none
  Admins,            \* which of them are administrators of their tenant
  Requests,          \* bound: what may be asked, records with op, user, on and to
  MaxRequests,       \* bound: requests in one behaviour
  MaxInFlight        \* bound: requests being served at the same time

ASSUME AccessAssumption ==
  /\ Default \in Slugs /\ "none" \notin Slugs
  /\ Home \in [Users -> Slugs \cup {"none"}]
  /\ Admins \subseteq {u \in Users : Home[u] # "none"}
  /\ \A q \in Requests :
       \/ q.op = "register" /\ q.user \in Users /\ q.on = q.user
       \/ q.op \in {"create", "update", "status"} /\ q.user \in Users /\ q.on \in Slugs
       \/ q.op = "replace" /\ q.user \in Users /\ q.on \in Users
       \/ q.op \in {"users", "matrix"} /\ q.user \in Users
  /\ MaxRequests \in Nat /\ MaxInFlight \in Nat

VARIABLES
  status,            \* tenants.status, or none
  limits,            \* the name and the quotas of a tenant: set at the start, or changed
  roles,             \* rows of roles: tenant, name
  home,              \* users.tenant_id, or none
  grants,            \* rows of user_roles: tenant, user, role
  asked,             \* the requests so far
  reqs,              \* those being served: what is left to do, their scope, what was read
  answers,           \* for each request: none yet, or its status
  shown,             \* what was shown to whom: user, tenant of the row
  crossed            \* history: pairs of requests that were being served together

vars == <<status, limits, roles, home, grants, asked, reqs, answers, shown, crossed>>
data == <<status, limits, roles, home, grants>>

Names == {"admin", "member"}
Statuses == {"active", "suspended", "deleted"}

ALLOWED_TENANT_TRANSITIONS ==
  [ active    |-> {"suspended", "deleted"},
    suspended |-> {"active", "deleted"},
    deleted   |-> {} ]

\* What a role may do, as far as the endpoints here ask for it: the default
\* tenant alone has tenant:manage, from its migration.
ROLE_PERMISSIONS(role) ==
  {"user:read"} \cup (IF role.name = "admin" THEN {"user:update"} ELSE {})
    \cup (IF role = [tenant |-> Default, name |-> "admin"] THEN {"tenant:manage"} ELSE {})

Required ==
  [ create |-> "tenant:manage", status |-> "tenant:manage", update |-> "tenant:manage",
    replace |-> "user:update", users |-> "user:read", matrix |-> "user:update" ]

\* The steps of a request after its user is known, in the order of the code.
Path ==
  [ register |-> <<"free", "insert">>,
    create   |-> <<"user", "permit", "slug", "insert", "seed">>,
    status   |-> <<"user", "permit", "tenant", "commit">>,
    update   |-> <<"user", "permit", "tenant", "commit">>,
    replace  |-> <<"user", "permit", "target", "current", "commit">>,
    users    |-> <<"user", "permit", "show">>,
    matrix   |-> <<"user", "permit", "show">> ]

Ops == DOMAIN Path

-----------------------------------------------------------------------------
\* The tenant a request works for, none before its user is known.  A SELECT
\* sees the rows of that tenant, a row gets it, and row level security refuses
\* a row of another one.
Sees(scope, rows) == {x \in rows : scope = "none" \/ x.tenant = scope}
Injected(scope) == IF scope = "none" THEN Default ELSE scope
Admits(scope, tenant) == scope = "none" \/ tenant = scope

Account(u) == [tenant |-> home[u], user |-> u]
Accounts == {Account(u) : u \in {v \in Users : home[v] # "none"}}
get_user(scope, u) == {a \in Sees(scope, Accounts) : a.user = u}
get_role_by_name(scope, name) == {x \in Sees(scope, roles) : x.name = name}
get_user_roles(scope, u) == {g.role : g \in {g \in Sees(scope, grants) : g.user = u}}
get_user_permissions(scope, u) ==
  UNION {ROLE_PERMISSIONS(x) : x \in get_user_roles(scope, u)}

Grant(u, role) == [tenant |-> role.tenant, user |-> u, role |-> role]
Seeded(tenant) == {[tenant |-> tenant, name |-> n] : n \in Names}

\* Tenants somebody belongs to are there, with their roles; the rest are not.
Init ==
  LET there == {Default} \cup ({Home[u] : u \in Users} \ {"none"})
      As(u) == [tenant |-> Home[u], name |-> IF u \in Admins THEN "admin" ELSE "member"]
  IN /\ status = [s \in Slugs |-> IF s \in there THEN "active" ELSE "none"]
     /\ limits = [s \in Slugs |-> "set"]
     /\ roles = UNION {Seeded(s) : s \in there}
     /\ home = Home
     /\ grants = {Grant(u, As(u)) : u \in {v \in Users : Home[v] # "none"}}
     /\ asked = <<>> /\ reqs = {} /\ answers = <<>> /\ shown = {} /\ crossed = {}

\* `on` is a user for register and replace, a tenant for the tenant endpoints;
\* `to` is a status, or the names of the roles wanted.
Submit(q) ==
  /\ Len(asked) < MaxRequests /\ Cardinality(reqs) < MaxInFlight
  /\ asked' = Append(asked, q)
  /\ answers' = Append(answers, "none")
  /\ reqs' = reqs \cup {[n |-> Len(asked) + 1, todo |-> Path[q.op], scope |-> "none",
                         seen |-> "none", current |-> {}]}
  /\ crossed' = crossed \cup {{r.n, Len(asked) + 1} : r \in reqs}
  /\ UNCHANGED <<data, shown>>

-----------------------------------------------------------------------------
Op(r) == asked[r.n].op
User(r) == asked[r.n].user
On(r) == asked[r.n].on
At(r, step) == Head(r.todo) = step
Go(r, with) == reqs' = (reqs \ {r}) \cup {[with EXCEPT !.todo = Tail(r.todo)]}
Answer(r, code) == reqs' = reqs \ {r} /\ answers' = [answers EXCEPT ![r.n] = code]

\* On with the next step, or an error answer and a rollback.
Check(r, step, ok, with, code) ==
  /\ At(r, step)
  /\ IF ok THEN Go(r, with) /\ UNCHANGED answers ELSE Answer(r, code)
  /\ UNCHANGED <<data, asked, shown, crossed>>

\* The user is read in no scope, and gives the request its scope.
get_current_user(r) ==
  Check(r, "user", home[User(r)] # "none", [r EXCEPT !.scope = home[User(r)]], "401")

require_permission(r) ==
  Check(r, "permit",
        Op(r) \in DOMAIN Required /\ Required[Op(r)] \in get_user_permissions(r.scope, User(r)),
        r, "403")

-----------------------------------------------------------------------------
\* Both names are looked for in no scope.
IsFree(r) == Check(r, "free", get_user("none", On(r)) = {}, [r EXCEPT !.scope = Default], "409")

\* The user and the member role of the default tenant in one transaction; the
\* unique names are what decides between two registrations.
Register(r) ==
  /\ At(r, "insert") /\ Op(r) = "register"
  /\ IF get_user("none", On(r)) = {}
     THEN \E x \in get_role_by_name(r.scope, "member") :
            /\ home' = [home EXCEPT ![On(r)] = Injected(r.scope)]
            /\ grants' = grants \cup {Grant(On(r), x)}
            /\ Answer(r, "ok")
     ELSE Answer(r, "409") /\ UNCHANGED <<home, grants>>
  /\ UNCHANGED <<status, limits, roles, asked, shown, crossed>>

-----------------------------------------------------------------------------
IsSlugFree(r) == Check(r, "slug", status[On(r)] = "none", r, "409")

\* create_tenant commits; two that race for a slug are decided by its UNIQUE,
\* and nobody catches the error.
InsertTenant(r) ==
  /\ At(r, "insert") /\ Op(r) = "create"
  /\ IF status[On(r)] = "none"
     THEN Go(r, r) /\ status' = [status EXCEPT ![On(r)] = "active"] /\ UNCHANGED answers
     ELSE Answer(r, "500") /\ UNCHANGED status
  /\ UNCHANGED <<limits, roles, home, grants, asked, shown, crossed>>

\* Mutant: the roles are looked for in the scope of the caller, and are there.
SeedTenantInCallersScope(r) ==
  /\ At(r, "seed") /\ Answer(r, "ok")
  /\ roles' = roles \cup {[tenant |-> r.scope, name |-> n] : n \in Names}
  /\ UNCHANGED <<status, limits, home, grants, asked, shown, crossed>>

\* seed_tenant_rbac in the next transaction, for its time in the scope of the
\* new tenant.
SeedTenant(r) ==
  /\ At(r, "seed")
  /\ LET scope == On(r)
         missing == {n \in Names : get_role_by_name(scope, n) = {}}
     IN roles' = roles \cup {[tenant |-> Injected(scope), name |-> n] : n \in missing}
  /\ Answer(r, "ok")
  /\ UNCHANGED <<status, limits, home, grants, asked, shown, crossed>>

-----------------------------------------------------------------------------
get_tenant_or_404(r) ==
  Check(r, "tenant", status[On(r)] # "none", [r EXCEPT !.seen = status[On(r)]], "404")

Commit(r, op) == At(r, "commit") /\ Op(r) = op

\* Mutant: the whitelist is not asked.
ChangeTenantStatusFreely(r) ==
  /\ Commit(r, "status")
  /\ status' = [status EXCEPT ![On(r)] = asked[r.n].to]
  /\ Answer(r, "ok")
  /\ UNCHANGED <<limits, roles, home, grants, asked, shown, crossed>>

\* The whitelist is asked about the status that was read, and the row is
\* written by its id.
change_tenant_status(r) ==
  /\ Commit(r, "status")
  /\ LET to == asked[r.n].to IN
     IF to = r.seen THEN Answer(r, "ok") /\ UNCHANGED status
     ELSE IF to \notin ALLOWED_TENANT_TRANSITIONS[r.seen] THEN Answer(r, "409") /\ UNCHANGED status
     ELSE Answer(r, "ok") /\ status' = [status EXCEPT ![On(r)] = to]
  /\ UNCHANGED <<limits, roles, home, grants, asked, shown, crossed>>

update_tenant_fields(r) ==
  /\ Commit(r, "update")
  /\ IF r.seen = "deleted" THEN Answer(r, "409") /\ UNCHANGED limits
     ELSE Answer(r, "ok") /\ limits' = [limits EXCEPT ![On(r)] = "changed"]
  /\ UNCHANGED <<status, roles, home, grants, asked, shown, crossed>>

-----------------------------------------------------------------------------
\* Mutant: one's own roles are as good as anyone's.
TargetAnyone(r) == Check(r, "target", get_user(r.scope, On(r)) # {}, r, "404")

\* Not oneself; then the user, and each of the roles by its name.
Target(r) ==
  Check(r, "target",
        /\ User(r) # On(r)
        /\ get_user(r.scope, On(r)) # {}
        /\ \A n \in asked[r.n].to : get_role_by_name(r.scope, n) # {},
        r, IF User(r) = On(r) THEN "403" ELSE "404")

Current(r) ==
  /\ At(r, "current")
  /\ Go(r, [r EXCEPT !.current = get_user_roles(r.scope, On(r))])
  /\ UNCHANGED <<data, asked, answers, shown, crossed>>

Wanted(r) == {x \in Sees(r.scope, roles) : x.name \in asked[r.n].to}

\* Mutant: what is not wanted any more stays.
ReplaceRolesAdding(r) ==
  /\ Commit(r, "replace")
  /\ grants' = grants \cup {Grant(On(r), x) : x \in Wanted(r)}
  /\ Answer(r, "ok")
  /\ UNCHANGED <<status, limits, roles, home, asked, shown, crossed>>

\* Revokes and grants against the roles that were read; the UNIQUE of
\* user_roles refuses a role granted meanwhile.
ReplaceRoles(r) ==
  /\ Commit(r, "replace")
  /\ LET revoked == {Grant(On(r), x) : x \in r.current \ Wanted(r)}
         granted == {Grant(On(r), x) : x \in Wanted(r) \ r.current}
     IN IF granted \cap grants = {} /\ \A g \in granted : Admits(r.scope, g.tenant)
        THEN grants' = (grants \ revoked) \cup granted /\ Answer(r, "ok")
        ELSE Answer(r, "500") /\ UNCHANGED grants
  /\ UNCHANGED <<status, limits, roles, home, asked, shown, crossed>>

\* The lists of users with their roles, and of roles with their permissions.
Show(r) ==
  /\ At(r, "show") /\ Answer(r, "ok")
  /\ LET rows == IF Op(r) = "users" THEN Sees(r.scope, Accounts) \cup Sees(r.scope, grants)
                 ELSE Sees(r.scope, roles)
     IN shown' = shown \cup {[to |-> User(r), tenant |-> x.tenant] : x \in rows}
  /\ UNCHANGED <<data, asked, crossed>>

\* The process dies, or the database refuses; what was not committed is lost.
Fail(r) == Answer(r, "died") /\ UNCHANGED <<data, asked, shown, crossed>>

Serve(r) ==
  \/ get_current_user(r) \/ require_permission(r)
  \/ IsFree(r) \/ Register(r)
  \/ IsSlugFree(r) \/ InsertTenant(r) \/ SeedTenant(r)
  \/ get_tenant_or_404(r) \/ change_tenant_status(r) \/ update_tenant_fields(r)
  \/ Target(r) \/ Current(r) \/ ReplaceRoles(r) \/ Show(r)
  \/ Fail(r)

Next == (\E q \in Requests : Submit(q)) \/ \E r \in reqs : Serve(r)

Spec == Init /\ [][Next]_vars

-----------------------------------------------------------------------------
\* Whether two requests on `on`, of the kinds in K, were served together.
Together(K, on) ==
  \E i, j \in DOMAIN asked :
    /\ i # j /\ {i, j} \in crossed
    /\ asked[i].op \in K /\ asked[j].op \in K /\ asked[i].on = on /\ asked[j].on = on

\* The life of a tenant: its status follows the whitelist and its fields are
\* left alone once it is deleted, whatever else goes on, as long as nobody
\* changes the status of that tenant at the same time
\* (services/tenant.py:69-91, models/tenant.py:46-50).
TenantLife ==
  [][\A s \in Slugs :
       /\ status'[s] # status[s] /\ status[s] # "none" =>
            \/ status'[s] \in ALLOWED_TENANT_TRANSITIONS[status[s]]
            \/ Together({"status"}, s)
       /\ limits'[s] # limits[s] => status[s] # "deleted" \/ Together({"status", "update"}, s)]_vars

RolesOf(u) == {g.role : g \in {g \in grants : g.user = u}}

\* Tenants are apart: a grant joins a user and a role of one tenant, nobody is
\* shown a row of another one, only the administrators of the default tenant
\* may manage tenants; a tenant is without roles only while it is created, or
\* when that was cut off; and nobody who registered is without a role before
\* somebody replaces them (services/rbac_seed.py:39-77, services/auth.py:61-125,
\* core/tenant_context.py:126-199).
TenantsApart ==
  /\ \A g \in grants : g.tenant = home[g.user] /\ g.role.tenant = home[g.user] /\ g.role \in roles
  /\ \A s \in shown : s.tenant = home[s.to]
  /\ \A u \in Users : "tenant:manage" \in get_user_permissions("none", u) => home[u] = Default
  /\ \A s \in Slugs : status[s] # "none" =>
       \/ Seeded(s) \subseteq roles
       \/ \E i \in DOMAIN asked : asked[i].op = "create" /\ asked[i].on = s /\ answers[i] \in {"none", "died"}
  /\ \A u \in Users : home[u] # "none" /\ RolesOf(u) = {} =>
       \E i \in DOMAIN asked : asked[i].op = "replace" /\ asked[i].on = u

AdminsOf(s) == {u \in Users : [tenant |-> s, name |-> "admin"] \in RolesOf(u)}

\* A tenant keeps an administrator: nobody may take the role from themselves,
\* so the last one goes only if administrators took it from one another at the
\* same time (services/user.py:91-101).
AdminRemains ==
  \A s \in {Home[u] : u \in Admins} :
    \/ AdminsOf(s) # {}
    \/ \E i, j \in DOMAIN asked :
         /\ {i, j} \in crossed /\ asked[i].op = "replace" /\ asked[j].op = "replace"
         /\ asked[i].on = asked[j].user

\* A replacement that was granted holds: the user has the roles of the last
\* one, and no others, unless another replacement of that user was served at
\* the same time (services/user.py:83-134).
Replaced ==
  \A i \in DOMAIN asked :
    /\ asked[i].op = "replace" /\ answers[i] = "ok"
    /\ \A j \in DOMAIN asked \ {i} :
         asked[j].op = "replace" /\ asked[j].on = asked[i].on => j < i /\ {i, j} \notin crossed
    => {x.name : x \in RolesOf(asked[i].on)} = asked[i].to
=============================================================================
