---------------------------- MODULE Access_proofs ----------------------------
(***************************************************************************)
(* For any tenants, users and requests: tenants are apart, a tenant keeps  *)
(* an administrator, a replacement that was granted holds, and the status  *)
(* of a tenant follows the whitelist, up to what requests that are served  *)
(* together may do to one another.                                         *)
(***************************************************************************)
EXTENDS Access, TLAPS

USE AccessAssumption

-----------------------------------------------------------------------------
(***************************************************************************)
(* What a request has left to do: steps in their order, up to the last one *)
(* of its operation.                                                       *)
(***************************************************************************)
Rank ==
  [ user |-> 1, permit |-> 2, free |-> 3, slug |-> 3, tenant |-> 3, target |-> 3,
    insert |-> 4, current |-> 4, seed |-> 5, commit |-> 5, show |-> 5 ]

Steps == DOMAIN Rank

Last ==
  [ register |-> "insert", create |-> "seed", status |-> "commit", update |-> "commit",
    replace |-> "commit", users |-> "show", matrix |-> "show" ]

Well(op, s) ==
  /\ s \in Seq(Steps) /\ Len(s) > 0 /\ s[Len(s)] = Last[op]
  /\ \A i, j \in 1 .. Len(s) : i < j => Rank[s[i]] < Rank[s[j]]

Left(s) == {s[i] : i \in 1 .. Len(s)}

LEMMA RankType == Rank \in [Steps -> Nat]
BY DEF Rank, Steps

LEMMA WellTail ==
  ASSUME NEW op, NEW s, Well(op, s), Head(s) # Last[op]
  PROVE  /\ Well(op, Tail(s)) /\ Tail(s) \in Seq(Steps)
         /\ Left(Tail(s)) \subseteq Left(s) /\ Left(s) \subseteq Left(Tail(s)) \cup {Head(s)}
<1>1. /\ Tail(s) \in Seq(Steps) /\ Len(s) > 1 /\ Len(Tail(s)) = Len(s) - 1
      /\ \A i \in 1 .. Len(s) - 1 : Tail(s)[i] = s[i + 1]
      /\ Head(s) = s[1]
  BY DEF Well
<1>2. Well(op, Tail(s)) BY <1>1 DEF Well
<1>3. Left(Tail(s)) \subseteq Left(s) BY <1>1 DEF Left
<1>4. ASSUME NEW i \in 1 .. Len(s), i # 1 PROVE s[i] \in Left(Tail(s))
  <2>1. i - 1 \in 1 .. Len(Tail(s)) /\ Tail(s)[i - 1] = s[i] BY <1>1, <1>4
  <2> QED BY <2>1 DEF Left
<1>5. Left(s) \subseteq Left(Tail(s)) \cup {Head(s)} BY <1>1, <1>4 DEF Left
<1> QED BY <1>1, <1>2, <1>3, <1>5

\* Nothing that comes before the next step is left.
LEMMA WellHead ==
  ASSUME NEW op, NEW s, Well(op, s)
  PROVE  /\ Head(s) \in Left(s) /\ Head(s) \in Steps
         /\ \A x \in Left(s) : x \in Steps /\ (x = Head(s) \/ Rank[Head(s)] < Rank[x])
<1>1. Head(s) = s[1] /\ 1 \in 1 .. Len(s) /\ \A i \in 1 .. Len(s) : s[i] \in Steps BY DEF Well
<1>2. ASSUME NEW i \in 1 .. Len(s), i # 1 PROVE Rank[s[1]] < Rank[s[i]]
  <2>1. 1 < i BY <1>2 DEF Well
  <2> QED BY <1>1, <2>1 DEF Well
<1> QED BY <1>1, <1>2 DEF Left

LEMMA Order ==
  ASSUME NEW op, NEW s, Well(op, s)
  PROVE  /\ Head(s) # "user" => "user" \notin Left(s)
         /\ Head(s) \notin {"user", "permit"} => "permit" \notin Left(s)
         /\ Rank[Head(s)] > 3 => Left(s) \cap {"free", "slug", "tenant", "target"} = {}
         /\ Rank[Head(s)] > 4 => Left(s) \cap {"insert", "current"} = {}
<1>1. Head(s) \in Steps /\ \A x \in Left(s) : x = Head(s) \/ Rank[Head(s)] < Rank[x]
  BY WellHead
<1>2. /\ Rank["user"] = 1 /\ Rank["permit"] = 2
      /\ \A x \in {"free", "slug", "tenant", "target"} : Rank[x] = 3
      /\ Rank["insert"] = 4 /\ Rank["current"] = 4
      /\ \A x \in Steps : x # "user" => Rank[x] > 1
      /\ \A x \in Steps : x \notin {"user", "permit"} => Rank[x] > 2
  BY DEF Rank, Steps
<1>3. Rank[Head(s)] \in Nat BY <1>1, RankType
<1> QED BY <1>1, <1>2, <1>3

LEMMA Paths ==
  /\ \A op \in Ops : Well(op, Path[op])
  /\ Ops = {"register", "create", "status", "update", "replace", "users", "matrix"}
  /\ Left(Path.register) = {"free", "insert"}
  /\ Left(Path.create) = {"user", "permit", "slug", "insert", "seed"}
  /\ Left(Path.status) = {"user", "permit", "tenant", "commit"}
  /\ Left(Path.update) = {"user", "permit", "tenant", "commit"}
  /\ Left(Path.replace) = {"user", "permit", "target", "current", "commit"}
  /\ Left(Path.users) = {"user", "permit", "show"}
  /\ Left(Path.matrix) = {"user", "permit", "show"}
<1>1. Well("register", Path.register) /\ Left(Path.register) = {"free", "insert"}
  BY DEF Path, Well, Left, Steps, Rank, Last
<1>2. /\ Well("create", Path.create)
      /\ Left(Path.create) = {"user", "permit", "slug", "insert", "seed"}
  BY DEF Path, Well, Left, Steps, Rank, Last
<1>3. Well("status", Path.status) /\ Left(Path.status) = {"user", "permit", "tenant", "commit"}
  BY DEF Path, Well, Left, Steps, Rank, Last
<1>4. Path.update = Path.status /\ Last["update"] = Last["status"] BY DEF Path, Last
<1>5. /\ Well("replace", Path.replace)
      /\ Left(Path.replace) = {"user", "permit", "target", "current", "commit"}
  BY DEF Path, Well, Left, Steps, Rank, Last
<1>6. Well("users", Path.users) /\ Left(Path.users) = {"user", "permit", "show"}
  BY DEF Path, Well, Left, Steps, Rank, Last
<1>7. Path.matrix = Path.users /\ Last["matrix"] = Last["users"] BY DEF Path, Last
<1>8. Ops = {"register", "create", "status", "update", "replace", "users", "matrix"}
  BY DEF Ops, Path
<1>9. Well("update", Path.update) /\ Well("matrix", Path.matrix)
  BY <1>3, <1>4, <1>6, <1>7 DEF Well
<1> QED BY <1>1, <1>2, <1>3, <1>4, <1>5, <1>6, <1>7, <1>8, <1>9

-----------------------------------------------------------------------------
(***************************************************************************)
(* The shape of the state.                                                 *)
(***************************************************************************)
Codes == {"ok", "401", "403", "404", "409", "500", "died"}
Role == [tenant : Slugs, name : Names]
Request == [n : Nat, todo : Seq(Steps), scope : Slugs \cup {"none"},
            seen : Statuses \cup {"none"}, current : SUBSET Role]

Data ==
  /\ status \in [Slugs -> Statuses \cup {"none"}] /\ limits \in [Slugs -> {"set", "changed"}]
  /\ home \in [Users -> Slugs \cup {"none"}]
  /\ roles \subseteq Role
  /\ \A g \in grants : g.user \in Users /\ g.role \in Role /\ g = Grant(g.user, g.role)

Shape ==
  /\ asked \in Seq(Requests)
  /\ answers \in Seq(Codes \cup {"none"}) /\ Len(answers) = Len(asked)
  /\ reqs \subseteq Request
  /\ \A r \in reqs : /\ r.n \in DOMAIN asked /\ answers[r.n] = "none"
                     /\ Well(Op(r), r.todo) /\ Left(r.todo) \subseteq Left(Path[Op(r)])
  /\ \A r, x \in reqs : r.n = x.n => r = x
  /\ \A r \in reqs, m \in DOMAIN asked : r.n < m => {r.n, m} \in crossed

\* A request goes on as x, having passed its next step.
Moves(r, x) ==
  LET at == Head(r.todo) IN
  /\ x.n = r.n /\ x.todo = Tail(r.todo) /\ at # Last[Op(r)]
  /\ x.scope = IF at = "user" THEN home[User(r)] ELSE IF at = "free" THEN Default ELSE r.scope
  /\ x.seen = IF at = "tenant" THEN status[On(r)] ELSE r.seen
  /\ x.current = IF at = "current" THEN get_user_roles(r.scope, On(r)) ELSE r.current
  /\ at = "user" => home[User(r)] # "none"
  /\ at = "permit" => /\ Op(r) \in DOMAIN Required
                      /\ Required[Op(r)] \in get_user_permissions(r.scope, User(r))
  /\ at = "tenant" => status[On(r)] # "none"
  /\ at = "target" => /\ User(r) # On(r) /\ get_user(r.scope, On(r)) # {}
                      /\ \A n \in asked[r.n].to : get_role_by_name(r.scope, n) # {}

Resumed(r) ==
  \E x \in Request : Moves(r, x) /\ reqs' = (reqs \ {r}) \cup {x} /\ answers' = answers

Answered(r, code) == reqs' = reqs \ {r} /\ answers' = [answers EXCEPT ![r.n] = code]

\* What a request is about, by its operation.
LEMMA AskedIs ==
  ASSUME NEW q \in Requests
  PROVE  /\ q.op \in Ops /\ q.user \in Users
         /\ q.op \in {"create", "update", "status"} => q.on \in Slugs
         /\ q.op \in {"register", "replace"} => q.on \in Users
BY Paths DEF AccessAssumption

LEMMA StepSets ==
  /\ \A op \in Ops : Last[op] \in {"insert", "seed", "commit", "show"}
  /\ Last["create"] = "seed" /\ Last["register"] = "insert"
  /\ Last["status"] = "commit" /\ Last["update"] = "commit" /\ Last["replace"] = "commit"
  /\ "none" \in Slugs \cup {"none"} /\ Default \in Slugs /\ "none" \notin Slugs
BY Paths DEF Last, AccessAssumption

LEMMA RequestIs ==
  ASSUME Shape, NEW r \in reqs
  PROVE  /\ r \in Request /\ r.n \in DOMAIN asked /\ asked[r.n] \in Requests
         /\ Op(r) \in Ops /\ User(r) \in Users
         /\ Op(r) \in {"create", "update", "status"} => On(r) \in Slugs
         /\ Op(r) \in {"register", "replace"} => On(r) \in Users
         /\ Well(Op(r), r.todo) /\ Left(r.todo) \subseteq Left(Path[Op(r)])
         /\ Head(r.todo) \in Left(r.todo)
<1>1. r \in Request /\ r.n \in DOMAIN asked /\ asked[r.n] \in Requests
      /\ Well(Op(r), r.todo) /\ Left(r.todo) \subseteq Left(Path[Op(r)])
  BY DEF Shape
<1>2. Head(r.todo) \in Left(r.todo) BY <1>1, WellHead
<1> QED BY <1>1, <1>2, AskedIs DEF Op, User, On

\* Which operations have a step.
LEMMA OpOf ==
  ASSUME Shape, NEW r \in reqs
  PROVE  /\ Head(r.todo) \in {"free"} => Op(r) = "register"
         /\ Head(r.todo) \in {"slug", "seed"} => Op(r) = "create"
         /\ Head(r.todo) = "tenant" => Op(r) \in {"status", "update"}
         /\ Head(r.todo) \in {"target", "current"} => Op(r) = "replace"
         /\ Head(r.todo) = "show" => Op(r) \in {"users", "matrix"}
         /\ Head(r.todo) \in {"user", "permit"} => Op(r) # "register"
<1>1. Head(r.todo) \in Left(Path[Op(r)]) /\ Op(r) \in Ops BY RequestIs
<1>2. Op(r) \in {"register", "create", "status", "update", "replace", "users", "matrix"}
  BY <1>1, Paths
<1> QED BY <1>1, <1>2, Paths

-----------------------------------------------------------------------------
(***************************************************************************)
(* The actions of a request.                                               *)
(***************************************************************************)
\* A step with the record that goes on.
LEMMA GoResumed ==
  ASSUME Shape, NEW r \in reqs, NEW with \in Request, with.n = r.n, with.todo = r.todo, Go(r, with),
         Head(r.todo) # Last[Op(r)], answers' = answers,
         LET x == [with EXCEPT !.todo = Tail(r.todo)]
         IN x.n = r.n /\ x.todo = Tail(r.todo) /\ x.scope = with.scope /\ x.seen = with.seen
            /\ x.current = with.current => Moves(r, x)
  PROVE  Resumed(r)
<1> DEFINE x == [with EXCEPT !.todo = Tail(r.todo)]
<1>1. Tail(r.todo) \in Seq(Steps) BY RequestIs, WellTail
<1>2. /\ x \in Request /\ x.n = r.n /\ x.todo = Tail(r.todo) /\ x.scope = with.scope
      /\ x.seen = with.seen /\ x.current = with.current
  BY <1>1 DEF Request
<1>3. Moves(r, x) BY <1>2
<1>4. reqs' = (reqs \ {r}) \cup {x} BY DEF Go
<1> QED BY <1>2, <1>3, <1>4 DEF Resumed

LEMMA CheckIs ==
  ASSUME NEW r \in reqs, NEW step, NEW ok, NEW with, NEW code, Check(r, step, ok, with, code)
  PROVE  /\ Head(r.todo) = step /\ UNCHANGED <<data, asked, shown, crossed>>
         /\ (ok /\ Go(r, with) /\ answers' = answers) \/ Answered(r, code)
<1>1. CASE ok BY <1>1 DEF Check, At
<1>2. CASE ~ ok BY <1>2 DEF Check, At, Answer, Answered
<1> QED BY <1>1, <1>2

LEMMA Kinds ==
  ASSUME Shape, Data, NEW r \in reqs, Serve(r)
  PROVE  /\ UNCHANGED <<asked, crossed>>
         /\ Resumed(r) \/ \E code \in Codes : Answered(r, code)
<1>1. /\ r \in Request /\ Op(r) \in Ops /\ User(r) \in Users
      /\ Op(r) \in {"create", "update", "status"} => On(r) \in Slugs
  BY RequestIs
<1>2. Last[Op(r)] \in {"insert", "seed", "commit", "show"} BY <1>1, StepSets
<1>3. CASE get_current_user(r)
  <2> DEFINE w == [r EXCEPT !.scope = home[User(r)]]
  <2>1. /\ Head(r.todo) = "user" /\ UNCHANGED <<asked, crossed>>
        /\ \/ home[User(r)] # "none" /\ Go(r, w) /\ answers' = answers
           \/ Answered(r, "401")
    BY <1>3, CheckIs DEF get_current_user
  <2>2. CASE home[User(r)] # "none" /\ Go(r, w) /\ answers' = answers
    <3>1. home[User(r)] \in Slugs \cup {"none"} BY <1>1 DEF Data
    <3>2. /\ w \in Request /\ w.n = r.n /\ w.todo = r.todo /\ w.scope = home[User(r)]
          /\ w.seen = r.seen /\ w.current = r.current
      BY <1>1, <3>1 DEF Request
    <3> HIDE DEF w
    <3>3. Resumed(r) BY <1>2, <2>1, <2>2, <3>2, GoResumed DEF Moves
    <3> QED BY <2>1, <3>3
  <2> QED BY <2>1, <2>2 DEF Codes
<1>4. CASE require_permission(r)
  <2> DEFINE ok == Op(r) \in DOMAIN Required /\ Required[Op(r)] \in get_user_permissions(r.scope, User(r))
  <2>1. /\ Head(r.todo) = "permit" /\ UNCHANGED <<asked, crossed>>
        /\ (ok /\ Go(r, r) /\ answers' = answers) \/ Answered(r, "403")
    BY <1>4, CheckIs DEF require_permission
  <2>2. CASE ok /\ Go(r, r) /\ answers' = answers
    <3>1. Resumed(r) BY <1>1, <1>2, <2>1, <2>2, GoResumed DEF Moves
    <3> QED BY <2>1, <3>1
  <2> QED BY <2>1, <2>2 DEF Codes
<1>5. CASE IsFree(r)
  <2> DEFINE w == [r EXCEPT !.scope = Default]
  <2>1. /\ Head(r.todo) = "free" /\ UNCHANGED <<asked, crossed>>
        /\ (Go(r, w) /\ answers' = answers) \/ Answered(r, "409")
    BY <1>5, CheckIs DEF IsFree
  <2>2. CASE Go(r, w) /\ answers' = answers
    <3>1. /\ w \in Request /\ w.n = r.n /\ w.todo = r.todo /\ w.scope = Default
          /\ w.seen = r.seen /\ w.current = r.current
      BY <1>1, StepSets DEF Request
    <3> HIDE DEF w
    <3>2. Resumed(r) BY <1>2, <2>1, <2>2, <3>1, GoResumed DEF Moves
    <3> QED BY <2>1, <3>2
  <2> QED BY <2>1, <2>2 DEF Codes
<1>6. CASE IsSlugFree(r)
  <2>1. /\ Head(r.todo) = "slug" /\ UNCHANGED <<asked, crossed>>
        /\ (Go(r, r) /\ answers' = answers) \/ Answered(r, "409")
    BY <1>6, CheckIs DEF IsSlugFree
  <2>2. Go(r, r) /\ answers' = answers => Resumed(r) BY <1>1, <1>2, <2>1, GoResumed DEF Moves
  <2> QED BY <2>1, <2>2 DEF Codes
<1>7. CASE get_tenant_or_404(r)
  <2> DEFINE w == [r EXCEPT !.seen = status[On(r)]]
  <2>1. /\ Head(r.todo) = "tenant" /\ UNCHANGED <<asked, crossed>>
        /\ \/ status[On(r)] # "none" /\ Go(r, w) /\ answers' = answers
           \/ Answered(r, "404")
    BY <1>7, CheckIs DEF get_tenant_or_404
  <2>2. CASE status[On(r)] # "none" /\ Go(r, w) /\ answers' = answers
    <3>1. status[On(r)] \in Statuses \cup {"none"} BY <1>1, <2>1, OpOf DEF Data
    <3>2. /\ w \in Request /\ w.n = r.n /\ w.todo = r.todo /\ w.scope = r.scope
          /\ w.seen = status[On(r)] /\ w.current = r.current
      BY <1>1, <3>1 DEF Request
    <3> HIDE DEF w
    <3>3. Resumed(r) BY <1>2, <2>1, <2>2, <3>2, GoResumed DEF Moves
    <3> QED BY <2>1, <3>3
  <2> QED BY <2>1, <2>2 DEF Codes
<1>8. CASE Target(r)
  <2> DEFINE ok == /\ User(r) # On(r)
                   /\ get_user(r.scope, On(r)) # {}
                   /\ \A n \in asked[r.n].to : get_role_by_name(r.scope, n) # {}
  <2>1. /\ Head(r.todo) = "target" /\ UNCHANGED <<asked, crossed>>
        /\ \/ ok /\ Go(r, r) /\ answers' = answers
           \/ Answered(r, IF User(r) = On(r) THEN "403" ELSE "404")
    BY <1>8, CheckIs DEF Target
  <2>2. CASE ok /\ Go(r, r) /\ answers' = answers
    <3>1. Resumed(r) BY <1>1, <1>2, <2>1, <2>2, GoResumed DEF Moves
    <3> QED BY <2>1, <3>1
  <2> QED BY <2>1, <2>2 DEF Codes
<1>9. CASE Current(r)
  <2> DEFINE w == [r EXCEPT !.current = get_user_roles(r.scope, On(r))]
  <2>1. Head(r.todo) = "current" /\ Go(r, w) /\ UNCHANGED <<asked, crossed, answers>>
    BY <1>9 DEF Current, At
  <2>2. get_user_roles(r.scope, On(r)) \in SUBSET Role BY DEF get_user_roles, Sees, Data
  <2>3. /\ w \in Request /\ w.n = r.n /\ w.todo = r.todo /\ w.scope = r.scope
        /\ w.seen = r.seen /\ w.current = get_user_roles(r.scope, On(r))
    BY <1>1, <2>2 DEF Request
  <2> HIDE DEF w
  <2>4. Resumed(r) BY <1>2, <2>1, <2>3, GoResumed DEF Moves
  <2> QED BY <2>1, <2>4
<1>10. CASE InsertTenant(r)
  <2>1. Head(r.todo) = "insert" /\ Op(r) = "create" /\ UNCHANGED <<asked, crossed>>
        /\ ((Go(r, r) /\ answers' = answers) \/ Answer(r, "500"))
    BY <1>10 DEF InsertTenant, At
  <2>2. Go(r, r) /\ answers' = answers => Resumed(r)
    BY <1>1, <2>1, StepSets, GoResumed DEF Moves
  <2> QED BY <2>1, <2>2 DEF Codes, Answer, Answered
<1>11. CASE \/ Register(r) \/ SeedTenant(r) \/ change_tenant_status(r) \/ update_tenant_fields(r)
            \/ ReplaceRoles(r) \/ Show(r) \/ Fail(r)
  <2>1. UNCHANGED <<asked, crossed>>
    BY <1>11 DEF Register, SeedTenant, change_tenant_status, update_tenant_fields, ReplaceRoles, Show, Fail
  <2>2. \E code \in Codes : Answer(r, code)
    BY <1>11 DEF Register, SeedTenant, change_tenant_status, update_tenant_fields, ReplaceRoles, Show,
       Fail, Codes
  <2> QED BY <2>1, <2>2 DEF Answer, Answered
<1> QED
  BY <1>3, <1>4, <1>5, <1>6, <1>7, <1>8, <1>9, <1>10, <1>11 DEF Serve

-----------------------------------------------------------------------------
(***************************************************************************)
(* Shape and Data hold throughout.                                         *)
(***************************************************************************)
LEMMA Start == ASSUME Init PROVE Shape /\ Data
<1> DEFINE there == {Default} \cup ({Home[u] : u \in Users} \ {"none"})
           As(u) == [tenant |-> Home[u], name |-> IF u \in Admins THEN "admin" ELSE "member"]
<1>1. Shape BY DEF Init, Shape
<1>2. there \subseteq Slugs BY DEF AccessAssumption
<1>3. /\ status \in [Slugs -> Statuses \cup {"none"}] /\ limits \in [Slugs -> {"set", "changed"}]
      /\ home \in [Users -> Slugs \cup {"none"}]
  BY DEF Init, Statuses, AccessAssumption
<1>4. roles = UNION {Seeded(s) : s \in there} BY DEF Init
<1>5. roles \subseteq Role BY <1>2, <1>4 DEF Seeded, Role
<1>6. ASSUME NEW g \in grants
      PROVE  g.user \in Users /\ g.role \in Role /\ g = Grant(g.user, g.role)
  <2>1. PICK u \in Users : Home[u] # "none" /\ g = Grant(u, As(u)) BY <1>6 DEF Init
  <2>2. As(u) \in Role BY <2>1 DEF Role, Names, AccessAssumption
  <2> QED BY <2>1, <2>2 DEF Grant
<1> QED BY <1>1, <1>3, <1>5, <1>6 DEF Data

\* A request that comes in.
LEMMA Submitted ==
  ASSUME Shape, NEW q \in Requests, Submit(q)
  PROVE  /\ asked' = Append(asked, q) /\ Len(asked') = Len(asked) + 1 /\ asked'[Len(asked) + 1] = q
         /\ DOMAIN asked \subseteq DOMAIN asked' /\ DOMAIN asked' = DOMAIN asked \cup {Len(asked) + 1}
         /\ \A i \in DOMAIN asked : asked'[i] = asked[i] /\ answers'[i] = answers[i]
         /\ answers'[Len(asked) + 1] = "none"
         /\ \E x \in Request : /\ x.n = Len(asked) + 1 /\ x.todo = Path[q.op] /\ x.scope = "none"
                               /\ x.seen = "none" /\ x.current = {} /\ reqs' = reqs \cup {x}
         /\ crossed \subseteq crossed' /\ \A r \in reqs : {r.n, Len(asked) + 1} \in crossed'
         /\ UNCHANGED <<data, shown>> /\ asked' \in Seq(Requests)
<1> DEFINE x == [n |-> Len(asked) + 1, todo |-> Path[q.op], scope |-> "none", seen |-> "none",
                 current |-> {}]
<1>1. asked \in Seq(Requests) /\ answers \in Seq(Codes \cup {"none"}) /\ Len(answers) = Len(asked)
      /\ Len(asked) \in Nat
  BY DEF Shape
<1>2. asked' = Append(asked, q) /\ answers' = Append(answers, "none") /\ reqs' = reqs \cup {x}
      /\ crossed' = crossed \cup {{r.n, Len(asked) + 1} : r \in reqs} /\ UNCHANGED <<data, shown>>
  BY DEF Submit
<1>3. Path[q.op] \in Seq(Steps) BY Paths, AskedIs DEF Well
<1>4. x \in Request /\ x.n = Len(asked) + 1 /\ x.todo = Path[q.op] /\ x.scope = "none"
      /\ x.seen = "none" /\ x.current = {}
  BY <1>1, <1>3 DEF Request
<1> HIDE DEF x
<1>5. /\ Len(asked') = Len(asked) + 1 /\ asked'[Len(asked) + 1] = q /\ asked' \in Seq(Requests)
      /\ DOMAIN asked = 1 .. Len(asked) /\ DOMAIN asked' = 1 .. (Len(asked) + 1)
      /\ \A i \in 1 .. Len(asked) : asked'[i] = asked[i]
  BY <1>1, <1>2
<1>6. \A i \in 1 .. Len(asked) : answers'[i] = answers[i] BY <1>1, <1>2
<1>7. answers'[Len(asked) + 1] = "none" BY <1>1, <1>2
<1>8. DOMAIN asked' = DOMAIN asked \cup {Len(asked) + 1} BY <1>1, <1>5
<1> QED BY <1>2, <1>4, <1>5, <1>6, <1>7, <1>8

LEMMA ShapeSubmit ==
  ASSUME Shape, NEW q \in Requests, Submit(q)
  PROVE  Shape'
<1> DEFINE k == Len(asked) + 1
<1>1. PICK x \in Request : x.n = k /\ x.todo = Path[q.op] /\ reqs' = reqs \cup {x}
  BY Submitted
<1>2. /\ asked' \in Seq(Requests) /\ Len(asked') = k /\ asked'[k] = q
      /\ DOMAIN asked' = DOMAIN asked \cup {k} /\ answers'[k] = "none"
      /\ \A i \in DOMAIN asked : asked'[i] = asked[i] /\ answers'[i] = answers[i]
      /\ crossed \subseteq crossed' /\ \A r \in reqs : {r.n, k} \in crossed'
  BY Submitted
<1>3. answers' \in Seq(Codes \cup {"none"}) /\ Len(answers') = Len(asked')
  BY <1>2 DEF Submit, Shape
<1>4. k \in Nat /\ DOMAIN asked = 1 .. Len(asked) /\ Len(asked) \in Nat BY DEF Shape
<1>5. ASSUME NEW r \in reqs'
      PROVE  /\ r.n \in DOMAIN asked' /\ answers'[r.n] = "none"
             /\ Well(asked'[r.n].op, r.todo) /\ Left(r.todo) \subseteq Left(Path[asked'[r.n].op])
  <2>1. CASE r \in reqs
    <3>1. r.n \in DOMAIN asked /\ answers[r.n] = "none" /\ Well(Op(r), r.todo)
          /\ Left(r.todo) \subseteq Left(Path[Op(r)])
      BY <2>1 DEF Shape
    <3> QED BY <1>2, <3>1 DEF Op
  <2>2. CASE r = x BY <1>1, <1>2, <2>2, Paths, AskedIs
  <2> QED BY <1>1, <1>5, <2>1, <2>2
<1>6. ASSUME NEW r \in reqs', NEW y \in reqs', r.n = y.n PROVE r = y
  <2>1. \A z \in reqs : z.n \in 1 .. Len(asked) BY <1>4 DEF Shape
  <2>2. \A z \in reqs : z.n # k BY <1>4, <2>1
  <2> QED BY <1>1, <1>6, <2>2 DEF Shape
<1>7. ASSUME NEW r \in reqs', NEW m \in DOMAIN asked', r.n < m PROVE {r.n, m} \in crossed'
  <2>1. CASE r = x BY <1>1, <1>2, <1>4, <1>7, <2>1
  <2>2. CASE r \in reqs /\ m = k BY <1>2, <2>2
  <2>3. CASE r \in reqs /\ m \in DOMAIN asked BY <1>2, <1>7, <2>3 DEF Shape
  <2> QED BY <1>1, <1>2, <2>1, <2>2, <2>3
<1>8. reqs' \subseteq Request BY <1>1 DEF Shape
<1> QED BY <1>2, <1>3, <1>5, <1>6, <1>7, <1>8 DEF Shape, Op

LEMMA ShapeServe ==
  ASSUME Shape, Data, NEW r \in reqs, Serve(r)
  PROVE  Shape'
<1>1. UNCHANGED <<asked, crossed>> /\ (Resumed(r) \/ \E code \in Codes : Answered(r, code)) BY Kinds
<1>2. asked' = asked /\ crossed' = crossed BY <1>1
<1>3. CASE Resumed(r)
  <2>1. PICK x \in Request : Moves(r, x) /\ reqs' = (reqs \ {r}) \cup {x} /\ answers' = answers
    BY <1>3 DEF Resumed
  <2>2. x.n = r.n /\ x.todo = Tail(r.todo) /\ Head(r.todo) # Last[Op(r)] BY <2>1 DEF Moves
  <2>3. Well(Op(r), r.todo) /\ Left(r.todo) \subseteq Left(Path[Op(r)]) /\ r.n \in DOMAIN asked
        /\ answers[r.n] = "none"
    BY DEF Shape
  <2>4. Well(Op(r), x.todo) /\ Left(x.todo) \subseteq Left(Path[Op(r)]) BY <2>2, <2>3, WellTail
  <2>5. Op(x) = Op(r) /\ \A y \in reqs' : Op(y)' = Op(y) BY <1>2, <2>2 DEF Op
  <2>6. \A y \in reqs' : /\ y.n \in DOMAIN asked' /\ answers'[y.n] = "none"
                         /\ Well(Op(y)', y.todo) /\ Left(y.todo) \subseteq Left(Path[Op(y)'])
    BY <1>2, <2>1, <2>2, <2>3, <2>4, <2>5 DEF Shape
  <2>7. \A y, z \in reqs' : y.n = z.n => y = z BY <2>1, <2>2 DEF Shape
  <2>8. \A y \in reqs', m \in DOMAIN asked' : y.n < m => {y.n, m} \in crossed'
    BY <1>2, <2>1, <2>2 DEF Shape
  <2>9. reqs' \subseteq Request BY <2>1 DEF Shape
  <2>10. asked' \in Seq(Requests) /\ answers' \in Seq(Codes \cup {"none"}) /\ Len(answers') = Len(asked')
    BY <1>2, <2>1 DEF Shape
  <2> QED BY <2>6, <2>7, <2>8, <2>9, <2>10 DEF Shape
<1>4. ASSUME NEW code \in Codes, Answered(r, code) PROVE Shape'
  <2>1. reqs' = reqs \ {r} /\ answers' = [answers EXCEPT ![r.n] = code] BY <1>4 DEF Answered
  <2>2. r.n \in DOMAIN asked BY DEF Shape
  <2>3. answers' \in Seq(Codes \cup {"none"}) /\ Len(answers') = Len(asked') BY <1>2, <2>1 DEF Shape
  <2>4. \A y \in reqs' : Op(y)' = Op(y) BY <1>2 DEF Op
  <2>5. \A y \in reqs' : y.n # r.n BY <2>1 DEF Shape
  <2>6. \A y \in reqs' : answers'[y.n] = answers[y.n] BY <2>1, <2>5 DEF Shape
  <2>7. \A y \in reqs' : /\ y.n \in DOMAIN asked' /\ answers'[y.n] = "none"
                         /\ Well(Op(y)', y.todo) /\ Left(y.todo) \subseteq Left(Path[Op(y)'])
    BY <1>2, <2>1, <2>4, <2>6 DEF Shape
  <2>8. /\ \A y, z \in reqs' : y.n = z.n => y = z
        /\ \A y \in reqs', m \in DOMAIN asked' : y.n < m => {y.n, m} \in crossed'
        /\ reqs' \subseteq Request /\ asked' \in Seq(Requests)
    BY <1>2, <2>1 DEF Shape
  <2> QED BY <2>3, <2>7, <2>8 DEF Shape
<1> QED BY <1>1, <1>3, <1>4

-----------------------------------------------------------------------------
(***************************************************************************)
(* What a request knows once a step is behind it.  Roles are added and     *)
(* never taken away, nobody changes tenant, and no tenant is removed, so   *)
(* that it goes on knowing it.                                             *)
(***************************************************************************)
Known(r) ==
  /\ Op(r) # "register" /\ "user" \notin Left(r.todo) =>
       r.scope = home[User(r)] /\ home[User(r)] # "none"
  /\ Op(r) = "register" /\ "free" \notin Left(r.todo) => r.scope = Default
  /\ Op(r) = "replace" /\ "target" \notin Left(r.todo) =>
       /\ home[User(r)] # "none" /\ User(r) # On(r) /\ home[On(r)] = home[User(r)]
       /\ \A n \in asked[r.n].to : \E x \in roles : x.tenant = home[User(r)] /\ x.name = n
  /\ Op(r) = "replace" /\ "current" \notin Left(r.todo) =>
       \A x \in r.current : x \in Role /\ x.tenant = home[User(r)]
  /\ Op(r) \in {"status", "update"} /\ "tenant" \notin Left(r.todo) =>
       r.seen \in Statuses /\ status[On(r)] # "none"

Facts == \A r \in reqs : Known(r)

Keeps ==
  /\ \A u \in Users : home[u] # "none" => home'[u] = home[u]
  /\ \A s \in Slugs : status[s] # "none" => status'[s] # "none"
  /\ roles \subseteq roles'
  /\ \A i \in DOMAIN asked : asked'[i] = asked[i]

LEMMA Start2 == ASSUME Init PROVE Facts
BY DEF Init, Facts

\* Who writes what.
LEMMA Quiet ==
  ASSUME NEW r \in reqs, Serve(r)
  PROVE  \/ Register(r) \/ InsertTenant(r) \/ SeedTenant(r) \/ change_tenant_status(r)
         \/ update_tenant_fields(r) \/ ReplaceRoles(r) \/ Show(r) \/ UNCHANGED <<data, shown>>
BY DEF Serve, Check, get_current_user, require_permission, IsFree, IsSlugFree, get_tenant_or_404, Target,
   Current, Fail

\* Who is there.
LEMMA Accounted ==
  ASSUME Data, NEW u \in Users, NEW s \in Slugs \cup {"none"}
  PROVE  /\ get_user("none", u) = {} => home[u] = "none"
         /\ get_user(s, u) # {} => home[u] # "none" /\ (s # "none" => home[u] = s)
<1>1. home[u] # "none" => Account(u) \in get_user("none", u)
  BY DEF get_user, Sees, Accounts, Account
<1>2. ASSUME NEW a \in get_user(s, u)
      PROVE  home[u] # "none" /\ (s # "none" => home[u] = s)
  <2>1. a \in Accounts /\ a.user = u /\ (s = "none" \/ a.tenant = s) BY <1>2 DEF get_user, Sees
  <2>2. PICK v \in Users : home[v] # "none" /\ a = [tenant |-> home[v], user |-> v]
    BY <2>1 DEF Accounts, Account
  <2> QED BY <2>1, <2>2
<1> QED BY <1>1, <1>2

\* A registration that is granted.
LEMMA RegisterIs ==
  ASSUME Shape, Data, Facts, NEW r \in reqs, Register(r)
  PROVE  /\ Op(r) = "register" /\ On(r) \in Users
         /\ \/ UNCHANGED <<home, grants>> /\ Answered(r, "409")
            \/ /\ home[On(r)] = "none" /\ home' = [home EXCEPT ![On(r)] = Default]
               /\ \E x \in roles : x.tenant = Default /\ grants' = grants \cup {Grant(On(r), x)}
               /\ Answered(r, "ok")
         /\ UNCHANGED <<status, limits, roles, asked, shown, crossed>>
<1>1. Op(r) = "register" /\ Head(r.todo) = "insert" /\ On(r) \in Users
  BY RequestIs DEF Register, At
<1>2. "free" \notin Left(r.todo)
  <2>1. Well(Op(r), r.todo) BY RequestIs
  <2>2. Rank["insert"] > 3 BY DEF Rank
  <2> QED BY <1>1, <2>1, <2>2, Order
<1>3. r.scope = Default /\ Default # "none" /\ Default \in Slugs BY <1>1, <1>2, StepSets DEF Facts, Known
<1>4. Injected(r.scope) = Default BY <1>3 DEF Injected
<1>5. \A x \in get_role_by_name(r.scope, "member") : x \in roles /\ x.tenant = Default
  BY <1>3 DEF get_role_by_name, Sees
<1>6. get_user("none", On(r)) = {} => home[On(r)] = "none" BY <1>1, Accounted
<1>7. UNCHANGED <<status, limits, roles, asked, shown, crossed>> BY DEF Register
<1>8. CASE get_user("none", On(r)) = {}
  <2>1. PICK x \in get_role_by_name(r.scope, "member") :
            /\ home' = [home EXCEPT ![On(r)] = Injected(r.scope)]
            /\ grants' = grants \cup {Grant(On(r), x)}
            /\ Answer(r, "ok")
    BY <1>8 DEF Register
  <2>2. x \in roles /\ x.tenant = Default BY <1>5
  <2> QED BY <1>1, <1>4, <1>6, <1>7, <1>8, <2>1, <2>2 DEF Answer, Answered
<1>9. CASE get_user("none", On(r)) # {}
  BY <1>1, <1>7, <1>9 DEF Register, Answer, Answered
<1> QED BY <1>8, <1>9

\* A change of status that is granted.
LEMMA ChangeIs ==
  ASSUME Shape, Data, Facts, NEW r \in reqs, change_tenant_status(r)
  PROVE  /\ Op(r) = "status" /\ On(r) \in Slugs /\ r.seen \in Statuses /\ status[On(r)] # "none"
         /\ \/ status' = status
            \/ \E to \in Statuses : /\ to \in ALLOWED_TENANT_TRANSITIONS[r.seen]
                                    /\ status' = [status EXCEPT ![On(r)] = to]
         /\ UNCHANGED <<limits, roles, home, grants, asked, shown, crossed>>
<1>1. Op(r) = "status" /\ Head(r.todo) = "commit" BY DEF change_tenant_status, Commit, At
<1>2. On(r) \in Slugs /\ Well(Op(r), r.todo) BY <1>1, RequestIs
<1>3. "tenant" \notin Left(r.todo)
  <2>1. Rank["commit"] > 3 BY DEF Rank
  <2> QED BY <1>1, <1>2, <2>1, Order
<1>4. r.seen \in Statuses /\ status[On(r)] # "none" BY <1>1, <1>3 DEF Facts, Known
<1>5. \A to \in ALLOWED_TENANT_TRANSITIONS[r.seen] : to \in Statuses
  BY <1>4 DEF ALLOWED_TENANT_TRANSITIONS, Statuses
<1> QED BY <1>1, <1>2, <1>4, <1>5 DEF change_tenant_status

LEMMA Kept ==
  ASSUME Shape, Data, Facts, [Next]_vars
  PROVE  Keeps
<1>1. CASE UNCHANGED vars BY <1>1 DEF vars, Keeps
<1>2. ASSUME NEW q \in Requests, Submit(q) PROVE Keeps
  <2>1. UNCHANGED data /\ \A i \in DOMAIN asked : asked'[i] = asked[i] BY <1>2, Submitted
  <2> QED BY <2>1 DEF data, Keeps
<1>3. ASSUME NEW r \in reqs, Serve(r) PROVE Keeps
  <2>1. asked' = asked BY <1>3, Kinds
  <2>2. CASE Register(r)
    <3>1. UNCHANGED <<status, roles>> /\ (home' = home \/ (home[On(r)] = "none"
            /\ home' = [home EXCEPT ![On(r)] = Default]))
      BY <2>2, RegisterIs
    <3> QED BY <2>1, <3>1 DEF Keeps, Data
  <2>3. CASE InsertTenant(r)
    <3>1. UNCHANGED <<home, roles>> /\ (status' = status \/ status' = [status EXCEPT ![On(r)] = "active"])
      BY <2>3 DEF InsertTenant
    <3> QED BY <2>1, <3>1 DEF Keeps, Data
  <2>4. CASE SeedTenant(r)
    <3>1. UNCHANGED <<home, status>> /\ roles \subseteq roles' BY <2>4 DEF SeedTenant
    <3> QED BY <2>1, <3>1 DEF Keeps
  <2>5. CASE change_tenant_status(r)
    <3>1. UNCHANGED <<home, roles>> /\ (status' = status
            \/ \E to \in Statuses : status' = [status EXCEPT ![On(r)] = to])
      BY <2>5, ChangeIs
    <3>2. "none" \notin Statuses BY DEF Statuses
    <3> QED BY <2>1, <3>1, <3>2 DEF Keeps, Data
  <2>6. CASE update_tenant_fields(r) \/ ReplaceRoles(r) \/ Show(r) \/ UNCHANGED <<data, shown>>
    <3>1. UNCHANGED <<home, roles, status>> BY <2>6 DEF update_tenant_fields, ReplaceRoles, Show, data
    <3> QED BY <2>1, <3>1 DEF Keeps
  <2> QED BY <1>3, <2>2, <2>3, <2>4, <2>5, <2>6, Quiet
<1> QED BY <1>1, <1>2, <1>3 DEF Next

\* A replacement that is granted.
LEMMA ReplaceIs ==
  ASSUME Shape, Data, Facts, NEW r \in reqs, ReplaceRoles(r)
  PROVE  /\ Op(r) = "replace" /\ On(r) \in Users /\ Head(r.todo) = "commit"
         /\ home[User(r)] \in Slugs /\ home[On(r)] = home[User(r)] /\ User(r) # On(r)
         /\ \A n \in asked[r.n].to : \E x \in Wanted(r) : x.name = n
         /\ \A x \in Wanted(r) \cup r.current : x.tenant = home[On(r)]
         /\ Wanted(r) \subseteq roles /\ r.current \subseteq Role
         /\ \/ UNCHANGED grants /\ Answered(r, "500")
            \/ /\ grants' = (grants \ {Grant(On(r), x) : x \in r.current \ Wanted(r)})
                            \cup {Grant(On(r), x) : x \in Wanted(r) \ r.current}
               /\ Answered(r, "ok")
         /\ UNCHANGED <<status, limits, roles, home, asked, shown, crossed>>
<1>1. Op(r) = "replace" /\ Head(r.todo) = "commit" BY DEF ReplaceRoles, Commit, At
<1>2. On(r) \in Users /\ User(r) \in Users /\ Well(Op(r), r.todo) /\ r \in Request BY <1>1, RequestIs
<1>3. "user" \notin Left(r.todo) /\ "target" \notin Left(r.todo) /\ "current" \notin Left(r.todo)
  <2>1. Rank["commit"] > 4 /\ Rank["commit"] > 3 BY DEF Rank
  <2> QED BY <1>1, <1>2, <2>1, Order
<1>4. /\ r.scope = home[User(r)] /\ home[User(r)] # "none" /\ home[User(r)] \in Slugs
      /\ User(r) # On(r) /\ home[On(r)] = home[User(r)]
      /\ \A n \in asked[r.n].to : \E x \in roles : x.tenant = home[User(r)] /\ x.name = n
      /\ \A x \in r.current : x \in Role /\ x.tenant = home[User(r)]
  BY <1>1, <1>2, <1>3 DEF Facts, Known, Data
<1>5. /\ \A x \in Wanted(r) : x \in roles /\ x.tenant = home[On(r)]
      /\ \A n \in asked[r.n].to : \E x \in Wanted(r) : x.name = n
  <2>1. Wanted(r) = {x \in roles : x.tenant = r.scope /\ x.name \in asked[r.n].to}
    BY <1>4, StepSets DEF Wanted, Sees
  <2> QED BY <1>4, <2>1
<1>6. /\ \/ UNCHANGED grants /\ Answered(r, "500")
         \/ /\ grants' = (grants \ {Grant(On(r), x) : x \in r.current \ Wanted(r)})
                         \cup {Grant(On(r), x) : x \in Wanted(r) \ r.current}
            /\ Answered(r, "ok")
      /\ UNCHANGED <<status, limits, roles, home, asked, shown, crossed>>
  BY DEF ReplaceRoles, Answer, Answered
<1> QED BY <1>1, <1>2, <1>4, <1>5, <1>6

LEMMA SeedIs ==
  ASSUME Shape, Data, NEW r \in reqs, SeedTenant(r)
  PROVE  /\ Op(r) = "create" /\ On(r) \in Slugs /\ Answered(r, "ok")
         /\ roles \subseteq roles' /\ Seeded(On(r)) \subseteq roles'
         /\ \A x \in roles' \ roles : x \in Role
         /\ UNCHANGED <<status, limits, home, grants, asked, shown, crossed>>
<1>1. Op(r) = "create" /\ On(r) \in Slugs
  BY OpOf, RequestIs DEF SeedTenant, At
<1>2. On(r) # "none" /\ Injected(On(r)) = On(r) BY <1>1, StepSets DEF Injected
<1>3. roles' = roles \cup {[tenant |-> On(r), name |-> n] :
                             n \in {n \in Names : get_role_by_name(On(r), n) = {}}}
  BY <1>2 DEF SeedTenant
<1>4. ASSUME NEW n \in Names PROVE [tenant |-> On(r), name |-> n] \in roles'
  <2>1. \A x \in get_role_by_name(On(r), n) : x = [tenant |-> On(r), name |-> n] /\ x \in roles
    BY <1>2 DEF get_role_by_name, Sees, Data, Role
  <2> QED BY <1>3, <2>1
<1>5. UNCHANGED <<status, limits, home, grants, asked, shown, crossed>> /\ Answered(r, "ok")
  BY DEF SeedTenant, Answer, Answered
<1>6. \A x \in roles' \ roles : x \in Role BY <1>1, <1>3 DEF Role
<1>7. Seeded(On(r)) \subseteq roles' BY <1>4 DEF Seeded
<1> QED BY <1>1, <1>3, <1>5, <1>6, <1>7

LEMMA DataStep ==
  ASSUME Shape, Data, Facts, [Next]_vars
  PROVE  Data'
<1>1. CASE UNCHANGED vars BY <1>1 DEF vars, Data
<1>2. ASSUME NEW q \in Requests, Submit(q) PROVE Data'
  BY <1>2, Submitted DEF data, Data
<1>3. ASSUME NEW r \in reqs, Serve(r) PROVE Data'
  <2>1. CASE Register(r)
    <3>1. UNCHANGED <<status, limits, roles>> /\ On(r) \in Users BY <2>1, RegisterIs
    <3>2. CASE UNCHANGED <<home, grants>> BY <3>1, <3>2 DEF Data
    <3>3. CASE /\ home' = [home EXCEPT ![On(r)] = Default]
               /\ \E x \in roles : grants' = grants \cup {Grant(On(r), x)}
      <4>1. PICK x \in roles : grants' = grants \cup {Grant(On(r), x)} BY <3>3
      <4>2. \A g \in grants' : g.user \in Users /\ g.role \in Role /\ g = Grant(g.user, g.role)
        BY <3>1, <4>1 DEF Data, Grant
      <4> QED BY <3>1, <3>3, <4>2, StepSets DEF Data
    <3> QED BY <2>1, <3>2, <3>3, RegisterIs
  <2>2. CASE InsertTenant(r)
    <3>1. UNCHANGED <<limits, home, roles, grants>>
          /\ (status' = status \/ status' = [status EXCEPT ![On(r)] = "active"])
      BY <2>2 DEF InsertTenant
    <3> QED BY <3>1 DEF Data, Statuses
  <2>3. CASE SeedTenant(r)
    <3>1. UNCHANGED <<status, limits, home, grants>> /\ \A x \in roles' \ roles : x \in Role
      BY <2>3, SeedIs
    <3>2. roles' \subseteq Role BY <3>1 DEF Data
    <3> QED BY <3>1, <3>2 DEF Data
  <2>4. CASE change_tenant_status(r)
    <3>1. UNCHANGED <<limits, home, roles, grants>> /\ (status' = status
            \/ \E to \in Statuses : status' = [status EXCEPT ![On(r)] = to])
      BY <2>4, ChangeIs
    <3> QED BY <3>1 DEF Data
  <2>5. CASE update_tenant_fields(r)
    <3>1. UNCHANGED <<status, home, roles, grants>>
          /\ (limits' = limits \/ limits' = [limits EXCEPT ![On(r)] = "changed"])
      BY <2>5 DEF update_tenant_fields
    <3> QED BY <3>1 DEF Data
  <2>6. CASE ReplaceRoles(r)
    <3>1. UNCHANGED <<status, limits, home, roles>> /\ On(r) \in Users BY <2>6, ReplaceIs
    <3>2. \A g \in grants' : g \in grants \/ \E x \in roles : g = Grant(On(r), x)
      BY <2>6, ReplaceIs
    <3>3. \A g \in grants' : g.user \in Users /\ g.role \in Role /\ g = Grant(g.user, g.role)
      BY <3>1, <3>2 DEF Data, Grant
    <3> QED BY <3>1, <3>3 DEF Data
  <2>7. CASE Show(r) \/ UNCHANGED <<data, shown>>
    <3>1. UNCHANGED <<status, limits, home, roles, grants>> BY <2>7 DEF Show, data
    <3> QED BY <3>1 DEF Data
  <2> QED BY <1>3, <2>1, <2>2, <2>3, <2>4, <2>5, <2>6, <2>7, Quiet
<1> QED BY <1>1, <1>2, <1>3 DEF Next

\* A request that is left alone goes on knowing what it knew.
LEMMA KnownKept ==
  ASSUME Shape, Data, Keeps, NEW r \in reqs, Known(r)
  PROVE  /\ Known(r)' /\ Op(r)' = Op(r) /\ On(r)' = On(r) /\ User(r)' = User(r)
<1>1. asked'[r.n] = asked[r.n] BY RequestIs DEF Keeps
<1>2. Op(r)' = Op(r) /\ On(r)' = On(r) /\ User(r)' = User(r) BY <1>1 DEF Op, On, User
<1>3. User(r) \in Users /\ (Op(r) = "replace" => On(r) \in Users)
      /\ (Op(r) \in {"status", "update"} => On(r) \in Slugs)
  BY RequestIs
<1>4. Op(r) # "register" /\ "user" \notin Left(r.todo) =>
        r.scope = home'[User(r)] /\ home'[User(r)] # "none"
  BY <1>3 DEF Known, Keeps
<1>5. Op(r) = "replace" /\ "target" \notin Left(r.todo) =>
        /\ home'[User(r)] # "none" /\ User(r) # On(r) /\ home'[On(r)] = home'[User(r)]
        /\ home'[User(r)] = home[User(r)]
        /\ \A n \in asked[r.n].to : \E x \in roles' : x.tenant = home'[User(r)] /\ x.name = n
  BY <1>3 DEF Known, Keeps
<1>6. Op(r) = "replace" /\ "current" \notin Left(r.todo) =>
        \A x \in r.current : x \in Role /\ x.tenant = home'[User(r)]
  <2>1. ASSUME NEW x \in r.current, Op(r) = "replace", "current" \notin Left(r.todo)
        PROVE  x \in Role /\ x.tenant = home'[User(r)]
    <3>1. x \in Role /\ x.tenant = home[User(r)] BY <2>1 DEF Known
    <3>2. home[User(r)] # "none" BY <3>1, StepSets DEF Role
    <3> QED BY <1>3, <3>1, <3>2 DEF Keeps
  <2> QED BY <2>1
<1>7. Op(r) \in {"status", "update"} /\ "tenant" \notin Left(r.todo) =>
        r.seen \in Statuses /\ status'[On(r)] # "none"
  BY <1>3 DEF Known, Keeps
<1>8. Op(r) = "register" /\ "free" \notin Left(r.todo) => r.scope = Default BY DEF Known
<1> QED BY <1>1, <1>2, <1>4, <1>5, <1>6, <1>7, <1>8 DEF Known

\* A request that passes a step knows what that step asked.
LEMMA KnownMoved ==
  ASSUME Shape, Data, Keeps, NEW r \in reqs, Known(r), NEW x \in Request, Moves(r, x)
  PROVE  Known(x)'
<1> DEFINE at == Head(r.todo)
<1>1. asked'[x.n] = asked[r.n] BY RequestIs DEF Keeps, Moves
<1>2. Op(x)' = Op(r) /\ On(x)' = On(r) /\ User(x)' = User(r) BY <1>1 DEF Op, On, User
<1>3. /\ User(r) \in Users /\ Op(r) \in Ops /\ Well(Op(r), r.todo) /\ r \in Request
      /\ (Op(r) = "replace" => On(r) \in Users)
      /\ (Op(r) \in {"status", "update"} => On(r) \in Slugs)
  BY RequestIs
<1>4. Left(r.todo) \subseteq Left(x.todo) \cup {at} BY <1>3, WellTail DEF Moves
<1>5. at = "free" => Op(r) = "register" BY OpOf
<1>6. at = "user" => Op(r) # "register" BY OpOf
<1>7. Op(r) # "register" /\ at # "user" /\ "user" \notin Left(r.todo) =>
        r.scope = home[User(r)] /\ home[User(r)] # "none"
  BY DEF Known
<1>8. at \in Left(r.todo) /\ (at # "user" => "user" \notin Left(r.todo)) BY <1>3, RequestIs, Order
<1>9. Op(r) # "register" /\ "user" \notin Left(x.todo) =>
        x.scope = home'[User(r)] /\ home'[User(r)] # "none"
  <2> SUFFICES ASSUME Op(r) # "register", "user" \notin Left(x.todo)
               PROVE  x.scope = home[User(r)] /\ home[User(r)] # "none"
    BY <1>3 DEF Keeps
  <2>1. CASE at = "user" BY <2>1 DEF Moves
  <2>2. CASE at # "user" BY <1>5, <1>7, <1>8, <2>2 DEF Moves
  <2> QED BY <2>1, <2>2
<1>10. Op(r) = "register" /\ "free" \notin Left(x.todo) => x.scope = Default
  <2> SUFFICES ASSUME Op(r) = "register", "free" \notin Left(x.todo) PROVE x.scope = Default
    OBVIOUS
  <2>1. CASE at = "free" BY <2>1 DEF Moves
  <2>2. CASE at # "free" BY <1>4, <1>6, <2>2 DEF Moves, Known
  <2> QED BY <2>1, <2>2
<1>11. Op(r) = "replace" /\ "target" \notin Left(x.todo) =>
         /\ home'[User(r)] # "none" /\ User(r) # On(r) /\ home'[On(r)] = home'[User(r)]
         /\ \A n \in asked[r.n].to : \E z \in roles' : z.tenant = home'[User(r)] /\ z.name = n
  <2> SUFFICES ASSUME Op(r) = "replace", "target" \notin Left(x.todo)
               PROVE  /\ home[User(r)] # "none" /\ User(r) # On(r) /\ home[On(r)] = home[User(r)]
                      /\ \A n \in asked[r.n].to : \E z \in roles : z.tenant = home[User(r)] /\ z.name = n
    BY <1>3 DEF Keeps
  <2>1. CASE at = "target"
    <3>1. r.scope = home[User(r)] /\ home[User(r)] # "none" BY <1>7, <1>8, <2>1
    <3>2. /\ User(r) # On(r) /\ get_user(r.scope, On(r)) # {}
          /\ \A n \in asked[r.n].to : get_role_by_name(r.scope, n) # {}
      BY <2>1 DEF Moves
    <3>3. r.scope \in Slugs \cup {"none"} BY <1>3 DEF Request
    <3>4. home[On(r)] = home[User(r)] BY <1>3, <3>1, <3>2, <3>3, Accounted
    <3>5. ASSUME NEW n \in asked[r.n].to PROVE \E z \in roles : z.tenant = home[User(r)] /\ z.name = n
      <4>1. get_role_by_name(r.scope, n) # {} BY <3>2
      <4> QED BY <3>1, <4>1 DEF get_role_by_name, Sees
    <3> QED BY <3>1, <3>2, <3>4, <3>5
  <2>2. CASE at # "target" BY <1>4, <2>2 DEF Known
  <2> QED BY <2>1, <2>2
<1>12. Op(r) = "replace" /\ "current" \notin Left(x.todo) =>
         \A z \in x.current : z \in Role /\ z.tenant = home'[User(r)]
  <2> SUFFICES ASSUME Op(r) = "replace", "current" \notin Left(x.todo), NEW z \in x.current
               PROVE  z \in Role /\ z.tenant = home'[User(r)]
    OBVIOUS
  <2>1. z \in Role /\ z.tenant = home[User(r)]
    <3>1. CASE at = "current"
      <4>1. r.scope = home[User(r)] /\ home[User(r)] # "none" BY <1>7, <1>8, <3>1
      <4>2. z \in get_user_roles(r.scope, On(r)) BY <3>1 DEF Moves
      <4>3. PICK g \in grants : g.role = z /\ g.tenant = r.scope
        BY <4>1, <4>2 DEF get_user_roles, Sees
      <4>4. g.role \in Role /\ g = Grant(g.user, g.role) BY DEF Data
      <4>5. g.tenant = g.role.tenant BY <4>4 DEF Grant
      <4> QED BY <4>1, <4>3, <4>4, <4>5
    <3>2. CASE at # "current"
      <4>1. x.current = r.current /\ "current" \notin Left(r.todo) BY <1>4, <3>2 DEF Moves
      <4> QED BY <4>1 DEF Known
    <3> QED BY <3>1, <3>2
  <2>2. home[User(r)] # "none" BY <2>1, StepSets DEF Role
  <2> QED BY <1>3, <2>1, <2>2 DEF Keeps
<1>13. Op(r) \in {"status", "update"} /\ "tenant" \notin Left(x.todo) =>
         x.seen \in Statuses /\ status'[On(r)] # "none"
  <2> SUFFICES ASSUME Op(r) \in {"status", "update"}, "tenant" \notin Left(x.todo)
               PROVE  x.seen \in Statuses /\ status[On(r)] # "none"
    BY <1>3 DEF Keeps
  <2>1. CASE at = "tenant"
    <3>1. x.seen = status[On(r)] /\ status[On(r)] # "none" BY <2>1 DEF Moves
    <3> QED BY <1>3, <3>1 DEF Data
  <2>2. CASE at # "tenant" BY <1>4, <2>2 DEF Known, Moves
  <2> QED BY <2>1, <2>2
<1> QED BY <1>1, <1>2, <1>9, <1>10, <1>11, <1>12, <1>13 DEF Known

LEMMA FactsStep ==
  ASSUME Shape, Data, Facts, [Next]_vars
  PROVE  Facts'
<1>0. Keeps BY Kept
<1>1. ASSUME NEW x \in reqs', x \in reqs PROVE Known(x)' BY <1>0, <1>1, KnownKept DEF Facts
<1>2. CASE UNCHANGED vars
  <2>1. reqs' = reqs BY <1>2 DEF vars
  <2> QED BY <1>1, <2>1 DEF Facts
<1>3. ASSUME NEW q \in Requests, Submit(q) PROVE Facts'
  <2>1. PICK x \in Request : x.n = Len(asked) + 1 /\ x.todo = Path[q.op] /\ reqs' = reqs \cup {x}
    BY <1>3, Submitted
  <2>2. asked'[Len(asked) + 1] = q BY <1>3, Submitted
  <2>3. Op(x)' = q.op BY <2>1, <2>2 DEF Op
  <2>4. /\ q.op # "register" => "user" \in Left(x.todo)
        /\ q.op = "register" => "free" \in Left(x.todo)
        /\ q.op = "replace" => "target" \in Left(x.todo) /\ "current" \in Left(x.todo)
        /\ q.op \in {"status", "update"} => "tenant" \in Left(x.todo)
    BY <2>1, Paths, AskedIs
  <2>5. Known(x)' BY <2>3, <2>4 DEF Known
  <2> QED BY <1>1, <2>1, <2>5 DEF Facts
<1>4. ASSUME NEW r \in reqs, Serve(r) PROVE Facts'
  <2>1. CASE Resumed(r)
    <3>1. PICK x \in Request : Moves(r, x) /\ reqs' = (reqs \ {r}) \cup {x} BY <2>1 DEF Resumed
    <3>2. Known(x)' BY <1>0, <3>1, KnownMoved DEF Facts
    <3> QED BY <1>1, <3>1, <3>2 DEF Facts
  <2>2. CASE \E code \in Codes : Answered(r, code)
    <3>1. reqs' \subseteq reqs BY <2>2 DEF Answered
    <3> QED BY <1>1, <3>1 DEF Facts
  <2> QED BY <1>4, <2>1, <2>2, Kinds
<1> QED BY <1>2, <1>3, <1>4 DEF Next

AccessInv == Shape /\ Data /\ Facts

LEMMA AccessHolds == Spec => []AccessInv
<1>1. Init => AccessInv BY Start, Start2 DEF AccessInv
<1>2. AccessInv /\ [Next]_vars => AccessInv'
  <2> SUFFICES ASSUME AccessInv, [Next]_vars PROVE AccessInv' OBVIOUS
  <2>1. Shape'
    <3>1. CASE UNCHANGED vars BY <3>1 DEF vars, AccessInv, Shape, Op
    <3>2. CASE Next BY <3>2, ShapeSubmit, ShapeServe DEF AccessInv, Next
    <3> QED BY <3>1, <3>2
  <2> QED BY <2>1, DataStep, FactsStep DEF AccessInv
<1> QED BY <1>1, <1>2, PTL DEF Spec

-----------------------------------------------------------------------------
(***************************************************************************)
(* Tenants are apart.                                                      *)
(***************************************************************************)
Granted == \A g \in grants : g.tenant = home[g.user] /\ g.role.tenant = home[g.user] /\ g.role \in roles

Shown == \A s \in shown : s.to \in Users /\ s.tenant \in Slugs /\ s.tenant = home[s.to]

\* A tenant without its roles is one whose creation goes on, or was cut off.
Unseeded(s) ==
  \E i \in DOMAIN asked :
    /\ asked[i].op = "create" /\ asked[i].on = s
    /\ answers[i] = "died" \/ \E r \in reqs : r.n = i /\ Head(r.todo) = "seed"

Born == \A s \in Slugs : status[s] # "none" => Seeded(s) \subseteq roles \/ Unseeded(s)

Roled == \A u \in Users : home[u] # "none" /\ RolesOf(u) = {} =>
           \E i \in DOMAIN asked : asked[i].op = "replace" /\ asked[i].on = u

ApartInv == Granted /\ Shown /\ Born /\ Roled

LEMMA ApartStart == ASSUME Init PROVE ApartInv
<1> DEFINE there == {Default} \cup ({Home[u] : u \in Users} \ {"none"})
           As(u) == [tenant |-> Home[u], name |-> IF u \in Admins THEN "admin" ELSE "member"]
<1>1. /\ roles = UNION {Seeded(s) : s \in there} /\ home = Home /\ shown = {}
      /\ grants = {Grant(u, As(u)) : u \in {v \in Users : Home[v] # "none"}}
      /\ status = [s \in Slugs |-> IF s \in there THEN "active" ELSE "none"]
  BY DEF Init
<1>2. ASSUME NEW u \in Users, Home[u] # "none" PROVE As(u) \in roles
  <2>1. Home[u] \in there BY <1>2
  <2>2. As(u) \in Seeded(Home[u]) BY DEF Seeded, Names
  <2> QED BY <1>1, <2>1, <2>2
<1>3. Granted
  <2> SUFFICES ASSUME NEW g \in grants
               PROVE  g.tenant = home[g.user] /\ g.role.tenant = home[g.user] /\ g.role \in roles
    BY DEF Granted
  <2>1. PICK u \in Users : Home[u] # "none" /\ g = Grant(u, As(u)) BY <1>1
  <2> QED BY <1>1, <1>2, <2>1 DEF Grant
<1>4. Born
  <2> SUFFICES ASSUME NEW s \in Slugs, status[s] # "none" PROVE Seeded(s) \subseteq roles BY DEF Born
  <2>1. s \in there BY <1>1
  <2> QED BY <1>1, <2>1
<1>5. Roled
  <2> SUFFICES ASSUME NEW u \in Users, home[u] # "none" PROVE RolesOf(u) # {} BY DEF Roled
  <2>1. Grant(u, As(u)) \in grants BY <1>1
  <2>2. Grant(u, As(u)).user = u BY DEF Grant
  <2> QED BY <2>1, <2>2 DEF RolesOf
<1>6. Shown BY <1>1 DEF Shown
<1> QED BY <1>3, <1>4, <1>5, <1>6 DEF ApartInv

LEMMA GrantedStep ==
  ASSUME AccessInv, Granted, [Next]_vars
  PROVE  Granted'
<1>0. Shape /\ Data /\ Facts BY DEF AccessInv
<1>1. Keeps BY <1>0, Kept
<1>2. ASSUME NEW g \in grants PROVE g.tenant = home'[g.user] /\ g.role.tenant = home'[g.user] /\ g.role \in roles'
  <2>1. g.tenant = home[g.user] /\ g.role.tenant = home[g.user] /\ g.role \in roles BY DEF Granted
  <2>2. g.user \in Users /\ g.role \in Role BY <1>0 DEF Data
  <2>3. home[g.user] # "none" BY <2>1, <2>2, StepSets DEF Role
  <2> QED BY <1>1, <2>1, <2>2, <2>3 DEF Keeps
<1>3. CASE grants' \subseteq grants BY <1>2, <1>3 DEF Granted
<1>4. ASSUME NEW r \in reqs, Serve(r) PROVE Granted'
  <2>1. CASE Register(r)
    <3>1. CASE UNCHANGED grants BY <1>3, <3>1
    <3>2. CASE /\ home' = [home EXCEPT ![On(r)] = Default]
               /\ \E x \in roles : x.tenant = Default /\ grants' = grants \cup {Grant(On(r), x)}
      <4>1. PICK x \in roles : x.tenant = Default /\ grants' = grants \cup {Grant(On(r), x)} BY <3>2
      <4>2. home'[On(r)] = Default BY <1>0, <2>1, <3>2, RegisterIs DEF Data
      <4>3. x \in roles' BY <1>1 DEF Keeps
      <4>4. Grant(On(r), x).tenant = Default /\ Grant(On(r), x).role = x /\ Grant(On(r), x).user = On(r)
        BY <4>1 DEF Grant
      <4> QED BY <1>2, <4>1, <4>2, <4>3, <4>4 DEF Granted
    <3> QED BY <1>0, <2>1, <3>1, <3>2, RegisterIs
  <2>2. CASE ReplaceRoles(r)
    <3>1. /\ \A x \in Wanted(r) : x \in roles /\ x.tenant = home[On(r)]
          /\ \A g \in grants' : g \in grants \/ \E x \in Wanted(r) : g = Grant(On(r), x)
          /\ UNCHANGED <<home, roles>>
      BY <1>0, <2>2, ReplaceIs
    <3>2. \A x \in Wanted(r) : LET g == Grant(On(r), x)
                               IN g.tenant = home'[g.user] /\ g.role.tenant = home'[g.user] /\ g.role \in roles'
      BY <3>1 DEF Grant
    <3> QED BY <1>2, <3>1, <3>2 DEF Granted
  <2>3. CASE \/ InsertTenant(r) \/ SeedTenant(r) \/ change_tenant_status(r) \/ update_tenant_fields(r)
             \/ Show(r) \/ UNCHANGED <<data, shown>>
    <3>1. grants' = grants
      BY <2>3 DEF InsertTenant, SeedTenant, change_tenant_status, update_tenant_fields, Show, data
    <3> QED BY <1>3, <3>1
  <2> QED BY <1>4, <2>1, <2>2, <2>3, Quiet
<1>5. ASSUME NEW q \in Requests, Submit(q) PROVE Granted' BY <1>0, <1>3, <1>5, Submitted DEF data
<1>6. CASE UNCHANGED vars BY <1>3, <1>6 DEF vars
<1> QED BY <1>4, <1>5, <1>6 DEF Next

LEMMA ShownStep ==
  ASSUME AccessInv, Granted, Shown, [Next]_vars
  PROVE  Shown'
<1>0. Shape /\ Data /\ Facts BY DEF AccessInv
<1>1. Keeps BY <1>0, Kept
<1>2. \A s \in shown : s.to \in Users /\ s.tenant \in Slugs /\ s.tenant = home'[s.to]
  BY <1>1, StepSets DEF Shown, Keeps
<1>3. CASE shown' = shown BY <1>2, <1>3 DEF Shown
<1>4. ASSUME NEW r \in reqs, Show(r) PROVE Shown'
  <2>1. Head(r.todo) = "show" /\ home' = home BY <1>4 DEF Show, At, data
  <2>2. Op(r) \in {"users", "matrix"} /\ User(r) \in Users /\ Well(Op(r), r.todo)
    BY <1>0, <2>1, OpOf, RequestIs
  <2>3. "user" \notin Left(r.todo) BY <2>1, <2>2, Order
  <2>4. r.scope = home[User(r)] /\ home[User(r)] # "none" /\ home[User(r)] \in Slugs
    BY <1>0, <2>2, <2>3 DEF Facts, Known, Data
  <2> DEFINE rows == IF Op(r) = "users" THEN Sees(r.scope, Accounts) \cup Sees(r.scope, grants)
                     ELSE Sees(r.scope, roles)
  <2>5. /\ shown' = shown \cup {[to |-> User(r), tenant |-> x.tenant] : x \in rows}
        /\ \A x \in rows : x.tenant = r.scope
    BY <1>4, <2>4 DEF Show, Sees
  <2> HIDE DEF rows
  <2>6. \A x \in rows : x.tenant = home'[User(r)] /\ x.tenant \in Slugs BY <2>1, <2>4, <2>5
  <2> QED BY <1>2, <2>2, <2>5, <2>6 DEF Shown
<1>5. ASSUME NEW r \in reqs, Serve(r) PROVE Shown'
  <2>1. CASE \/ Register(r) \/ InsertTenant(r) \/ SeedTenant(r) \/ change_tenant_status(r)
             \/ update_tenant_fields(r) \/ ReplaceRoles(r) \/ UNCHANGED <<data, shown>>
    <3>1. shown' = shown
      BY <2>1 DEF Register, InsertTenant, SeedTenant, change_tenant_status, update_tenant_fields,
         ReplaceRoles
    <3> QED BY <1>3, <3>1
  <2> QED BY <1>4, <1>5, <2>1, Quiet
<1>6. ASSUME NEW q \in Requests, Submit(q) PROVE Shown' BY <1>0, <1>3, <1>6, Submitted
<1>7. CASE UNCHANGED vars BY <1>3, <1>7 DEF vars
<1> QED BY <1>5, <1>6, <1>7 DEF Next

\* What a creation that is served next does, once the tenant is there.
LEMMA AtSeed ==
  ASSUME NEW r \in reqs, Serve(r), Head(r.todo) = "seed"
  PROVE  SeedTenant(r) \/ Fail(r)
BY DEF Serve, Check, At, get_current_user, require_permission, IsFree, Register, IsSlugFree, InsertTenant,
   get_tenant_or_404, change_tenant_status, update_tenant_fields, Target, Current, ReplaceRoles, Commit,
   Show

LEMMA UnseededStep ==
  ASSUME AccessInv, NEW s \in Slugs, Unseeded(s), [Next]_vars
  PROVE  Seeded(s) \subseteq roles' \/ Unseeded(s)'
<1>0. Shape /\ Data /\ Facts BY DEF AccessInv
<1>1. PICK i \in DOMAIN asked :
        /\ asked[i].op = "create" /\ asked[i].on = s
        /\ answers[i] = "died" \/ \E r \in reqs : r.n = i /\ Head(r.todo) = "seed"
  BY DEF Unseeded
<1>2. CASE UNCHANGED vars
  <2>1. reqs' = reqs /\ asked' = asked /\ answers' = answers BY <1>2 DEF vars
  <2> QED BY <1>1, <2>1 DEF Unseeded
<1>3. ASSUME NEW q \in Requests, Submit(q) PROVE Unseeded(s)'
  <2>1. /\ i \in DOMAIN asked' /\ asked'[i] = asked[i] /\ answers'[i] = answers[i] /\ reqs \subseteq reqs'
    BY <1>0, <1>3, Submitted
  <2> QED BY <1>1, <2>1 DEF Unseeded
<1>4. ASSUME NEW r \in reqs, Serve(r) PROVE Seeded(s) \subseteq roles' \/ Unseeded(s)'
  <2>1. asked' = asked /\ (Resumed(r) \/ \E code \in Codes : Answered(r, code)) BY <1>0, <1>4, Kinds
  <2>2. r.n \in DOMAIN asked /\ answers[r.n] = "none" BY <1>0 DEF Shape
  <2>3. reqs \ {r} \subseteq reqs' /\ \A j \in DOMAIN asked \ {r.n} : answers'[j] = answers[j]
    <3>1. DOMAIN answers = DOMAIN asked BY <1>0 DEF Shape
    <3> QED BY <2>1, <2>2, <3>1 DEF Resumed, Answered
  <2>4. CASE answers[i] = "died"
    <3>1. i # r.n BY <2>2, <2>4
    <3> QED BY <1>1, <2>1, <2>3, <2>4, <3>1 DEF Unseeded
  <2>5. CASE \E y \in reqs : y.n = i /\ Head(y.todo) = "seed"
    <3>1. PICK y \in reqs : y.n = i /\ Head(y.todo) = "seed" BY <2>5
    <3>2. CASE y # r BY <1>1, <2>1, <2>3, <3>1, <3>2 DEF Unseeded
    <3>3. CASE y = r /\ SeedTenant(r)
      <4>1. On(r) = s BY <1>1, <3>1, <3>3 DEF On
      <4> QED BY <1>0, <3>3, <4>1, SeedIs
    <3>4. CASE y = r /\ Fail(r)
      <4>1. answers' = [answers EXCEPT ![i] = "died"] BY <3>1, <3>4 DEF Fail, Answer
      <4>2. i \in DOMAIN answers BY <1>0 DEF Shape
      <4>3. answers'[i] = "died" BY <4>1, <4>2
      <4> QED BY <1>1, <2>1, <4>3 DEF Unseeded
    <3> QED BY <1>4, <3>1, <3>2, <3>3, <3>4, AtSeed
  <2> QED BY <1>1, <2>4, <2>5
<1> QED BY <1>2, <1>3, <1>4 DEF Next

LEMMA BornStep ==
  ASSUME AccessInv, Born, [Next]_vars
  PROVE  Born'
<1>0. Shape /\ Data /\ Facts /\ Keeps BY Kept DEF AccessInv
<1>1. SUFFICES ASSUME NEW s \in Slugs, status'[s] # "none"
               PROVE  Seeded(s) \subseteq roles' \/ Unseeded(s)'
  BY DEF Born, Seeded
<1>2. CASE status[s] # "none" BY <1>0, <1>2, UnseededStep DEF Born, Keeps
<1>3. CASE status[s] = "none"
  <2>1. ASSUME NEW r \in reqs, InsertTenant(r), On(r) = s PROVE Unseeded(s)'
    <3>1. /\ Op(r) = "create" /\ Head(r.todo) = "insert" /\ asked' = asked
          /\ (status' = status \/ Go(r, r))
      BY <2>1 DEF InsertTenant, At
    <3>2. Go(r, r) BY <1>1, <1>3, <3>1
    <3>3. /\ Well("create", r.todo) /\ r.n \in DOMAIN asked /\ r \in Request
          /\ Left(r.todo) \subseteq {"user", "permit", "slug", "insert", "seed"}
      BY <1>0, <3>1, RequestIs, Paths
    <3>4. Head(r.todo) # Last["create"] BY <3>1, StepSets
    <3>5. Well("create", Tail(r.todo)) BY <3>3, <3>4, WellTail
    <3>6. /\ Len(r.todo) > 1 /\ Head(Tail(r.todo)) = r.todo[2] /\ r.todo[1] = "insert"
          /\ 2 \in 1 .. Len(r.todo) /\ r.todo \in Seq(Steps)
      BY <3>1, <3>3, <3>5 DEF Well
    <3>7. Rank[r.todo[1]] < Rank[r.todo[2]] BY <3>3, <3>6 DEF Well
    <3>8. r.todo[2] \in {"user", "permit", "slug", "insert", "seed"} BY <3>3, <3>6 DEF Left
    <3>9. Head(Tail(r.todo)) = "seed" BY <3>6, <3>7, <3>8 DEF Rank
    <3> DEFINE x == [r EXCEPT !.todo = Tail(r.todo)]
    <3>10. x \in reqs' /\ x.n = r.n /\ x.todo = Tail(r.todo) BY <3>2, <3>3 DEF Go, Request
    <3>11. asked'[r.n].op = "create" /\ asked'[r.n].on = s BY <2>1, <3>1 DEF Op, On
    <3> QED BY <3>1, <3>3, <3>9, <3>10, <3>11 DEF Unseeded
  <2>2. ASSUME NEW r \in reqs, InsertTenant(r) PROVE On(r) = s
    <3>1. status' = status \/ status' = [status EXCEPT ![On(r)] = "active"] BY <2>2 DEF InsertTenant
    <3> QED BY <1>0, <1>1, <1>3, <3>1 DEF Data
  <2>3. ASSUME NEW r \in reqs, change_tenant_status(r) PROVE FALSE
    <3>1. /\ On(r) \in Slugs /\ status[On(r)] # "none"
          /\ (status' = status \/ \E to \in Statuses : status' = [status EXCEPT ![On(r)] = to])
      BY <1>0, <2>3, ChangeIs
    <3> QED BY <1>0, <1>1, <1>3, <3>1 DEF Data
  <2>4. ASSUME NEW r \in reqs, Serve(r) PROVE Unseeded(s)'
    <3>1. CASE \/ Register(r) \/ SeedTenant(r) \/ update_tenant_fields(r) \/ ReplaceRoles(r) \/ Show(r)
               \/ UNCHANGED <<data, shown>>
      <4>1. status' = status
        BY <3>1 DEF Register, SeedTenant, update_tenant_fields, ReplaceRoles, Show, data
      <4> QED BY <1>1, <1>3, <4>1
    <3> QED BY <2>1, <2>2, <2>3, <2>4, <3>1, Quiet
  <2>5. ASSUME NEW q \in Requests, Submit(q) PROVE FALSE
    <3>1. status' = status BY <1>0, <2>5, Submitted DEF data
    <3> QED BY <1>1, <1>3, <3>1
  <2>6. CASE UNCHANGED vars BY <1>1, <1>3, <2>6 DEF vars
  <2> QED BY <2>4, <2>5, <2>6 DEF Next
<1> QED BY <1>2, <1>3

LEMMA RoledStep ==
  ASSUME AccessInv, Granted, Roled, [Next]_vars
  PROVE  Roled'
<1>0. Shape /\ Data /\ Facts /\ Keeps BY Kept DEF AccessInv
<1>1. SUFFICES ASSUME NEW u \in Users, home'[u] # "none", RolesOf(u)' = {}
               PROVE  \E i \in DOMAIN asked' : asked'[i].op = "replace" /\ asked'[i].on = u
  BY DEF Roled
<1>2. \A g \in grants' : g.user # u BY <1>1 DEF RolesOf
<1>3. ASSUME NEW i \in DOMAIN asked PROVE i \in DOMAIN asked' /\ asked'[i] = asked[i]
  <2>1. ASSUME NEW q \in Requests, Submit(q) PROVE DOMAIN asked \subseteq DOMAIN asked'
    BY <1>0, <2>1, Submitted
  <2>2. ASSUME NEW r \in reqs, Serve(r) PROVE asked' = asked BY <1>0, <2>2, Kinds
  <2>3. CASE UNCHANGED vars BY <2>3 DEF vars
  <2> QED BY <1>0, <1>3, <2>1, <2>2, <2>3 DEF Next, Keeps
<1>4. CASE home[u] # "none" /\ \A g \in grants : g.user # u
  <2>1. RolesOf(u) = {} BY <1>4 DEF RolesOf
  <2> QED BY <1>3, <1>4, <2>1 DEF Roled
<1>5. CASE UNCHANGED <<home, grants>> BY <1>1, <1>2, <1>4, <1>5
<1>6. ASSUME NEW r \in reqs, Register(r), ~ UNCHANGED <<home, grants>>
      PROVE  \E i \in DOMAIN asked' : asked'[i].op = "replace" /\ asked'[i].on = u
  <2>1. /\ On(r) \in Users /\ home' = [home EXCEPT ![On(r)] = Default]
        /\ \E x \in roles : grants' = grants \cup {Grant(On(r), x)}
    BY <1>0, <1>6, RegisterIs
  <2>2. On(r) # u
    <3>1. PICK x : Grant(On(r), x) \in grants' BY <2>1
    <3>2. Grant(On(r), x).user = On(r) BY DEF Grant
    <3> QED BY <1>2, <3>1, <3>2
  <2>3. home[u] # "none" /\ \A g \in grants : g.user # u BY <1>0, <1>1, <1>2, <2>1, <2>2 DEF Data
  <2> QED BY <1>4, <2>3
<1>7. ASSUME NEW r \in reqs, ReplaceRoles(r)
      PROVE  \E i \in DOMAIN asked' : asked'[i].op = "replace" /\ asked'[i].on = u
  <2>1. CASE On(r) = u
    <3>1. Op(r) = "replace" /\ r.n \in DOMAIN asked BY <1>0, <1>7, ReplaceIs, RequestIs
    <3> QED BY <1>3, <2>1, <3>1 DEF Op, On
  <2>2. CASE On(r) # u
    <3>1. \A g \in grants : g \in grants' \/ \E x : g = Grant(On(r), x)
      BY <1>0, <1>7, ReplaceIs
    <3>2. home' = home BY <1>0, <1>7, ReplaceIs
    <3>3. \A g \in grants : g.user # u BY <1>2, <2>2, <3>1 DEF Grant
    <3> QED BY <1>1, <1>4, <3>2, <3>3
  <2> QED BY <2>1, <2>2
<1>8. ASSUME NEW r \in reqs, \/ InsertTenant(r) \/ SeedTenant(r) \/ change_tenant_status(r)
                             \/ update_tenant_fields(r) \/ Show(r) \/ UNCHANGED <<data, shown>>
      PROVE  UNCHANGED <<home, grants>>
  BY <1>8 DEF InsertTenant, SeedTenant, change_tenant_status, update_tenant_fields, Show, data
<1>9. ASSUME NEW q \in Requests, Submit(q) PROVE UNCHANGED <<home, grants>>
  BY <1>0, <1>9, Submitted DEF data
<1>10. CASE UNCHANGED vars BY <1>5, <1>10 DEF vars
<1> QED BY <1>5, <1>6, <1>7, <1>8, <1>9, <1>10, Quiet DEF Next

LEMMA ApartIs == ASSUME AccessInv, ApartInv PROVE TenantsApart
<1>0. Shape /\ Data /\ Granted /\ Shown /\ Born /\ Roled BY DEF AccessInv, ApartInv
<1>1. ASSUME NEW u \in Users, "tenant:manage" \in get_user_permissions("none", u)
      PROVE  home[u] = Default
  <2>1. PICK x \in get_user_roles("none", u) : "tenant:manage" \in ROLE_PERMISSIONS(x)
    BY <1>1 DEF get_user_permissions
  <2>2. x.tenant = Default BY <2>1 DEF ROLE_PERMISSIONS
  <2>3. PICK g \in grants : g.user = u /\ g.role = x BY <2>1 DEF get_user_roles, Sees
  <2> QED BY <1>0, <2>2, <2>3 DEF Granted
<1>2. ASSUME NEW s \in Slugs, Unseeded(s)
      PROVE  \E i \in DOMAIN asked : /\ asked[i].op = "create" /\ asked[i].on = s
                                     /\ answers[i] \in {"none", "died"}
  BY <1>0, <1>2 DEF Unseeded, Shape
<1> QED BY <1>0, <1>1, <1>2 DEF TenantsApart, Granted, Shown, Born, Roled

\* Tenants are apart, for any tenants, users and requests: scopes, grants and
\* what is shown follow the tenant of the user, and a tenant that exists has its
\* roles unless its creation goes on or was cut off (services/rbac_seed.py:39-77,
\* services/auth.py:61-125, core/tenant_context.py:126-199).
THEOREM TenantsApartCorrect == Spec => []TenantsApart
<1>1. Init => ApartInv BY ApartStart
<1>2. AccessInv /\ ApartInv /\ [Next]_vars => ApartInv'
  BY GrantedStep, ShownStep, BornStep, RoledStep DEF ApartInv
<1>3. AccessInv /\ ApartInv => TenantsApart BY ApartIs
<1> QED BY <1>1, <1>2, <1>3, AccessHolds, PTL DEF Spec

-----------------------------------------------------------------------------
(***************************************************************************)
(* The life of a tenant: the status that a change or an update has read is *)
(* the status, unless a change of the status is served at the same time.   *)
(***************************************************************************)
Read(r) ==
  Op(r) \in {"status", "update"} /\ "tenant" \notin Left(r.todo) =>
    \/ r.seen = status[On(r)]
    \/ \E j \in DOMAIN asked : /\ j # r.n /\ {r.n, j} \in crossed
                               /\ asked[j].op = "status" /\ asked[j].on = On(r)

ReadInv == \A r \in reqs : Read(r)

\* Two requests that are being served were served together.
LEMMA Crossing ==
  ASSUME Shape, NEW r \in reqs, NEW y \in reqs, r # y
  PROVE  r.n # y.n /\ {r.n, y.n} \in crossed /\ r.n \in DOMAIN asked /\ y.n \in DOMAIN asked
<1>1. r.n # y.n /\ r.n \in DOMAIN asked /\ y.n \in DOMAIN asked BY DEF Shape
<1>2. r.n \in Nat /\ y.n \in Nat BY RequestIs DEF Request
<1>3. r.n < y.n \/ y.n < r.n BY <1>1, <1>2
<1>4. {r.n, y.n} = {y.n, r.n} OBVIOUS
<1> QED BY <1>1, <1>3, <1>4 DEF Shape

\* What was asked and what was served together stays so.
LEMMA HistoryKept ==
  ASSUME Shape, Data, [Next]_vars
  PROVE  /\ DOMAIN asked \subseteq DOMAIN asked' /\ crossed \subseteq crossed'
         /\ \A i \in DOMAIN asked : asked'[i] = asked[i]
<1>1. ASSUME NEW q \in Requests, Submit(q)
      PROVE  /\ DOMAIN asked \subseteq DOMAIN asked' /\ crossed \subseteq crossed'
             /\ \A i \in DOMAIN asked : asked'[i] = asked[i]
  BY <1>1, Submitted
<1>2. ASSUME NEW r \in reqs, Serve(r) PROVE UNCHANGED <<asked, crossed>> BY <1>2, Kinds
<1>3. CASE UNCHANGED vars BY <1>3 DEF vars
<1> QED BY <1>1, <1>2, <1>3 DEF Next

LEMMA ReadStep ==
  ASSUME AccessInv, ReadInv, [Next]_vars
  PROVE  ReadInv'
<1>0. Shape /\ Data /\ Facts BY DEF AccessInv
<1>1. /\ DOMAIN asked \subseteq DOMAIN asked' /\ crossed \subseteq crossed'
      /\ \A i \in DOMAIN asked : asked'[i] = asked[i]
  BY <1>0, HistoryKept
<1>2. ASSUME NEW y \in reqs, y \in reqs', status' = status \/ Op(y) \notin {"status", "update"}
      PROVE  Read(y)'
  <2>1. y.n \in DOMAIN asked BY <1>0 DEF Shape
  <2>2. Op(y)' = Op(y) /\ On(y)' = On(y) BY <1>1, <2>1 DEF Op, On
  <2>3. CASE Op(y) \notin {"status", "update"} BY <2>2, <2>3 DEF Read
  <2>4. CASE status' = status
    <3>1. Read(y) BY DEF ReadInv
    <3>2. \A j \in DOMAIN asked : {y.n, j} \in crossed => {y.n, j} \in crossed' BY <1>1
    <3>3. CASE Op(y) \in {"status", "update"} /\ "tenant" \notin Left(y.todo)
      <4>1. CASE y.seen = status[On(y)]
        <5>1. y.seen = status'[On(y)'] BY <2>2, <2>4, <4>1
        <5> QED BY <5>1 DEF Read
      <4>2. CASE y.seen # status[On(y)]
        <5>1. PICK j \in DOMAIN asked : /\ j # y.n /\ {y.n, j} \in crossed
                                        /\ asked[j].op = "status" /\ asked[j].on = On(y)
          BY <3>1, <3>3, <4>2 DEF Read
        <5>2. j \in DOMAIN asked' /\ {y.n, j} \in crossed' /\ asked'[j] = asked[j] BY <1>1, <3>2, <5>1
        <5> QED BY <2>2, <5>1, <5>2 DEF Read
      <4> QED BY <4>1, <4>2
    <3> QED BY <2>2, <3>3 DEF Read
  <2> QED BY <1>2, <2>3, <2>4
<1>3. ASSUME NEW r \in reqs, Serve(r) PROVE ReadInv'
  <2>1. asked' = asked /\ (Resumed(r) \/ \E code \in Codes : Answered(r, code)) BY <1>0, <1>3, Kinds
  <2>2. \A y \in reqs' : Op(y)' = Op(y) /\ On(y)' = On(y) BY <2>1 DEF Op, On
  <2>3. ASSUME NEW y \in reqs, y # r, y \in reqs', Op(y) \in {"status", "update"}, status' # status
        PROVE  Read(y)'
    <3> SUFFICES ASSUME "tenant" \notin Left(y.todo)
                 PROVE  \/ y.seen = status'[On(y)]
                        \/ \E j \in DOMAIN asked : /\ j # y.n /\ {y.n, j} \in crossed
                                                   /\ asked[j].op = "status" /\ asked[j].on = On(y)
      BY <1>1, <2>1, <2>2, <2>3 DEF Read
    <3>1. On(y) \in Slugs /\ status[On(y)] # "none" BY <1>0, <2>3, RequestIs DEF Facts, Known
    <3>2. CASE status'[On(y)] = status[On(y)] BY <2>3, <3>2 DEF ReadInv, Read
    <3>3. CASE change_tenant_status(r) /\ status'[On(y)] # status[On(y)]
      <4>1. /\ Op(r) = "status" /\ On(r) \in Slugs
            /\ (status' = status \/ \E to \in Statuses : status' = [status EXCEPT ![On(r)] = to])
        BY <1>0, <3>3, ChangeIs
      <4>2. On(r) = On(y) BY <1>0, <3>1, <3>3, <4>1 DEF Data
      <4>3. y.n # r.n /\ {y.n, r.n} \in crossed /\ r.n \in DOMAIN asked BY <1>0, <2>3, Crossing
      <4> QED BY <4>1, <4>2, <4>3 DEF Op, On
    <3>4. CASE InsertTenant(r)
      <4>1. status[On(r)] = "none" /\ status' = [status EXCEPT ![On(r)] = "active"]
        BY <2>3, <3>4 DEF InsertTenant
      <4> QED BY <1>0, <3>1, <3>2, <4>1 DEF Data
    <3>5. CASE \/ Register(r) \/ SeedTenant(r) \/ update_tenant_fields(r) \/ ReplaceRoles(r) \/ Show(r)
               \/ UNCHANGED <<data, shown>>
      <4>1. status' = status
        BY <3>5 DEF Register, SeedTenant, update_tenant_fields, ReplaceRoles, Show, data
      <4> QED BY <2>3, <4>1
    <3> QED BY <1>3, <3>2, <3>3, <3>4, <3>5, Quiet
  <2>4. ASSUME NEW x \in Request, Moves(r, x), reqs' = (reqs \ {r}) \cup {x}, answers' = answers
        PROVE  Read(x)'
    <3>1. /\ r.n \in DOMAIN asked /\ Well(Op(r), r.todo) BY <1>0, RequestIs
    <3>2. x.n = r.n /\ Op(x)' = Op(r) /\ On(x)' = On(r) BY <2>1, <2>4 DEF Moves, Op, On
    <3>3. Left(r.todo) \subseteq Left(x.todo) \cup {Head(r.todo)} BY <2>4, <3>1, WellTail DEF Moves
    <3> SUFFICES ASSUME Op(r) \in {"status", "update"}, "tenant" \notin Left(x.todo)
                 PROVE  \/ x.seen = status'[On(r)]
                        \/ \E j \in DOMAIN asked : /\ j # r.n /\ {r.n, j} \in crossed
                                                   /\ asked[j].op = "status" /\ asked[j].on = On(r)
      BY <1>1, <2>1, <3>2 DEF Read
    <3>4. status' = status
      <4>1. CASE InsertTenant(r) BY <4>1 DEF InsertTenant, Op
      <4>2. CASE change_tenant_status(r)
        <5>1. Head(r.todo) = "commit" BY <4>2 DEF change_tenant_status, Commit, At
        <5>2. Head(r.todo) # Last[Op(r)] BY <2>4 DEF Moves
        <5> QED BY <5>1, <5>2, StepSets
      <4>3. CASE \/ Register(r) \/ SeedTenant(r) \/ update_tenant_fields(r) \/ ReplaceRoles(r) \/ Show(r)
                 \/ UNCHANGED <<data, shown>>
        BY <4>3 DEF Register, SeedTenant, update_tenant_fields, ReplaceRoles, Show, data
      <4> QED BY <1>3, <4>1, <4>2, <4>3, Quiet
    <3>5. CASE Head(r.todo) = "tenant" BY <2>4, <3>4, <3>5 DEF Moves
    <3>6. CASE Head(r.todo) # "tenant"
      <4>1. x.seen = r.seen /\ "tenant" \notin Left(r.todo) BY <2>4, <3>3, <3>6 DEF Moves
      <4> QED BY <3>4, <4>1 DEF ReadInv, Read
    <3> QED BY <3>5, <3>6
  <2>5. ASSUME NEW y \in reqs, y # r, y \in reqs' PROVE Read(y)' BY <1>2, <2>3, <2>5
  <2>6. CASE Resumed(r) BY <2>4, <2>5, <2>6 DEF Resumed, ReadInv
  <2>7. CASE \E code \in Codes : Answered(r, code)
    <3>1. reqs' = reqs \ {r} BY <2>7 DEF Answered
    <3> QED BY <2>5, <3>1 DEF ReadInv
  <2> QED BY <2>1, <2>6, <2>7
<1>4. ASSUME NEW q \in Requests, Submit(q) PROVE ReadInv'
  <2>1. status' = status BY <1>0, <1>4, Submitted DEF data
  <2>2. PICK x \in Request : x.n = Len(asked) + 1 /\ x.todo = Path[q.op] /\ reqs' = reqs \cup {x}
    BY <1>0, <1>4, Submitted
  <2>3. asked'[x.n] = q BY <1>0, <1>4, <2>2, Submitted
  <2>4. Read(x)' BY <2>2, <2>3, Paths, AskedIs DEF Read, Op
  <2> QED BY <1>2, <2>1, <2>2, <2>4 DEF ReadInv
<1>5. CASE UNCHANGED vars
  <2>1. status' = status /\ reqs' = reqs BY <1>5 DEF vars
  <2> QED BY <1>2, <2>1 DEF ReadInv
<1> QED BY <1>3, <1>4, <1>5 DEF Next

\* The life of a tenant, for any tenants and requests: its status follows the
\* whitelist and its fields are left alone once it is deleted, unless its status
\* is changed at the same time (services/tenant.py:69-91, models/tenant.py:46-50).
THEOREM TenantLifeCorrect == Spec => TenantLife
<1>1. Init => ReadInv BY DEF Init, ReadInv
<1>2. ASSUME AccessInv, ReadInv, Next
      PROVE  \A s \in Slugs :
               /\ status'[s] # status[s] /\ status[s] # "none" =>
                    \/ status'[s] \in ALLOWED_TENANT_TRANSITIONS[status[s]]
                    \/ Together({"status"}, s)
               /\ limits'[s] # limits[s] => status[s] # "deleted" \/ Together({"status", "update"}, s)
  <2>0. Shape /\ Data /\ Facts BY <1>2 DEF AccessInv
  <2> TAKE s \in Slugs
  <2>1. CASE status'[s] = status[s] /\ limits'[s] = limits[s] BY <2>1
  <2>2. ASSUME NEW r \in reqs, change_tenant_status(r), On(r) = s,
               status'[s] # status[s]
        PROVE  \/ status'[s] \in ALLOWED_TENANT_TRANSITIONS[status[s]]
               \/ Together({"status"}, s)
    <3>1. /\ Op(r) = "status" /\ \E to \in Statuses : /\ to \in ALLOWED_TENANT_TRANSITIONS[r.seen]
                                                      /\ status' = [status EXCEPT ![s] = to]
      BY <2>0, <2>2, ChangeIs
    <3>2. status'[s] \in ALLOWED_TENANT_TRANSITIONS[r.seen] BY <2>0, <3>1 DEF Data
    <3>3. "tenant" \notin Left(r.todo)
      <4>1. Rank["commit"] > 3 /\ Head(r.todo) = "commit"
        BY <2>2 DEF Rank, change_tenant_status, Commit, At
      <4>2. Well(Op(r), r.todo) BY <2>0, RequestIs
      <4> QED BY <4>1, <4>2, Order
    <3>4. r.seen = status[s] \/ Together({"status"}, s)
      <4>1. r.n \in DOMAIN asked BY <2>0 DEF Shape
      <4> QED BY <1>2, <2>2, <3>1, <3>3, <4>1 DEF ReadInv, Read, Together, Op, On
    <3> QED BY <3>2, <3>4
  <2>3. ASSUME NEW r \in reqs, update_tenant_fields(r), On(r) = s, limits'[s] # limits[s]
        PROVE  status[s] # "deleted" \/ Together({"status", "update"}, s)
    <3>1. Op(r) = "update" /\ r.seen # "deleted" /\ Head(r.todo) = "commit"
      BY <2>3 DEF update_tenant_fields, Commit, At
    <3>3. "tenant" \notin Left(r.todo)
      <4>1. Rank["commit"] > 3 BY DEF Rank
      <4>2. Well(Op(r), r.todo) BY <2>0, RequestIs
      <4> QED BY <3>1, <4>1, <4>2, Order
    <3>4. r.seen = status[s] \/ Together({"status", "update"}, s)
      <4>1. r.n \in DOMAIN asked BY <2>0 DEF Shape
      <4> QED BY <1>2, <2>3, <3>1, <3>3, <4>1 DEF ReadInv, Read, Together, Op, On
    <3> QED BY <3>1, <3>4
  <2>4. ASSUME NEW r \in reqs, Serve(r), ~ (status'[s] = status[s] /\ limits'[s] = limits[s])
        PROVE  \/ change_tenant_status(r) /\ On(r) = s /\ limits' = limits
               \/ update_tenant_fields(r) /\ On(r) = s /\ status' = status
               \/ InsertTenant(r) /\ status[s] = "none" /\ limits' = limits
    <3>1. CASE change_tenant_status(r)
      <4>1. limits' = limits /\ (status' = status \/ \E to \in Statuses : status' = [status EXCEPT ![On(r)] = to])
        BY <2>0, <3>1, ChangeIs
      <4> QED BY <2>0, <2>4, <3>1, <4>1 DEF Data
    <3>2. CASE update_tenant_fields(r)
      <4>1. status' = status /\ (limits' = limits \/ limits' = [limits EXCEPT ![On(r)] = "changed"])
        BY <3>2 DEF update_tenant_fields
      <4> QED BY <2>0, <2>4, <3>2, <4>1 DEF Data
    <3>3. CASE InsertTenant(r)
      <4>1. limits' = limits /\ (status' = status
               \/ (status[On(r)] = "none" /\ status' = [status EXCEPT ![On(r)] = "active"]))
        BY <3>3 DEF InsertTenant
      <4> QED BY <2>0, <2>4, <3>3, <4>1 DEF Data
    <3>4. CASE Register(r) \/ SeedTenant(r) \/ ReplaceRoles(r) \/ Show(r) \/ UNCHANGED <<data, shown>>
      <4>1. status' = status /\ limits' = limits BY <3>4 DEF Register, SeedTenant, ReplaceRoles, Show, data
      <4> QED BY <2>4, <4>1
    <3> QED BY <2>4, <3>1, <3>2, <3>3, <3>4, Quiet
  <2>5. ASSUME NEW q \in Requests, Submit(q) PROVE status' = status /\ limits' = limits
    BY <2>0, <2>5, Submitted DEF data
  <2> QED BY <1>2, <2>1, <2>2, <2>3, <2>4, <2>5 DEF Next
<1>3. AccessInv /\ ReadInv /\ [Next]_vars => ReadInv' BY ReadStep
<1>4. AccessInv /\ ReadInv /\ [Next]_vars =>
        [\A s \in Slugs :
               /\ status'[s] # status[s] /\ status[s] # "none" =>
                    \/ status'[s] \in ALLOWED_TENANT_TRANSITIONS[status[s]]
                    \/ Together({"status"}, s)
               /\ limits'[s] # limits[s] => status[s] # "deleted" \/ Together({"status", "update"}, s)]_vars
  BY <1>2
<1> QED BY <1>1, <1>3, <1>4, AccessHolds, PTL DEF Spec, TenantLife

-----------------------------------------------------------------------------
(***************************************************************************)
(* The roles of a user change by a registration and by a replacement.      *)
(***************************************************************************)
LEMMA RolesChange ==
  ASSUME AccessInv, Granted, [Next]_vars, NEW u \in Users, RolesOf(u)' # RolesOf(u)
  PROVE  \/ home[u] = "none"
         \/ \E r \in reqs : ReplaceRoles(r) /\ On(r) = u /\ Answered(r, "ok")
<1>0. Shape /\ Data /\ Facts BY DEF AccessInv
<1>1. CASE UNCHANGED grants BY <1>1 DEF RolesOf
<1>2. ASSUME NEW r \in reqs, Register(r)
      PROVE  UNCHANGED grants \/ home[u] = "none"
  <2>1. /\ home[On(r)] = "none" /\ \E x \in roles : grants' = grants \cup {Grant(On(r), x)}
        \/ grants' = grants
    BY <1>0, <1>2, RegisterIs
  <2>2. CASE On(r) # u /\ \E x \in roles : grants' = grants \cup {Grant(On(r), x)}
    <3>1. PICK x \in roles : grants' = grants \cup {Grant(On(r), x)} BY <2>2
    <3>2. Grant(On(r), x).user # u BY <2>2 DEF Grant
    <3>3. {g \in grants' : g.user = u} = {g \in grants : g.user = u} BY <3>1, <3>2
    <3> QED BY <3>3 DEF RolesOf
  <2> QED BY <2>1, <2>2
<1>3. ASSUME NEW r \in reqs, ReplaceRoles(r), On(r) # u PROVE FALSE
  <2>1. /\ \A g \in grants : g \in grants' \/ \E x : g = Grant(On(r), x)
        /\ \A g \in grants' : g \in grants \/ \E x : g = Grant(On(r), x)
    BY <1>0, <1>3, ReplaceIs
  <2>2. \A x : Grant(On(r), x).user # u BY <1>3 DEF Grant
  <2>3. {g \in grants' : g.user = u} = {g \in grants : g.user = u} BY <2>1, <2>2
  <2> QED BY <2>3 DEF RolesOf
<1>4. ASSUME NEW r \in reqs, ReplaceRoles(r) PROVE UNCHANGED grants \/ Answered(r, "ok")
  BY <1>0, <1>4, ReplaceIs
<1>5. ASSUME NEW r \in reqs, \/ InsertTenant(r) \/ SeedTenant(r) \/ change_tenant_status(r)
                             \/ update_tenant_fields(r) \/ Show(r) \/ UNCHANGED <<data, shown>>
      PROVE  UNCHANGED grants
  BY <1>5 DEF InsertTenant, SeedTenant, change_tenant_status, update_tenant_fields, Show, data
<1>6. ASSUME NEW q \in Requests, Submit(q) PROVE UNCHANGED grants
  BY <1>0, <1>6, Submitted DEF data
<1>7. UNCHANGED vars => UNCHANGED grants BY DEF vars
<1> QED BY <1>1, <1>2, <1>3, <1>4, <1>5, <1>6, <1>7, Quiet DEF Next

-----------------------------------------------------------------------------
(***************************************************************************)
(* An administrator remains: whoever replaces roles was an administrator   *)
(* of the tenant when that was asked, and is one still, unless somebody    *)
(* replaces theirs at the same time.                                       *)
(***************************************************************************)
Admin(s) == [tenant |-> s, name |-> "admin"]

Permitted(r) ==
  Op(r) = "replace" /\ "permit" \notin Left(r.todo) =>
    \/ Admin(home[User(r)]) \in RolesOf(User(r))
    \/ \E j \in DOMAIN asked : /\ {r.n, j} \in crossed
                               /\ asked[j].op = "replace" /\ asked[j].on = User(r)

PermitInv == \A r \in reqs : Permitted(r)

\* Administrators who took it from one another.
Taken ==
  \E i, j \in DOMAIN asked :
    /\ {i, j} \in crossed /\ asked[i].op = "replace" /\ asked[j].op = "replace"
    /\ asked[i].on = asked[j].user

\* A tenant that started with an administrator.
Remains == \A s \in Slugs : s \in {Home[u] : u \in Admins} =>
  AdminsOf(s) # {} \/ Taken

LEMMA PermitStep ==
  ASSUME AccessInv, Granted, PermitInv, [Next]_vars
  PROVE  PermitInv'
<1>0. Shape /\ Data /\ Facts /\ Keeps BY Kept DEF AccessInv
<1>1. /\ DOMAIN asked \subseteq DOMAIN asked' /\ crossed \subseteq crossed'
      /\ \A i \in DOMAIN asked : asked'[i] = asked[i]
  BY <1>0, HistoryKept
<1>2. ASSUME NEW y \in reqs, Op(y) = "replace", NEW x \in reqs', x.n = y.n,
             \/ Admin(home[User(y)]) \in RolesOf(User(y))
             \/ \E j \in DOMAIN asked : /\ {y.n, j} \in crossed
                                        /\ asked[j].op = "replace" /\ asked[j].on = User(y)
      PROVE  Permitted(x)'
  <2>1. y.n \in DOMAIN asked /\ User(y) \in Users BY <1>0, RequestIs
  <2>2. PICK u \in Users : u = User(y) BY <2>1
  <2>3. User(x)' = u BY <1>1, <1>2, <2>1, <2>2 DEF User
  <2>4. CASE \E j \in DOMAIN asked : /\ {y.n, j} \in crossed
                                     /\ asked[j].op = "replace" /\ asked[j].on = u
    BY <1>1, <1>2, <2>3, <2>4 DEF Permitted
  <2>5. CASE Admin(home[u]) \in RolesOf(u)
    <3>1. home[u] # "none" /\ home'[u] = home[u]
      <4>1. PICK g \in grants : g.user = u BY <2>5 DEF RolesOf
      <4>2. g.role.tenant = home[u] /\ g.role \in Role BY <1>0, <4>1 DEF Granted, Data
      <4> QED BY <1>0, <4>2, StepSets DEF Keeps, Role
    <3>2. CASE RolesOf(u)' = RolesOf(u)
      <4>1. Admin(home'[u]) \in RolesOf(u)' BY <2>5, <3>1, <3>2
      <4> QED BY <2>3, <4>1 DEF Permitted, RolesOf, Admin
    <3>3. CASE RolesOf(u)' # RolesOf(u)
      <4>1. PICK r \in reqs : ReplaceRoles(r) /\ On(r) = u BY <3>1, <3>3, RolesChange
      <4>2. Op(r) = "replace" /\ User(r) # u BY <1>0, <4>1, ReplaceIs
      <4>3. {y.n, r.n} \in crossed /\ r.n \in DOMAIN asked BY <1>0, <2>2, <4>2, Crossing
      <4> QED BY <2>4, <4>1, <4>2, <4>3 DEF Op, On
    <3> QED BY <3>2, <3>3
  <2> QED BY <1>2, <2>2, <2>4, <2>5
<1>3. ASSUME NEW y \in reqs, y \in reqs' PROVE Permitted(y)'
  <2>1. y.n \in DOMAIN asked BY <1>0 DEF Shape
  <2>2. Op(y)' = Op(y) BY <1>1, <2>1 DEF Op
  <2> QED BY <1>2, <1>3, <2>2 DEF PermitInv, Permitted
<1>4. ASSUME NEW r \in reqs, Resumed(r) PROVE PermitInv'
  <2>1. PICK x \in Request : Moves(r, x) /\ reqs' = (reqs \ {r}) \cup {x} BY <1>4 DEF Resumed
  <2>2. x.n = r.n /\ r.n \in DOMAIN asked /\ r \in Request /\ User(r) \in Users /\ Well(Op(r), r.todo)
    BY <1>0, <2>1, RequestIs DEF Moves
  <2>3. Op(x)' = Op(r) BY <1>1, <2>2 DEF Op
  <2>4. ASSUME Op(r) = "replace", "permit" \notin Left(x.todo)
        PROVE  \/ Admin(home[User(r)]) \in RolesOf(User(r))
               \/ \E j \in DOMAIN asked : /\ {r.n, j} \in crossed
                                          /\ asked[j].op = "replace" /\ asked[j].on = User(r)
    <3>1. Left(r.todo) \subseteq Left(x.todo) \cup {Head(r.todo)} BY <2>1, <2>2, WellTail DEF Moves
    <3>2. CASE Head(r.todo) # "permit" BY <2>4, <3>1, <3>2 DEF PermitInv, Permitted
    <3>3. CASE Head(r.todo) = "permit"
      <4>1. "user" \notin Left(r.todo) BY <2>2, <3>3, Order
      <4>2. r.scope = home[User(r)] /\ home[User(r)] # "none" BY <1>0, <2>4, <4>1 DEF Facts, Known
      <4>3. "user:update" \in get_user_permissions(r.scope, User(r))
        <5>1. Required[Op(r)] \in get_user_permissions(r.scope, User(r)) BY <2>1, <3>3 DEF Moves
        <5> QED BY <2>4, <5>1 DEF Required
      <4>4. PICK z \in get_user_roles(r.scope, User(r)) : "user:update" \in ROLE_PERMISSIONS(z)
        BY <4>3 DEF get_user_permissions
      <4>5. z.name = "admin" BY <4>4 DEF ROLE_PERMISSIONS
      <4>6. PICK g \in grants : g.user = User(r) /\ g.role = z BY <4>4 DEF get_user_roles, Sees
      <4>7. z \in Role /\ z.tenant = home[User(r)] BY <1>0, <4>6 DEF Data, Granted
      <4>8. z = Admin(home[User(r)]) BY <4>5, <4>7 DEF Role, Admin
      <4> QED BY <4>6, <4>8 DEF RolesOf
    <3> QED BY <3>2, <3>3
  <2>5. Op(r) = "replace" /\ "permit" \notin Left(x.todo) => Permitted(x)' BY <1>2, <2>1, <2>2, <2>4
  <2>6. Permitted(x)' BY <2>3, <2>5 DEF Permitted
  <2> QED BY <1>3, <2>1, <2>6 DEF PermitInv
<1>5. ASSUME NEW r \in reqs, Serve(r) PROVE PermitInv'
  <2>1. (\E code \in Codes : Answered(r, code)) => reqs' \subseteq reqs BY DEF Answered
  <2> QED BY <1>0, <1>3, <1>4, <1>5, <2>1, Kinds DEF PermitInv
<1>6. ASSUME NEW q \in Requests, Submit(q) PROVE PermitInv'
  <2>1. PICK x \in Request : x.n = Len(asked) + 1 /\ x.todo = Path[q.op] /\ reqs' = reqs \cup {x}
    BY <1>0, <1>6, Submitted
  <2>2. asked'[x.n] = q BY <1>0, <1>6, <2>1, Submitted
  <2>3. Permitted(x)' BY <2>1, <2>2, Paths DEF Permitted, Op
  <2> QED BY <1>3, <2>1, <2>3 DEF PermitInv
<1>7. CASE UNCHANGED vars
  <2>1. reqs' = reqs BY <1>7 DEF vars
  <2> QED BY <1>3, <2>1 DEF PermitInv
<1> QED BY <1>5, <1>6, <1>7 DEF Next

LEMMA RemainsStart == ASSUME Init PROVE Remains
<1> DEFINE As(u) == [tenant |-> Home[u], name |-> IF u \in Admins THEN "admin" ELSE "member"]
<1> SUFFICES ASSUME NEW u \in Admins PROVE AdminsOf(Home[u]) # {} BY DEF Remains
<1>1. u \in Users /\ Home[u] # "none" BY DEF AccessAssumption
<1>2. grants = {Grant(v, As(v)) : v \in {w \in Users : Home[w] # "none"}} BY DEF Init
<1>3. Grant(u, As(u)) \in grants BY <1>1, <1>2
<1>4. Grant(u, As(u)).user = u /\ Grant(u, As(u)).role = [tenant |-> Home[u], name |-> "admin"]
  BY DEF Grant
<1>5. [tenant |-> Home[u], name |-> "admin"] \in RolesOf(u) BY <1>3, <1>4 DEF RolesOf
<1> QED BY <1>1, <1>5 DEF AdminsOf

LEMMA RemainsStep ==
  ASSUME AccessInv, Granted, PermitInv, Remains, [Next]_vars
  PROVE  Remains'
<1>0. Shape /\ Data /\ Facts /\ Keeps BY Kept DEF AccessInv
<1>1. /\ DOMAIN asked \subseteq DOMAIN asked' /\ crossed \subseteq crossed'
      /\ \A i \in DOMAIN asked : asked'[i] = asked[i]
  BY <1>0, HistoryKept
<1>2. SUFFICES ASSUME NEW s \in Slugs, s \in {Home[u] : u \in Admins} PROVE AdminsOf(s)' # {} \/ Taken'
  BY DEF Remains
<1>3. CASE Taken
  <2>1. PICK i, j \in DOMAIN asked :
          /\ {i, j} \in crossed /\ asked[i].op = "replace" /\ asked[j].op = "replace"
          /\ asked[i].on = asked[j].user
    BY <1>3 DEF Taken
  <2>2. /\ i \in DOMAIN asked' /\ j \in DOMAIN asked' /\ {i, j} \in crossed'
        /\ asked'[i] = asked[i] /\ asked'[j] = asked[j]
    BY <1>1, <2>1
  <2> QED BY <2>1, <2>2 DEF Taken
<1>4. CASE AdminsOf(s) # {}
  <2>1. PICK u \in Users : Admin(s) \in RolesOf(u) BY <1>4 DEF AdminsOf, Admin
  <2>2. home[u] = s /\ s # "none"
    <3>1. PICK g \in grants : g.user = u /\ g.role = Admin(s) BY <2>1 DEF RolesOf
    <3> QED BY <3>1, <1>2, StepSets DEF Granted, Admin
  <2>3. CASE RolesOf(u)' = RolesOf(u)
    <3>1. Admin(s) \in RolesOf(u)' BY <2>1, <2>3
    <3>2. u \in AdminsOf(s)' BY <3>1 DEF AdminsOf, Admin
    <3> QED BY <3>2
  <2>4. CASE RolesOf(u)' # RolesOf(u)
    <3>1. PICK r \in reqs : ReplaceRoles(r) /\ On(r) = u BY <2>2, <2>4, RolesChange
    <3>2. Op(r) = "replace" /\ User(r) # u /\ home[User(r)] = s /\ Head(r.todo) = "commit"
      BY <1>0, <2>2, <3>1, ReplaceIs
    <3>3. "permit" \notin Left(r.todo) /\ User(r) \in Users /\ r.n \in DOMAIN asked
      BY <1>0, <3>2, RequestIs, Order
    <3>4. PICK v \in Users : v = User(r) BY <3>3
    <3>5. CASE Admin(s) \in RolesOf(v)
      <4>1. RolesOf(v)' = RolesOf(v)
        <5>1. \A g \in grants : g \in grants' \/ \E x : g = Grant(u, x) BY <1>0, <3>1, ReplaceIs
        <5>2. \A g \in grants' : g \in grants \/ \E x : g = Grant(u, x) BY <1>0, <3>1, ReplaceIs
        <5>3. \A x : Grant(u, x).user # v BY <3>2, <3>4 DEF Grant
        <5>4. {g \in grants' : g.user = v} = {g \in grants : g.user = v} BY <5>1, <5>2, <5>3
        <5> QED BY <5>4 DEF RolesOf
      <4>2. v \in AdminsOf(s)' BY <3>5, <4>1 DEF AdminsOf, Admin
      <4> QED BY <4>2
    <3>6. CASE \E j \in DOMAIN asked : /\ {r.n, j} \in crossed
                                       /\ asked[j].op = "replace" /\ asked[j].on = v
      <4>1. PICK j \in DOMAIN asked : {j, r.n} \in crossed /\ asked[j].op = "replace" /\ asked[j].on = v
        <5>1. \A j : {r.n, j} = {j, r.n} OBVIOUS
        <5> QED BY <3>6, <5>1
      <4>2. Taken BY <3>2, <3>3, <3>4, <4>1 DEF Op, User, Taken
      <4> QED BY <1>3, <4>2
    <3> QED BY <3>2, <3>3, <3>4, <3>5, <3>6 DEF PermitInv, Permitted
  <2> QED BY <2>3, <2>4
<1> QED BY <1>2, <1>3, <1>4 DEF Remains

\* A tenant that has an administrator keeps one, for any tenants, users and
\* requests, unless administrators take the role from one another at the same
\* time (services/user.py:91-101).
THEOREM AdminRemainsCorrect == Spec => []AdminRemains
<1>1. Init => Granted /\ PermitInv /\ Remains
  BY ApartStart, RemainsStart DEF ApartInv, Init, PermitInv
<1>2. AccessInv /\ (Granted /\ PermitInv /\ Remains) /\ [Next]_vars => (Granted /\ PermitInv /\ Remains)'
  BY GrantedStep, PermitStep, RemainsStep
<1>3. Remains => AdminRemains
  <2>1. {Home[u] : u \in Admins} \subseteq Slugs BY DEF AccessAssumption
  <2> QED BY <2>1 DEF Remains, AdminRemains, Taken
<1> QED BY <1>1, <1>2, <1>3, AccessHolds, PTL DEF Spec

-----------------------------------------------------------------------------
(***************************************************************************)
(* A replacement holds: what it has read are the roles of the user, unless *)
(* another replacement of that user is served at the same time.            *)
(***************************************************************************)
Other(i, u) ==
  \E j \in DOMAIN asked :
    j # i /\ {i, j} \in crossed /\ asked[j].op = "replace" /\ asked[j].on = u

Fresh(r) ==
  Op(r) = "replace" /\ "current" \notin Left(r.todo) =>
    home[On(r)] # "none" /\ (r.current = RolesOf(On(r)) \/ Other(r.n, On(r)))

FreshInv == \A r \in reqs : Fresh(r)

LEMMA FreshStep ==
  ASSUME AccessInv, Granted, FreshInv, [Next]_vars
  PROVE  FreshInv'
<1>0. Shape /\ Data /\ Facts /\ Keeps BY Kept DEF AccessInv
<1>1. /\ DOMAIN asked \subseteq DOMAIN asked' /\ crossed \subseteq crossed'
      /\ \A i \in DOMAIN asked : asked'[i] = asked[i]
  BY <1>0, HistoryKept
<1>2. ASSUME NEW y \in reqs, Op(y) = "replace", NEW x \in reqs', x.n = y.n, home[On(y)] # "none",
             x.current = RolesOf(On(y)) \/ Other(y.n, On(y)),
             \A r \in reqs : Answered(r, "ok") => r # y
      PROVE  Fresh(x)'
  <2>1. y.n \in DOMAIN asked /\ On(y) \in Users BY <1>0, <1>2, RequestIs
  <2>2. PICK u \in Users : u = On(y) BY <2>1
  <2>3. On(x)' = u /\ home'[u] # "none" BY <1>0, <1>1, <1>2, <2>1, <2>2 DEF On, Keeps
  <2>4. CASE Other(y.n, u)
    <3>1. Other(x.n, u)' BY <1>1, <1>2, <2>4 DEF Other
    <3> QED BY <2>3, <3>1 DEF Fresh, Other
  <2>5. CASE x.current = RolesOf(u) /\ RolesOf(u)' = RolesOf(u)
    <3>1. x.current = RolesOf(u)' BY <2>5
    <3> QED BY <2>3, <3>1 DEF Fresh, RolesOf
  <2>6. CASE RolesOf(u)' # RolesOf(u)
    <3>1. PICK r \in reqs : ReplaceRoles(r) /\ On(r) = u /\ Answered(r, "ok")
      BY <1>2, <2>2, <2>6, RolesChange
    <3>2. Op(r) = "replace" /\ r # y BY <1>0, <1>2, <3>1, ReplaceIs
    <3>3. y.n # r.n /\ {y.n, r.n} \in crossed /\ r.n \in DOMAIN asked BY <1>0, <3>2, Crossing
    <3> QED BY <2>4, <3>1, <3>2, <3>3 DEF Op, On, Other
  <2> QED BY <1>2, <2>2, <2>4, <2>5, <2>6
<1>3. ASSUME NEW r \in reqs, NEW code, Answered(r, code) PROVE r \notin reqs' BY <1>3 DEF Answered
<1>4. ASSUME NEW y \in reqs, y \in reqs' PROVE Fresh(y)'
  <2>1. y.n \in DOMAIN asked BY <1>0 DEF Shape
  <2>2. Op(y)' = Op(y) BY <1>1, <2>1 DEF Op
  <2> QED BY <1>2, <1>3, <1>4, <2>2 DEF FreshInv, Fresh
<1>5. ASSUME NEW r \in reqs, Resumed(r) PROVE FreshInv'
  <2>1. PICK x \in Request : Moves(r, x) /\ reqs' = (reqs \ {r}) \cup {x} /\ answers' = answers
    BY <1>5 DEF Resumed
  <2>2. x.n = r.n /\ r.n \in DOMAIN asked /\ User(r) \in Users /\ Well(Op(r), r.todo)
        /\ (Op(r) = "replace" => On(r) \in Users)
    BY <1>0, <2>1, RequestIs DEF Moves
  <2>3. Op(x)' = Op(r) BY <1>1, <2>2 DEF Op
  <2>4. \A y \in reqs : Answered(y, "ok") => y # r
    <3>1. \A y \in reqs : y.n = r.n => y = r BY <1>0 DEF Shape
    <3>2. \A y \in reqs : Answered(y, "ok") => answers'[y.n] = "ok" /\ answers[y.n] = "none"
      BY <1>0 DEF Answered, Shape
    <3> QED BY <2>1, <3>2
  <2>5. ASSUME Op(r) = "replace", "current" \notin Left(x.todo)
        PROVE  home[On(r)] # "none" /\ (x.current = RolesOf(On(r)) \/ Other(r.n, On(r)))
    <3>1. Left(r.todo) \subseteq Left(x.todo) \cup {Head(r.todo)} BY <2>1, <2>2, WellTail DEF Moves
    <3>2. CASE Head(r.todo) # "current"
      <4>1. x.current = r.current BY <2>1, <3>2 DEF Moves
      <4> QED BY <2>5, <3>1, <3>2, <4>1 DEF FreshInv, Fresh
    <3>3. CASE Head(r.todo) = "current"
      <4>1. "user" \notin Left(r.todo) /\ "target" \notin Left(r.todo)
        <5>1. Rank["current"] > 3 BY DEF Rank
        <5> QED BY <2>2, <3>3, <5>1, Order
      <4>2. r.scope = home[User(r)] /\ home[On(r)] = home[User(r)] /\ home[On(r)] # "none"
        BY <1>0, <2>5, <4>1 DEF Facts, Known
      <4>3. \A g \in grants : g.user = On(r) => g.tenant = r.scope BY <4>2 DEF Granted
      <4>4. Sees(r.scope, grants) \subseteq grants
            /\ \A g \in grants : g.user = On(r) => g \in Sees(r.scope, grants)
        BY <4>3 DEF Sees
      <4>5. get_user_roles(r.scope, On(r)) = RolesOf(On(r)) BY <4>4 DEF get_user_roles, RolesOf
      <4> QED BY <2>1, <3>3, <4>2, <4>5 DEF Moves
    <3> QED BY <3>2, <3>3
  <2>6. Op(r) = "replace" /\ "current" \notin Left(x.todo) => Fresh(x)'
    BY <1>2, <2>1, <2>2, <2>4, <2>5
  <2>7. Fresh(x)' BY <2>3, <2>6 DEF Fresh
  <2> QED BY <1>4, <2>1, <2>7 DEF FreshInv
<1>6. ASSUME NEW r \in reqs, Serve(r) PROVE FreshInv'
  <2>1. (\E code \in Codes : Answered(r, code)) => reqs' \subseteq reqs BY DEF Answered
  <2> QED BY <1>0, <1>4, <1>5, <1>6, <2>1, Kinds DEF FreshInv
<1>7. ASSUME NEW q \in Requests, Submit(q) PROVE FreshInv'
  <2>1. PICK x \in Request : x.n = Len(asked) + 1 /\ x.todo = Path[q.op] /\ reqs' = reqs \cup {x}
    BY <1>0, <1>7, Submitted
  <2>2. asked'[x.n] = q BY <1>0, <1>7, <2>1, Submitted
  <2>3. Fresh(x)' BY <2>1, <2>2, Paths DEF Fresh, Op
  <2> QED BY <1>4, <2>1, <2>3 DEF FreshInv
<1>8. CASE UNCHANGED vars
  <2>1. reqs' = reqs BY <1>8 DEF vars
  <2> QED BY <1>4, <2>1 DEF FreshInv
<1> QED BY <1>6, <1>7, <1>8 DEF Next

\* The same of a replacement that was granted.
Holds(i) ==
  asked[i].op = "replace" /\ answers[i] = "ok" =>
    /\ home[asked[i].on] # "none"
    /\ \/ {x.name : x \in RolesOf(asked[i].on)} = asked[i].to
       \/ \E j \in DOMAIN asked \ {i} :
            /\ asked[j].op = "replace" /\ asked[j].on = asked[i].on
            /\ ~ j < i \/ {i, j} \in crossed

HoldsInv == \A i \in DOMAIN asked : Holds(i)

LEMMA HoldsStep ==
  ASSUME AccessInv, Granted, FreshInv, HoldsInv, [Next]_vars
  PROVE  HoldsInv'
<1>0. Shape /\ Data /\ Facts /\ Keeps BY Kept DEF AccessInv
<1>1. /\ DOMAIN asked \subseteq DOMAIN asked' /\ crossed \subseteq crossed'
      /\ \A i \in DOMAIN asked : asked'[i] = asked[i]
  BY <1>0, HistoryKept
\* A request that was granted before.
<1>2. ASSUME NEW i \in DOMAIN asked, answers'[i] = answers[i] PROVE Holds(i)'
  <2> SUFFICES ASSUME asked[i].op = "replace", answers[i] = "ok" PROVE Holds(i)'
    BY <1>1, <1>2 DEF Holds
  <2>1. asked[i].on \in Users BY <1>0, AskedIs DEF Shape
  <2>2. PICK u \in Users : u = asked[i].on BY <2>1
  <2>3. home[u] # "none" /\ home'[u] # "none" BY <1>0, <2>2 DEF HoldsInv, Holds, Keeps
  <2>4. CASE \E j \in DOMAIN asked \ {i} : /\ asked[j].op = "replace" /\ asked[j].on = u
                                           /\ ~ j < i \/ {i, j} \in crossed
    BY <1>1, <2>2, <2>3, <2>4 DEF Holds
  <2>5. CASE {x.name : x \in RolesOf(u)} = asked[i].to /\ RolesOf(u)' = RolesOf(u)
    <3>1. {x.name : x \in RolesOf(u)'} = asked[i].to BY <2>5
    <3> QED BY <1>1, <2>2, <2>3, <3>1 DEF Holds, RolesOf
  <2>6. CASE RolesOf(u)' # RolesOf(u)
    <3>1. PICK r \in reqs : ReplaceRoles(r) /\ On(r) = u BY <2>3, <2>6, RolesChange
    <3>2. Op(r) = "replace" /\ r.n \in DOMAIN asked /\ answers[r.n] = "none" /\ r \in Request
      BY <1>0, <3>1, ReplaceIs, RequestIs DEF Shape
    <3>3. r.n # i /\ (r.n < i => {r.n, i} \in crossed) BY <1>0, <3>2 DEF Shape
    <3>4. {r.n, i} = {i, r.n} OBVIOUS
    <3> QED BY <2>4, <3>1, <3>2, <3>3, <3>4 DEF Op, On
  <2> QED BY <2>2, <2>4, <2>5, <2>6 DEF HoldsInv, Holds
<1>3. ASSUME NEW r \in reqs, Serve(r), Op(r) = "replace", answers'[r.n] = "ok"
      PROVE  ReplaceRoles(r) /\ Answered(r, "ok")
  <2>1. answers[r.n] = "none" /\ r.n \in DOMAIN answers BY <1>0 DEF Shape
  <2>2. ReplaceRoles(r)
    <3>1. ~ Register(r) /\ ~ change_tenant_status(r) /\ ~ update_tenant_fields(r) /\ ~ InsertTenant(r)
      BY <1>3 DEF Register, change_tenant_status, update_tenant_fields, InsertTenant, Commit
    <3>2. ~ SeedTenant(r) /\ ~ Show(r) BY <1>0, <1>3, OpOf DEF SeedTenant, Show, At
    <3>3. ~ Fail(r) /\ ~ Current(r) BY <1>3, <2>1 DEF Fail, Answer, Current
    <3>4. ASSUME NEW step, NEW ok, NEW with, NEW code, Check(r, step, ok, with, code), code # "ok"
          PROVE  answers'[r.n] # "ok"
      <4>1. answers' = answers \/ answers' = [answers EXCEPT ![r.n] = code]
        BY <3>4, CheckIs DEF Answered
      <4> QED BY <2>1, <3>4, <4>1
    <3>5. ~ get_current_user(r) BY <1>3, <3>4 DEF get_current_user
    <3>6. ~ require_permission(r) BY <1>3, <3>4 DEF require_permission
    <3>7. ~ IsFree(r) BY <1>3, <3>4 DEF IsFree
    <3>8. ~ IsSlugFree(r) BY <1>3, <3>4 DEF IsSlugFree
    <3>9. ~ get_tenant_or_404(r) BY <1>3, <3>4 DEF get_tenant_or_404
    <3>10. ~ Target(r)
      <4>1. (IF User(r) = On(r) THEN "403" ELSE "404") # "ok" OBVIOUS
      <4> QED BY <1>3, <3>4, <4>1 DEF Target
    <3> QED BY <1>3, <3>1, <3>2, <3>3, <3>5, <3>6, <3>7, <3>8, <3>9, <3>10 DEF Serve
  <2>3. Answered(r, "500") => answers'[r.n] = "500" BY <2>1 DEF Answered
  <2> QED BY <1>0, <1>3, <2>2, <2>3, ReplaceIs
<1>4. ASSUME NEW r \in reqs, ReplaceRoles(r), Answered(r, "ok") PROVE Holds(r.n)'
  <2>1. /\ On(r) \in Users /\ r.n \in DOMAIN asked /\ Op(r) = "replace" /\ home[On(r)] # "none"
        /\ Well(Op(r), r.todo)
    BY <1>0, <1>4, ReplaceIs, RequestIs, StepSets
  <2>2. PICK u \in Users : u = On(r) BY <2>1
  <2>3. "current" \notin Left(r.todo)
    <3>1. Head(r.todo) = "commit" /\ Rank["commit"] > 4 BY <1>0, <1>4, ReplaceIs DEF Rank
    <3> QED BY <2>1, <3>1, Order
  <2>4. home'[u] # "none" BY <1>0, <2>1, <2>2 DEF Keeps
  <2>5. CASE Other(r.n, u)
    <3>1. PICK j \in DOMAIN asked : j # r.n /\ {r.n, j} \in crossed /\ asked[j].op = "replace"
                                    /\ asked[j].on = u
      BY <2>5 DEF Other
    <3> QED BY <1>1, <2>1, <2>2, <2>4, <3>1 DEF Holds, On
  <2>6. CASE r.current = RolesOf(u)
    <3>1. /\ grants' = (grants \ {Grant(u, x) : x \in r.current \ Wanted(r)})
                       \cup {Grant(u, x) : x \in Wanted(r) \ r.current}
      <4>1. Answered(r, "500") => answers'[r.n] = "500" BY <1>0 DEF Answered, Shape
      <4>2. answers'[r.n] = "ok" BY <1>0, <1>4 DEF Answered, Shape
      <4> QED BY <1>0, <1>4, <2>2, <4>1, <4>2, ReplaceIs
    <3>2. \A x : Grant(u, x).user = u /\ Grant(u, x).role = x BY DEF Grant
    <3>3. \A g \in grants : g.user = u => g = Grant(u, g.role) BY <1>0 DEF Data
    <3>4. \A x : Grant(u, x) \in grants => x \in r.current BY <2>6, <3>2 DEF RolesOf
    <3>5. ASSUME NEW x \in Wanted(r) PROVE Grant(u, x) \in grants'
      <4>1. CASE x \in r.current
        <5>1. PICK g \in grants : g.user = u /\ g.role = x BY <2>6, <4>1 DEF RolesOf
        <5>2. g = Grant(u, x) BY <3>3, <5>1
        <5>3. Grant(u, x) \notin {Grant(u, z) : z \in r.current \ Wanted(r)} BY <3>2
        <5> QED BY <3>1, <5>1, <5>2, <5>3
      <4> QED BY <3>1, <4>1
    <3>6. ASSUME NEW g \in grants', g.user = u PROVE g.role \in Wanted(r)
      <4>1. CASE g \in {Grant(u, x) : x \in Wanted(r) \ r.current} BY <3>2, <4>1
      <4>2. CASE g \in grants /\ g \notin {Grant(u, x) : x \in r.current \ Wanted(r)}
        <5>1. g = Grant(u, g.role) BY <3>3, <3>6, <4>2
        <5>2. g.role \in r.current BY <3>4, <4>2, <5>1
        <5> QED BY <4>2, <5>1, <5>2
      <4> QED BY <3>1, <4>1, <4>2
    <3>7. RolesOf(u)' = Wanted(r) BY <3>2, <3>5, <3>6 DEF RolesOf
    <3>8. {x.name : x \in Wanted(r)} = asked[r.n].to
      <4>1. \A x \in Wanted(r) : x.name \in asked[r.n].to BY DEF Wanted
      <4>2. \A n \in asked[r.n].to : \E x \in Wanted(r) : x.name = n BY <1>0, <1>4, ReplaceIs
      <4> QED BY <4>1, <4>2
    <3>9. {x.name : x \in RolesOf(u)'} = asked[r.n].to BY <3>7, <3>8
    <3> QED BY <1>1, <2>1, <2>2, <2>4, <3>9 DEF Holds, RolesOf, On
  <2> QED BY <2>1, <2>2, <2>3, <2>5, <2>6 DEF FreshInv, Fresh
<1>5. ASSUME NEW r \in reqs, Serve(r) PROVE HoldsInv'
  <2>1. asked' = asked BY <1>0, <1>5, Kinds
  <2>2. r.n \in DOMAIN asked /\ \A i \in DOMAIN asked \ {r.n} : answers'[i] = answers[i]
    <3>1. DOMAIN answers = DOMAIN asked /\ r.n \in DOMAIN asked BY <1>0 DEF Shape
    <3> QED BY <1>0, <1>5, <3>1, Kinds DEF Resumed, Answered
  <2>3. Holds(r.n)'
    <3>1. CASE Op(r) = "replace" /\ answers'[r.n] = "ok" BY <1>3, <1>4, <1>5, <3>1
    <3>2. CASE ~ (Op(r) = "replace" /\ answers'[r.n] = "ok") BY <2>1, <3>2 DEF Holds, Op
    <3> QED BY <3>1, <3>2
  <2> QED BY <1>2, <2>1, <2>2, <2>3 DEF HoldsInv
<1>6. ASSUME NEW q \in Requests, Submit(q) PROVE HoldsInv'
  <2>1. PICK k : k = Len(asked) + 1 OBVIOUS
  <2>2. /\ DOMAIN asked' = DOMAIN asked \cup {k} /\ answers'[k] = "none"
        /\ \A i \in DOMAIN asked : answers'[i] = answers[i]
    BY <1>0, <1>6, <2>1, Submitted
  <2>3. Holds(k)' BY <2>2 DEF Holds
  <2> QED BY <1>2, <2>2, <2>3 DEF HoldsInv
<1>7. CASE UNCHANGED vars
  <2>1. asked' = asked /\ answers' = answers BY <1>7 DEF vars
  <2> QED BY <1>2, <2>1 DEF HoldsInv
<1> QED BY <1>5, <1>6, <1>7 DEF Next

\* A replacement that was granted holds, for any tenants, users and requests,
\* until another one of the same user, or one that is served at the same time
\* (services/user.py:83-134).
THEOREM ReplacedCorrect == Spec => []Replaced
<1>1. Init => Granted /\ FreshInv /\ HoldsInv
  BY ApartStart DEF ApartInv, Init, FreshInv, HoldsInv
<1>2. AccessInv /\ (Granted /\ FreshInv /\ HoldsInv) /\ [Next]_vars => (Granted /\ FreshInv /\ HoldsInv)'
  BY GrantedStep, FreshStep, HoldsStep
<1>3. HoldsInv => Replaced
  <2> SUFFICES ASSUME HoldsInv, NEW i \in DOMAIN asked, asked[i].op = "replace", answers[i] = "ok",
                      \A j \in DOMAIN asked \ {i} :
                        asked[j].op = "replace" /\ asked[j].on = asked[i].on => j < i /\ {i, j} \notin crossed
               PROVE  {x.name : x \in RolesOf(asked[i].on)} = asked[i].to
    BY DEF Replaced
  <2> QED BY DEF HoldsInv, Holds
<1> QED BY <1>1, <1>2, <1>3, AccessHolds, PTL DEF Spec
=============================================================================
