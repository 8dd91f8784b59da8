------------------------------- MODULE Gateway -------------------------------
(***************************************************************************)
(* What surrounds every request (app/core/middleware.py, app/main.py):     *)
(*    RequestId -> MetricsError -> RequestLogging -> RateLimit -> route    *)
(* over the sliding window of RateLimit.  Code between two awaits is one   *)
(* step.  The script is sent to Redis and runs there, or never; it may run *)
(* when the request that sent it has given up waiting.                     *)
(*                                                                         *)
(* An inner layer runs in a task with a copy of the context of the layer   *)
(* around it, so what RequestLogging puts into user_id_var is seen by it   *)
(* and further in, and not by MetricsError.                                *)
(***************************************************************************)
EXTENDS RateLimit

CONSTANTS
  Users,            \* subjects of valid access tokens
  Addresses,        \* IP addresses, in their normal spelling
  Trusted,          \* TRUSTED_PROXY_IPS
  TrustProxy,       \* TRUST_PROXY_HEADERS
  SafeIds,          \* values of X-Request-ID that match the white list
  Arrivals,         \* the requests that may come in
  MaxRequests       \* bound: requests in one behaviour

ASSUME TrustAssumption == Trusted \subseteq Addresses /\ TrustProxy \in BOOLEAN

VARIABLES
  reqs,             \* the requests being served
  scripts,          \* rate limit scripts sent to Redis and not run yet
  count,            \* requests so far
  gauge,            \* taskflow_http_requests_in_progress
  counted,          \* taskflow_http_requests_total, by status
  logs,             \* history: the records written to the log
  passed,           \* history: the requests that reached the router, and how
  answers           \* history: the responses sent

served == <<reqs, scripts, count, gauge, counted, logs, passed, answers>>
gatewayVars == <<vars, served>>

Statuses == {"200", "429", "500", "503"}
Null == "null"

\* ::ffff:a is another spelling of a; anything else is no address.
Mapped == {<<"::ffff:", a>> : a \in Addresses}

normalize_ip(s) == IF s \in Addresses THEN s ELSE IF s \in Mapped THEN s[2] ELSE Null

single_forwarded_ip(header) == IF Len(header) = 1 THEN normalize_ip(header[1]) ELSE Null

resolve_client_ip(peer, header) ==
  LET direct == IF normalize_ip(peer) = Null THEN peer ELSE normalize_ip(peer)
      believed == /\ TrustProxy /\ normalize_ip(peer) \in Trusted
                  /\ single_forwarded_ip(header) # Null
  IN IF believed THEN single_forwarded_ip(header) ELSE direct

rate_limit_identity(a) ==
  IF a.token \in Users THEN <<"user", a.token>>
  ELSE <<"ip", resolve_client_ip(a.peer, a.forwarded)>>

resolve_request_id(a, n) == IF a.id \in SafeIds THEN a.id ELSE <<"uuid4", n>>
user_id(a) == IF a.token \in Users THEN a.token ELSE Null

\* Who a request comes from, whatever way it took and however the address of
\* its peer is spelled: the user of a valid token, else the client.
Sender(a) == IF a.token \in Users THEN <<"user", a.token>> ELSE <<"ip", a.client>>

Spellings(address) == {address, <<"::ffff:", address>>}

\* A client connects by itself, and is no proxy, or a trusted proxy does it for him:
\* Nginx puts the one address it sees into the header, over whatever was there.
Direct(a) ==
  a.peer \in Spellings(a.client) /\ (TrustProxy /\ a.client \in Trusted => a.forwarded = <<>>)
Proxied(a) ==
  /\ TrustProxy /\ \E p \in Trusted : a.peer \in Spellings(p)
  /\ \E c \in Spellings(a.client) : a.forwarded = <<c>>

ASSUME AddressAssumption == Addresses \cap Mapped = {} /\ Null \notin Addresses
ASSUME ArrivalsAssumption ==
  \A a \in Arrivals : a.client \in Addresses /\ (Direct(a) \/ Proxied(a)) /\ Sender(a) \in Keys

GatewayInit ==
  /\ Init
  /\ reqs = {} /\ scripts = {} /\ count = 0
  /\ gauge = 0 /\ counted = [s \in Statuses |-> 0]
  /\ logs = {} /\ passed = {} /\ answers = {}

-----------------------------------------------------------------------------
Replace(r, x) == reqs' = (reqs \ {r}) \cup {x}
Log(r, what, user, status) ==
  logs' = logs \cup {[n |-> r.n, what |-> what, rid |-> r.rid, user |-> user, status |-> status]}

\* The layers on the way in, up to the first await that leaves the process.
Arrive(a) ==
  /\ count < MaxRequests
  /\ count' = count + 1 /\ gauge' = gauge + 1
  /\ LET n == count + 1
         r == [n |-> n, a |-> a, rid |-> resolve_request_id(a, n), user |-> user_id(a),
               at |-> IF a.path = "api" THEN "limit" ELSE "route",
               verdict |-> Null, status |-> Null]
     IN /\ reqs' = reqs \cup {r}
        /\ scripts' = IF a.path = "api"
                      THEN scripts \cup {[n |-> n, key |-> rate_limit_identity(a)]} ELSE scripts
        /\ passed' = IF a.path = "api" THEN passed
                     ELSE passed \cup {[n |-> n, a |-> a, how |-> "exempt"]}
  /\ UNCHANGED <<vars, counted, logs, answers>>

Tell(s, v) ==
  reqs' = {IF r.n = s.n /\ r.at = "limit" THEN [r EXCEPT !.verdict = v] ELSE r : r \in reqs}

\* check_rate_limit in Redis.
RunScript(s) ==
  /\ scripts' = scripts \ {s}
  /\ \/ Admit(s.key) /\ Tell(s, "allowed")
     \/ Refuse(s.key) /\ Tell(s, "refused")
  /\ UNCHANGED <<count, gauge, counted, logs, passed, answers>>

LoseScript(s) ==
  /\ scripts' = scripts \ {s}
  /\ UNCHANGED <<vars, reqs, count, gauge, counted, logs, passed, answers>>

PassOn(r, how) ==
  /\ Replace(r, [r EXCEPT !.at = "route"])
  /\ passed' = passed \cup {[n |-> r.n, a |-> r.a, how |-> how]}

\* The answer of Redis: on to the router, or 429 at once.
Receive(r) ==
  /\ r.at = "limit" /\ r.verdict # Null
  /\ IF r.verdict = "allowed" THEN PassOn(r, "allowed")
     ELSE Replace(r, [r EXCEPT !.at = "log", !.status = "429"]) /\ UNCHANGED passed
  /\ UNCHANGED <<vars, scripts, count, gauge, counted, logs, answers>>

\* Mutant: only an answer of Redis ends the wait.
FailOpenNever(r) == FALSE /\ UNCHANGED gatewayVars

\* Mutant: a request is refused when Redis does not answer.
FailClosed(r) ==
  /\ r.at = "limit"
  /\ Replace(r, [r EXCEPT !.at = "log", !.status = "503"])
  /\ Log(r, "warning", r.user, Null)
  /\ UNCHANGED <<vars, scripts, count, gauge, counted, passed, answers>>

\* An error of Redis, or RATE_LIMIT_CALL_TIMEOUT_SECONDS are over.
FailOpen(r) ==
  /\ r.at = "limit"
  /\ PassOn(r, "unjudged")
  /\ Log(r, "warning", r.user, Null)
  /\ UNCHANGED <<vars, scripts, count, gauge, counted, answers>>

\* A handler returns (200 stands for every status it may give) or raises an
\* exception that nobody handles.
Route(r, outcome) ==
  /\ r.at = "route" /\ r.a.path # "ready"
  /\ Replace(r, [r EXCEPT !.at = "log", !.status = outcome])
  /\ UNCHANGED <<vars, scripts, count, gauge, counted, logs, passed, answers>>

\* health_ready: the database first, then Redis, each within its timeout.
ProbeDatabase(r, up) ==
  /\ r.at = "route" /\ r.a.path = "ready"
  /\ Replace(r, [r EXCEPT !.at = "probe", !.verdict = up])
  /\ UNCHANGED <<vars, scripts, count, gauge, counted, logs, passed, answers>>

ProbeRedis(r, up) ==
  /\ r.at = "probe"
  /\ Replace(r, [r EXCEPT !.at = "log", !.status = IF r.verdict = "up" /\ up = "up" THEN "200" ELSE "503"])
  /\ UNCHANGED <<vars, scripts, count, gauge, counted, logs, passed, answers>>

Shown(status) == IF status = "raised" THEN "500" ELSE status

\* Mutant: user_id_var is reset before the record is written.
LogAccessAfterReset(r) ==
  /\ r.at = "log"
  /\ Log(r, "access", Null, Shown(r.status))
  /\ Replace(r, [r EXCEPT !.at = "count", !.user = Null])
  /\ UNCHANGED <<vars, scripts, count, gauge, counted, passed, answers>>

\* RequestLogging on the way out: the record, then user_id_var is reset.
LogAccess(r) ==
  /\ r.at = "log"
  /\ Log(r, "access", r.user, Shown(r.status))
  /\ Replace(r, [r EXCEPT !.at = "count", !.user = Null])
  /\ UNCHANGED <<vars, scripts, count, gauge, counted, passed, answers>>

\* Mutant: an unhandled exception is not counted, and leaves the gauge up.
CountReturned(r) ==
  /\ r.at = "count"
  /\ Replace(r, [r EXCEPT !.at = "answer", !.status = Shown(r.status)])
  /\ IF r.status = "raised"
     THEN Log(r, "error", r.user, "500") /\ UNCHANGED <<gauge, counted>>
     ELSE /\ gauge' = gauge - 1 /\ counted' = [counted EXCEPT ![r.status] = @ + 1]
          /\ UNCHANGED logs
  /\ UNCHANGED <<vars, scripts, count, passed, answers>>

\* MetricsError on the way out: an exception ends here, as the 500 envelope.
Count(r) ==
  /\ r.at = "count"
  /\ gauge' = gauge - 1
  /\ counted' = [counted EXCEPT ![Shown(r.status)] = @ + 1]
  /\ IF r.status = "raised" THEN Log(r, "error", r.user, "500") ELSE UNCHANGED logs
  /\ Replace(r, [r EXCEPT !.at = "answer", !.status = Shown(r.status)])
  /\ UNCHANGED <<vars, scripts, count, passed, answers>>

\* RequestId on the way out: request_id_var is reset, the header is set.
Answer(r) ==
  /\ r.at = "answer"
  /\ reqs' = reqs \ {r}
  /\ answers' = answers \cup {[n |-> r.n, a |-> r.a, status |-> r.status, rid |-> r.rid]}
  /\ UNCHANGED <<vars, scripts, count, gauge, counted, logs, passed>>

Pass == Tick /\ UNCHANGED served

Serve(r) ==
  \/ Receive(r) \/ FailOpen(r)
  \/ \E outcome \in {"200", "raised"} : Route(r, outcome)
  \/ \E up \in {"up", "down"} : ProbeDatabase(r, up) \/ ProbeRedis(r, up)
  \/ LogAccess(r) \/ Count(r) \/ Answer(r)

GatewayNext ==
  \/ \E a \in Arrivals : Arrive(a)
  \/ \E s \in scripts : RunScript(s) \/ LoseScript(s)
  \/ \E r \in reqs : Serve(r)
  \/ Pass

\* The event loop goes on with every request; nothing is assumed of Redis.
Fairness == \A n \in 1 .. MaxRequests : WF_gatewayVars(\E r \in reqs : r.n = n /\ Serve(r))

GatewaySpec == GatewayInit /\ [][GatewayNext]_gatewayVars
FairGatewaySpec == GatewaySpec /\ Fairness

-----------------------------------------------------------------------------
\* One request, one story: a request that was answered has left exactly one access
\* record, with the status of the answer and the user it came from, and an error record
\* if and only if the answer is the 500 of an unhandled exception; whatever it wrote to
\* the log, then or earlier, carries the id in the header of its answer, and two
\* requests share an id only if a client chose it
\* (core/middleware.py:235-262, :358-404, :430-474).
OneStory ==
  /\ \A x \in answers :
       LET records(what) == {l \in logs : l.n = x.n /\ l.what = what}
       IN /\ Cardinality(records("access")) = 1
          /\ \A l \in records("access") : l.status = x.status /\ l.user = user_id(x.a)
          /\ records("error") # {} <=> x.status = "500"
  /\ \A l \in logs, x \in reqs \cup answers : l.n = x.n => l.rid = x.rid
  /\ \A x, y \in answers : x.rid = y.rid /\ x # y => x.rid \in SafeIds

\* The metrics add up: the counter of a status is the number of responses with
\* it, sent or on their way out, and the gauge is the number of requests inside,
\* however they end (core/middleware.py:373-404).
CountsAgree ==
  /\ \A s \in Statuses :
       counted[s] = Cardinality({x \in answers : x.status = s})
                      + Cardinality({r \in reqs : r.at = "answer" /\ r.status = s})
  /\ gauge = Cardinality({r \in reqs : r.at # "answer"})

\* The window of a sender is charged for its own requests that are served and
\* for no other: those judged are all in it, and what else is in it belongs to
\* requests that Redis judged too late (core/middleware.py:143-196,
\* core/client_ip.py:45-138).
Charged ==
  \A k \in Keys :
    LET by(how) == {p \in passed : Sender(p.a) = k /\ p.how = how}
        going == {r \in reqs : r.at = "limit" /\ r.verdict = "allowed" /\ Sender(r.a) = k}
        judged == Cardinality(by("allowed")) + Cardinality(going)
    IN /\ judged <= Len(admitted[k])
       /\ Len(admitted[k]) <= judged + Cardinality(by("unjudged"))

\* Every request is answered, even if Redis never answers (core/middleware.py:155-168).
Answered == \A n \in 1 .. MaxRequests : (\E r \in reqs : r.n = n) ~> \E x \in answers : x.n = n
=============================================================================
