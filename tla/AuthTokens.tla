----------------------------- MODULE AuthTokens -----------------------------
(***************************************************************************)
(* Refresh tokens on the server (app/services/auth.py, crud/refresh_token.py). *)
(* Only the jti of a token is stored; a token is good for one exchange.    *)
(* Exchange and logout first read the row, then write: the UPDATE, the     *)
(* INSERT of the new jti and the COMMIT are one step, what lies between    *)
(* the read and that step is not protected by any lock.                    *)
(***************************************************************************)
EXTENDS Naturals, Sequences

CONSTANTS
  Users,
  MaxTokens,        \* bound: refresh tokens issued in one behaviour
  MaxCalls          \* bound: calls of /auth/refresh and /auth/logout

ASSUME TokenBounds == MaxTokens \in Nat /\ MaxCalls \in Nat

VARIABLES
  tokens,           \* the rows of refresh_tokens in the order they were inserted: the
                    \* user, and as history the first token of the login it descends from
  revoked,          \* refresh_tokens.revoked
  expired,          \* the tokens whose expires_at has passed
  active,           \* the users with users.is_active
  calls,            \* calls being served
  served,           \* calls accepted so far
  done,             \* history: the calls that committed
  shared            \* history: the tokens that two calls presented at the same time

vars == <<tokens, revoked, expired, active, calls, served, done, shared>>

Jtis == 1 .. MaxTokens
Known == DOMAIN tokens
Live(j) == j \in Known /\ j \notin revoked
Call == [n: Nat, op: {"refresh", "logout"}, user: Users, jti: Jtis,
         late: BOOLEAN, step: {"lookup", "user", "commit"}]

Init ==
  /\ tokens = <<>> /\ revoked = {} /\ expired = {}
  /\ active = Users
  /\ calls = {} /\ served = 0 /\ done = {} /\ shared = {}

\* store_refresh_token of a new pair, for user u in session s.
Issue(u, s) ==
  /\ Len(tokens) < MaxTokens
  /\ tokens' = Append(tokens, [user |-> u, session |-> s])

Login(u) ==
  /\ u \in active
  /\ Issue(u, Len(tokens) + 1)
  /\ UNCHANGED <<revoked, expired, active, calls, served, done, shared>>

\* A token is presented to refresh or, by a signed-in user, to logout.  `late`
\* remembers that the token was no longer good when the call came in.
Submit(op, u, j) ==
  /\ served < MaxCalls
  /\ j \in Known
  /\ op = "refresh" => u = tokens[j].user
  /\ op = "logout" => u \in active
  /\ served' = served + 1
  /\ calls' = calls \cup {[n |-> served + 1, op |-> op, user |-> u, jti |-> j,
                           late |-> ~Live(j) \/ j \in expired, step |-> "lookup"]}
  /\ shared' = IF \E c \in calls : c.jti = j THEN shared \cup {j} ELSE shared
  /\ UNCHANGED <<tokens, revoked, expired, active, done>>

Advance(c, s) == calls' = (calls \ {c}) \cup {[c EXCEPT !.step = s]}
Finish(c) == calls' = calls \ {c}

Check(c, ok, s) ==
  /\ IF ok THEN Advance(c, s) ELSE Finish(c)
  /\ UNCHANGED <<tokens, revoked, expired, active, served, done, shared>>

\* Mutant: the revoked column is not looked at.
LookupAnyRow(c) ==
  /\ c.op = "refresh" /\ c.step = "lookup"
  /\ Check(c, c.jti \in Known /\ c.jti \notin expired, "user")

\* Refresh answers 401 to a token that is revoked or past its time.
LookupRefresh(c) ==
  /\ c.op = "refresh" /\ c.step = "lookup"
  /\ Check(c, Live(c.jti) /\ c.jti \notin expired, "user")

\* load_current_user: a disabled account gets 403.
LoadUser(c) == c.step = "user" /\ Check(c, c.user \in active, "commit")

\* Logout says OK to a token that is no good anyway, and 403 to someone else's.
LookupLogout(c) ==
  /\ c.op = "logout" /\ c.step = "lookup"
  /\ Check(c, Live(c.jti) /\ c.jti \notin expired /\ tokens[c.jti].user = c.user, "commit")

\* Mutant: the old token is not revoked.
RotateKeepOld(c) ==
  /\ c.op = "refresh" /\ c.step = "commit"
  /\ Issue(c.user, tokens[c.jti].session)
  /\ Finish(c) /\ done' = done \cup {c}
  /\ UNCHANGED <<revoked, expired, active, served, shared>>

Rotate(c) ==
  /\ c.op = "refresh" /\ c.step = "commit"
  /\ revoked' = revoked \cup {c.jti}
  /\ Issue(c.user, tokens[c.jti].session)
  /\ Finish(c) /\ done' = done \cup {c}
  /\ UNCHANGED <<expired, active, served, shared>>

Revoke(c) ==
  /\ c.op = "logout" /\ c.step = "commit"
  /\ revoked' = revoked \cup {c.jti}
  /\ Finish(c) /\ done' = done \cup {c}
  /\ UNCHANGED <<tokens, expired, active, served, shared>>

\* The worker dies or the commit is refused: nothing was written.
Fail(c) ==
  /\ Finish(c)
  /\ UNCHANGED <<tokens, revoked, expired, active, served, done, shared>>

Expire(j) ==
  /\ j \in Known \ expired /\ expired' = expired \cup {j}
  /\ UNCHANGED <<tokens, revoked, active, calls, served, done, shared>>

\* users.is_active is flipped outside the API.
Toggle(u) ==
  /\ active' = IF u \in active THEN active \ {u} ELSE active \cup {u}
  /\ UNCHANGED <<tokens, revoked, expired, calls, served, done, shared>>

Next ==
  \/ \E u \in Users : Login(u) \/ Toggle(u)
  \/ \E op \in {"refresh", "logout"}, u \in Users, j \in Jtis : Submit(op, u, j)
  \/ \E c \in calls : \/ LookupRefresh(c) \/ LoadUser(c) \/ LookupLogout(c)
                      \/ Rotate(c) \/ Revoke(c) \/ Fail(c)
  \/ \E j \in Jtis : Expire(j)

Spec == Init /\ [][Next]_vars

-----------------------------------------------------------------------------
\* The variables have their types.
TypeOK ==
  /\ tokens \in Seq([user: Users, session: Jtis]) /\ Len(tokens) <= MaxTokens
  /\ revoked \subseteq Known /\ expired \subseteq Known
  /\ active \subseteq Users
  /\ calls \subseteq Call /\ done \subseteq Call
  /\ \A c \in calls : c.jti \in Known
  /\ served \in Nat
  /\ shared \subseteq Known

\* A refresh that comes in when its token has already been exchanged, logged out or
\* is past its time never yields a new pair, whatever runs beside it
\* (services/auth.py:174-198).
StaleRejected == \A c \in done : c.op = "refresh" => ~c.late

\* What is documented: a token that was exchanged is refused from then on, so no
\* token is exchanged twice (services/auth.py:174-175, docs/API_CONTRACT.md:121).
\* Two calls that present the token at the same time are both served.
SingleUse ==
  \A c, d \in done : c.op = "refresh" /\ d.op = "refresh" /\ c.jti = d.jti => c = d

GoodTokens(s) == {j \in Known : tokens[j].session = s /\ Live(j)}

\* The session s is over for good: no token of it is good, and no refresh that has
\* read one of its tokens is still under way.
Dead(s) ==
  /\ GoodTokens(s) = {}
  /\ \A c \in calls : c.op = "refresh" /\ c.step # "lookup" => tokens[c.jti].session # s

\* A login without a good token stays without one, whatever becomes of its old tokens
\* from then on, several calls at once that present the same one included, provided no
\* refresh has already looked one of them up (services/auth.py:174-210).
DeadForGood == [][\A s \in Known : Dead(s) => Dead(s)']_vars

\* No token of the session was ever presented twice at the same time.
Orderly(s) == \A j \in shared : tokens[j].session # s

\* As long as no two calls present a token of a session at the same time, that
\* login has at most one good token, whatever happens to other sessions
\* (services/auth.py:202-210).
OneGoodToken == \A s \in Jtis : Orderly(s) => \A j, k \in GoodTokens(s) : j = k

\* The token of a session that counts, 0 if there is none.
Current(s) ==
  LET good == GoodTokens(s)
  IN IF good = {} \/ ~Orderly(s) THEN 0 ELSE CHOOSE j \in good : TRUE

Session == INSTANCE RefreshSession WITH
  current <- [s \in Jtis |-> Current(s)],
  over <- {s \in Known : tokens[s].session = s /\ Current(s) = 0}

\* Such a session does what RefreshSession says, up to the moment when one of its
\* tokens is presented twice at once, from which on nothing is promised of it: a
\* token is exchanged for a newer one, and a session that is over stays so.
SessionSpec == Session!Spec
=============================================================================
