---------------------------- MODULE ClientSession ----------------------------
(***************************************************************************)
(* The session of the web client (frontend/src/utils/request.ts,           *)
(* stores/auth.ts, router/guards.ts) over the server of AuthTokens.  The   *)
(* tabs of a browser share the tokens in localStorage and nothing else.    *)
(* JavaScript between two awaits is one step of its tab.                   *)
(*                                                                         *)
(* The two tokens of a pair are known by the jti of its refresh token; no  *)
(* token is 0.  A request that is refused with 401 waits for the refresh   *)
(* of its tab and is sent once more; whatever then goes wrong with it      *)
(* clears the session.                                                     *)
(***************************************************************************)
EXTENDS AuthTokens, FiniteSets

CONSTANTS
  User,                  \* whose browser it is
  Tabs,
  MaxRequests,           \* bound: requests sent in one behaviour
  MaxExpired             \* bound: refresh tokens that run out in one behaviour

ASSUME UserAssumption == User \in Users
ASSUME SessionBounds == MaxRequests \in Nat /\ MaxExpired \in Nat

VARIABLES
  store,            \* tokenStorage: the pair in localStorage
  stale,            \* access tokens past their time
  hasToken,         \* stores/auth.ts, for each tab
  refreshing,       \* the refresh a tab waits for: the number of the call, or 0
  requests,         \* the requests a tab has not had an answer to
  sent,             \* requests so far
  presented,        \* history: refreshes started, with tab, token and call
  minted,           \* the pair each refresh was answered with
  lost,             \* history: tokens whose refresh or logout lost its answer
  ended             \* history: logins that a calm logout has ended

client == <<store, stale, hasToken, refreshing, requests, sent, presented, minted, lost, ended>>
clientVars == <<vars, client>>

ClientInit ==
  /\ Init
  /\ store = 0 /\ stale = {} /\ hasToken = [t \in Tabs |-> FALSE]
  /\ refreshing = [t \in Tabs |-> 0]
  /\ requests = {} /\ sent = 0
  /\ presented = {} /\ minted = {} /\ lost = {} /\ ended = {}

-----------------------------------------------------------------------------
\* A request as it leaves: the interceptor adds the access token in the store.
\* `quiet` is kept as long as nothing but the request itself touches the session.
Request(i, t, kind, bearer) ==
  [id |-> i, tab |-> t, kind |-> kind, bearer |-> bearer, body |-> store,
   retried |-> FALSE, at |-> "sent", call |-> 0,
   quiet |-> \A s \in Tabs : refreshing[s] = 0]

\* tokenStorage.clear and clearSession, in the tab t.
Clear(t) == store' = 0 /\ hasToken' = [hasToken EXCEPT ![t] = FALSE]

Disturbed(Q) == {[q EXCEPT !.quiet = FALSE] : q \in Q}

\* fetchCurrentUser: the profile and, beside it, the permissions.
FetchUser(t, bearer) ==
  {Request(sent + 1, t, "me", bearer), Request(sent + 2, t, "api", bearer)}

SignIn(t) ==
  /\ ~hasToken[t] /\ sent + 2 <= MaxRequests
  /\ Login(User)
  /\ store' = Len(tokens) + 1 /\ hasToken' = [hasToken EXCEPT ![t] = TRUE]
  /\ requests' = Disturbed(requests) \cup FetchUser(t, Len(tokens) + 1)
  /\ sent' = sent + 2
  /\ UNCHANGED <<stale, refreshing, presented, minted, lost, ended>>

\* login fails, and clears the tokens of all tabs.  If only its answer was lost the
\* server has a login that nobody can use; its row is left out.
SignInFail(t) ==
  /\ ~hasToken[t] /\ Clear(t)
  /\ UNCHANGED <<vars, stale, refreshing, requests, sent, presented, minted, lost, ended>>

\* Whose answer never reaches a tab that is loaded again.
Abandoned(t) ==
  {p.jti : p \in {p \in presented : p.n = refreshing[t]}}
    \cup {q.body : q \in {q \in requests : q.tab = t /\ q.at = "call"}}

\* The page is loaded again: what ran in the tab is gone, the store is read.
Reload(t) ==
  /\ sent + 2 <= MaxRequests
  /\ hasToken' = [hasToken EXCEPT ![t] = store # 0]
  /\ refreshing' = [refreshing EXCEPT ![t] = 0]
  /\ lost' = lost \cup Abandoned(t)
  /\ requests' = {q \in requests : q.tab # t}
                   \cup (IF store = 0 THEN {} ELSE FetchUser(t, store))
  /\ sent' = IF store = 0 THEN sent ELSE sent + 2
  /\ UNCHANGED <<vars, store, stale, presented, minted, ended>>

Send(t) ==
  /\ hasToken[t] /\ sent < MaxRequests
  /\ requests' = requests \cup {Request(sent + 1, t, "api", store)}
  /\ sent' = sent + 1
  /\ UNCHANGED <<vars, store, stale, hasToken, refreshing, presented, minted, lost, ended>>

\* Mutant: the local session goes first, and the request has no token to show.
LogoutClearFirst(t) ==
  /\ hasToken[t] /\ sent < MaxRequests
  /\ requests' = IF store = 0 THEN requests
                 ELSE requests \cup {Request(sent + 1, t, "logout", 0)}
  /\ sent' = sent + 1
  /\ Clear(t)
  /\ UNCHANGED <<vars, stale, refreshing, presented, minted, lost, ended>>

\* logout takes the refresh token from the store, and cleans up when it is over.
Logout(t) ==
  /\ hasToken[t] /\ sent < MaxRequests
  /\ IF store = 0 THEN Clear(t) /\ UNCHANGED requests
     ELSE /\ requests' = requests \cup {Request(sent + 1, t, "logout", store)}
          /\ UNCHANGED <<store, hasToken>>
  /\ sent' = sent + 1
  /\ UNCHANGED <<vars, stale, refreshing, presented, minted, lost, ended>>

-----------------------------------------------------------------------------
Accepted(q) == q.bearer # 0 /\ q.bearer \notin stale

\* The logins that q ends if it is a logout over which nothing else happened, of a
\* session whose tokens were never presented twice at once.
Ends(q) ==
  IF /\ q.kind = "logout" /\ q.quiet
     /\ q.body \notin stale \cup expired \cup lost
     /\ Orderly(tokens[q.body].session)
  THEN {tokens[q.body].session} ELSE {}

\* The answer to q is there, or never will be: what the caller does then.
Settle(q, outcome) ==
  /\ requests' = requests \ {q}
  /\ IF \/ q.kind = "logout"
        \/ outcome # "ok" /\ (q.kind = "me" \/ q.retried \/ outcome = "401")
     THEN Clear(q.tab) ELSE UNCHANGED <<store, hasToken>>
  /\ ended' = IF outcome = "error" THEN ended ELSE ended \cup Ends(q)
  /\ UNCHANGED <<stale, refreshing, sent, presented, minted>>

Succeed(q) ==
  /\ q.at = "sent" /\ Accepted(q) /\ q.kind # "logout"
  /\ Settle(q, "ok")
  /\ UNCHANGED <<vars, lost>>

\* /auth/logout with an access token that is good: the call of AuthTokens.
CallLogout(q) ==
  /\ q.at = "sent" /\ Accepted(q) /\ q.kind = "logout"
  /\ Submit("logout", User, q.body)
  /\ requests' = (requests \ {q}) \cup {[q EXCEPT !.at = "call", !.call = served + 1]}
  /\ UNCHANGED <<store, stale, hasToken, refreshing, sent, presented, minted, lost, ended>>

LogoutAnswered(q) ==
  /\ q.at = "call" /\ \A c \in calls : c.n # q.call
  /\ Settle(q, "ok")
  /\ UNCHANGED <<vars, lost>>

\* No answer within 15 seconds, or one that is neither a success nor 401.
Error(q) ==
  /\ q.at \in {"sent", "call"}
  /\ Settle(q, "error")
  /\ lost' = IF q.at = "call" THEN lost \cup {q.body} ELSE lost
  /\ UNCHANGED vars

Wait(q) == [q EXCEPT !.retried = TRUE, !.at = "wait", !.quiet = FALSE]

\* 401, first time: the refresh under way serves this request as well.
JoinRefresh(q) ==
  /\ q.at = "sent" /\ ~Accepted(q) /\ ~q.retried
  /\ refreshing[q.tab] # 0
  /\ requests' = (requests \ {q}) \cup {Wait(q)}
  /\ UNCHANGED <<vars, store, stale, hasToken, refreshing, sent, presented, minted,
                 lost, ended>>

\* Mutant: whatever refresh is under way, another one is started.
StartRefreshAlways(q) ==
  /\ q.at = "sent" /\ ~Accepted(q) /\ ~q.retried /\ store # 0
  /\ Submit("refresh", User, store)
  /\ refreshing' = [refreshing EXCEPT ![q.tab] = served + 1]
  /\ presented' = presented \cup {[tab |-> q.tab, jti |-> store, n |-> served + 1]}
  /\ requests' = Disturbed(requests \ {q}) \cup {Wait(q)}
  /\ UNCHANGED <<store, stale, hasToken, sent, minted, lost, ended>>

\* 401, first time: requestNewAccessToken with the refresh token in the store.
StartRefresh(q) ==
  /\ q.at = "sent" /\ ~Accepted(q) /\ ~q.retried
  /\ refreshing[q.tab] = 0 /\ store # 0
  /\ Submit("refresh", User, store)
  /\ refreshing' = [refreshing EXCEPT ![q.tab] = served + 1]
  /\ presented' = presented \cup {[tab |-> q.tab, jti |-> store, n |-> served + 1]}
  /\ requests' = Disturbed(requests \ {q}) \cup {Wait(q)}
  /\ UNCHANGED <<store, stale, hasToken, sent, minted, lost, ended>>

\* 401 with nothing to refresh with, or 401 again.
GiveUp(q) ==
  /\ q.at = "sent" /\ ~Accepted(q)
  /\ q.retried \/ (refreshing[q.tab] = 0 /\ store = 0)
  /\ Settle(q, "401")
  /\ UNCHANGED <<vars, lost>>

-----------------------------------------------------------------------------
Waiting(t) == {q \in requests : q.tab = t /\ q.at = "wait"}

\* Mutant: the new pair is used, but not saved.
RefreshDoneUnsaved(t) ==
  \E m \in minted :
    /\ m.n = refreshing[t]
    /\ refreshing' = [refreshing EXCEPT ![t] = 0]
    /\ requests' = (requests \ Waiting(t))
         \cup {[q EXCEPT !.at = "sent", !.bearer = m.jti] : q \in Waiting(t)}
    /\ UNCHANGED <<vars, store, stale, hasToken, sent, presented, minted, lost, ended>>

\* The new pair is saved, and all who waited send their request again.
RefreshDone(t) ==
  \E m \in minted :
    /\ m.n = refreshing[t]
    /\ store' = m.jti
    /\ refreshing' = [refreshing EXCEPT ![t] = 0]
    /\ requests' = (requests \ Waiting(t))
         \cup {[q EXCEPT !.at = "sent", !.bearer = m.jti] : q \in Waiting(t)}
    /\ UNCHANGED <<vars, stale, hasToken, sent, presented, minted, lost, ended>>

\* Mutant: only an answer ends the wait.
RefreshFailAnswered(t) ==
  /\ refreshing[t] # 0
  /\ ~\E m \in minted : m.n = refreshing[t]
  /\ \A c \in calls : c.n # refreshing[t]
  /\ refreshing' = [refreshing EXCEPT ![t] = 0]
  /\ requests' = requests \ Waiting(t)
  /\ Clear(t)
  /\ UNCHANGED <<vars, stale, sent, presented, minted, lost, ended>>

\* The refresh is refused, or its answer is lost, or 15 seconds are over: those
\* who waited fail, and the session is cleared.
RefreshFail(t) ==
  /\ refreshing[t] # 0
  /\ lost' = IF \/ \E m \in minted : m.n = refreshing[t]
                \/ \E c \in calls : c.n = refreshing[t]
             THEN lost \cup {p.jti : p \in {p \in presented : p.n = refreshing[t]}} ELSE lost
  /\ refreshing' = [refreshing EXCEPT ![t] = 0]
  /\ requests' = requests \ Waiting(t)
  /\ IF Waiting(t) = {} THEN UNCHANGED <<store, hasToken>> ELSE Clear(t)
  /\ UNCHANGED <<vars, stale, sent, presented, minted, ended>>

ServerStep(c) ==
  \/ /\ LookupRefresh(c) \/ LoadUser(c) \/ LookupLogout(c)
        \/ Revoke(c)
     /\ UNCHANGED client
  \/ /\ Fail(c)
     /\ requests' = {IF q.at = "call" /\ q.call = c.n THEN [q EXCEPT !.quiet = FALSE] ELSE q
                       : q \in requests}
     /\ UNCHANGED <<store, stale, hasToken, refreshing, sent, presented, minted, lost, ended>>
  \/ /\ Rotate(c)
     /\ minted' = minted \cup {[n |-> c.n, jti |-> Len(tokens) + 1]}
     /\ UNCHANGED <<store, stale, hasToken, refreshing, requests, sent, presented, lost, ended>>

\* Access tokens are good for minutes, refresh tokens for days.
AccessExpires(j) ==
  /\ j \in DOMAIN tokens \ stale /\ stale' = stale \cup {j}
  /\ UNCHANGED <<vars, store, hasToken, refreshing, requests, sent, presented, minted,
                 lost, ended>>

RefreshExpires(j) ==
  /\ j \in stale /\ Cardinality(expired) < MaxExpired
  /\ Expire(j)
  /\ UNCHANGED client

Tab(t) ==
  SignIn(t) \/ SignInFail(t) \/ Reload(t) \/ Send(t) \/ Logout(t) \/ RefreshDone(t)
    \/ RefreshFail(t)

Answer(q) ==
  Succeed(q) \/ CallLogout(q) \/ LogoutAnswered(q) \/ Error(q) \/ JoinRefresh(q)
    \/ StartRefresh(q) \/ GiveUp(q)

ClientNext ==
  \/ \E t \in Tabs : Tab(t)
  \/ \E q \in requests : Answer(q)
  \/ \E c \in calls : ServerStep(c)
  \/ \E j \in 1 .. MaxTokens : AccessExpires(j) \/ RefreshExpires(j)

\* axios gives up after 15 seconds, whatever the network does: nothing else is assumed.
Fairness ==
  /\ WF_clientVars(\E q \in requests : Error(q))
  /\ WF_clientVars(\E t \in Tabs : RefreshFail(t))

ClientSpec == ClientInit /\ [][ClientNext]_clientVars
FairClientSpec == ClientSpec /\ Fairness

-----------------------------------------------------------------------------
\* A tab refreshes as little as it can: it never presents a token twice, unless
\* the answer to the first time was lost, and no request causes more than one
\* refresh (utils/request.ts:147-158, :198-213).
FrugalRefresh ==
  /\ \A p, q \in presented :
       p.tab = q.tab /\ p.jti = q.jti /\ p # q => p.jti \in lost
  /\ Cardinality(presented) <= sent

\* What the tabs hold and what the server holds fit together: the stored refresh
\* token is good, unless it is past its time, being exchanged or logged out at
\* this moment, or the answer that would have replaced it was lost
\* (utils/request.ts:177-193, stores/auth.ts:107-119).
StoredGood ==
  store # 0 =>
    \/ Live(store) \/ store \in expired \cup lost
    \/ \E p \in presented : p.jti = store /\ p.n \in {refreshing[t] : t \in Tabs}
    \/ \E q \in requests : q.kind = "logout" /\ q.body = store /\ q.at = "call"

\* A logout over which no token expires and no tab refreshes ends the login, if no
\* token of it was ever presented twice at once: none of its refresh tokens is
\* good, then or ever after (stores/auth.ts:107-119).
LogoutEnds == \A j \in DOMAIN tokens : tokens[j].session \in ended => ~Live(j)

\* Every request comes to an end, and its page with it: as no more than MaxRequests
\* are sent, there comes a time when none is left (utils/request.ts:198-226).
Settles == requests # {} ~> requests = {}
=============================================================================
