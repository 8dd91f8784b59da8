-------------------------- MODULE AuthTokens_proofs -------------------------
(***************************************************************************)
(* Proofs about AuthTokens, for any users and bounds, and about            *)
(* ClientSession, the browser that drives it, for any tabs and bounds:     *)
(* what the client holds rests on what the server does to its tokens.      *)
(***************************************************************************)
EXTENDS ClientSession, FiniteSetTheorems, TLAPS

Row == [user: Users, session: Jtis]

\* What Issue does to the table.
LEMMA IssueFacts ==
  ASSUME TypeOK, NEW u \in Users, NEW s \in Jtis, Issue(u, s)
  PROVE  /\ Len(tokens) \in Nat /\ DOMAIN tokens = 1 .. Len(tokens)
         /\ tokens' \in Seq(Row) /\ Len(tokens') = Len(tokens) + 1
         /\ DOMAIN tokens' = 1 .. (Len(tokens) + 1) /\ Len(tokens') <= MaxTokens
         /\ \A j \in DOMAIN tokens : tokens'[j] = tokens[j]
         /\ tokens'[Len(tokens) + 1].user = u /\ tokens'[Len(tokens) + 1].session = s
<1> DEFINE e == [user |-> u, session |-> s]
<1>1. e \in Row /\ e.user = u /\ e.session = s BY DEF Row
<1>2. tokens \in Seq(Row) /\ tokens' = Append(tokens, e) /\ Len(tokens) < MaxTokens
  BY DEF TypeOK, Issue, Row
<1> HIDE DEF e, Row
<1>3. Len(tokens) \in Nat /\ DOMAIN tokens = 1 .. Len(tokens) BY <1>2
<1>4. tokens' \in Seq(Row) /\ Len(tokens') = Len(tokens) + 1 BY <1>1, <1>2
<1>5. DOMAIN tokens' = 1 .. (Len(tokens) + 1) BY <1>1, <1>2
<1>6. \A j \in DOMAIN tokens : tokens'[j] = tokens[j] BY <1>1, <1>2
<1>7. tokens'[Len(tokens) + 1] = e BY <1>1, <1>2
<1>q. QED BY <1>1, <1>2, <1>3, <1>4, <1>5, <1>6, <1>7, TokenBounds

LEMMA RowFacts ==
  ASSUME TypeOK
  PROVE  /\ Len(tokens) \in Nat /\ Known = 1 .. Len(tokens) /\ Known \subseteq Jtis
         /\ \A j \in Known : tokens[j] \in Row /\ tokens[j].user \in Users /\ tokens[j].session \in Jtis
<1>1. tokens \in Seq(Row) /\ Len(tokens) <= MaxTokens BY DEF TypeOK, Row
<1> HIDE DEF Row
<1>2. Len(tokens) \in Nat /\ Known = 1 .. Len(tokens) /\ \A j \in Known : tokens[j] \in Row
  BY <1>1 DEF Known
<1>q. QED BY <1>1, <1>2, TokenBounds DEF Row, Jtis

LEMMA TypeStep == TypeOK /\ [Next]_vars => TypeOK'
<1> SUFFICES ASSUME TypeOK, [Next]_vars PROVE TypeOK'
  OBVIOUS
<1> USE DEF Row
<1>1. ASSUME NEW u \in Users, Login(u) PROVE TypeOK'
  <2>1. Len(tokens) + 1 \in Jtis
    BY <1>1, RowFacts, TokenBounds DEF Login, Issue, Jtis
  <2>2. Issue(u, Len(tokens) + 1) BY <1>1 DEF Login
  <2>3. Known \subseteq Known' BY <2>1, <2>2, IssueFacts DEF Known
  <2>q. QED BY <1>1, <2>1, <2>2, <2>3, IssueFacts DEF Login, TypeOK
<1>2. ASSUME NEW op \in {"refresh", "logout"}, NEW u \in Users, NEW j \in Jtis, Submit(op, u, j)
      PROVE  TypeOK'
  <2>1. served' \in Nat /\ tokens' = tokens BY <1>2 DEF Submit, TypeOK
  <2>2. [n |-> served + 1, op |-> op, user |-> u, jti |-> j,
        late |-> ~Live(j) \/ j \in expired, step |-> "lookup"] \in Call
    BY <1>2 DEF Submit, TypeOK, Call
  <2>q. QED BY <1>2, <2>1, <2>2 DEF Submit, TypeOK, Known
<1>3. ASSUME NEW c \in calls, NEW ok, NEW s \in {"lookup", "user", "commit"}, Check(c, ok, s)
      PROVE  TypeOK'
  <2>1. c \in Call BY DEF TypeOK
  <2>2. [c EXCEPT !.step = s] \in Call /\ [c EXCEPT !.step = s].jti = c.jti BY <2>1 DEF Call
  <2>q. QED BY <1>3, <2>2 DEF Check, Advance, Finish, TypeOK, Known
<1>4. ASSUME NEW c \in calls, Rotate(c) PROVE TypeOK'
  <2>1. c \in Call /\ c.jti \in Known BY DEF TypeOK
  <2>2. c.user \in Users /\ tokens[c.jti].session \in Jtis BY <2>1, RowFacts DEF Call
  <2>3. Issue(c.user, tokens[c.jti].session) BY <1>4 DEF Rotate
  <2>4. Known \subseteq Known' BY <2>2, <2>3, IssueFacts DEF Known
  <2>q. QED BY <1>4, <2>1, <2>2, <2>3, <2>4, IssueFacts DEF Rotate, Finish, TypeOK
<1>5. ASSUME NEW c \in calls, Revoke(c) \/ Fail(c) PROVE TypeOK'
  BY <1>5 DEF Revoke, Fail, Finish, TypeOK, Known
<1>6. ASSUME NEW j \in Jtis, Expire(j) PROVE TypeOK'
  BY <1>6 DEF Expire, TypeOK, Known
<1>7. ASSUME NEW u \in Users, Toggle(u) PROVE TypeOK'
  BY <1>7 DEF Toggle, TypeOK, Known
<1>8. CASE UNCHANGED vars BY <1>8 DEF vars, TypeOK, Known
<1>q. QED BY <1>1, <1>2, <1>3, <1>4, <1>5, <1>6, <1>7, <1>8
          DEF Next, LookupRefresh, LoadUser, LookupLogout

\* The refresh_tokens table and the calls in flight keep their types; a call only
\* ever concerns a token that has a row.
THEOREM TypeCorrect == Spec => []TypeOK
<1>1. Init => TypeOK BY TokenBounds DEF Init, TypeOK, Known
<1>q. QED BY <1>1, TypeStep, PTL DEF Spec

-----------------------------------------------------------------------------
\* A call that came too late finds its token revoked or past its time and gets no further.
LateInv ==
  /\ \A c \in calls : c.late => c.jti \in revoked \cup expired
  /\ \A c \in calls : c.op = "refresh" /\ c.step # "lookup" => ~c.late
  /\ StaleRejected

LEMMA LateStep == TypeOK /\ LateInv /\ [Next]_vars => LateInv'
<1> SUFFICES ASSUME TypeOK, LateInv, [Next]_vars PROVE LateInv'
  OBVIOUS
<1>1. ASSUME NEW op \in {"refresh", "logout"}, NEW u \in Users, NEW j \in Jtis, Submit(op, u, j)
      PROVE  LateInv'
  <2> DEFINE x == [n |-> served + 1, op |-> op, user |-> u, jti |-> j,
                   late |-> ~Live(j) \/ j \in expired,
                   step |-> "lookup"]
  <2>1. (x.late <=> ~Live(j) \/ j \in expired) /\ x.jti = j /\ x.step = "lookup" OBVIOUS
  <2>2. calls' = calls \cup {x} /\ j \in Known /\ UNCHANGED <<revoked, expired, done>>
    BY <1>1 DEF Submit
  <2> HIDE DEF x
  <2>q. QED BY <2>1, <2>2 DEF LateInv, Live, StaleRejected
<1>2. ASSUME NEW c \in calls, NEW ok, NEW s, Check(c, ok, s),
             ok /\ c.op = "refresh" => ~c.late
      PROVE  LateInv'
  <2> DEFINE x == [c EXCEPT !.step = s]
  <2>1. c \in Call BY DEF TypeOK
  <2>2. x.late = c.late /\ x.jti = c.jti /\ x.op = c.op BY <2>1 DEF Call
  <2>3. calls' \subseteq calls \/ (ok /\ calls' \subseteq calls \cup {x})
    BY <1>2 DEF Check, Advance, Finish
  <2>4. UNCHANGED <<revoked, expired, done>> BY <1>2 DEF Check
  <2> HIDE DEF x
  <2>q. QED BY <1>2, <2>2, <2>3, <2>4 DEF LateInv, StaleRejected
<1>3. ASSUME NEW c \in calls, LookupRefresh(c) \/ LoadUser(c) \/ LookupLogout(c)
      PROVE  LateInv'
  <2>1. CASE LookupRefresh(c)
    <3>1. Live(c.jti) /\ c.jti \notin expired => ~c.late BY DEF LateInv, Live
    <3>q. QED BY <1>2, <2>1, <3>1 DEF LookupRefresh
  <2>2. CASE LoadUser(c)
    <3>1. c.op = "refresh" => ~c.late BY <2>2 DEF LoadUser, LateInv
    <3>q. QED BY <1>2, <2>2, <3>1 DEF LoadUser
  <2>3. CASE LookupLogout(c) BY <1>2, <2>3 DEF LookupLogout
  <2>q. QED BY <1>3, <2>1, <2>2, <2>3
<1>4. ASSUME NEW c \in calls, Rotate(c) \/ Revoke(c) PROVE LateInv'
  <2>1. done' = done \cup {c} /\ calls' \subseteq calls
        /\ revoked \subseteq revoked' /\ expired' = expired
    BY <1>4 DEF Rotate, Revoke, Finish
  <2>2. c.op = "refresh" => ~c.late BY <1>4 DEF Rotate, Revoke, LateInv
  <2>q. QED BY <2>1, <2>2 DEF LateInv, StaleRejected
<1>5. ASSUME UNCHANGED <<revoked, done>>, expired \subseteq expired', calls' \subseteq calls
      PROVE  LateInv'
  BY <1>5 DEF LateInv, StaleRejected
<1>6. \/ UNCHANGED <<revoked, done>> /\ expired \subseteq expired' /\ calls' \subseteq calls
      \/ \E op \in {"refresh", "logout"}, u \in Users, j \in Jtis : Submit(op, u, j)
      \/ \E c \in calls : \/ LookupRefresh(c) \/ LoadUser(c) \/ LookupLogout(c)
                          \/ Rotate(c) \/ Revoke(c)
  BY DEF Next, Login, Toggle, Expire, Fail, Finish, vars
<1>q. QED BY <1>1, <1>3, <1>4, <1>5, <1>6

\* Whatever runs beside it, a refresh that arrives after its token was exchanged,
\* logged out or past its time yields nothing.
THEOREM StaleRejectedCorrect == Spec => []StaleRejected
<1>1. Init => LateInv BY DEF Init, LateInv, StaleRejected
<1>2. LateInv => StaleRejected BY DEF LateInv
<1>q. QED BY <1>1, <1>2, TypeCorrect, LateStep, PTL DEF Spec
-----------------------------------------------------------------------------
\* The first token of a session carries its name.  Two calls with the same token
\* have been noticed, so past the lookup a token that was presented once is good.
SessionInv ==
  /\ \A j \in Known : /\ tokens[j].session \in Known
                       /\ tokens[tokens[j].session].session = tokens[j].session
  /\ \A c, d \in calls : c # d /\ c.jti = d.jti => c.jti \in shared
  /\ \A c \in calls : c.step # "lookup" => Live(c.jti) \/ c.jti \in shared
  /\ OneGoodToken

\* A login opens a session of its own and touches no other.
LEMMA LoginFacts ==
  ASSUME TypeOK, SessionInv, NEW u \in Users, Login(u), NEW n, n = Len(tokens) + 1
  PROVE  /\ n \in Jtis /\ n \notin Known /\ Known' = Known \cup {n}
         /\ \A j \in Known : tokens'[j] = tokens[j]
         /\ tokens'[n].session = n
         /\ \A r \in Jtis : GoodTokens(r)' = IF r = n THEN {n} ELSE GoodTokens(r)
         /\ \A r \in Jtis : Orderly(r)' = Orderly(r)
         /\ Orderly(n) /\ GoodTokens(n) = {}
<1>1. n \in Jtis /\ Issue(u, n) /\ UNCHANGED <<revoked, shared>>
  BY RowFacts, TokenBounds DEF Login, Issue, Jtis
<1>2. /\ Len(tokens) \in Nat /\ Known = 1 .. Len(tokens) /\ Known' = 1 .. n
      /\ \A j \in Known : tokens'[j] = tokens[j]
      /\ tokens'[n].session = n
  BY <1>1, RowFacts, IssueFacts DEF Known
<1>3. n \notin Known /\ Known' = Known \cup {n} BY <1>2
<1>4. revoked \subseteq Known /\ shared \subseteq Known BY DEF TypeOK
<1>5. \A j \in Known : tokens[j].session # n BY <1>3 DEF SessionInv
<1>6. ASSUME NEW r \in Jtis PROVE GoodTokens(r)' = IF r = n THEN {n} ELSE GoodTokens(r)
  BY <1>1, <1>2, <1>3, <1>4, <1>5 DEF GoodTokens, Live
<1>7. ASSUME NEW r \in Jtis PROVE Orderly(r)' = Orderly(r)
  BY <1>1, <1>2, <1>4 DEF Orderly
<1>8. Orderly(n) /\ GoodTokens(n) = {} BY <1>4, <1>5 DEF Orderly, GoodTokens
<1>q. QED BY <1>1, <1>2, <1>3, <1>6, <1>7, <1>8

\* An exchange replaces the token by a new one of the same session.
LEMMA RotateFacts ==
  ASSUME TypeOK, NEW c \in calls, Rotate(c), NEW n, n = Len(tokens) + 1,
         NEW s, s = tokens[c.jti].session
  PROVE  /\ n \in Jtis /\ n \notin Known /\ Known' = Known \cup {n} /\ s \in Jtis
         /\ \A j \in Known : tokens'[j] = tokens[j] /\ j < n
         /\ tokens'[n].session = s
         /\ \A r \in Jtis : GoodTokens(r)' = IF r = s THEN (GoodTokens(s) \ {c.jti}) \cup {n}
                                               ELSE GoodTokens(r)
         /\ \A r \in Jtis : Orderly(r)' = Orderly(r)
<1>1. c \in Call /\ c.jti \in Known BY DEF TypeOK
<1>2. c.user \in Users /\ s \in Jtis BY <1>1, RowFacts DEF Call
<1>3. Issue(c.user, s) /\ revoked' = revoked \cup {c.jti} /\ shared' = shared BY DEF Rotate
<1>4. /\ Len(tokens) \in Nat /\ Known = 1 .. Len(tokens) /\ Known' = 1 .. n
      /\ \A j \in Known : tokens'[j] = tokens[j]
      /\ tokens'[n].session = s
  BY <1>2, <1>3, RowFacts, IssueFacts DEF Known
<1>5. n \notin Known /\ Known' = Known \cup {n} /\ n \in Jtis /\ \A j \in Known : j < n
  BY <1>3, <1>4, TokenBounds DEF Issue, Jtis
<1>6. revoked \subseteq Known /\ shared \subseteq Known BY DEF TypeOK
<1>7. ASSUME NEW r \in Jtis
      PROVE  GoodTokens(r)' = IF r = s THEN (GoodTokens(s) \ {c.jti}) \cup {n} ELSE GoodTokens(r)
  BY <1>1, <1>3, <1>4, <1>5, <1>6 DEF GoodTokens, Live
<1>8. ASSUME NEW r \in Jtis PROVE Orderly(r)' = Orderly(r)
  BY <1>3, <1>4, <1>6 DEF Orderly
<1>q. QED BY <1>2, <1>4, <1>5, <1>7, <1>8

\* A call moves on or ends; nothing but `calls' changes.
LEMMA CheckSession ==
  ASSUME TypeOK, SessionInv, NEW c \in calls, NEW ok, NEW s, Check(c, ok, s),
         ok => Live(c.jti) \/ c.jti \in shared
  PROVE  SessionInv'
<1> DEFINE x == [c EXCEPT !.step = s]
<1>1. c \in Call BY DEF TypeOK
<1>2. x.jti = c.jti BY <1>1 DEF Call
<1>3. calls' \subseteq calls \/ (ok /\ calls' = (calls \ {c}) \cup {x})
  BY DEF Check, Advance, Finish
<1>4. UNCHANGED <<tokens, revoked, shared>> BY DEF Check
<1>5. OneGoodToken' BY <1>4 DEF SessionInv, OneGoodToken, GoodTokens, Orderly, Live, Known
<1> HIDE DEF x
<1>6. \A d, e \in calls' : d # e /\ d.jti = e.jti => d.jti \in shared'
  BY <1>2, <1>3, <1>4 DEF SessionInv
<1>7. \A d \in calls' : d.step # "lookup" => Live(d.jti)' \/ d.jti \in shared'
  BY <1>2, <1>3, <1>4 DEF SessionInv, Live, Known
<1>q. QED BY <1>4, <1>5, <1>6, <1>7 DEF SessionInv, Known

LEMMA SessionStep == TypeOK /\ TypeOK' /\ SessionInv /\ [Next]_vars => SessionInv'
<1> SUFFICES ASSUME TypeOK, TypeOK', SessionInv, [Next]_vars PROVE SessionInv'
  OBVIOUS
<1>1. ASSUME NEW u \in Users, Login(u) PROVE SessionInv'
  <2> DEFINE n == Len(tokens) + 1
  <2>1. calls' = calls /\ shared' = shared /\ revoked' = revoked BY <1>1 DEF Login
  <2>2. OneGoodToken' BY <1>1, LoginFacts DEF SessionInv, OneGoodToken
  <2>3. \A j \in Known' : tokens'[j].session \in Known'
                          /\ tokens'[tokens'[j].session].session = tokens'[j].session
    BY <1>1, LoginFacts DEF SessionInv
  <2>4. \A j : Live(j) => Live(j)' BY <1>1, <2>1, LoginFacts DEF Live
  <2>q. QED BY <2>1, <2>2, <2>3, <2>4 DEF SessionInv
<1>2. ASSUME NEW c \in calls, Rotate(c) PROVE SessionInv'
  <2> DEFINE n == Len(tokens) + 1  s == tokens[c.jti].session
  <2>1. c \in Call /\ c.jti \in Known BY DEF TypeOK
  <2>2. calls' = calls \ {c} /\ shared' = shared /\ revoked' = revoked \cup {c.jti}
        /\ c.step = "commit"
    BY <1>2 DEF Rotate, Finish
  <2>3. ASSUME NEW r \in Jtis, Orderly(r)' PROVE \A j, k \in GoodTokens(r)' : j = k
    <3>1. Orderly(r) BY <1>2, <2>3, RotateFacts
    <3>2. CASE r = s
      <4>1. Live(c.jti) BY <2>1, <2>2, <3>1, <3>2 DEF SessionInv, Orderly
      <4>2. c.jti \in GoodTokens(s) BY <2>1, <4>1 DEF GoodTokens
      <4>3. GoodTokens(s) \subseteq {c.jti}
        BY <3>1, <3>2, <4>2 DEF SessionInv, OneGoodToken
      <4>4. GoodTokens(r)' = (GoodTokens(s) \ {c.jti}) \cup {n}
        BY <1>2, <3>2, RotateFacts
      <4>q. QED BY <4>3, <4>4
    <3>3. CASE r # s
      BY <1>2, <3>1, <3>3, RotateFacts DEF SessionInv, OneGoodToken
    <3>q. QED BY <3>2, <3>3
  <2>4. \A j \in Known' : tokens'[j].session \in Known'
                          /\ tokens'[tokens'[j].session].session = tokens'[j].session
    <3>1. s \in Known /\ tokens[s].session = s BY <2>1 DEF SessionInv
    <3>q. QED BY <1>2, <3>1, RotateFacts DEF SessionInv
  <2>5. \A j : Live(j) /\ j # c.jti => Live(j)' BY <1>2, <2>2, RotateFacts DEF Live
  <2>6. \A d \in calls' : d.step # "lookup" => Live(d.jti)' \/ d.jti \in shared'
    BY <2>2, <2>5 DEF SessionInv
  <2>q. QED BY <2>2, <2>3, <2>4, <2>6 DEF SessionInv, OneGoodToken
<1>3. ASSUME NEW c \in calls, Revoke(c) PROVE SessionInv'
  <2>1. calls' = calls \ {c} /\ shared' = shared /\ revoked' = revoked \cup {c.jti}
        /\ tokens' = tokens
    BY <1>3 DEF Revoke, Finish
  <2>2. \A j : Live(j) /\ j # c.jti => Live(j)' BY <2>1 DEF Live, Known
  <2>3. \A d \in calls' : d.step # "lookup" => Live(d.jti)' \/ d.jti \in shared'
    BY <2>1, <2>2 DEF SessionInv
  <2>4. OneGoodToken' BY <2>1 DEF SessionInv, OneGoodToken, GoodTokens, Orderly, Live, Known
  <2>q. QED BY <2>1, <2>3, <2>4 DEF SessionInv, Known
<1>4. ASSUME NEW op \in {"refresh", "logout"}, NEW u \in Users, NEW j \in Jtis, Submit(op, u, j)
      PROVE  SessionInv'
  <2> DEFINE x == [n |-> served + 1, op |-> op, user |-> u, jti |-> j,
                   late |-> ~Live(j) \/ j \in expired,
                   step |-> "lookup"]
  <2>1. x.jti = j /\ x.step = "lookup" OBVIOUS
  <2>2. calls' = calls \cup {x} /\ tokens' = tokens /\ revoked' = revoked
        /\ shared \subseteq shared' /\ ((\E c \in calls : c.jti = j) => j \in shared')
    BY <1>4 DEF Submit
  <2> HIDE DEF x
  <2>3. \A d, e \in calls' : d # e /\ d.jti = e.jti => d.jti \in shared'
    BY <2>1, <2>2 DEF SessionInv
  <2>4. \A d \in calls' : d.step # "lookup" => Live(d.jti)' \/ d.jti \in shared'
    BY <2>1, <2>2 DEF SessionInv, Live, Known
  <2>5. OneGoodToken' BY <2>2 DEF SessionInv, OneGoodToken, GoodTokens, Orderly, Live, Known
  <2>q. QED BY <2>2, <2>3, <2>4, <2>5 DEF SessionInv, Known
<1>5. ASSUME NEW c \in calls, LookupRefresh(c) \/ LoadUser(c) \/ LookupLogout(c)
      PROVE  SessionInv'
  <2>1. CASE LookupRefresh(c) BY <2>1, CheckSession DEF LookupRefresh
  <2>2. CASE LoadUser(c)
    <3>1. Live(c.jti) \/ c.jti \in shared BY <2>2 DEF LoadUser, SessionInv
    <3>q. QED BY <2>2, <3>1, CheckSession DEF LoadUser
  <2>3. CASE LookupLogout(c) BY <2>3, CheckSession DEF LookupLogout
  <2>q. QED BY <1>5, <2>1, <2>2, <2>3
<1>6. ASSUME UNCHANGED <<tokens, revoked, shared>>, calls' \subseteq calls PROVE SessionInv'
  BY <1>6 DEF SessionInv, OneGoodToken, GoodTokens, Orderly, Live, Known
<1>7. \/ UNCHANGED <<tokens, revoked, shared>> /\ calls' \subseteq calls
      \/ \E u \in Users : Login(u)
      \/ \E op \in {"refresh", "logout"}, u \in Users, j \in Jtis : Submit(op, u, j)
      \/ \E c \in calls : \/ LookupRefresh(c) \/ LoadUser(c) \/ LookupLogout(c)
                          \/ Rotate(c) \/ Revoke(c)
  BY DEF Next, Toggle, Expire, Fail, Finish, vars
<1>q. QED BY <1>1, <1>2, <1>3, <1>4, <1>5, <1>6, <1>7

LEMMA SessionInvCorrect == Spec => []SessionInv
<1>1. Init => SessionInv BY DEF Init, SessionInv, OneGoodToken, GoodTokens, Live, Known
<1>q. QED BY <1>1, TypeCorrect, SessionStep, PTL DEF Spec

\* A login whose tokens were never presented twice at the same time has one good
\* token at most.
THEOREM OneGoodTokenCorrect == Spec => []OneGoodToken
<1>1. SessionInv => OneGoodToken BY DEF SessionInv
<1>q. QED BY <1>1, SessionInvCorrect, PTL

-----------------------------------------------------------------------------
\* A token is spent by one call, an exchange or a logout, unless two calls presented
\* it at the same time.
SpentOnce == \A c, d \in done : c.jti = d.jti /\ c.jti \notin shared => c = d

\* What a committed call has spent is revoked.
SpentInv == (\A c \in done : c.jti \in revoked) /\ SpentOnce

LEMMA SpentStep == TypeOK /\ SessionInv /\ SpentInv /\ [Next]_vars => SpentInv'
<1> SUFFICES ASSUME TypeOK, SessionInv, SpentInv, [Next]_vars PROVE SpentInv'
  OBVIOUS
<1>1. ASSUME NEW c \in calls, Rotate(c) \/ Revoke(c) PROVE SpentInv'
  <2>1. /\ done' = done \cup {c} /\ revoked' = revoked \cup {c.jti} /\ shared' = shared
        /\ c.step = "commit"
    BY <1>1 DEF Rotate, Revoke
  <2>2. c.jti \notin shared => \A d \in done : d.jti # c.jti
    BY <2>1 DEF SessionInv, SpentInv, Live
  <2>q. QED BY <2>1, <2>2 DEF SpentInv, SpentOnce
<1>2. ASSUME UNCHANGED <<revoked, done>>, shared \subseteq shared' PROVE SpentInv'
  BY <1>2 DEF SpentInv, SpentOnce
<1>3. \/ UNCHANGED <<revoked, done>> /\ shared \subseteq shared'
      \/ \E c \in calls : Rotate(c) \/ Revoke(c)
  BY DEF Next, Login, Submit, Toggle, Expire, Fail, Check, LookupRefresh, LoadUser, LookupLogout, vars
<1>q. QED BY <1>1, <1>2, <1>3

\* Of the calls with one token a single one commits, exchange or logout, whatever the
\* others do, unless two of them were under way at once: the condition under which the
\* documented single use of a token (SingleUse) holds.
THEOREM SpentOnceCorrect == Spec => []SpentOnce
<1>1. Init => SpentInv BY DEF Init, SpentInv, SpentOnce
<1>2. SpentInv => SpentOnce BY DEF SpentInv
<1>q. QED BY <1>1, <1>2, TypeCorrect, SessionInvCorrect, SpentStep, PTL DEF Spec

-----------------------------------------------------------------------------
\* What RefreshSession sees.
Shown == [s \in Jtis |-> Current(s)]
Ended == {s \in Known : tokens[s].session = s /\ Current(s) = 0}

LEMMA CurrentIs ==
  ASSUME TypeOK, OneGoodToken, NEW s \in Jtis
  PROVE  /\ Current(s) = 0 <=> (GoodTokens(s) = {} \/ ~Orderly(s))
         /\ \A j \in GoodTokens(s) : Orderly(s) => Current(s) = j
<1>1. \A j \in GoodTokens(s) : j # 0 BY RowFacts DEF GoodTokens, Jtis
<1>q. QED BY <1>1 DEF Current, OneGoodToken

\* Current depends on the good tokens and on the order of the session only.
LEMMA SameCurrent ==
  ASSUME NEW s, GoodTokens(s)' = GoodTokens(s), Orderly(s)' = Orderly(s)
  PROVE  Current(s)' = Current(s)
BY DEF Current

\* What decides Current decides what RefreshSession sees.
LEMMA SameShown ==
  ASSUME UNCHANGED <<tokens, revoked, shared>>
  PROVE  Shown' = Shown /\ Ended' = Ended
<1>1. \A s : GoodTokens(s)' = GoodTokens(s) /\ Orderly(s)' = Orderly(s)
  BY DEF GoodTokens, Live, Known, Orderly
<1>2. \A s : Current(s)' = Current(s) BY <1>1, SameCurrent
<1>q. QED BY <1>2 DEF Shown, Ended, Known

\* A session ends when its token is given up for good, or is presented twice at
\* once; if it was over already, nothing is to be seen.
LEMMA EndShown ==
  ASSUME TypeOK, SessionInv, NEW s \in Jtis, s \in Known, tokens[s].session = s,
         tokens' = tokens, Current(s)' = 0,
         \A r \in Jtis : r # s => Current(r)' = Current(r)
  PROVE  Session!Logout(s) \/ (Shown' = Shown /\ Ended' = Ended)
<1>1. Shown' = [Shown EXCEPT ![s] = 0] BY DEF Shown
<1>2. Ended' = Ended \cup {s} BY RowFacts DEF Ended, Known
<1>3. CASE Current(s) # 0
  BY <1>1, <1>2, <1>3 DEF Session!Logout, Shown, Ended
<1>4. CASE Current(s) = 0
  <2>1. Shown' = Shown BY <1>1, <1>4 DEF Shown
  <2>2. Ended' = Ended BY <1>2, <1>4 DEF Ended
  <2>q. QED BY <2>1, <2>2
<1>q. QED BY <1>3, <1>4

LEMMA MoveShown ==
  ASSUME NEW s \in Jtis, Session!Login(s) \/ Session!Exchange(s) \/ Session!Logout(s),
         Shown' # Shown
  PROVE  Session!Next
BY DEF Session!Next, Session!Sessions, Jtis, Shown

LEMMA RefineStep ==
  TypeOK /\ SessionInv /\ TypeOK' /\ SessionInv' /\ [Next]_vars
    => Session!Next \/ (Shown' = Shown /\ Ended' = Ended)
<1> SUFFICES ASSUME TypeOK, SessionInv, TypeOK', SessionInv', [Next]_vars
             PROVE  Session!Next \/ (Shown' = Shown /\ Ended' = Ended)
  OBVIOUS
<1>a. OneGoodToken /\ OneGoodToken' BY DEF SessionInv
<1>b. ASSUME NEW s \in Jtis, s \in Known, tokens[s].session = s, tokens' = tokens,
             Current(s)' = 0, \A r \in Jtis : r # s => Current(r)' = Current(r)
      PROVE  Session!Next \/ (Shown' = Shown /\ Ended' = Ended)
  <2>1. CASE Current(s) # 0
    <3>1. Session!Logout(s) /\ Shown' # Shown
      BY <1>b, <2>1, EndShown DEF Shown
    <3>q. QED BY <3>1, MoveShown
  <2>2. CASE Current(s) = 0
    BY <1>b, <2>2, EndShown DEF Session!Logout, Shown
  <2>q. QED BY <2>1, <2>2
<1>1. ASSUME NEW u \in Users, Login(u) PROVE Session!Next
  <2> PICK n : n = Len(tokens) + 1 OBVIOUS
  <2>1. n \in Jtis /\ Current(n) = 0 /\ Current(n)' = n
    <3>1. n \in Jtis /\ GoodTokens(n) = {} /\ GoodTokens(n)' = {n} /\ Orderly(n)'
      BY <1>1, LoginFacts
    <3>2. Current(n) = 0 BY <3>1 DEF Current
    <3>3. Current(n)' = n BY <3>1 DEF Current
    <3>q. QED BY <3>1, <3>2, <3>3
  <2>2. \A r \in Jtis : r # n => Current(r)' = Current(r)
    <3>1. \A r \in Jtis : r # n => GoodTokens(r)' = GoodTokens(r) /\ Orderly(r)' = Orderly(r)
      BY <1>1, LoginFacts
    <3>q. QED BY <3>1, SameCurrent
  <2>3. Shown' = [Shown EXCEPT ![n] = n] /\ Shown[n] = 0 BY <2>1, <2>2 DEF Shown
  <2>4. n # 0 BY <2>1 DEF Jtis
  <2>5. n \notin Ended /\ Ended' = Ended
    <3>1. n \notin Known /\ Known' = Known \cup {n} /\ \A j \in Known : tokens'[j] = tokens[j]
      BY <1>1, LoginFacts
    <3>2. \A r \in Known : r \in Jtis /\ r # n BY <3>1, RowFacts
    <3>q. QED BY <2>1, <2>2, <2>4, <3>1, <3>2 DEF Ended
  <2>6. Session!Login(n) BY <2>3, <2>5 DEF Session!Login, Shown, Ended
  <2>7. Shown' # Shown
    <3>1. Shown'[n] = n BY <2>1 DEF Shown
    <3>q. QED BY <2>3, <2>4, <3>1
  <2>q. QED BY <2>1, <2>6, <2>7, MoveShown
<1>2. ASSUME NEW c \in calls, Rotate(c)
      PROVE  Session!Next \/ (Shown' = Shown /\ Ended' = Ended)
  <2> PICK n, s : n = Len(tokens) + 1 /\ s = tokens[c.jti].session OBVIOUS
  <2>0. c.jti \in Known /\ s \in Jtis /\ s \in Known /\ n \in Jtis
    BY <1>2, RotateFacts DEF TypeOK, SessionInv
  <2>1. \A r \in Jtis : r # s => Current(r)' = Current(r)
    <3>1. \A r \in Jtis : r # s => GoodTokens(r)' = GoodTokens(r) /\ Orderly(r)' = Orderly(r)
      BY <1>2, RotateFacts
    <3>q. QED BY <3>1, SameCurrent
  <2>2. /\ n \notin Known /\ Known' = Known \cup {n}
        /\ \A j \in Known : tokens'[j] = tokens[j]
        /\ tokens'[n].session = s /\ s # n
    BY <1>2, <2>0, RotateFacts
  <2>3. \A r \in Known : r \in Jtis BY RowFacts
  <2>4. CASE ~Orderly(s)
    <3>1. Current(s) = 0 /\ Current(s)' = 0
      BY <1>2, <2>0, <2>4, RotateFacts DEF Current
    <3>2. \A r \in Jtis : Current(r)' = Current(r) BY <2>1, <3>1
    <3>3. Shown' = Shown BY <3>2 DEF Shown
    <3>4. Ended' = Ended BY <2>2, <2>3, <3>2 DEF Ended
    <3>q. QED BY <3>3, <3>4
  <2>5. CASE Orderly(s)
    <3>1. Live(c.jti)
      <4>1. c.step = "commit" BY <1>2 DEF Rotate
      <4>q. QED BY <2>0, <2>5, <4>1 DEF SessionInv, Orderly
    <3>2. c.jti \in GoodTokens(s) BY <2>0, <3>1 DEF GoodTokens
    <3>3. Current(s) = c.jti BY <1>a, <2>0, <2>5, <3>2, CurrentIs
    <3>4. GoodTokens(s)' = (GoodTokens(s) \ {c.jti}) \cup {n} /\ Orderly(s)'
      BY <1>2, <2>0, <2>5, RotateFacts
    <3>5. GoodTokens(s)' = {n}
      BY <1>a, <2>0, <2>5, <3>2, <3>4 DEF OneGoodToken
    <3>6. Current(s)' = n BY <3>4, <3>5 DEF Current
    <3>7. c.jti < n /\ c.jti # 0 /\ n # 0
      BY <1>2, <2>0, <2>3, RotateFacts DEF Jtis
    <3>8. Shown' = [Shown EXCEPT ![s] = n] /\ Shown[s] = c.jti
      BY <2>0, <2>1, <3>3, <3>6 DEF Shown
    <3>9. Ended' = Ended
      BY <2>0, <2>1, <2>2, <2>3, <3>3, <3>6, <3>7 DEF Ended
    <3>10. n \in Session!Sessions /\ n > c.jti
      BY <2>0, <2>3, <3>7 DEF Session!Sessions, Jtis
    <3>11. Session!Exchange(s)
      BY <3>7, <3>8, <3>9, <3>10 DEF Session!Exchange, Shown, Ended
    <3>12. Shown' # Shown
      <4>1. Shown'[s] = n BY <2>0, <3>8 DEF Shown
      <4>2. n # c.jti BY <2>0, <2>2
      <4>q. QED BY <3>8, <4>1, <4>2
    <3>q. QED BY <2>0, <3>11, <3>12, MoveShown
  <2>q. QED BY <2>4, <2>5
<1>3. ASSUME NEW c \in calls, Revoke(c)
      PROVE  Session!Next \/ (Shown' = Shown /\ Ended' = Ended)
  <2> PICK s : s = tokens[c.jti].session OBVIOUS
  <2>1. c.jti \in Known /\ s \in Known /\ tokens[s].session = s /\ s \in Jtis
    BY RowFacts DEF TypeOK, SessionInv
  <2>2. tokens' = tokens /\ shared' = shared /\ revoked' = revoked \cup {c.jti}
        /\ c.step = "commit"
    BY <1>3 DEF Revoke
  <2>3. \A r \in Jtis : /\ GoodTokens(r)' = GoodTokens(r) \ {c.jti}
                        /\ Orderly(r)' = Orderly(r)
                        /\ r # s => c.jti \notin GoodTokens(r)
    BY <2>2 DEF GoodTokens, Live, Known, Orderly
  <2>4. \A r \in Jtis : r # s => Current(r)' = Current(r)
    <3>1. \A r \in Jtis : r # s => GoodTokens(r)' = GoodTokens(r) BY <2>3
    <3>q. QED BY <2>3, <3>1, SameCurrent
  <2>5. Current(s)' = 0
    <3>1. CASE ~Orderly(s) BY <2>1, <2>3, <3>1 DEF Current
    <3>2. CASE Orderly(s)
      <4>1. Live(c.jti) BY <2>1, <2>2, <3>2 DEF SessionInv, Orderly
      <4>2. c.jti \in GoodTokens(s) BY <2>1, <4>1 DEF GoodTokens
      <4>3. GoodTokens(s)' = {}
        BY <1>a, <2>1, <2>3, <3>2, <4>2 DEF OneGoodToken
      <4>q. QED BY <4>3 DEF Current
    <3>q. QED BY <3>1, <3>2
  <2>q. QED BY <1>b, <2>1, <2>2, <2>4, <2>5
<1>4. ASSUME NEW op \in {"refresh", "logout"}, NEW u \in Users, NEW j \in Jtis, Submit(op, u, j)
      PROVE  Session!Next \/ (Shown' = Shown /\ Ended' = Ended)
  <2> PICK s : s = tokens[j].session OBVIOUS
  <2>1. j \in Known /\ s \in Known /\ tokens[s].session = s /\ s \in Jtis
    BY <1>4, RowFacts DEF Submit, SessionInv
  <2>2. tokens' = tokens /\ revoked' = revoked /\ (shared' = shared \/ shared' = shared \cup {j})
    BY <1>4 DEF Submit
  <2>3. CASE shared' = shared BY <2>2, <2>3, SameShown
  <2>4. CASE shared' = shared \cup {j}
    <3>1. \A r \in Jtis : r # s => GoodTokens(r)' = GoodTokens(r) /\ Orderly(r)' = Orderly(r)
      BY <2>2, <2>4 DEF GoodTokens, Live, Known, Orderly
    <3>2. \A r \in Jtis : r # s => Current(r)' = Current(r) BY <3>1, SameCurrent
    <3>3. ~Orderly(s)' BY <2>2, <2>4 DEF Orderly
    <3>4. Current(s)' = 0 BY <3>3 DEF Current
    <3>q. QED BY <1>b, <2>1, <2>2, <3>2, <3>4
  <2>q. QED BY <2>2, <2>3, <2>4
<1>5. \/ UNCHANGED <<tokens, revoked, shared>>
      \/ \E u \in Users : Login(u)
      \/ \E op \in {"refresh", "logout"}, u \in Users, j \in Jtis : Submit(op, u, j)
      \/ \E c \in calls : Rotate(c) \/ Revoke(c)
  BY DEF Next, Toggle, Expire, Fail, Finish, Check, LookupRefresh, LoadUser, LookupLogout, vars
<1>q. QED BY <1>1, <1>2, <1>3, <1>4, <1>5, SameShown

\* Until a token is presented twice at once, a session is what RefreshSession
\* says: one token at a time, each newer than the last, and over for good.
THEOREM SessionImplemented == Spec => SessionSpec
<1>1. Init => Session!Init
  <2> SUFFICES ASSUME Init PROVE Session!Init OBVIOUS
  <2>1. Known = {} BY DEF Init, Known
  <2>2. \A s \in Jtis : Current(s) = 0 BY <2>1 DEF Current, GoodTokens
  <2>q. QED BY <2>1, <2>2 DEF Session!Init, Session!Sessions, Jtis
<1>2. TypeOK /\ SessionInv /\ TypeOK' /\ SessionInv' /\ [Next]_vars
        => [Session!Next]_<<Shown, Ended>>
  BY RefineStep
<1>q. QED BY <1>1, <1>2, TypeCorrect, SessionInvCorrect, PTL
          DEF Spec, SessionSpec, Session!Spec, Shown, Ended

-----------------------------------------------------------------------------
(***************************************************************************)
(* The client: whatever its tabs do, the server takes steps of AuthTokens. *)
(***************************************************************************)
RequestType ==
  [id: Nat, tab: Tabs, kind: {"me", "api", "logout"}, bearer: Nat, body: Nat,
   retried: BOOLEAN, at: {"sent", "call", "wait"}, call: Nat, quiet: BOOLEAN]

\* The variables of the client have their types, and all tokens are the user's.
ClientType ==
  /\ store \in Nat /\ (store # 0 => store \in Known)
  /\ hasToken \in [Tabs -> BOOLEAN] /\ refreshing \in [Tabs -> Nat]
  /\ requests \subseteq RequestType /\ sent \in Nat
  /\ \A q \in requests : /\ q.body = 0 \/ q.body \in Known
                         /\ q.kind = "logout" => q.body \in Known
  /\ presented \subseteq [tab: Tabs, jti: Jtis, n: Nat]
  /\ minted \subseteq [n: Nat, jti: Jtis]
  /\ \A p \in presented : p.jti \in Known
  /\ \A m \in minted : m.jti \in Known
  /\ \A j \in Known : tokens[j].user = User
  /\ \A c \in calls : c.user = User
  /\ active = Users
  /\ ended \subseteq Known

USE UserAssumption, SessionBounds

\* The steps of a request that only end it.
Ending(q) == Succeed(q) \/ LogoutAnswered(q) \/ Error(q) \/ GiveUp(q)

\* The steps of the client that leave the server alone.
Local(t) == Reload(t) \/ Send(t) \/ Logout(t) \/ RefreshDone(t) \/ RefreshFail(t)

LEMMA LocalServer ==
  /\ \A t \in Tabs : Local(t) => UNCHANGED vars
  /\ \A q \in requests : Ending(q) \/ JoinRefresh(q) => UNCHANGED vars
  /\ \A j : AccessExpires(j) => UNCHANGED vars
BY DEF Local, Ending, Reload, Send, Logout, RefreshDone, RefreshFail, Succeed, LogoutAnswered,
       Error, GiveUp, JoinRefresh, AccessExpires

\* Every step of the browser is a step of AuthTokens, or none.
LEMMA ServerNext == TypeOK /\ ClientType /\ [ClientNext]_clientVars => [Next]_vars
<1> SUFFICES ASSUME TypeOK, ClientType, [ClientNext]_clientVars PROVE [Next]_vars
  OBVIOUS
<1>1. ASSUME NEW t \in Tabs, Tab(t) PROVE [Next]_vars
  <2>1. CASE SignIn(t) BY <2>1 DEF SignIn, Next
  <2>2. CASE Local(t) BY <2>2, LocalServer
  <2>3. CASE SignInFail(t) BY <2>3 DEF SignInFail, Next
  <2>q. QED BY <1>1, <2>1, <2>2, <2>3 DEF Tab, Local
<1>2. ASSUME NEW q \in requests, Answer(q) PROVE [Next]_vars
  <2>1. CASE CallLogout(q)
    <3>1. Submit("logout", User, q.body) /\ q.body \in Known BY <2>1 DEF CallLogout, Submit
    <3>q. QED BY <3>1, RowFacts DEF Next
  <2>2. CASE StartRefresh(q)
    <3>1. Submit("refresh", User, store) /\ store \in Known BY <2>2 DEF StartRefresh, Submit
    <3>q. QED BY <3>1, RowFacts DEF Next
  <2>3. CASE Ending(q) \/ JoinRefresh(q) BY <2>3, LocalServer
  <2>q. QED BY <1>2, <2>1, <2>2, <2>3 DEF Answer, Ending
<1>3. ASSUME NEW c \in calls, ServerStep(c) PROVE [Next]_vars
  BY <1>3 DEF ServerStep, Next
<1>4. ASSUME NEW j \in 1 .. MaxTokens, AccessExpires(j) \/ RefreshExpires(j) PROVE [Next]_vars
  <2>1. CASE AccessExpires(j) BY <2>1, LocalServer
  <2>2. CASE RefreshExpires(j) BY <2>2 DEF RefreshExpires, Next, Jtis
  <2>q. QED BY <1>4, <2>1, <2>2
<1>5. CASE UNCHANGED clientVars BY <1>5 DEF clientVars
<1>q. QED BY <1>1, <1>2, <1>3, <1>4, <1>5 DEF ClientNext

-----------------------------------------------------------------------------
\* What becomes of a request record.
LEMMA WaitIs ==
  ASSUME NEW q \in RequestType
  PROVE  /\ Wait(q) \in RequestType
         /\ Wait(q).id = q.id /\ Wait(q).tab = q.tab /\ Wait(q).kind = q.kind
         /\ Wait(q).body = q.body /\ Wait(q).at = "wait"
         /\ Wait(q).retried /\ ~Wait(q).quiet
BY DEF Wait, RequestType

\* The same request, whatever its quiet says.
Alike(x, q) ==
  /\ x \in RequestType
  /\ x.id = q.id /\ x.tab = q.tab /\ x.kind = q.kind /\ x.bearer = q.bearer /\ x.body = q.body
  /\ x.retried = q.retried /\ x.at = q.at /\ x.call = q.call

LEMMA QuietIs ==
  ASSUME NEW q \in RequestType
  PROVE  Alike([q EXCEPT !.quiet = FALSE], q) /\ ~[q EXCEPT !.quiet = FALSE].quiet
BY DEF RequestType, Alike

LEMMA DisturbedIs ==
  ASSUME NEW Q \in SUBSET RequestType
  PROVE  /\ \A x \in Disturbed(Q) : ~x.quiet /\ \E q \in Q : Alike(x, q)
         /\ \A q \in Q : \E x \in Disturbed(Q) : Alike(x, q)
<1> DEFINE D(q) == [q EXCEPT !.quiet = FALSE]
<1>1. \A q \in Q : Alike(D(q), q) /\ ~D(q).quiet BY QuietIs
<1>2. Disturbed(Q) = {D(q) : q \in Q} BY DEF Disturbed
<1> HIDE DEF D
<1>q. QED BY <1>1, <1>2

LEMMA RequestIs ==
  ASSUME ClientType, NEW i \in Nat, NEW t \in Tabs, NEW kind \in {"me", "api", "logout"},
         NEW bearer \in Nat, NEW x, x = Request(i, t, kind, bearer)
  PROVE  /\ x \in RequestType
         /\ x.id = i /\ x.tab = t /\ x.kind = kind /\ x.bearer = bearer /\ x.body = store
         /\ ~x.retried /\ x.at = "sent" /\ (x.quiet => \A s \in Tabs : refreshing[s] = 0)
<1>1. (\A s \in Tabs : refreshing[s] = 0) \in BOOLEAN OBVIOUS
<1>q. QED BY <1>1 DEF ClientType, Request, RequestType

\* Rows stay as they are, and what has happened stays so.
LEMMA ServerGrows ==
  ASSUME TypeOK, [Next]_vars
  PROVE  /\ Known \subseteq Known' /\ \A j \in Known : tokens'[j] = tokens[j]
         /\ revoked \subseteq revoked' /\ expired \subseteq expired' /\ shared \subseteq shared'
         /\ done \subseteq done' /\ served' \in {served, served + 1}
<1>1. ASSUME NEW u \in Users, NEW s \in Jtis, Issue(u, s)
      PROVE  Known \subseteq Known' /\ \A j \in Known : tokens'[j] = tokens[j]
  BY <1>1, IssueFacts DEF Known
<1>2. ASSUME NEW u \in Users, Login(u)
      PROVE  Known \subseteq Known' /\ \A j \in Known : tokens'[j] = tokens[j]
  <2>1. Len(tokens) + 1 \in Jtis
    BY <1>2, RowFacts, TokenBounds DEF Login, Issue, Jtis
  <2>q. QED BY <1>1, <1>2, <2>1 DEF Login
<1>3. ASSUME NEW c \in calls, Rotate(c)
      PROVE  Known \subseteq Known' /\ \A j \in Known : tokens'[j] = tokens[j]
  BY <1>3, RotateFacts
<1>4. \/ UNCHANGED <<tokens, revoked, expired, shared, done, served>>
      \/ \E u \in Users : Login(u)
      \/ \E op \in {"refresh", "logout"}, u \in Users, j \in Jtis : Submit(op, u, j)
      \/ \E c \in calls : Rotate(c) \/ Revoke(c)
      \/ \E j \in Jtis : Expire(j)
  BY DEF Next, Toggle, Fail, Check, LookupRefresh, LoadUser, LookupLogout, vars
<1>5. CASE \E u \in Users : Login(u) BY <1>2, <1>5 DEF Login
<1>6. CASE \E op \in {"refresh", "logout"}, u \in Users, j \in Jtis : Submit(op, u, j)
  BY <1>6 DEF Submit, Known
<1>7. CASE \E c \in calls : Rotate(c) BY <1>3, <1>7 DEF Rotate
<1>8. CASE \E c \in calls : Revoke(c) BY <1>8 DEF Revoke, Known
<1>9. CASE \E j \in Jtis : Expire(j) BY <1>9 DEF Expire, Known
<1>10. CASE UNCHANGED <<tokens, revoked, expired, shared, done, served>> BY <1>10 DEF Known
<1>q. QED BY <1>4, <1>5, <1>6, <1>7, <1>8, <1>9, <1>10

\* The two requests of fetchCurrentUser.
LEMMA FetchIs ==
  ASSUME ClientType, NEW t \in Tabs, NEW bearer \in Nat, NEW x \in FetchUser(t, bearer)
  PROVE  /\ x \in RequestType /\ x.id \in {sent + 1, sent + 2}
         /\ x.tab = t /\ x.kind # "logout" /\ x.body = store /\ ~x.retried /\ x.at = "sent"
         /\ (x.quiet => \A s \in Tabs : refreshing[s] = 0)
<1>1. sent + 1 \in Nat /\ sent + 2 \in Nat BY DEF ClientType
<1>2. CASE x = Request(sent + 1, t, "me", bearer) BY <1>1, <1>2, RequestIs
<1>3. CASE x = Request(sent + 2, t, "api", bearer) BY <1>1, <1>3, RequestIs
<1>q. QED BY <1>2, <1>3 DEF FetchUser

\* A step of the server itself, and what the client sees of it.
LEMMA ServerSeen ==
  ASSUME ClientType, NEW c \in calls, ServerStep(c)
  PROVE  /\ UNCHANGED <<store, stale, hasToken, refreshing, sent, presented, lost, ended>>
         /\ \A x \in requests' : \E q \in requests : Alike(x, q) /\ (x.quiet => q.quiet)
         /\ \A q \in requests : \E x \in requests' : Alike(x, q)
         /\ \/ /\ LookupRefresh(c) \/ LoadUser(c) \/ LookupLogout(c) \/ Revoke(c)
               /\ minted' = minted
            \/ /\ Fail(c) /\ minted' = minted
               /\ \A x \in requests' : x.at = "call" /\ x.call = c.n => ~x.quiet
            \/ /\ Rotate(c) /\ minted' = minted \cup {[n |-> c.n, jti |-> Len(tokens) + 1]}
<1>0. \A q \in requests : Alike(q, q) BY DEF Alike, ClientType
<1>1. CASE (LookupRefresh(c) \/ LoadUser(c) \/ LookupLogout(c) \/ Revoke(c)) /\ UNCHANGED client
  BY <1>0, <1>1 DEF client
<1>2. CASE /\ Fail(c)
           /\ requests' = {IF q.at = "call" /\ q.call = c.n THEN [q EXCEPT !.quiet = FALSE] ELSE q
                             : q \in requests}
           /\ UNCHANGED <<store, stale, hasToken, refreshing, sent, presented, minted, lost, ended>>
  <2> DEFINE D(q) == IF q.at = "call" /\ q.call = c.n THEN [q EXCEPT !.quiet = FALSE] ELSE q
  <2>1. ASSUME NEW q \in requests
        PROVE  Alike(D(q), q) /\ (D(q).quiet => q.quiet)
               /\ (q.at = "call" /\ q.call = c.n => ~D(q).quiet)
    <3>1. q \in RequestType BY DEF ClientType
    <3>2. CASE q.at = "call" /\ q.call = c.n BY <3>1, <3>2, QuietIs
    <3>3. CASE ~(q.at = "call" /\ q.call = c.n) BY <1>0, <3>3
    <3>q. QED BY <3>2, <3>3
  <2>2. requests' = {D(q) : q \in requests} BY <1>2
  <2> HIDE DEF D
  <2>3. \A x \in requests' : \E q \in requests : Alike(x, q) /\ (x.quiet => q.quiet)
                                /\ (q.at = "call" /\ q.call = c.n => ~x.quiet)
    BY <2>1, <2>2
  <2>4. \A x \in requests' : x.at = "call" /\ x.call = c.n => ~x.quiet BY <2>3 DEF Alike
  <2>q. QED BY <1>2, <2>1, <2>2, <2>3, <2>4
<1>3. CASE /\ Rotate(c)
           /\ minted' = minted \cup {[n |-> c.n, jti |-> Len(tokens) + 1]}
           /\ UNCHANGED <<store, stale, hasToken, refreshing, requests, sent, presented, lost, ended>>
  BY <1>0, <1>3
<1>q. QED BY <1>1, <1>2, <1>3 DEF ServerStep

\* All tokens are of the one user, and the user stays active.
LEMMA UserKept ==
  ASSUME TypeOK, ClientType, [ClientNext]_clientVars
  PROVE  /\ \A j \in Known' : tokens'[j].user = User
         /\ \A c \in calls' : c.user = User
         /\ active' = Users
<1>1. ASSUME Login(User)
      PROVE  /\ \A j \in Known' : tokens'[j].user = User
             /\ calls' = calls /\ active' = active
  <2>1. Login(User) /\ Issue(User, Len(tokens) + 1) BY <1>1 DEF Login
  <2>2. Len(tokens) + 1 \in Jtis BY <2>1, RowFacts, TokenBounds DEF Issue, Jtis
  <2>3. \A j \in Known' : j \in Known \/ j = Len(tokens) + 1
    BY <2>1, <2>2, IssueFacts DEF Known
  <2>4. \A j \in Known : tokens'[j] = tokens[j] BY <2>1, <2>2, IssueFacts DEF Known
  <2>5. tokens'[Len(tokens) + 1].user = User BY <2>1, <2>2, IssueFacts
  <2>q. QED BY <2>1, <2>3, <2>4, <2>5 DEF Login, ClientType
<1>2. ASSUME NEW c \in calls, Rotate(c)
      PROVE  /\ \A j \in Known' : tokens'[j].user = User
             /\ calls' \subseteq calls /\ active' = active
  <2>1. c.user = User /\ Issue(User, tokens[c.jti].session) /\ tokens[c.jti].session \in Jtis
    BY <1>2, RowFacts DEF Rotate, ClientType, TypeOK
  <2>3. \A j \in Known' : j \in Known \/ j = Len(tokens) + 1
    BY <2>1, IssueFacts DEF Known
  <2>4. \A j \in Known : tokens'[j] = tokens[j] BY <2>1, IssueFacts DEF Known
  <2>5. tokens'[Len(tokens) + 1].user = User BY <2>1, IssueFacts
  <2>q. QED BY <1>2, <2>3, <2>4, <2>5 DEF Rotate, Finish, ClientType
<1>3. ASSUME NEW op, NEW j, Submit(op, User, j)
      PROVE  tokens' = tokens /\ active' = active /\ \A c \in calls' : c.user = User
  BY <1>3 DEF Submit, ClientType
<1>4. ASSUME NEW c \in calls, NEW ok, NEW s, Check(c, ok, s)
      PROVE  tokens' = tokens /\ active' = active /\ \A d \in calls' : d.user = User
  <2>1. c \in Call /\ c.user = User BY DEF TypeOK, ClientType
  <2>2. [c EXCEPT !.step = s].user = User BY <2>1 DEF Call
  <2>q. QED BY <1>4, <2>2 DEF Check, Advance, Finish, ClientType
<1>5. ASSUME NEW c \in calls, Revoke(c) \/ Fail(c)
      PROVE  tokens' = tokens /\ active' = active /\ calls' \subseteq calls
  BY <1>5 DEF Revoke, Fail, Finish
<1>6. \/ UNCHANGED <<tokens, calls, active>>
      \/ Login(User)
      \/ \E op, j : Submit(op, User, j)
      \/ \E c \in calls : ServerStep(c)
  <2>1. CASE \E t \in Tabs : Tab(t)
    BY <2>1, LocalServer DEF Tab, SignIn, SignInFail, Local, vars
  <2>2. CASE \E q \in requests : Answer(q)
    BY <2>2, LocalServer DEF Answer, Ending, CallLogout, StartRefresh, vars
  <2>3. CASE \E j \in 1 .. MaxTokens : AccessExpires(j) \/ RefreshExpires(j)
    BY <2>3, LocalServer DEF RefreshExpires, Expire, vars
  <2>q. QED BY <2>1, <2>2, <2>3 DEF ClientNext, clientVars, vars
<1>7. CASE UNCHANGED <<tokens, calls, active>> BY <1>7 DEF ClientType, Known
<1>8. CASE Login(User) BY <1>1, <1>8 DEF ClientType
<1>9. CASE \E op, j : Submit(op, User, j) BY <1>3, <1>9 DEF ClientType, Known
<1>10. CASE \E c \in calls : ServerStep(c)
  <2>1. PICK c \in calls : ServerStep(c) BY <1>10
  <2>2. CASE LookupRefresh(c) \/ LoadUser(c) \/ LookupLogout(c)
    BY <1>4, <2>2 DEF LookupRefresh, LoadUser, LookupLogout, ClientType, Known
  <2>3. CASE Revoke(c) \/ Fail(c) BY <1>5, <2>3 DEF ClientType, Known
  <2>4. CASE Rotate(c) BY <1>2, <2>4 DEF ClientType
  <2>q. QED BY <2>1, <2>2, <2>3, <2>4 DEF ServerStep
<1>q. QED BY <1>6, <1>7, <1>8, <1>9, <1>10

\* What ends a request takes it away, and may clear the session.
LEMMA EndingFacts ==
  ASSUME ClientType, NEW q \in requests, Ending(q)
  PROVE  /\ requests' = requests \ {q}
         /\ UNCHANGED <<vars, stale, refreshing, sent, presented, minted>>
         /\ store' \in {store, 0} /\ hasToken' \in [Tabs -> BOOLEAN]
         /\ q.kind = "logout" => store' = 0
         /\ q.at \in {"sent", "call"}
         /\ lost \subseteq lost'
         /\ q.at = "call" => q.body \in lost' \/ \A c \in calls : c.n # q.call
         /\ \/ ended' = ended
            \/ (LogoutAnswered(q) \/ GiveUp(q)) /\ ended' = ended \cup Ends(q)
<1>1. q.tab \in Tabs BY DEF ClientType, RequestType
<1>2. Clear(q.tab) => store' = 0 /\ hasToken' \in [Tabs -> BOOLEAN]
  BY <1>1 DEF Clear, ClientType
<1>3. \A outcome : Settle(q, outcome) =>
        /\ requests' = requests \ {q} /\ UNCHANGED <<stale, refreshing, sent, presented, minted>>
        /\ store' \in {store, 0} /\ hasToken' \in [Tabs -> BOOLEAN]
        /\ q.kind = "logout" => store' = 0
        /\ ended' \in {ended, ended \cup Ends(q)}
        /\ outcome = "error" => ended' = ended
  BY <1>2 DEF Settle, ClientType
<1>4. q.kind # "logout" => Ends(q) = {} BY DEF Ends
<1>q. QED BY <1>3, <1>4 DEF Ending, Succeed, LogoutAnswered, Error, GiveUp

\* Signing in: a new token, and two requests with it.
LEMMA SignInFacts ==
  ASSUME TypeOK, SessionInv, ClientType, NEW t \in Tabs, SignIn(t), NEW n, n = Len(tokens) + 1
  PROVE  /\ n \in Jtis /\ n \notin Known /\ Known' = Known \cup {n} /\ n # 0
         /\ \A j \in Known : tokens'[j] = tokens[j]
         /\ store' = n /\ hasToken' \in [Tabs -> BOOLEAN] /\ sent' = sent + 2
         /\ requests' = Disturbed(requests) \cup FetchUser(t, n)
         /\ UNCHANGED <<revoked, expired, active, calls, served, done, shared>>
         /\ UNCHANGED <<stale, refreshing, presented, minted, lost, ended>>
<1>1. Login(User) BY DEF SignIn
<1>2. n \in Jtis /\ n \notin Known /\ Known' = Known \cup {n}
      /\ \A j \in Known : tokens'[j] = tokens[j]
  BY <1>1, LoginFacts
<1>q. QED BY <1>1, <1>2 DEF SignIn, Login, ClientType, Jtis

\* A sign-in that fails empties the store, and nothing else moves.
LEMMA SignInFailFacts ==
  ASSUME ClientType, NEW t \in Tabs, SignInFail(t)
  PROVE  /\ store' = 0 /\ hasToken' \in [Tabs -> BOOLEAN]
         /\ UNCHANGED <<revoked, expired, active, calls, served, done, shared>>
         /\ UNCHANGED <<stale, refreshing, requests, sent, presented, minted, lost, ended>>
BY DEF SignInFail, Clear, ClientType, vars

LEMMA ReloadFacts ==
  ASSUME ClientType, NEW t \in Tabs, Reload(t)
  PROVE  /\ hasToken' \in [Tabs -> BOOLEAN]
         /\ refreshing' = [refreshing EXCEPT ![t] = 0]
         /\ lost' = lost \cup Abandoned(t)
         /\ \A x \in requests' : (x \in requests /\ x.tab # t) \/ (store # 0 /\ x \in FetchUser(t, store))
         /\ \A q \in requests : q.tab # t => q \in requests'
         /\ \/ sent' = sent /\ requests' \subseteq requests
            \/ sent' = sent + 2
         /\ UNCHANGED <<vars, store, stale, presented, minted, ended>>
<1>1. hasToken' \in [Tabs -> BOOLEAN] BY DEF Reload, ClientType
<1>q. QED BY <1>1 DEF Reload

\* A request of one's own, and the logout that starts with one.
LEMMA SendFacts ==
  ASSUME ClientType, NEW t \in Tabs, Send(t) \/ Logout(t)
  PROVE  /\ UNCHANGED <<vars, stale, refreshing, presented, minted, lost, ended>>
         /\ hasToken' \in [Tabs -> BOOLEAN] /\ sent' = sent + 1 /\ sent + 1 \in Nat
         /\ \/ requests' = requests /\ store' = 0
            \/ \E x \in RequestType :
                 /\ requests' = requests \cup {x} /\ store' = store
                 /\ x.id = sent + 1 /\ x.tab = t /\ x.body = store /\ x.bearer = store
                 /\ x.kind = "logout" => store # 0
                 /\ ~x.retried /\ x.at = "sent" /\ (x.quiet => \A s \in Tabs : refreshing[s] = 0)
<1>1. sent + 1 \in Nat /\ store \in Nat BY DEF ClientType
<1>2. CASE Send(t)
  <2> DEFINE x == Request(sent + 1, t, "api", store)
  <2>1. x \in RequestType /\ x.id = sent + 1 /\ x.tab = t /\ x.kind = "api" /\ x.bearer = store
        /\ x.body = store /\ ~x.retried /\ x.at = "sent"
        /\ (x.quiet => \A s \in Tabs : refreshing[s] = 0)
    BY <1>1, RequestIs
  <2>2. requests' = requests \cup {x} BY <1>2 DEF Send
  <2> HIDE DEF x
  <2>q. QED BY <1>1, <1>2, <2>1, <2>2 DEF Send, ClientType
<1>3. CASE Logout(t) /\ store # 0
  <2> DEFINE x == Request(sent + 1, t, "logout", store)
  <2>1. x \in RequestType /\ x.id = sent + 1 /\ x.tab = t /\ x.kind = "logout" /\ x.bearer = store
        /\ x.body = store /\ ~x.retried /\ x.at = "sent"
        /\ (x.quiet => \A s \in Tabs : refreshing[s] = 0)
    BY <1>1, RequestIs
  <2>2. requests' = requests \cup {x} BY <1>3 DEF Logout
  <2> HIDE DEF x
  <2>q. QED BY <1>1, <1>3, <2>1, <2>2 DEF Logout, ClientType
<1>4. CASE Logout(t) /\ store = 0
  BY <1>1, <1>4 DEF Logout, Clear, ClientType
<1>q. QED BY <1>2, <1>3, <1>4

\* A request goes over to wait for the refresh of its tab, or starts it.
LEMMA JoinFacts ==
  ASSUME ClientType, NEW q \in requests, JoinRefresh(q)
  PROVE  /\ UNCHANGED <<vars, store, stale, hasToken, refreshing, sent, presented, minted, lost, ended>>
         /\ requests' = (requests \ {q}) \cup {Wait(q)}
         /\ q.at = "sent" /\ ~q.retried /\ refreshing[q.tab] # 0
BY DEF JoinRefresh

\* What the start of a refresh does, with the call c it sends and the presentation p it
\* records named by their fields.
RefreshStarted(q, c, p) ==
  /\ UNCHANGED <<tokens, revoked, expired, active, done>>
  /\ UNCHANGED <<store, stale, hasToken, sent, minted, lost, ended>>
  /\ store \in Known /\ store \in Jtis /\ served' = served + 1 /\ served \in Nat
  /\ calls' = calls \cup {c}
  /\ c.n = served + 1 /\ c.op = "refresh" /\ c.jti = store /\ c.step = "lookup"
  /\ refreshing' = [refreshing EXCEPT ![q.tab] = served + 1]
  /\ presented' = presented \cup {p}
  /\ p.tab = q.tab /\ p.jti = store /\ p.n = served + 1
  /\ p \in [tab: Tabs, jti: Jtis, n: Nat]
  /\ requests' = Disturbed(requests \ {q}) \cup {Wait(q)}
  /\ q.at = "sent" /\ ~q.retried /\ refreshing[q.tab] = 0

LEMMA StartFacts ==
  ASSUME TypeOK, ClientType, NEW q \in requests, StartRefresh(q)
  PROVE  \E c, p : RefreshStarted(q, c, p)
<1>1. Submit("refresh", User, store) BY DEF StartRefresh
<1>2. store \in Known /\ store \in Jtis BY <1>1, RowFacts DEF Submit
<1>3. served \in Nat /\ q.tab \in Tabs BY DEF TypeOK, ClientType, RequestType
<1>4. PICK c : c = [n |-> served + 1, op |-> "refresh", user |-> User, jti |-> store,
                    late |-> ~Live(store) \/ store \in expired, step |-> "lookup"]
  OBVIOUS
<1>5. PICK p : p = [tab |-> q.tab, jti |-> store, n |-> served + 1] OBVIOUS
<1>6. p \in [tab: Tabs, jti: Jtis, n: Nat] BY <1>2, <1>3, <1>5
<1>7. calls' = calls \cup {c} /\ served' = served + 1
      /\ UNCHANGED <<tokens, revoked, expired, active, done>>
  BY <1>1, <1>4 DEF Submit
<1>8. presented' = presented \cup {p} BY <1>5 DEF StartRefresh
<1>9. /\ UNCHANGED <<store, stale, hasToken, sent, minted, lost, ended>>
      /\ refreshing' = [refreshing EXCEPT ![q.tab] = served + 1]
      /\ requests' = Disturbed(requests \ {q}) \cup {Wait(q)}
      /\ q.at = "sent" /\ ~q.retried /\ refreshing[q.tab] = 0
  BY DEF StartRefresh
<1>10. c.n = served + 1 /\ c.op = "refresh" /\ c.jti = store /\ c.step = "lookup" BY <1>4
<1>11. p.tab = q.tab /\ p.jti = store /\ p.n = served + 1 BY <1>5
<1>12. RefreshStarted(q, c, p)
  BY <1>2, <1>3, <1>6, <1>7, <1>8, <1>9, <1>10, <1>11 DEF RefreshStarted
<1>q. QED BY <1>12

\* What the call of a logout does, with the call c it sends and the request x as it waits
\* for the answer named by their fields.
LogoutCalled(q, c, x) ==
  /\ UNCHANGED <<tokens, revoked, expired, active, done>>
  /\ UNCHANGED <<store, stale, hasToken, refreshing, sent, presented, minted, lost, ended>>
  /\ served' = served + 1 /\ served \in Nat
  /\ calls' = calls \cup {c}
  /\ c.n = served + 1 /\ c.op = "logout" /\ c.jti = q.body /\ c.step = "lookup"
  /\ requests' = (requests \ {q}) \cup {x}
  /\ x \in RequestType
  /\ x.id = q.id /\ x.tab = q.tab /\ x.kind = q.kind /\ x.bearer = q.bearer
  /\ x.body = q.body /\ x.retried = q.retried /\ x.quiet = q.quiet
  /\ x.at = "call" /\ x.call = served + 1
  /\ q.at = "sent" /\ q.kind = "logout"

LEMMA CallLogoutFacts ==
  ASSUME TypeOK, ClientType, NEW q \in requests, CallLogout(q)
  PROVE  \E c, x : LogoutCalled(q, c, x)
<1>1. Submit("logout", User, q.body) BY DEF CallLogout
<1>2. served \in Nat /\ served + 1 \in Nat /\ q \in RequestType BY DEF TypeOK, ClientType
<1>3. PICK c : c = [n |-> served + 1, op |-> "logout", user |-> User, jti |-> q.body,
                    late |-> ~Live(q.body) \/ q.body \in expired, step |-> "lookup"]
  OBVIOUS
<1>4. PICK x : x = [q EXCEPT !.at = "call", !.call = served + 1] OBVIOUS
<1>5. x \in RequestType BY <1>2, <1>4 DEF RequestType
<1>6. /\ x.id = q.id /\ x.tab = q.tab /\ x.kind = q.kind /\ x.bearer = q.bearer
      /\ x.body = q.body /\ x.retried = q.retried /\ x.quiet = q.quiet
      /\ x.at = "call" /\ x.call = served + 1
  BY <1>2, <1>4 DEF RequestType
<1>7. calls' = calls \cup {c} /\ served' = served + 1
      /\ UNCHANGED <<tokens, revoked, expired, active, done>>
  BY <1>1, <1>3 DEF Submit
<1>8. c.n = served + 1 /\ c.op = "logout" /\ c.jti = q.body /\ c.step = "lookup" BY <1>3
<1>9. /\ UNCHANGED <<store, stale, hasToken, refreshing, sent, presented, minted, lost, ended>>
      /\ requests' = (requests \ {q}) \cup {x} /\ q.at = "sent" /\ q.kind = "logout"
  BY <1>4 DEF CallLogout
<1>10. LogoutCalled(q, c, x) BY <1>2, <1>5, <1>6, <1>7, <1>8, <1>9 DEF LogoutCalled
<1>q. QED BY <1>10

\* A refresh is over: those who waited are sent again with the new pair ...
LEMMA DoneFacts ==
  ASSUME ClientType, NEW t \in Tabs, RefreshDone(t)
  PROVE  \E m \in minted :
           /\ m.n = refreshing[t] /\ store' = m.jti
           /\ UNCHANGED <<vars, stale, hasToken, sent, presented, minted, lost, ended>>
           /\ refreshing' = [refreshing EXCEPT ![t] = 0]
           /\ \A x \in requests' : x \in RequestType /\ \E q \in requests :
                /\ x.id = q.id /\ x.tab = q.tab /\ x.kind = q.kind /\ x.body = q.body
                /\ x.retried = q.retried /\ x.quiet = q.quiet
                /\ x = q \/ (x.at = "sent" /\ q.at = "wait")
           /\ \A q \in requests : (q.at = "wait" /\ q.tab = t) \/ q \in requests'
<1>1. PICK m \in minted :
        /\ m.n = refreshing[t] /\ store' = m.jti
        /\ refreshing' = [refreshing EXCEPT ![t] = 0]
        /\ requests' = (requests \ Waiting(t))
             \cup {[q EXCEPT !.at = "sent", !.bearer = m.jti] : q \in Waiting(t)}
        /\ UNCHANGED <<vars, stale, hasToken, sent, presented, minted, lost, ended>>
  BY DEF RefreshDone
<1> DEFINE D(q) == [q EXCEPT !.at = "sent", !.bearer = m.jti]
<1>2. m.jti \in Nat BY DEF ClientType, Jtis
<1>3. \A q \in Waiting(t) : /\ D(q) \in RequestType
                            /\ D(q).id = q.id /\ D(q).tab = q.tab /\ D(q).kind = q.kind
                            /\ D(q).body = q.body /\ D(q).retried = q.retried
                            /\ D(q).quiet = q.quiet /\ D(q).at = "sent" /\ q.at = "wait"
                            /\ q \in requests
  BY <1>2 DEF Waiting, ClientType, RequestType
<1>4. requests' = (requests \ Waiting(t)) \cup {D(q) : q \in Waiting(t)} BY <1>1
<1> HIDE DEF D
<1>5. ASSUME NEW x \in requests'
      PROVE  x \in RequestType /\ \E q \in requests :
                /\ x.id = q.id /\ x.tab = q.tab /\ x.kind = q.kind /\ x.body = q.body
                /\ x.retried = q.retried /\ x.quiet = q.quiet
                /\ x = q \/ (x.at = "sent" /\ q.at = "wait")
  BY <1>3, <1>4 DEF ClientType
<1>6. \A q \in requests : (q.at = "wait" /\ q.tab = t) \/ q \in requests'
  BY <1>4 DEF Waiting
<1>q. QED BY <1>1, <1>5, <1>6

\* A tab that waits for a refresh has started it, for a request that waits too.
Flight ==
  \A t \in Tabs : refreshing[t] # 0 =>
    /\ \E p \in presented : p.tab = t /\ p.n = refreshing[t]
    /\ Waiting(t) # {}

\* ... or they fail, and the session with them.
LEMMA FailFacts ==
  ASSUME ClientType, Flight, NEW t \in Tabs, RefreshFail(t)
  PROVE  /\ UNCHANGED <<vars, stale, sent, presented, minted, ended>>
         /\ refreshing' = [refreshing EXCEPT ![t] = 0] /\ refreshing[t] # 0
         /\ requests' = requests \ Waiting(t)
         /\ store' = 0 /\ hasToken' \in [Tabs -> BOOLEAN]
         /\ lost \subseteq lost'
         /\ \A c \in calls : c.n = refreshing[t] =>
              \A p \in presented : p.n = refreshing[t] => p.jti \in lost'
BY DEF RefreshFail, Clear, Flight, ClientType

\* Every conjunct of ClientType but those about the server.
LEMMA ClientTypeFrame ==
  ASSUME TypeOK, ClientType, [ClientNext]_clientVars,
         store' \in Nat, store' # 0 => store' \in Known',
         hasToken' \in [Tabs -> BOOLEAN], refreshing' \in [Tabs -> Nat], sent' \in Nat,
         \A x \in requests' : /\ x \in RequestType
                              /\ x.body = 0 \/ x.body \in Known
                              /\ x.kind = "logout" => x.body \in Known,
         presented' \subseteq [tab: Tabs, jti: Jtis, n: Nat],
         \A p \in presented' : p.jti \in Known,
         minted' \subseteq [n: Nat, jti: Jtis],
         \A m \in minted' : m.jti \in Known',
         ended' \subseteq Known
  PROVE  ClientType'
<1>1. [Next]_vars BY ServerNext
<1>2. Known \subseteq Known' BY <1>1, ServerGrows
<1>q. QED BY <1>2, UserKept DEF ClientType

LEMMA ClientTypeStep ==
  TypeOK /\ TypeOK' /\ SessionInv /\ Flight /\ ClientType /\ [ClientNext]_clientVars => ClientType'
<1> SUFFICES ASSUME TypeOK, TypeOK', SessionInv, Flight, ClientType, [ClientNext]_clientVars
             PROVE  ClientType'
  OBVIOUS
<1>0. [Next]_vars /\ Known \subseteq Known' BY ServerNext, ServerGrows
<1>a. \A q \in requests : /\ q \in RequestType /\ (q.body = 0 \/ q.body \in Known)
                          /\ q.kind = "logout" => q.body \in Known
  BY DEF ClientType
<1>b. /\ store \in Nat /\ (store # 0 => store \in Known) /\ hasToken \in [Tabs -> BOOLEAN]
      /\ refreshing \in [Tabs -> Nat] /\ sent \in Nat /\ ended \subseteq Known
      /\ sent + 1 \in Nat /\ sent + 2 \in Nat
  BY DEF ClientType
<1>c. /\ presented \subseteq [tab: Tabs, jti: Jtis, n: Nat] /\ \A p \in presented : p.jti \in Known
      /\ minted \subseteq [n: Nat, jti: Jtis] /\ \A m \in minted : m.jti \in Known'
  BY <1>0 DEF ClientType
<1>1. ASSUME NEW t \in Tabs, SignIn(t) PROVE ClientType'
  <2>1. PICK n : n = Len(tokens) + 1 OBVIOUS
  <2>2. ASSUME NEW x \in requests'
        PROVE  /\ x \in RequestType /\ (x.body = 0 \/ x.body \in Known)
               /\ x.kind = "logout" => x.body \in Known
    <3>1. CASE x \in Disturbed(requests)
      <4>1. PICK q \in requests : Alike(x, q) BY <1>a, <3>1, DisturbedIs
      <4>q. QED BY <1>a, <4>1 DEF Alike
    <3>2. CASE x \in FetchUser(t, n)
      <4>1. n \in Nat BY <1>1, <2>1, SignInFacts DEF Jtis
      <4>2. x \in RequestType /\ x.kind # "logout" /\ x.body = store BY <3>2, <4>1, FetchIs
      <4>q. QED BY <1>b, <4>2
    <3>q. QED BY <1>1, <2>1, <3>1, <3>2, SignInFacts
  <2>3. store' \in Nat /\ store' \in Known' BY <1>1, <2>1, SignInFacts DEF Jtis
  <2>q. QED BY <1>1, <1>b, <1>c, <2>1, <2>2, <2>3, SignInFacts, ClientTypeFrame
<1>2. ASSUME NEW t \in Tabs, Reload(t) PROVE ClientType'
  <2>1. ASSUME NEW x \in requests'
        PROVE  /\ x \in RequestType /\ (x.body = 0 \/ x.body \in Known)
               /\ x.kind = "logout" => x.body \in Known
    <3>1. CASE x \in requests BY <1>a, <3>1
    <3>2. CASE x \in FetchUser(t, store) BY <1>b, <3>2, FetchIs
    <3>q. QED BY <1>2, <3>1, <3>2, ReloadFacts
  <2>2. refreshing' \in [Tabs -> Nat] BY <1>2, <1>b, ReloadFacts
  <2>3. UNCHANGED <<vars, store, presented, minted, ended>> /\ sent' \in {sent, sent + 2}
        /\ hasToken' \in [Tabs -> BOOLEAN]
    BY <1>2, ReloadFacts
  <2>q. QED BY <1>0, <1>b, <1>c, <2>1, <2>2, <2>3, ClientTypeFrame
<1>3. ASSUME NEW t \in Tabs, Send(t) \/ Logout(t) PROVE ClientType'
  <2>1. ASSUME NEW x \in requests'
        PROVE  /\ x \in RequestType /\ (x.body = 0 \/ x.body \in Known)
               /\ x.kind = "logout" => x.body \in Known
    BY <1>3, <1>a, <1>b, SendFacts
  <2>2. UNCHANGED <<refreshing, presented, minted, ended>> /\ sent' = sent + 1
        /\ hasToken' \in [Tabs -> BOOLEAN] /\ store' \in {store, 0}
    BY <1>3, SendFacts
  <2>q. QED BY <1>0, <1>b, <1>c, <2>1, <2>2, ClientTypeFrame
<1>4. ASSUME NEW q \in requests, Ending(q) PROVE ClientType'
  <2>1. /\ requests' \subseteq requests /\ hasToken' \in [Tabs -> BOOLEAN] /\ store' \in {store, 0}
        /\ UNCHANGED <<refreshing, presented, minted, sent>>
        /\ ended' \in {ended, ended \cup Ends(q)}
    BY <1>4, EndingFacts
  <2>2. Ends(q) \subseteq Known BY <1>a DEF Ends, SessionInv
  <2>q. QED BY <1>0, <1>a, <1>b, <1>c, <2>1, <2>2, ClientTypeFrame
<1>5. ASSUME NEW q \in requests, JoinRefresh(q) PROVE ClientType'
  <2>1. UNCHANGED <<store, hasToken, refreshing, sent, presented, minted, ended>>
        /\ requests' = (requests \ {q}) \cup {Wait(q)}
    BY <1>5, JoinFacts
  <2>2. Wait(q) \in RequestType /\ Wait(q).kind = q.kind /\ Wait(q).body = q.body
    BY <1>a, WaitIs
  <2>q. QED BY <1>0, <1>a, <1>b, <1>c, <2>1, <2>2, ClientTypeFrame
<1>6. ASSUME NEW q \in requests, StartRefresh(q) PROVE ClientType'
  <2>1. PICK c, p : RefreshStarted(q, c, p) BY <1>6, StartFacts
  <2>2. /\ UNCHANGED <<store, hasToken, sent, minted, ended>>
        /\ store \in Known /\ served + 1 \in Nat
        /\ refreshing' = [refreshing EXCEPT ![q.tab] = served + 1]
        /\ presented' = presented \cup {p} /\ p.jti = store
        /\ p \in [tab: Tabs, jti: Jtis, n: Nat]
        /\ requests' = Disturbed(requests \ {q}) \cup {Wait(q)}
    BY <2>1 DEF RefreshStarted
  <2>3. ASSUME NEW x \in requests'
        PROVE  /\ x \in RequestType /\ (x.body = 0 \/ x.body \in Known)
               /\ x.kind = "logout" => x.body \in Known
    <3>1. CASE x \in Disturbed(requests \ {q})
      <4>1. requests \ {q} \in SUBSET RequestType BY <1>a
      <4>2. PICK r \in requests : Alike(x, r) BY <3>1, <4>1, DisturbedIs
      <4>q. QED BY <1>a, <4>2 DEF Alike
    <3>2. CASE x = Wait(q) BY <1>a, <3>2, WaitIs
    <3>q. QED BY <2>2, <3>1, <3>2
  <2>4. refreshing' \in [Tabs -> Nat] BY <1>b, <2>2
  <2>q. QED BY <1>0, <1>b, <1>c, <2>2, <2>3, <2>4, ClientTypeFrame
<1>7. ASSUME NEW q \in requests, CallLogout(q) PROVE ClientType'
  <2>1. PICK c, x : LogoutCalled(q, c, x) BY <1>7, CallLogoutFacts
  <2>2. /\ UNCHANGED <<store, hasToken, refreshing, sent, presented, minted, ended>>
        /\ requests' = (requests \ {q}) \cup {x}
        /\ x \in RequestType /\ x.kind = q.kind /\ x.body = q.body
    BY <2>1 DEF LogoutCalled
  <2>q. QED BY <1>0, <1>a, <1>b, <1>c, <2>2, ClientTypeFrame
<1>8. ASSUME NEW t \in Tabs, RefreshDone(t) PROVE ClientType'
  <2>1. PICK m \in minted :
           /\ store' = m.jti
           /\ UNCHANGED <<vars, hasToken, sent, presented, minted, ended>>
           /\ refreshing' = [refreshing EXCEPT ![t] = 0]
           /\ \A x \in requests' : x \in RequestType /\ \E q \in requests :
                x.kind = q.kind /\ x.body = q.body
    BY <1>8, DoneFacts
  <2>2. m.jti \in Known' /\ m.jti \in Nat BY <1>c DEF Jtis
  <2>3. refreshing' \in [Tabs -> Nat] BY <1>b, <2>1
  <2>q. QED BY <1>0, <1>a, <1>b, <1>c, <2>1, <2>2, <2>3, ClientTypeFrame
<1>9. ASSUME NEW t \in Tabs, RefreshFail(t) PROVE ClientType'
  <2>1. /\ UNCHANGED <<sent, presented, minted, ended>>
        /\ refreshing' = [refreshing EXCEPT ![t] = 0]
        /\ requests' \subseteq requests /\ store' = 0 /\ hasToken' \in [Tabs -> BOOLEAN]
    BY <1>9, FailFacts
  <2>2. refreshing' \in [Tabs -> Nat] BY <1>b, <2>1
  <2>q. QED BY <1>0, <1>a, <1>b, <1>c, <2>1, <2>2, ClientTypeFrame
<1>10. ASSUME NEW c \in calls, ServerStep(c) PROVE ClientType'
  <2>1. /\ UNCHANGED <<store, hasToken, refreshing, sent, presented, ended>>
        /\ \A x \in requests' : \E q \in requests : Alike(x, q)
        /\ \/ minted' = minted
           \/ Rotate(c) /\ minted' = minted \cup {[n |-> c.n, jti |-> Len(tokens) + 1]}
    BY <1>10, ServerSeen
  <2>2. \A x \in requests' : /\ x \in RequestType /\ (x.body = 0 \/ x.body \in Known)
                             /\ x.kind = "logout" => x.body \in Known
    BY <1>a, <2>1 DEF Alike
  <2>3. minted' \subseteq [n: Nat, jti: Jtis] /\ \A m \in minted' : m.jti \in Known'
    <3>1. CASE minted' = minted BY <1>c, <3>1
    <3>2. CASE Rotate(c) /\ minted' = minted \cup {[n |-> c.n, jti |-> Len(tokens) + 1]}
      <4>1. Len(tokens) + 1 \in Jtis /\ Len(tokens) + 1 \in Known' BY <3>2, RotateFacts
      <4>2. c.n \in Nat BY DEF TypeOK, Call
      <4>q. QED BY <1>c, <3>2, <4>1, <4>2
    <3>q. QED BY <2>1, <3>1, <3>2
  <2>q. QED BY <1>0, <1>b, <1>c, <2>1, <2>2, <2>3, ClientTypeFrame
<1>11. ASSUME NEW j, AccessExpires(j) \/ RefreshExpires(j) \/ UNCHANGED clientVars
       PROVE  ClientType'
  <2>1. UNCHANGED <<store, hasToken, refreshing, requests, sent, presented, minted, ended>>
    BY <1>11 DEF AccessExpires, RefreshExpires, clientVars, client
  <2>q. QED BY <1>0, <1>a, <1>b, <1>c, <2>1, ClientTypeFrame
<1>12. ASSUME NEW t \in Tabs, SignInFail(t) PROVE ClientType'
  <2>1. UNCHANGED <<refreshing, requests, sent, presented, minted, ended>>
        /\ store' = 0 /\ hasToken' \in [Tabs -> BOOLEAN]
    BY <1>12, SignInFailFacts
  <2>q. QED BY <1>a, <1>b, <1>c, <2>1, ClientTypeFrame
<1>q. QED BY <1>1, <1>2, <1>3, <1>4, <1>5, <1>6, <1>7, <1>8, <1>9, <1>10, <1>11,
          <1>12 DEF ClientNext, Tab, Answer, Ending

-----------------------------------------------------------------------------
\* Calls are numbered, and a call under way has not been carried out.
Numbered ==
  /\ \A c \in calls \cup done : c.n >= 1 /\ c.n <= served
  /\ \A c, d \in calls : c.n = d.n => c = d
  /\ \A c \in calls, d \in done : c.n # d.n

LEMMA NumberedStep == TypeOK /\ Numbered /\ [Next]_vars => Numbered'
<1> SUFFICES ASSUME TypeOK, Numbered, [Next]_vars PROVE Numbered'
  OBVIOUS
<1>0. served \in Nat /\ \A c \in calls \cup done : c.n \in Nat BY DEF TypeOK, Call
<1>1. ASSUME NEW op, NEW u, NEW j, Submit(op, u, j) PROVE Numbered'
  <2>1. PICK c : c = [n |-> served + 1, op |-> op, user |-> u, jti |-> j,
                   late |-> ~Live(j) \/ j \in expired,
                      step |-> "lookup"]
    OBVIOUS
  <2>2. c.n = served + 1 /\ calls' = calls \cup {c} /\ done' = done /\ served' = served + 1
    BY <1>1, <2>1 DEF Submit
  <2>3. \A d \in calls \cup done : d.n <= served BY DEF Numbered
  <2>q. QED BY <1>0, <2>2, <2>3 DEF Numbered
<1>2. ASSUME NEW c \in calls, NEW ok, NEW s, Check(c, ok, s) PROVE Numbered'
  <2>1. [c EXCEPT !.step = s].n = c.n BY DEF TypeOK, Call
  <2>2. PICK x : x = [c EXCEPT !.step = s] OBVIOUS
  <2>3. calls' \subseteq (calls \ {c}) \cup {x} /\ x.n = c.n /\ done' = done /\ served' = served
    BY <1>2, <2>1, <2>2 DEF Check, Advance, Finish
  <2>q. QED BY <2>3 DEF Numbered
<1>3. ASSUME NEW c \in calls, Rotate(c) \/ Revoke(c) PROVE Numbered'
  <2>1. calls' = calls \ {c} /\ done' = done \cup {c} /\ served' = served
    BY <1>3 DEF Rotate, Revoke, Finish
  <2>q. QED BY <2>1 DEF Numbered
<1>4. CASE UNCHANGED <<done, served>> /\ calls' \subseteq calls BY <1>4 DEF Numbered
<1>5. \/ UNCHANGED <<done, served>> /\ calls' \subseteq calls
      \/ \E op, u, j : Submit(op, u, j)
      \/ \E c \in calls : \/ LookupRefresh(c) \/ LoadUser(c) \/ LookupLogout(c)
                          \/ Rotate(c) \/ Revoke(c)
  BY DEF Next, Login, Toggle, Expire, Fail, Finish, vars
<1>6. ASSUME NEW c \in calls, LookupRefresh(c) \/ LoadUser(c) \/ LookupLogout(c) PROVE Numbered'
  BY <1>2, <1>6 DEF LookupRefresh, LoadUser, LookupLogout
<1>q. QED BY <1>1, <1>3, <1>4, <1>5, <1>6

\* What becomes of a call that stays.
LEMMA CheckIs ==
  ASSUME TypeOK, NEW c \in calls, NEW ok, NEW s, Check(c, ok, s)
  PROVE  /\ \A d \in calls' : \/ d \in calls /\ d # c
                              \/ /\ ok /\ d.n = c.n /\ d.op = c.op /\ d.jti = c.jti /\ d.step = s
         /\ \A d \in calls : d # c => d \in calls'
         /\ ok => \E d \in calls' : d.n = c.n /\ d.op = c.op /\ d.jti = c.jti /\ d.step = s
         /\ UNCHANGED <<tokens, revoked, expired, active, served, done, shared>>
<1>1. PICK x : x = [c EXCEPT !.step = s] OBVIOUS
<1>2. c \in Call BY DEF TypeOK
<1>3. x.n = c.n /\ x.op = c.op /\ x.jti = c.jti /\ x.step = s BY <1>1, <1>2 DEF Call
<1>q. QED BY <1>1, <1>3 DEF Check, Advance, Finish

\* What a step of the server does to the calls, and what it leaves alone.
LEMMA ServerStepFacts ==
  ASSUME TypeOK, NEW c \in calls, ServerStep(c)
  PROVE  /\ \A d \in calls' : \/ d \in calls /\ d # c
                              \/ \E e \in calls : d.n = e.n /\ d.op = e.op /\ d.jti = e.jti
         /\ \A d \in calls : d # c => d \in calls'
         /\ served' = served /\ expired' = expired /\ shared' = shared
         /\ \/ UNCHANGED <<tokens, revoked, done>>
            \/ Rotate(c) \/ (Revoke(c) /\ tokens' = tokens)
<1>1. ASSUME LookupRefresh(c) \/ LoadUser(c) \/ LookupLogout(c)
      PROVE  \E ok, s : Check(c, ok, s)
  BY <1>1 DEF LookupRefresh, LoadUser, LookupLogout, Live
<1>2. CASE LookupRefresh(c) \/ LoadUser(c) \/ LookupLogout(c)
  <2>1. PICK ok, s : Check(c, ok, s) BY <1>1, <1>2
  <2>q. QED BY <2>1, CheckIs
<1>3. CASE Revoke(c) \/ Fail(c) \/ Rotate(c)
  BY <1>3 DEF Revoke, Fail, Rotate, Finish
<1>q. QED BY <1>2, <1>3 DEF ServerStep

-----------------------------------------------------------------------------
\* A number belongs to one presentation and to one answer, which was carried out.
Numbers ==
  /\ \A p \in presented : p.n >= 1 /\ p.n <= served
  /\ \A p, r \in presented : p.n = r.n => p = r
  /\ \A q \in requests : q.at = "call" => q.call >= 1 /\ q.call <= served
  /\ \A t \in Tabs : refreshing[t] <= served
  /\ \A m \in minted : \E d \in done : d.op = "refresh" /\ d.n = m.n
  /\ \A m, o \in minted : m.n = o.n \/ m.jti = o.jti => m = o

LEMMA NumbersStep ==
  TypeOK /\ SessionInv /\ Flight /\ ClientType /\ Numbered /\ Numbers /\ [ClientNext]_clientVars
    => Numbers'
<1> SUFFICES ASSUME TypeOK, SessionInv, Flight, ClientType, Numbered, Numbers,
                    [ClientNext]_clientVars
             PROVE  Numbers'
  OBVIOUS
<1>0. served \in Nat /\ \A t \in Tabs : refreshing[t] \in Nat BY DEF TypeOK, ClientType
<1>a. ASSUME UNCHANGED <<served, presented, minted, done>>,
             \A t \in Tabs : refreshing'[t] \in {refreshing[t], 0},
             \A x \in requests' : x.at = "call" => \E q \in requests : q.at = "call" /\ x.call = q.call
      PROVE  Numbers'
  BY <1>0, <1>a DEF Numbers
<1>1. ASSUME NEW t \in Tabs, SignIn(t) PROVE Numbers'
  <2>1. PICK n : n = Len(tokens) + 1 OBVIOUS
  <2>2. requests' = Disturbed(requests) \cup FetchUser(t, n) /\ n \in Nat
        /\ UNCHANGED <<served, presented, minted, done, refreshing>>
    BY <1>1, <2>1, SignInFacts DEF Jtis
  <2>3. ASSUME NEW x \in requests', x.at = "call" PROVE \E q \in requests : q.at = "call" /\ x.call = q.call
    <3>1. x \in Disturbed(requests) BY <2>2, <2>3, FetchIs
    <3>2. requests \in SUBSET RequestType BY DEF ClientType
    <3>3. PICK r \in requests : Alike(x, r) BY <3>1, <3>2, DisturbedIs
    <3>q. QED BY <2>3, <3>3 DEF Alike
  <2>q. QED BY <1>a, <2>2, <2>3
<1>2. ASSUME NEW t \in Tabs, Reload(t) PROVE Numbers'
  <2>1. \A x \in requests' : x.at = "call" => x \in requests
    BY <1>2, ReloadFacts, FetchIs DEF ClientType
  <2>2. refreshing' = [refreshing EXCEPT ![t] = 0] /\ UNCHANGED <<vars, presented, minted>>
    BY <1>2, ReloadFacts
  <2>q. QED BY <1>a, <2>1, <2>2 DEF ClientType, vars
<1>3. ASSUME NEW t \in Tabs, Send(t) \/ Logout(t) PROVE Numbers'
  <2>1. \A x \in requests' : x.at = "call" => x \in requests BY <1>3, SendFacts
  <2>2. UNCHANGED <<vars, presented, minted, refreshing>> BY <1>3, SendFacts
  <2>q. QED BY <1>a, <2>1, <2>2 DEF vars
<1>4. ASSUME NEW q \in requests, Ending(q) PROVE Numbers'
  <2>1. requests' \subseteq requests /\ UNCHANGED <<vars, presented, minted, refreshing>>
    BY <1>4, EndingFacts
  <2>q. QED BY <1>a, <2>1 DEF vars
<1>5. ASSUME NEW q \in requests, JoinRefresh(q) PROVE Numbers'
  <2>1. UNCHANGED <<vars, presented, minted, refreshing>>
        /\ requests' = (requests \ {q}) \cup {Wait(q)}
    BY <1>5, JoinFacts
  <2>2. Wait(q).at = "wait" BY WaitIs DEF ClientType
  <2>q. QED BY <1>a, <2>1, <2>2 DEF vars
<1>6. ASSUME NEW q \in requests, StartRefresh(q) PROVE Numbers'
  <2>1. PICK c, p : RefreshStarted(q, c, p) BY <1>6, StartFacts
  <2>2. /\ UNCHANGED <<minted, done>> /\ served' = served + 1
        /\ refreshing' = [refreshing EXCEPT ![q.tab] = served + 1]
        /\ presented' = presented \cup {p} /\ p.n = served + 1
        /\ requests' = Disturbed(requests \ {q}) \cup {Wait(q)}
    BY <2>1 DEF RefreshStarted
  <2>3. ASSUME NEW x \in requests', x.at = "call" PROVE \E r \in requests : r.at = "call" /\ x.call = r.call
    <3>1. Wait(q).at = "wait" BY WaitIs DEF ClientType
    <3>2. x \in Disturbed(requests \ {q}) BY <2>2, <2>3, <3>1
    <3>3. requests \ {q} \in SUBSET RequestType BY DEF ClientType
    <3>4. PICK r \in requests : Alike(x, r) BY <3>2, <3>3, DisturbedIs
    <3>q. QED BY <2>3, <3>4 DEF Alike
  <2>4. \A x \in requests' : x.at = "call" => x.call >= 1 /\ x.call <= served + 1
    BY <1>0, <2>3 DEF Numbers, ClientType, RequestType
  <2>5. \A t \in Tabs : refreshing'[t] \in {refreshing[t], served + 1} BY <2>2 DEF ClientType
  <2>6. \A r \in presented : r.n \in Nat /\ r.n <= served BY DEF Numbers, ClientType
  <2>7. \A r \in presented' : r.n >= 1 /\ r.n <= served' BY <1>0, <2>2, <2>6 DEF Numbers
  <2>8. \A r, s \in presented' : r.n = s.n => r = s BY <1>0, <2>2, <2>6 DEF Numbers
  <2>9. \A t \in Tabs : refreshing'[t] <= served' BY <1>0, <2>2, <2>5 DEF Numbers
  <2>10. \A x \in requests' : x.at = "call" => x.call >= 1 /\ x.call <= served' BY <2>2, <2>4
  <2>q. QED BY <2>2, <2>7, <2>8, <2>9, <2>10 DEF Numbers
<1>7. ASSUME NEW q \in requests, CallLogout(q) PROVE Numbers'
  <2>1. PICK c, x : LogoutCalled(q, c, x) BY <1>7, CallLogoutFacts
  <2>2. /\ UNCHANGED <<refreshing, presented, minted, done>> /\ served' = served + 1
        /\ requests' = (requests \ {q}) \cup {x} /\ x.call = served + 1
    BY <2>1 DEF LogoutCalled
  <2>q. QED BY <1>0, <2>2 DEF Numbers, ClientType, RequestType
<1>8. ASSUME NEW t \in Tabs, RefreshDone(t) PROVE Numbers'
  <2>1. /\ UNCHANGED <<vars, presented, minted>>
        /\ refreshing' = [refreshing EXCEPT ![t] = 0]
        /\ \A x \in requests' : \E q \in requests : x = q \/ x.at = "sent"
    BY <1>8, DoneFacts
  <2>q. QED BY <1>a, <2>1 DEF ClientType, vars
<1>9. ASSUME NEW t \in Tabs, RefreshFail(t) PROVE Numbers'
  <2>1. /\ UNCHANGED <<vars, presented, minted>>
        /\ refreshing' = [refreshing EXCEPT ![t] = 0] /\ requests' \subseteq requests
    BY <1>9, FailFacts
  <2>q. QED BY <1>a, <2>1 DEF ClientType, vars
<1>10. ASSUME NEW c \in calls, ServerStep(c) PROVE Numbers'
  <2>1. /\ UNCHANGED <<refreshing, presented>>
        /\ \A x \in requests' : \E q \in requests : Alike(x, q)
    BY <1>10, ServerSeen
  <2>2. \A x \in requests' : x.at = "call" => \E q \in requests : q.at = "call" /\ x.call = q.call
    BY <2>1 DEF Alike
  <2>3. served' = served /\ done \subseteq done'
    BY <1>10, ServerStepFacts, ServerNext, ServerGrows
  <2>4. CASE minted' = minted
    BY <1>0, <2>1, <2>2, <2>3, <2>4 DEF Numbers
  <2>5. CASE Rotate(c) /\ minted' = minted \cup {[n |-> c.n, jti |-> Len(tokens) + 1]}
    <3>1. PICK m : m = [n |-> c.n, jti |-> Len(tokens) + 1] OBVIOUS
    <3>2. m.n = c.n /\ m.jti \notin Known /\ minted' = minted \cup {m} BY <2>5, <3>1, RotateFacts
    <3>3. c \in done' /\ c.op = "refresh" BY <2>5 DEF Rotate
    <3>4. \A o \in minted : o.n # m.n /\ o.jti # m.jti
      BY <3>2 DEF Numbers, Numbered, ClientType
    <3>q. QED BY <1>0, <2>1, <2>2, <2>3, <3>2, <3>3, <3>4 DEF Numbers
  <2>q. QED BY <1>10, <2>4, <2>5, ServerSeen
<1>11. ASSUME NEW j, AccessExpires(j) \/ RefreshExpires(j) \/ UNCHANGED clientVars
       PROVE  Numbers'
  <2>1. UNCHANGED <<refreshing, requests, presented, minted, done, served>>
    BY <1>11 DEF AccessExpires, RefreshExpires, Expire, clientVars, client, vars
  <2>q. QED BY <1>a, <2>1
<1>12. ASSUME NEW t \in Tabs, SignInFail(t) PROVE Numbers'
  <2>1. UNCHANGED <<refreshing, requests, presented, minted, done, served>>
    BY <1>12, SignInFailFacts
  <2>q. QED BY <1>a, <2>1
<1>q. QED BY <1>1, <1>2, <1>3, <1>4, <1>5, <1>6, <1>7, <1>8, <1>9, <1>10, <1>11,
          <1>12 DEF ClientNext, Tab, Answer, Ending

LEMMA FlightStep ==
  TypeOK /\ SessionInv /\ ClientType /\ Numbers /\ Flight /\ [ClientNext]_clientVars => Flight'
<1> SUFFICES ASSUME TypeOK, SessionInv, ClientType, Numbers, Flight, [ClientNext]_clientVars
             PROVE  Flight'
  OBVIOUS
<1>a. \A t \in Tabs : refreshing[t] # 0 => \E q \in requests : q.tab = t /\ q.at = "wait"
  BY DEF Flight, Waiting
<1>b. ASSUME presented \subseteq presented',
             \A t \in Tabs : refreshing'[t] # 0 => refreshing'[t] = refreshing[t]
               /\ \A q \in requests : q.tab = t /\ q.at = "wait"
                    => \E x \in requests' : x.tab = t /\ x.at = "wait"
      PROVE  Flight'
  BY <1>a, <1>b DEF Flight, Waiting
<1>1. ASSUME NEW t \in Tabs, SignIn(t) PROVE Flight'
  <2>1. requests' = Disturbed(requests) \cup FetchUser(t, Len(tokens) + 1)
        /\ UNCHANGED <<presented, refreshing>>
    BY <1>1, SignInFacts
  <2>2. requests \in SUBSET RequestType BY DEF ClientType
  <2>3. \A q \in requests : \E x \in requests' : Alike(x, q) BY <2>1, <2>2, DisturbedIs
  <2>q. QED BY <1>b, <2>1, <2>3 DEF Alike
<1>2. ASSUME NEW t \in Tabs, Reload(t) PROVE Flight'
  <2>1. refreshing' = [refreshing EXCEPT ![t] = 0] /\ presented' = presented
        /\ \A q \in requests : q.tab # t => q \in requests'
    BY <1>2, ReloadFacts
  <2>q. QED BY <1>b, <2>1 DEF ClientType
<1>3. ASSUME NEW t \in Tabs, Send(t) \/ Logout(t) PROVE Flight'
  <2>1. requests \subseteq requests' /\ UNCHANGED <<refreshing, presented>> BY <1>3, SendFacts
  <2>q. QED BY <1>b, <2>1
<1>4. ASSUME NEW q \in requests, Ending(q) PROVE Flight'
  <2>1. requests' = requests \ {q} /\ q.at # "wait" /\ UNCHANGED <<refreshing, presented>>
    BY <1>4, EndingFacts
  <2>q. QED BY <1>b, <2>1
<1>5. ASSUME NEW q \in requests, JoinRefresh(q) PROVE Flight'
  <2>1. requests' = (requests \ {q}) \cup {Wait(q)} /\ q.at # "wait"
        /\ UNCHANGED <<refreshing, presented>>
    BY <1>5, JoinFacts
  <2>q. QED BY <1>b, <2>1
<1>6. ASSUME NEW q \in requests, StartRefresh(q) PROVE Flight'
  <2>1. PICK c, p : RefreshStarted(q, c, p) BY <1>6, StartFacts
  <2>2. /\ refreshing' = [refreshing EXCEPT ![q.tab] = served + 1]
        /\ presented' = presented \cup {p} /\ p.n = served + 1 /\ p.tab = q.tab
        /\ requests' = Disturbed(requests \ {q}) \cup {Wait(q)} /\ q.at = "sent"
    BY <2>1 DEF RefreshStarted
  <2>3. Wait(q).tab = q.tab /\ Wait(q).at = "wait" /\ q.tab \in Tabs
    BY WaitIs DEF ClientType, RequestType
  <2>4. requests \ {q} \in SUBSET RequestType BY DEF ClientType
  <2>5. \A r \in requests \ {q} : \E x \in requests' : Alike(x, r) BY <2>2, <2>4, DisturbedIs
  <2>6. ASSUME NEW t \in Tabs, t # q.tab, refreshing'[t] # 0
        PROVE  /\ \E r \in presented' : r.tab = t /\ r.n = refreshing'[t]
               /\ \E x \in requests' : x.tab = t /\ x.at = "wait"
    <3>1. refreshing'[t] = refreshing[t] BY <2>2, <2>6 DEF ClientType
    <3>2. PICK r \in requests : r.tab = t /\ r.at = "wait" BY <1>a, <2>6, <3>1
    <3>3. \E x \in requests' : Alike(x, r) BY <2>2, <2>5, <3>2
    <3>q. QED BY <2>2, <2>6, <3>1, <3>2, <3>3 DEF Flight, Alike
  <2>7. /\ \E r \in presented' : r.tab = q.tab /\ r.n = refreshing'[q.tab]
        /\ \E x \in requests' : x.tab = q.tab /\ x.at = "wait"
    BY <2>2, <2>3 DEF ClientType
  <2>q. QED BY <2>6, <2>7 DEF Flight, Waiting
<1>7. ASSUME NEW q \in requests, CallLogout(q) PROVE Flight'
  <2>1. \E x : requests' = (requests \ {q}) \cup {x} /\ q.at # "wait"
                /\ UNCHANGED <<refreshing, presented>>
    BY <1>7 DEF CallLogout
  <2>q. QED BY <1>b, <2>1
<1>8. ASSUME NEW t \in Tabs, RefreshDone(t) PROVE Flight'
  <2>1. /\ presented' = presented
        /\ refreshing' = [refreshing EXCEPT ![t] = 0]
        /\ \A q \in requests : (q.at = "wait" /\ q.tab = t) \/ q \in requests'
    BY <1>8, DoneFacts
  <2>q. QED BY <1>b, <2>1 DEF ClientType
<1>9. ASSUME NEW t \in Tabs, RefreshFail(t) PROVE Flight'
  <2>1. /\ presented' = presented
        /\ refreshing' = [refreshing EXCEPT ![t] = 0] /\ requests' = requests \ Waiting(t)
    BY <1>9, FailFacts
  <2>q. QED BY <1>b, <2>1 DEF ClientType, Waiting
<1>10. ASSUME NEW c \in calls, ServerStep(c) PROVE Flight'
  <2>1. UNCHANGED <<refreshing, presented>> /\ \A q \in requests : \E x \in requests' : Alike(x, q)
    BY <1>10, ServerSeen
  <2>q. QED BY <1>b, <2>1 DEF Alike
<1>11. ASSUME NEW j, AccessExpires(j) \/ RefreshExpires(j) \/ UNCHANGED clientVars
       PROVE  Flight'
  <2>1. UNCHANGED <<refreshing, requests, presented>>
    BY <1>11 DEF AccessExpires, RefreshExpires, clientVars, client
  <2>q. QED BY <1>b, <2>1
<1>12. ASSUME NEW t \in Tabs, SignInFail(t) PROVE Flight'
  <2>1. UNCHANGED <<refreshing, requests, presented>> BY <1>12, SignInFailFacts
  <2>q. QED BY <1>b, <2>1
<1>q. QED BY <1>1, <1>2, <1>3, <1>4, <1>5, <1>6, <1>7, <1>8, <1>9, <1>10, <1>11,
          <1>12 DEF ClientNext, Tab, Answer, Ending

-----------------------------------------------------------------------------
\* Every call is somebody's: a tab waits for it, or else its answer is lost.
Owned ==
  /\ \A c \in calls \cup done : c.op = "refresh" =>
       \E p \in presented : p.n = c.n /\ p.jti = c.jti
  /\ \A c \in calls : c.op = "refresh" =>
       c.jti \in lost \/ \E t \in Tabs : refreshing[t] = c.n
  /\ \A c \in calls : c.op = "logout" =>
       \/ c.jti \in lost
       \/ \E q \in requests : q.kind = "logout" /\ q.at = "call" /\ q.call = c.n /\ q.body = c.jti

LEMMA AbandonedIs ==
  ASSUME NEW t \in Tabs
  PROVE  /\ \A p \in presented : p.n = refreshing[t] => p.jti \in Abandoned(t)
         /\ \A q \in requests : q.tab = t /\ q.at = "call" => q.body \in Abandoned(t)
<1> DEFINE P == {p \in presented : p.n = refreshing[t]}
           Q == {q \in requests : q.tab = t /\ q.at = "call"}
<1>1. Abandoned(t) = {p.jti : p \in P} \cup {q.body : q \in Q} BY DEF Abandoned
<1>2. \A p \in presented : p.n = refreshing[t] => p \in P OBVIOUS
<1>3. \A q \in requests : q.tab = t /\ q.at = "call" => q \in Q OBVIOUS
<1> HIDE DEF P, Q
<1>q. QED BY <1>1, <1>2, <1>3

LEMMA OwnedStep ==
  TypeOK /\ SessionInv /\ ClientType /\ Numbered /\ Numbers /\ Flight /\ Owned
    /\ [ClientNext]_clientVars => Owned'
<1> SUFFICES ASSUME TypeOK, SessionInv, ClientType, Numbered, Numbers, Flight, Owned,
                    [ClientNext]_clientVars
             PROVE  Owned'
  OBVIOUS
<1>0. served \in Nat /\ \A c \in calls \cup done : c.n \in Nat BY DEF TypeOK, Call
<1>b. ASSUME UNCHANGED <<calls, done, presented>>, lost \subseteq lost',
             \A c \in calls : c.op = "refresh" =>
               c.jti \in lost' \/ \A t \in Tabs : refreshing[t] = c.n => refreshing'[t] = c.n,
             \A c \in calls : c.op = "logout" =>
               c.jti \in lost' \/ \A q \in requests :
                 q.kind = "logout" /\ q.at = "call" /\ q.call = c.n /\ q.body = c.jti
                   => \E x \in requests' : x.kind = "logout" /\ x.at = "call" /\ x.call = c.n
                                           /\ x.body = c.jti
      PROVE  Owned'
  <2>1. \A c \in calls' \cup done' : c.op = "refresh" => \E p \in presented' : p.n = c.n /\ p.jti = c.jti
    BY <1>b DEF Owned
  <2>2. \A c \in calls' : c.op = "refresh" => c.jti \in lost' \/ \E t \in Tabs : refreshing'[t] = c.n
    BY <1>b DEF Owned
  <2>3. \A c \in calls' : c.op = "logout" =>
          \/ c.jti \in lost'
          \/ \E q \in requests' : q.kind = "logout" /\ q.at = "call" /\ q.call = c.n /\ q.body = c.jti
    BY <1>b DEF Owned
  <2>q. QED BY <2>1, <2>2, <2>3 DEF Owned
\* A tab that stops waiting because it has its answer waited for no call under way.
<1>c. \A t \in Tabs, m \in minted, c \in calls : m.n = refreshing[t] => refreshing[t] # c.n
  BY DEF Numbers, Numbered
\* A presentation is of the token its call is about.
<1>d. \A c \in calls, p \in presented : c.op = "refresh" /\ p.n = c.n => p.jti = c.jti
  BY DEF Owned, Numbers
<1>1. ASSUME NEW t \in Tabs, SignIn(t) PROVE Owned'
  <2>1. requests' = Disturbed(requests) \cup FetchUser(t, Len(tokens) + 1)
        /\ UNCHANGED <<calls, done, presented, refreshing, lost>>
    BY <1>1, SignInFacts
  <2>2. requests \in SUBSET RequestType BY DEF ClientType
  <2>3. \A q \in requests : \E x \in requests' : Alike(x, q) BY <2>1, <2>2, DisturbedIs
  <2>q. QED BY <1>b, <2>1, <2>3 DEF Alike
<1>2. ASSUME NEW t \in Tabs, Reload(t) PROVE Owned'
  <2>1. /\ refreshing' = [refreshing EXCEPT ![t] = 0] /\ UNCHANGED <<calls, done, presented>>
        /\ \A q \in requests : q.tab # t => q \in requests'
        /\ lost \subseteq lost' /\ Abandoned(t) \subseteq lost'
    BY <1>2, ReloadFacts DEF vars
  <2>2. ASSUME NEW c \in calls, c.op = "refresh", refreshing[t] = c.n PROVE c.jti \in lost'
    <3>1. PICK p \in presented : p.n = c.n /\ p.jti = c.jti BY <2>2 DEF Owned
    <3>2. p.jti \in Abandoned(t) BY <2>2, <3>1, AbandonedIs
    <3>q. QED BY <2>1, <3>1, <3>2
  <2>3. \A q \in requests : q.tab = t /\ q.at = "call" => q.body \in lost' BY <2>1, AbandonedIs
  <2>4. \A s \in Tabs : s # t => refreshing'[s] = refreshing[s] BY <2>1 DEF ClientType
  <2>5. \A c \in calls : c.op = "refresh" =>
          c.jti \in lost' \/ \A s \in Tabs : refreshing[s] = c.n => refreshing'[s] = c.n
    BY <2>2, <2>4
  <2>6. \A c \in calls : c.jti \in lost' \/ \A q \in requests :
          q.kind = "logout" /\ q.at = "call" /\ q.call = c.n /\ q.body = c.jti
            => \E x \in requests' : x.kind = "logout" /\ x.at = "call" /\ x.call = c.n
                                    /\ x.body = c.jti
    BY <2>1, <2>3
  <2>7. lost \subseteq lost' BY <2>1
  <2>q. QED BY <1>b, <2>1, <2>5, <2>6, <2>7
<1>3. ASSUME NEW t \in Tabs, Send(t) \/ Logout(t) PROVE Owned'
  <2>1. requests \subseteq requests' /\ UNCHANGED <<calls, done, refreshing, presented, lost>>
    BY <1>3, SendFacts DEF vars
  <2>q. QED BY <1>b, <2>1
<1>4. ASSUME NEW q \in requests, Ending(q) PROVE Owned'
  <2>1. requests' = requests \ {q} /\ UNCHANGED <<calls, done, refreshing, presented>>
        /\ lost \subseteq lost'
        /\ (q.at = "call" => q.body \in lost' \/ \A c \in calls : c.n # q.call)
    BY <1>4, EndingFacts DEF vars
  <2>q. QED BY <1>b, <2>1
<1>5. ASSUME NEW q \in requests, JoinRefresh(q) PROVE Owned'
  <2>1. requests' = (requests \ {q}) \cup {Wait(q)} /\ q.at # "call"
        /\ UNCHANGED <<calls, done, refreshing, presented, lost>>
    BY <1>5, JoinFacts DEF vars
  <2>q. QED BY <1>b, <2>1
<1>6. ASSUME NEW q \in requests, StartRefresh(q) PROVE Owned'
  <2>1. PICK c, p : RefreshStarted(q, c, p) BY <1>6, StartFacts
  <2>2. /\ refreshing' = [refreshing EXCEPT ![q.tab] = served + 1]
        /\ refreshing[q.tab] = 0 /\ q.tab \in Tabs
        /\ presented' = presented \cup {p} /\ p.n = served + 1 /\ p.jti = store
        /\ calls' = calls \cup {c} /\ c.n = served + 1 /\ c.jti = store /\ c.op = "refresh"
        /\ requests' = Disturbed(requests \ {q}) \cup {Wait(q)} /\ q.at = "sent"
        /\ UNCHANGED <<done, lost>>
    BY <2>1 DEF RefreshStarted, ClientType, RequestType
  <2>3. requests \ {q} \in SUBSET RequestType BY DEF ClientType
  <2>4. \A r \in requests \ {q} : \E x \in requests' : Alike(x, r) BY <2>2, <2>3, DisturbedIs
  <2>5. \A d \in calls' \cup done' : d.op = "refresh" => \E r \in presented' : r.n = d.n /\ r.jti = d.jti
    BY <2>2 DEF Owned
  <2>6. refreshing'[q.tab] = c.n /\ \A t \in Tabs : t # q.tab => refreshing'[t] = refreshing[t]
    BY <2>2 DEF ClientType
  <2>7. ASSUME NEW d \in calls', d.op = "refresh", d.jti \notin lost'
        PROVE  \E t \in Tabs : refreshing'[t] = d.n
    <3>1. CASE d = c BY <2>2, <2>6, <3>1
    <3>2. CASE d \in calls
      <4>1. PICK t \in Tabs : refreshing[t] = d.n BY <2>2, <2>7, <3>2 DEF Owned
      <4>2. t # q.tab BY <1>0, <2>2, <3>2, <4>1 DEF Numbered
      <4>q. QED BY <2>6, <4>1, <4>2
    <3>q. QED BY <2>2, <3>1, <3>2
  <2>8. ASSUME NEW d \in calls', d.op = "logout", d.jti \notin lost'
        PROVE  \E x \in requests' : x.kind = "logout" /\ x.at = "call" /\ x.call = d.n /\ x.body = d.jti
    <3>1. d \in calls /\ d.jti \notin lost BY <2>2, <2>8
    <3>2. PICK r \in requests : r.kind = "logout" /\ r.at = "call" /\ r.call = d.n /\ r.body = d.jti
      BY <2>8, <3>1 DEF Owned
    <3>3. PICK x \in requests' : Alike(x, r) BY <2>2, <2>4, <3>2
    <3>q. QED BY <3>2, <3>3 DEF Alike
  <2>q. QED BY <2>5, <2>7, <2>8 DEF Owned
<1>7. ASSUME NEW q \in requests, CallLogout(q) PROVE Owned'
  <2>1. PICK c, x : LogoutCalled(q, c, x) BY <1>7, CallLogoutFacts
  <2>2. /\ UNCHANGED <<refreshing, presented, done, lost>>
        /\ calls' = calls \cup {c} /\ c.n = served + 1 /\ c.op = "logout" /\ c.jti = q.body
        /\ requests' = (requests \ {q}) \cup {x} /\ x.call = served + 1 /\ x.at = "call"
        /\ x.kind = "logout" /\ x.body = q.body /\ q.at = "sent"
    <3>1. /\ UNCHANGED <<refreshing, presented, done, lost>>
          /\ calls' = calls \cup {c} /\ c.n = served + 1 /\ c.op = "logout" /\ c.jti = q.body
          /\ requests' = (requests \ {q}) \cup {x} /\ x.call = served + 1 /\ x.at = "call"
          /\ x.kind = q.kind /\ q.kind = "logout" /\ x.body = q.body /\ q.at = "sent"
      BY <2>1 DEF LogoutCalled
    <3>q. QED BY <3>1
  <2>3. \A d \in calls' \cup done' : d.op = "refresh" => \E p \in presented' : p.n = d.n /\ p.jti = d.jti
    BY <2>2 DEF Owned
  <2>4. \A d \in calls' : d.op = "refresh" => d.jti \in lost' \/ \E t \in Tabs : refreshing'[t] = d.n
    BY <2>2 DEF Owned
  <2>5. ASSUME NEW d \in calls', d.op = "logout", d.jti \notin lost'
        PROVE  \E r \in requests' : r.kind = "logout" /\ r.at = "call" /\ r.call = d.n /\ r.body = d.jti
    <3>1. CASE d = c BY <2>2, <3>1
    <3>2. CASE d \in calls
      <4>1. PICK r \in requests : r.kind = "logout" /\ r.at = "call" /\ r.call = d.n /\ r.body = d.jti
        BY <2>2, <2>5, <3>2 DEF Owned
      <4>q. QED BY <2>2, <4>1
    <3>q. QED BY <2>2, <3>1, <3>2
  <2>q. QED BY <2>3, <2>4, <2>5 DEF Owned
<1>8. ASSUME NEW t \in Tabs, RefreshDone(t) PROVE Owned'
  <2>1. PICK m \in minted :
           /\ m.n = refreshing[t]
           /\ UNCHANGED <<vars, presented, lost>>
           /\ refreshing' = [refreshing EXCEPT ![t] = 0]
           /\ \A q \in requests : (q.at = "wait" /\ q.tab = t) \/ q \in requests'
    BY <1>8, DoneFacts
  <2>2. \A c \in calls : refreshing[t] # c.n BY <1>c, <2>1
  <2>3. \A s \in Tabs : s # t => refreshing'[s] = refreshing[s] BY <2>1 DEF ClientType
  <2>q. QED BY <1>b, <2>1, <2>2, <2>3 DEF vars
<1>9. ASSUME NEW t \in Tabs, RefreshFail(t) PROVE Owned'
  <2>1. /\ UNCHANGED <<vars, presented>> /\ lost \subseteq lost'
        /\ refreshing' = [refreshing EXCEPT ![t] = 0] /\ requests' = requests \ Waiting(t)
        /\ \A c \in calls : c.n = refreshing[t] =>
              \A p \in presented : p.n = refreshing[t] => p.jti \in lost'
    BY <1>9, FailFacts
  <2>2. \A c \in calls : c.op = "refresh" /\ refreshing[t] = c.n => c.jti \in lost'
    BY <2>1 DEF Owned
  <2>3. \A s \in Tabs : s # t => refreshing'[s] = refreshing[s] BY <2>1 DEF ClientType
  <2>q. QED BY <1>b, <2>1, <2>2, <2>3 DEF vars, Waiting
<1>10. ASSUME NEW c \in calls, ServerStep(c) PROVE Owned'
  <2>1. UNCHANGED <<refreshing, presented, lost>>
        /\ \A q \in requests : \E x \in requests' : Alike(x, q)
    BY <1>10, ServerSeen
  <2>2. \A d \in calls' : \E e \in calls : d.n = e.n /\ d.op = e.op /\ d.jti = e.jti
    BY <1>10, ServerStepFacts
  <2>3. done' \subseteq done \cup calls
    BY <1>10, ServerStepFacts DEF Rotate, Revoke
  <2>4. \A d \in calls' \cup done' : d.op = "refresh" => \E p \in presented' : p.n = d.n /\ p.jti = d.jti
    BY <2>1, <2>2, <2>3 DEF Owned
  <2>5. \A d \in calls' : d.op = "refresh" => d.jti \in lost' \/ \E t \in Tabs : refreshing'[t] = d.n
    BY <2>1, <2>2 DEF Owned
  <2>6. ASSUME NEW d \in calls', d.op = "logout", d.jti \notin lost'
        PROVE  \E x \in requests' : x.kind = "logout" /\ x.at = "call" /\ x.call = d.n /\ x.body = d.jti
    <3>1. PICK e \in calls : d.n = e.n /\ d.op = e.op /\ d.jti = e.jti BY <2>2
    <3>2. PICK r \in requests : r.kind = "logout" /\ r.at = "call" /\ r.call = e.n /\ r.body = e.jti
      BY <2>1, <2>6, <3>1 DEF Owned
    <3>3. PICK x \in requests' : Alike(x, r) BY <2>1
    <3>q. QED BY <3>1, <3>2, <3>3 DEF Alike
  <2>q. QED BY <2>4, <2>5, <2>6 DEF Owned
<1>11. ASSUME NEW j, AccessExpires(j) \/ RefreshExpires(j) \/ UNCHANGED clientVars
       PROVE  Owned'
  <2>1. UNCHANGED <<refreshing, requests, presented, calls, done, lost>>
    BY <1>11 DEF AccessExpires, RefreshExpires, Expire, clientVars, client, vars
  <2>q. QED BY <1>b, <2>1
<1>12. ASSUME NEW t \in Tabs, SignInFail(t) PROVE Owned'
  <2>1. UNCHANGED <<refreshing, requests, presented, calls, done, lost>>
    BY <1>12, SignInFailFacts
  <2>q. QED BY <1>b, <2>1
<1>q. QED BY <1>1, <1>2, <1>3, <1>4, <1>5, <1>6, <1>7, <1>8, <1>9, <1>10, <1>11,
          <1>12 DEF ClientNext, Tab, Answer, Ending

-----------------------------------------------------------------------------
LEMMA DeadStays ==
  ASSUME TypeOK, SessionInv, NEW s \in Known, Dead(s), [Next]_vars
  PROVE  Dead(s)'
<1>0. s \in Jtis /\ \A c \in calls : c.jti \in Known BY RowFacts DEF TypeOK
<1>g. GoodTokens(s) = {} /\ \A c \in calls : c.op = "refresh" /\ c.step # "lookup"
                              => tokens[c.jti].session # s
  BY DEF Dead
<1>1. Known \subseteq Known' /\ \A j \in Known : tokens'[j] = tokens[j] BY ServerGrows
\* It is enough that no token becomes good, and no call of the session gets past the lookup.
<1>a. ASSUME GoodTokens(s)' = {},
             \A d \in calls' : d.op = "refresh" /\ d.step # "lookup" =>
               d.jti \in Known /\ tokens[d.jti].session # s
      PROVE  Dead(s)'
  BY <1>1, <1>a DEF Dead
<1>b. ASSUME tokens' = tokens, revoked \subseteq revoked' PROVE GoodTokens(s)' = {}
  BY <1>g, <1>b DEF GoodTokens, Live, Known
<1>2. ASSUME NEW u \in Users, Login(u) PROVE Dead(s)'
  <2>1. GoodTokens(s)' = {} BY <1>0, <1>2, <1>g, LoginFacts
  <2>q. QED BY <1>0, <1>2, <1>a, <1>g, <2>1 DEF Login
<1>3. ASSUME NEW op, NEW u, NEW j, Submit(op, u, j) PROVE Dead(s)'
  <2>1. \A d \in calls' : d \in calls \/ d.step = "lookup" BY <1>3 DEF Submit
  <2>2. tokens' = tokens /\ revoked' = revoked BY <1>3 DEF Submit
  <2>q. QED BY <1>0, <1>a, <1>b, <1>g, <2>1, <2>2
<1>4. ASSUME NEW c \in calls, NEW ok, NEW st, Check(c, ok, st),
             ok /\ c.op = "refresh" => tokens[c.jti].session # s
      PROVE  Dead(s)'
  <2>1. tokens' = tokens /\ revoked' = revoked BY <1>4, CheckIs
  <2>2. ASSUME NEW d \in calls', d.op = "refresh", d.step # "lookup"
        PROVE  d.jti \in Known /\ tokens[d.jti].session # s
    <3>1. d \in calls \/ (ok /\ d.op = c.op /\ d.jti = c.jti) BY <1>4, CheckIs
    <3>q. QED BY <1>0, <1>4, <1>g, <2>2, <3>1
  <2>q. QED BY <1>a, <1>b, <2>1, <2>2
<1>5. ASSUME NEW c \in calls, LookupRefresh(c) \/ LoadUser(c) \/ LookupLogout(c) PROVE Dead(s)'
  <2>1. CASE LookupRefresh(c)
    <3>1. Live(c.jti) => tokens[c.jti].session # s BY <1>0, <1>g DEF GoodTokens
    <3>q. QED BY <1>4, <2>1, <3>1 DEF LookupRefresh
  <2>2. CASE LoadUser(c) BY <1>4, <1>g, <2>2 DEF LoadUser
  <2>3. CASE LookupLogout(c) BY <1>4, <2>3 DEF LookupLogout
  <2>q. QED BY <1>5, <2>1, <2>2, <2>3
<1>6. ASSUME NEW c \in calls, Rotate(c) PROVE Dead(s)'
  <2>1. tokens[c.jti].session # s /\ calls' \subseteq calls BY <1>6, <1>g DEF Rotate, Finish
  <2>2. GoodTokens(s)' = {} BY <1>0, <1>6, <1>g, <2>1, RotateFacts
  <2>q. QED BY <1>0, <1>a, <1>g, <2>1, <2>2
<1>7. ASSUME tokens' = tokens, revoked \subseteq revoked', calls' \subseteq calls PROVE Dead(s)'
  BY <1>0, <1>7, <1>a, <1>b, <1>g
<1>8. \/ tokens' = tokens /\ revoked \subseteq revoked' /\ calls' \subseteq calls
      \/ \E u \in Users : Login(u)
      \/ \E op, u, j : Submit(op, u, j)
      \/ \E c \in calls : LookupRefresh(c) \/ LoadUser(c) \/ LookupLogout(c) \/ Rotate(c)
  BY DEF Next, Toggle, Revoke, Fail, Finish, Expire, vars
<1>q. QED BY <1>2, <1>3, <1>5, <1>6, <1>7, <1>8

\* What is revoked was exchanged or logged out, and in an orderly session a logout
\* that was carried out is the end.
LogoutDead ==
  /\ \A c \in calls : c.op = "logout" => c.step # "user"
  /\ \A j \in revoked : \E d \in done : d.jti = j
  /\ \A d \in done : d.jti \in Known
  /\ \A d \in done : d.op = "logout" /\ Orderly(tokens[d.jti].session)
                       => Dead(tokens[d.jti].session)

LEMMA RevokeDead ==
  ASSUME TypeOK, SessionInv, NEW c \in calls, Revoke(c), NEW s, s = tokens[c.jti].session, Orderly(s)
  PROVE  Dead(s)'
<1>0. c.jti \in Known /\ s \in Jtis BY RowFacts DEF TypeOK
<1>1. c.step = "commit" /\ calls' = calls \ {c} /\ tokens' = tokens
      /\ revoked' = revoked \cup {c.jti}
  BY DEF Revoke, Finish
<1>2. \A d \in calls : d.step # "lookup" /\ tokens[d.jti].session = s => d.jti \in GoodTokens(s)
  BY DEF SessionInv, Orderly, GoodTokens, TypeOK
<1>3. c.jti \in GoodTokens(s) BY <1>1, <1>2
<1>4. GoodTokens(s) \subseteq {c.jti} BY <1>0, <1>3 DEF SessionInv, OneGoodToken
<1>5. GoodTokens(s)' = {} BY <1>1, <1>4 DEF GoodTokens, Live, Known
<1>6. c.jti \notin shared BY <1>0 DEF Orderly, SessionInv, TypeOK
<1>7. \A d \in calls' : d.step # "lookup" => tokens[d.jti].session # s
  BY <1>1, <1>2, <1>4, <1>6 DEF SessionInv
<1>q. QED BY <1>1, <1>5, <1>7 DEF Dead

LEMMA LogoutDeadStep == TypeOK /\ SessionInv /\ LogoutDead /\ [Next]_vars => LogoutDead'
<1> SUFFICES ASSUME TypeOK, SessionInv, LogoutDead, [Next]_vars PROVE LogoutDead'
  OBVIOUS
<1>1. Known \subseteq Known' /\ \A j \in Known : tokens'[j] = tokens[j] BY ServerGrows
<1>2. \A s : Orderly(s)' => Orderly(s)
  BY <1>1, ServerGrows DEF Orderly, TypeOK
<1>3. \A d \in done : d.op = "logout" /\ Orderly(tokens[d.jti].session)'
                        => Dead(tokens[d.jti].session)'
  <2>1. \A d \in done : d.jti \in Known /\ tokens'[d.jti] = tokens[d.jti] BY <1>1 DEF LogoutDead
  <2>2. \A d \in done : tokens[d.jti].session \in Known BY <2>1 DEF SessionInv
  <2>q. QED BY <1>2, <2>1, <2>2, DeadStays DEF LogoutDead
<1>4. ASSUME NEW c \in calls, Rotate(c) \/ Revoke(c) PROVE LogoutDead'
  <2>1. done' = done \cup {c} /\ calls' \subseteq calls /\ revoked' = revoked \cup {c.jti}
        /\ c.jti \in Known /\ (c.op = "logout" => Revoke(c))
    BY <1>4 DEF Rotate, Revoke, Finish, TypeOK
  <2>2. c.op = "logout" /\ Orderly(tokens[c.jti].session)' => Dead(tokens[c.jti].session)'
    BY <1>1, <1>2, <2>1, RevokeDead
  <2>q. QED BY <1>1, <1>3, <2>1, <2>2 DEF LogoutDead
<1>5. ASSUME UNCHANGED <<done, revoked>>, \A d \in calls' : d.op = "logout" => d.step # "user"
      PROVE  LogoutDead'
  BY <1>1, <1>3, <1>5 DEF LogoutDead
<1>6. ASSUME NEW op, NEW u, NEW j, Submit(op, u, j) PROVE LogoutDead'
  <2>1. \A d \in calls' : d \in calls \/ d.step = "lookup" BY <1>6 DEF Submit
  <2>q. QED BY <1>5, <1>6, <2>1 DEF LogoutDead, Submit
<1>7. ASSUME NEW c \in calls, LookupRefresh(c) \/ LoadUser(c) \/ LookupLogout(c) PROVE LogoutDead'
  <2>1. \E ok, st : Check(c, ok, st) /\ (c.op = "logout" => st # "user")
    BY <1>7 DEF LookupRefresh, LoadUser, LookupLogout, Live
  <2>2. PICK ok, st : Check(c, ok, st) /\ (c.op = "logout" => st # "user") BY <2>1
  <2>3. UNCHANGED <<done, revoked>> /\ \A d \in calls' : d \in calls \/ (d.op = c.op /\ d.step = st)
    BY <2>2, CheckIs
  <2>q. QED BY <1>5, <2>2, <2>3 DEF LogoutDead
<1>8. ASSUME UNCHANGED <<done, revoked>>, calls' \subseteq calls PROVE LogoutDead'
  BY <1>5, <1>8 DEF LogoutDead
<1>9. \/ UNCHANGED <<done, revoked>> /\ calls' \subseteq calls
      \/ \E op, u, j : Submit(op, u, j)
      \/ \E c \in calls : \/ LookupRefresh(c) \/ LoadUser(c) \/ LookupLogout(c)
                          \/ Rotate(c) \/ Revoke(c)
  BY DEF Next, Login, Toggle, Fail, Finish, Expire, vars
<1>q. QED BY <1>4, <1>6, <1>7, <1>8, <1>9

\* A logout that was carried out leaves its session without a good token.
LogoutFinal ==
  \A d \in done : d.op = "logout" /\ Orderly(tokens[d.jti].session)
                  => GoodTokens(tokens[d.jti].session) = {}

\* Logout ends the whole login, not only the token it was given: no refresh that was
\* under way beside it brings a good token back (if no token of the session was ever
\* presented twice at once).
THEOREM LogoutFinalCorrect == Spec => []LogoutFinal
<1>1. Init => LogoutDead BY DEF Init, LogoutDead
<1>2. LogoutDead => LogoutFinal BY DEF LogoutDead, LogoutFinal, Dead
<1>q. QED BY <1>1, <1>2, TypeCorrect, SessionInvCorrect, LogoutDeadStep, PTL DEF Spec

\* A session without a good token and without a refresh that has read one of its tokens
\* stays so, even if its tokens are presented again, several times at once.
THEOREM DeadForGoodCorrect == Spec => DeadForGood
<1>1. TypeOK /\ SessionInv /\ [Next]_vars => [\A s \in Known : Dead(s) => Dead(s)']_vars
  BY DeadStays
<1>q. QED BY <1>1, TypeCorrect, SessionInvCorrect, PTL DEF Spec, DeadForGood

-----------------------------------------------------------------------------
\* A token that somebody besides the table of tokens knows of.
Touched(j) ==
  \/ j \in revoked \/ j = store
  \/ \E p \in presented : p.jti = j
  \/ \E c \in calls : c.jti = j
  \/ \E q \in requests : q.body = j

\* A pair on its way to its tab is known to nobody yet.
Fresh == \A m \in minted, t \in Tabs : m.n = refreshing[t] => ~Touched(m.jti)

\* Only the tab that takes a pair makes it known.
LEMMA TouchedStep ==
  ASSUME TypeOK, SessionInv, ClientType, Flight, [ClientNext]_clientVars,
         NEW j \in Known, Touched(j)', ~Touched(j)
  PROVE  \E t \in Tabs, m \in minted :
           RefreshDone(t) /\ m.n = refreshing[t] /\ m.jti = j
<1> SUFFICES ASSUME \A t \in Tabs, m \in minted : RefreshDone(t) /\ m.n = refreshing[t] => m.jti # j
             PROVE  FALSE
  OBVIOUS
<1>0. /\ j \notin revoked /\ j # store /\ \A p \in presented : p.jti # j
      /\ \A c \in calls : c.jti # j
      /\ \A q \in requests : q.body # j
  BY DEF Touched
<1>j. j # 0 BY RowFacts DEF Jtis
<1>a. ASSUME revoked' = revoked, store' # j, presented' = presented,
             \A c \in calls' : c.jti # j, \A x \in requests' : x.body # j
      PROVE  FALSE
  BY <1>0, <1>a DEF Touched
<1>v. UNCHANGED vars => revoked' = revoked /\ \A c \in calls' : c.jti # j BY <1>0 DEF vars
<1>1. ASSUME NEW t \in Tabs, SignIn(t) PROVE FALSE
  <2>1. PICK n : n = Len(tokens) + 1 OBVIOUS
  <2>2. requests' = Disturbed(requests) \cup FetchUser(t, n) /\ n \in Nat /\ store' = n /\ n \notin Known
        /\ UNCHANGED <<revoked, calls, presented>>
    BY <1>1, <2>1, SignInFacts DEF Jtis
  <2>3. ASSUME NEW x \in requests' PROVE x.body # j
    <3>1. CASE x \in Disturbed(requests)
      <4>1. requests \in SUBSET RequestType BY DEF ClientType
      <4>2. PICK q \in requests : Alike(x, q) BY <3>1, <4>1, DisturbedIs
      <4>q. QED BY <1>0, <4>2 DEF Alike
    <3>2. CASE x \in FetchUser(t, n) BY <1>0, <2>2, <3>2, FetchIs
    <3>q. QED BY <2>2, <3>1, <3>2
  <2>q. QED BY <1>0, <1>a, <2>2, <2>3
<1>2. ASSUME NEW t \in Tabs, Reload(t) PROVE FALSE
  <2>1. UNCHANGED <<vars, store, presented>>
        /\ \A x \in requests' : x \in requests \/ (store # 0 /\ x \in FetchUser(t, store))
    BY <1>2, ReloadFacts
  <2>2. \A x \in requests' : x.body # j BY <1>0, <2>1, FetchIs DEF ClientType
  <2>q. QED BY <1>0, <1>a, <1>v, <2>1, <2>2
<1>3. ASSUME NEW t \in Tabs, Send(t) \/ Logout(t) PROVE FALSE
  <2>1. UNCHANGED <<vars, presented>> /\ store' \in {store, 0}
        /\ \A x \in requests' : x \in requests \/ x.body = store
    BY <1>3, SendFacts
  <2>q. QED BY <1>0, <1>a, <1>j, <1>v, <2>1
<1>4. ASSUME NEW q \in requests, Ending(q) PROVE FALSE
  <2>1. UNCHANGED <<vars, presented>> /\ store' \in {store, 0} /\ requests' \subseteq requests
    BY <1>4, EndingFacts
  <2>q. QED BY <1>0, <1>a, <1>j, <1>v, <2>1
<1>5. ASSUME NEW q \in requests, JoinRefresh(q) PROVE FALSE
  <2>1. UNCHANGED <<vars, store, presented>> /\ requests' = (requests \ {q}) \cup {Wait(q)}
    BY <1>5, JoinFacts
  <2>2. Wait(q).body = q.body BY WaitIs DEF ClientType
  <2>q. QED BY <1>0, <1>a, <1>v, <2>1, <2>2
<1>6. ASSUME NEW q \in requests, StartRefresh(q) PROVE FALSE
  <2>1. PICK c, p : RefreshStarted(q, c, p) BY <1>6, StartFacts
  <2>2. /\ UNCHANGED <<revoked, store>>
        /\ presented' = presented \cup {p} /\ p.jti = store
        /\ calls' = calls \cup {c} /\ c.jti = store
        /\ requests' = Disturbed(requests \ {q}) \cup {Wait(q)}
    BY <2>1 DEF RefreshStarted
  <2>3. ASSUME NEW x \in requests' PROVE x.body # j
    <3>1. CASE x \in Disturbed(requests \ {q})
      <4>1. requests \ {q} \in SUBSET RequestType BY DEF ClientType
      <4>2. PICK r \in requests : Alike(x, r) BY <3>1, <4>1, DisturbedIs
      <4>q. QED BY <1>0, <4>2 DEF Alike
    <3>2. CASE x = Wait(q) BY <1>0, <3>2, WaitIs DEF ClientType
    <3>q. QED BY <2>2, <3>1, <3>2
  <2>q. QED BY <1>0, <2>2, <2>3 DEF Touched
<1>7. ASSUME NEW q \in requests, CallLogout(q) PROVE FALSE
  <2>1. PICK c, x : LogoutCalled(q, c, x) BY <1>7, CallLogoutFacts
  <2>2. /\ UNCHANGED <<revoked, store, presented>>
        /\ calls' = calls \cup {c} /\ c.jti = q.body
        /\ requests' = (requests \ {q}) \cup {x} /\ x.body = q.body
    BY <2>1 DEF LogoutCalled
  <2>q. QED BY <1>0, <1>a, <2>2
<1>8. ASSUME NEW t \in Tabs, RefreshDone(t) PROVE FALSE
  <2>1. PICK m \in minted :
           /\ m.n = refreshing[t] /\ store' = m.jti
           /\ UNCHANGED <<vars, presented>>
           /\ \A x \in requests' : \E q \in requests : x.body = q.body
    BY <1>8, DoneFacts
  <2>2. m.jti # j BY <1>8, <2>1
  <2>q. QED BY <1>0, <1>a, <1>v, <2>1, <2>2
<1>9. ASSUME NEW t \in Tabs, RefreshFail(t) PROVE FALSE
  <2>1. UNCHANGED <<vars, presented>> /\ store' = 0 /\ requests' \subseteq requests
    BY <1>9, FailFacts
  <2>q. QED BY <1>0, <1>a, <1>j, <1>v, <2>1
<1>10. ASSUME NEW c \in calls, ServerStep(c) PROVE FALSE
  <2>1. UNCHANGED <<store, presented>> /\ \A x \in requests' : \E q \in requests : Alike(x, q)
    BY <1>10, ServerSeen
  <2>2. \A d \in calls' : \E e \in calls : d.jti = e.jti BY <1>10, ServerStepFacts
  <2>3. \A i \in revoked' : i \in revoked \/ i = c.jti
    BY <1>10, ServerStepFacts DEF Rotate, Revoke
  <2>q. QED BY <1>0, <2>1, <2>2, <2>3 DEF Touched, Alike
<1>11. ASSUME NEW i, AccessExpires(i) \/ RefreshExpires(i) \/ UNCHANGED clientVars
       PROVE  FALSE
  <2>1. UNCHANGED <<revoked, calls, store, presented, requests>>
    BY <1>11 DEF AccessExpires, RefreshExpires, Expire, clientVars, client, vars
  <2>q. QED BY <1>0, <1>a, <2>1
<1>12. ASSUME NEW t \in Tabs, SignInFail(t) PROVE FALSE
  <2>1. UNCHANGED <<revoked, calls, presented, requests>> /\ store' = 0
    BY <1>12, SignInFailFacts
  <2>q. QED BY <1>0, <1>a, <1>j, <2>1
<1>q. QED BY <1>1, <1>2, <1>3, <1>4, <1>5, <1>6, <1>7, <1>8, <1>9, <1>10, <1>11,
          <1>12 DEF ClientNext, Tab, Answer, Ending

\* What becomes of the waiting of a tab, and of the pairs under way.
LEMMA WaitingStep ==
  ASSUME TypeOK, SessionInv, ClientType, Flight, [ClientNext]_clientVars
  PROVE  /\ \A t \in Tabs : refreshing'[t] \in {refreshing[t], 0, served + 1}
         /\ \A t \in Tabs : RefreshDone(t) => refreshing'[t] = 0
         /\ minted' = minted \/ \E c \in calls : ServerStep(c) /\ Rotate(c)
              /\ minted' = minted \cup {[n |-> c.n, jti |-> Len(tokens) + 1]}
<1>0. refreshing \in [Tabs -> Nat] BY DEF ClientType
<1>1. ASSUME NEW t \in Tabs, Tab(t)
      PROVE  refreshing' \in {refreshing, [refreshing EXCEPT ![t] = 0]} /\ minted' = minted
  BY <1>1 DEF Tab, SignIn, SignInFail, Reload, Send, Logout, RefreshDone, RefreshFail
<1>2. ASSUME NEW q \in requests, Answer(q)
      PROVE  refreshing' \in {refreshing, [refreshing EXCEPT ![q.tab] = served + 1]}
             /\ minted' = minted
  BY <1>2, EndingFacts DEF Answer, Ending, CallLogout, JoinRefresh, StartRefresh
<1>3. ASSUME NEW c \in calls, ServerStep(c)
      PROVE  refreshing' = refreshing
             /\ (minted' = minted \/ (Rotate(c)
                   /\ minted' = minted \cup {[n |-> c.n, jti |-> Len(tokens) + 1]}))
  BY <1>3, ServerSeen
<1>4. ASSUME NEW j, AccessExpires(j) \/ RefreshExpires(j) \/ UNCHANGED clientVars
      PROVE  refreshing' = refreshing /\ minted' = minted
  BY <1>4 DEF AccessExpires, RefreshExpires, clientVars, client
<1>5. \A t \in Tabs : refreshing'[t] \in {refreshing[t], 0, served + 1}
  BY <1>0, <1>1, <1>2, <1>3, <1>4 DEF ClientNext
<1>6. minted' = minted \/ \E c \in calls : ServerStep(c) /\ Rotate(c)
              /\ minted' = minted \cup {[n |-> c.n, jti |-> Len(tokens) + 1]}
  BY <1>1, <1>2, <1>3, <1>4 DEF ClientNext
<1>7. \A t \in Tabs : RefreshDone(t) => refreshing'[t] = 0 BY <1>0 DEF RefreshDone
<1>q. QED BY <1>5, <1>6, <1>7

LEMMA FreshStep ==
  TypeOK /\ TypeOK' /\ SessionInv /\ ClientType /\ ClientType' /\ Numbered /\ Numbers /\ Flight
    /\ Fresh /\ [ClientNext]_clientVars => Fresh'
<1> SUFFICES ASSUME TypeOK, TypeOK', SessionInv, ClientType, ClientType', Numbered, Numbers,
                    Flight, Fresh, [ClientNext]_clientVars,
                    NEW m \in minted', NEW t \in Tabs, m.n = refreshing'[t]
             PROVE  ~Touched(m.jti)'
  BY DEF Fresh
<1>0. served \in Nat /\ \A o \in minted : o.n \in Nat /\ o.n >= 1 /\ o.n <= served
  BY DEF TypeOK, Numbers, Numbered, ClientType
<1>1. CASE m \in minted
  <2>1. m.n = refreshing[t] /\ refreshing'[t] # 0 BY <1>0, <1>1, WaitingStep
  <2>2. ~Touched(m.jti) /\ m.jti \in Known BY <1>1, <2>1 DEF Fresh, ClientType
  <2>3. ASSUME Touched(m.jti)' PROVE FALSE
    <3>1. PICK s \in Tabs, o \in minted : RefreshDone(s) /\ o.n = refreshing[s] /\ o.jti = m.jti
      BY <2>2, <2>3, TouchedStep
    <3>2. o = m /\ refreshing[s] = refreshing[t] /\ refreshing[s] # 0
      BY <1>0, <1>1, <2>1, <3>1 DEF Numbers
    <3>3. s = t BY <3>2 DEF Flight, Numbers
    <3>q. QED BY <2>1, <3>1, <3>3, WaitingStep
  <2>q. QED BY <2>3
<1>2. CASE m \notin minted
  <2>1. PICK c \in calls : ServerStep(c) /\ Rotate(c)
              /\ minted' = minted \cup {[n |-> c.n, jti |-> Len(tokens) + 1]}
    BY <1>2, WaitingStep
  <2>2. m.jti = Len(tokens) + 1 BY <1>2, <2>1
  <2>3. m.jti \notin Known /\ m.jti \in Jtis BY <2>1, <2>2, RotateFacts
  <2>4. UNCHANGED <<store, presented>> /\ \A x \in requests' : \E q \in requests : Alike(x, q)
    BY <2>1, ServerSeen
  <2>5. \A d \in calls' : d.jti \in Known BY <2>1 DEF Rotate, Finish, TypeOK
  <2>6. \A i \in revoked' : i \in Known BY <2>1 DEF Rotate, TypeOK
  <2>7. m.jti # 0 BY <2>3 DEF Jtis
  <2>8. store' # m.jti BY <2>3, <2>4, <2>7 DEF ClientType
  <2>9. \A x \in requests' : x.body # m.jti BY <2>3, <2>4, <2>7 DEF ClientType, Alike
  <2>10. \A p \in presented' : p.jti # m.jti BY <2>3, <2>4 DEF ClientType
  <2>q. QED BY <2>3, <2>5, <2>6, <2>8, <2>9, <2>10 DEF Touched
<1>q. QED BY <1>1, <1>2

-----------------------------------------------------------------------------
\* The token in the store was not presented before, unless the answer is due or lost.
Unused == \A p \in presented : p.jti = store => p.jti \in lost \/ refreshing[p.tab] = p.n

\* No tab presents a token twice, unless the answer to the first time was lost.
Twice == \A p, q \in presented : p.tab = q.tab /\ p.jti = q.jti /\ p # q => p.jti \in lost

\* A tab that stops waiting, or starts, does so in one of four ways.
LEMMA RefreshingStep ==
  ASSUME TypeOK, SessionInv, ClientType, Numbered, Numbers, Flight, [ClientNext]_clientVars,
         NEW p \in presented, p.n = refreshing[p.tab], p.jti \notin lost'
  PROVE  \/ refreshing'[p.tab] = p.n
         \/ store' = 0
         \/ RefreshDone(p.tab)
<1>0. p.tab \in Tabs /\ p.n \in Nat /\ p.n # 0 BY DEF ClientType, Numbers
<1>1. ASSUME NEW t \in Tabs, Reload(t) PROVE refreshing'[p.tab] = p.n
  <2>1. refreshing' = [refreshing EXCEPT ![t] = 0] /\ Abandoned(t) \subseteq lost'
    BY <1>1, ReloadFacts
  <2>2. t # p.tab BY <2>1, AbandonedIs
  <2>q. QED BY <1>0, <2>1, <2>2 DEF ClientType
<1>2. ASSUME NEW t \in Tabs, RefreshDone(t) PROVE refreshing'[p.tab] = p.n \/ RefreshDone(p.tab)
  BY <1>0, <1>2 DEF RefreshDone, ClientType
<1>3. ASSUME NEW t \in Tabs, RefreshFail(t) PROVE store' = 0
  BY <1>3, FailFacts
<1>4. ASSUME NEW q \in requests, StartRefresh(q) PROVE refreshing'[p.tab] = p.n
  <2>1. q.tab \in Tabs /\ q.tab # p.tab /\ refreshing' = [refreshing EXCEPT ![q.tab] = served + 1]
    BY <1>0, <1>4 DEF StartRefresh, ClientType, RequestType
  <2>q. QED BY <1>0, <2>1 DEF ClientType
<1>5. CASE refreshing' = refreshing BY <1>5
<1>6. \/ refreshing' = refreshing
      \/ \E t \in Tabs : Reload(t) \/ RefreshDone(t) \/ RefreshFail(t)
      \/ \E q \in requests : StartRefresh(q)
  <2>1. ASSUME NEW t \in Tabs, SignIn(t) \/ SignInFail(t) \/ Send(t) \/ Logout(t)
        PROVE  refreshing' = refreshing
    BY <2>1 DEF SignIn, SignInFail, Send, Logout
  <2>2. ASSUME NEW q \in requests, Ending(q) \/ CallLogout(q) \/ JoinRefresh(q)
        PROVE  refreshing' = refreshing
    BY <2>2, EndingFacts DEF CallLogout, JoinRefresh
  <2>3. ASSUME NEW c \in calls, ServerStep(c) PROVE refreshing' = refreshing
    BY <2>3, ServerSeen
  <2>4. ASSUME NEW j, AccessExpires(j) \/ RefreshExpires(j) \/ UNCHANGED clientVars
        PROVE  refreshing' = refreshing
    BY <2>4 DEF AccessExpires, RefreshExpires, clientVars, client
  <2>q. QED BY <2>1, <2>2, <2>3, <2>4 DEF ClientNext, Tab, Answer, Ending
<1>q. QED BY <1>1, <1>2, <1>3, <1>4, <1>5, <1>6

\* Presentations are only added, by a tab that starts a refresh; what is lost stays so.
LEMMA PresentedStep ==
  ASSUME TypeOK, SessionInv, ClientType, Flight, [ClientNext]_clientVars
  PROVE  /\ lost \subseteq lost'
         /\ \/ presented' = presented
            \/ \E q \in requests : \E p :
                 /\ StartRefresh(q) /\ presented' = presented \cup {p}
                 /\ p.tab = q.tab /\ p.jti = store /\ p.n = served + 1
                 /\ q.tab \in Tabs /\ refreshing[q.tab] = 0
                 /\ store' = store /\ lost' = lost
                 /\ refreshing'[q.tab] = served + 1
<1>1. ASSUME NEW t \in Tabs, Tab(t) PROVE presented' = presented /\ lost \subseteq lost'
  BY <1>1 DEF Tab, SignIn, SignInFail, Reload, Send, Logout, RefreshDone, RefreshFail
<1>2. ASSUME NEW q \in requests, Ending(q) \/ CallLogout(q) \/ JoinRefresh(q)
      PROVE  presented' = presented /\ lost \subseteq lost'
  BY <1>2, EndingFacts DEF CallLogout, JoinRefresh
<1>3. ASSUME NEW c \in calls, ServerStep(c) PROVE presented' = presented /\ lost \subseteq lost'
  BY <1>3, ServerSeen
<1>4. ASSUME NEW j, AccessExpires(j) \/ RefreshExpires(j) \/ UNCHANGED clientVars
      PROVE  presented' = presented /\ lost \subseteq lost'
  BY <1>4 DEF AccessExpires, RefreshExpires, clientVars, client
<1>5. ASSUME NEW q \in requests, StartRefresh(q)
      PROVE  \E p : /\ presented' = presented \cup {p}
                    /\ p.tab = q.tab /\ p.jti = store /\ p.n = served + 1
                    /\ q.tab \in Tabs /\ refreshing[q.tab] = 0 /\ store' = store /\ lost' = lost
                    /\ refreshing'[q.tab] = served + 1
  <2>1. PICK p : p = [tab |-> q.tab, jti |-> store, n |-> served + 1] OBVIOUS
  <2>2. p.tab = q.tab /\ p.jti = store /\ p.n = served + 1 BY <2>1
  <2>3. presented' = presented \cup {p} BY <1>5, <2>1 DEF StartRefresh
  <2>4. q.tab \in Tabs /\ refreshing \in [Tabs -> Nat] BY DEF ClientType, RequestType
  <2>q. QED BY <1>5, <2>2, <2>3, <2>4 DEF StartRefresh
<1>q. QED BY <1>1, <1>2, <1>3, <1>4, <1>5 DEF ClientNext, Answer, Ending

\* What the store holds next: the same, nothing, a new login or the new pair.
LEMMA StoreStep ==
  ASSUME TypeOK, SessionInv, ClientType, Flight, [ClientNext]_clientVars
  PROVE  \/ store' \in {store, 0}
         \/ \E t \in Tabs : SignIn(t) /\ store' = Len(tokens) + 1
         \/ \E t \in Tabs, m \in minted : RefreshDone(t) /\ m.n = refreshing[t] /\ store' = m.jti
<1>1. ASSUME NEW t \in Tabs, Reload(t) \/ Send(t) \/ Logout(t) PROVE store' \in {store, 0}
  BY <1>1, SendFacts DEF Reload
<1>2. ASSUME NEW q \in requests, Answer(q) PROVE store' \in {store, 0}
  BY <1>2, EndingFacts DEF Answer, Ending, CallLogout, JoinRefresh, StartRefresh
<1>3. ASSUME NEW c \in calls, ServerStep(c) PROVE store' = store BY <1>3, ServerSeen
<1>4. ASSUME NEW j, AccessExpires(j) \/ RefreshExpires(j) \/ UNCHANGED clientVars
      PROVE  store' = store
  BY <1>4 DEF AccessExpires, RefreshExpires, clientVars, client
<1>5. ASSUME NEW t \in Tabs, RefreshFail(t) PROVE store' = 0 BY <1>5, FailFacts
<1>6. ASSUME NEW t \in Tabs, RefreshDone(t)
      PROVE  \E m \in minted : m.n = refreshing[t] /\ store' = m.jti
  BY <1>6 DEF RefreshDone
<1>7. ASSUME NEW t \in Tabs, SignIn(t) PROVE store' = Len(tokens) + 1 BY <1>7 DEF SignIn
<1>8. ASSUME NEW t \in Tabs, SignInFail(t) PROVE store' = 0 BY <1>8, SignInFailFacts
<1>q. QED BY <1>1, <1>2, <1>3, <1>4, <1>5, <1>6, <1>7, <1>8 DEF ClientNext, Tab

LEMMA UnusedStep ==
  TypeOK /\ SessionInv /\ ClientType /\ Numbered /\ Numbers /\ Flight /\ Fresh /\ Unused /\ Twice
    /\ [ClientNext]_clientVars => Unused' /\ Twice'
<1> SUFFICES ASSUME TypeOK, SessionInv, ClientType, Numbered, Numbers, Flight, Fresh, Unused, Twice,
                    [ClientNext]_clientVars
             PROVE  Unused' /\ Twice'
  OBVIOUS
<1>0. /\ \A p \in presented : p.n \in Nat /\ p.n >= 1 /\ p.n <= served /\ p.jti \in Known /\ p.jti # 0
      /\ Len(tokens) + 1 \notin Known
  BY RowFacts DEF ClientType, Numbers, Jtis
\* A token that was presented, its answer neither due nor lost, does not come to the store.
<1>1. ASSUME NEW p \in presented, p.jti = store', p.jti \notin lost'
      PROVE  refreshing'[p.tab] = p.n
  <2>1. p.jti \notin lost BY <1>1, PresentedStep
  <2>2. CASE store' = store
    <3>1. refreshing[p.tab] = p.n BY <1>1, <2>1, <2>2 DEF Unused
    <3>2. CASE RefreshDone(p.tab)
      <4>1. PICK m \in minted : m.n = refreshing[p.tab] /\ store' = m.jti BY <3>2 DEF RefreshDone
      <4>2. ~Touched(m.jti) BY <4>1 DEF Fresh, ClientType
      <4>q. QED BY <1>1, <4>1, <4>2 DEF Touched
    <3>q. QED BY <1>0, <1>1, <3>1, <3>2, RefreshingStep
  <2>3. CASE \E t \in Tabs, m \in minted : RefreshDone(t) /\ m.n = refreshing[t] /\ store' = m.jti
    BY <1>1, <2>3 DEF Fresh, Touched
  <2>q. QED BY <1>0, <1>1, <2>2, <2>3, StoreStep
<1>2. CASE presented' = presented
  BY <1>1, <1>2, PresentedStep DEF Unused, Twice
<1>3. CASE presented' # presented
  <2>0. PICK q \in requests : \E p :
            /\ StartRefresh(q) /\ presented' = presented \cup {p}
            /\ p.tab = q.tab /\ p.jti = store /\ p.n = served + 1
            /\ q.tab \in Tabs /\ refreshing[q.tab] = 0
            /\ store' = store /\ lost' = lost
            /\ refreshing'[q.tab] = served + 1
    BY <1>3, PresentedStep
  <2>1. PICK p :
            /\ StartRefresh(q) /\ presented' = presented \cup {p}
            /\ p.tab = q.tab /\ p.jti = store /\ p.n = served + 1
            /\ q.tab \in Tabs /\ refreshing[q.tab] = 0
            /\ store' = store /\ lost' = lost
            /\ refreshing'[q.tab] = served + 1
    BY <2>0
  <2>2. Unused' BY <1>1, <2>1 DEF Unused
  <2>3. \A r \in presented : r.tab = p.tab /\ r.jti = p.jti => r.jti \in lost
    BY <1>0, <2>1 DEF Unused
  <2>4. Twice' BY <2>1, <2>3 DEF Twice
  <2>q. QED BY <2>2, <2>4
<1>q. QED BY <1>2, <1>3

-----------------------------------------------------------------------------
\* The logout of the stored token that is under way stays so, unless its answer is
\* lost or the store is cleared.
LEMMA CallKept ==
  ASSUME TypeOK, SessionInv, ClientType, Flight, [ClientNext]_clientVars,
         NEW q \in requests, q.kind = "logout", q.at = "call", q.body \notin lost', store' # 0
  PROVE  \E x \in requests' : x.kind = "logout" /\ x.at = "call" /\ x.body = q.body
<1>r. requests \in SUBSET RequestType BY DEF ClientType
<1>a. ASSUME \E x \in requests' : Alike(x, q)
      PROVE  \E x \in requests' : x.kind = "logout" /\ x.at = "call" /\ x.body = q.body
  BY <1>a DEF Alike
<1>b. q \in requests' => \E x \in requests' : x.kind = "logout" /\ x.at = "call" /\ x.body = q.body
  OBVIOUS
<1>1. ASSUME NEW t \in Tabs, SignIn(t) PROVE \E x \in requests' : Alike(x, q)
  <2>1. requests' = Disturbed(requests) \cup FetchUser(t, Len(tokens) + 1) BY <1>1, SignInFacts
  <2>q. QED BY <1>r, <2>1, DisturbedIs
<1>2. ASSUME NEW t \in Tabs, Reload(t) PROVE q \in requests'
  <2>1. Abandoned(t) \subseteq lost' /\ \A r \in requests : r.tab # t => r \in requests'
    BY <1>2, ReloadFacts
  <2>q. QED BY <2>1, AbandonedIs
<1>3. ASSUME NEW t \in Tabs, Send(t) \/ Logout(t) PROVE q \in requests'
  BY <1>3, SendFacts
<1>4. ASSUME NEW r \in requests, Ending(r) PROVE q \in requests'
  BY <1>4, EndingFacts
<1>5. ASSUME NEW r \in requests, JoinRefresh(r) PROVE q \in requests'
  BY <1>5, JoinFacts
<1>6. ASSUME NEW r \in requests, StartRefresh(r) PROVE \E x \in requests' : Alike(x, q)
  <2>1. requests' = Disturbed(requests \ {r}) \cup {Wait(r)} /\ r.at = "sent"
    BY <1>6 DEF StartRefresh
  <2>2. requests \ {r} \in SUBSET RequestType /\ q \in requests \ {r} BY <1>r, <2>1
  <2>q. QED BY <2>1, <2>2, DisturbedIs
<1>7. ASSUME NEW r \in requests, CallLogout(r) PROVE q \in requests'
  BY <1>7 DEF CallLogout
<1>8. ASSUME NEW t \in Tabs, RefreshDone(t) PROVE q \in requests'
  BY <1>8, DoneFacts
<1>9. ASSUME NEW t \in Tabs, RefreshFail(t) PROVE FALSE
  BY <1>9, FailFacts
<1>10. ASSUME NEW c \in calls, ServerStep(c) PROVE \E x \in requests' : Alike(x, q)
  BY <1>10, ServerSeen
<1>11. ASSUME NEW j, AccessExpires(j) \/ RefreshExpires(j) \/ UNCHANGED clientVars
       PROVE  q \in requests'
  BY <1>11 DEF AccessExpires, RefreshExpires, clientVars, client
<1>12. ASSUME NEW t \in Tabs, SignInFail(t) PROVE FALSE
  BY <1>12, SignInFailFacts
<1>q. QED BY <1>a, <1>b, <1>1, <1>2, <1>3, <1>4, <1>5, <1>6, <1>7, <1>8, <1>9, <1>10, <1>11,
          <1>12 DEF ClientNext, Tab, Answer, Ending

\* What is revoked in a step is the token of a call.
LEMMA RevokedStep ==
  ASSUME [Next]_vars, NEW j \in revoked', j \notin revoked
  PROVE  \E c \in calls : c.jti = j /\ (Rotate(c) \/ Revoke(c))
<1>1. revoked' = revoked \/ \E c \in calls : Rotate(c) \/ Revoke(c)
  BY DEF Next, Login, Toggle, Submit, LookupRefresh, LoadUser, LookupLogout, Check, Fail, Expire, vars
<1>q. QED BY <1>1 DEF Rotate, Revoke

LEMMA StoredStep ==
  TypeOK /\ SessionInv /\ ClientType /\ ClientType' /\ Numbered /\ Numbers /\ Flight
    /\ Owned /\ Fresh /\ StoredGood /\ [ClientNext]_clientVars => StoredGood'
<1> SUFFICES ASSUME TypeOK, SessionInv, ClientType, ClientType', Numbered, Numbers, Flight,
                    Owned, Fresh, StoredGood, [ClientNext]_clientVars, store' # 0,
                    store' \notin lost', store' \notin expired', store' \in revoked'
             PROVE  \/ \E p \in presented' : p.jti = store' /\ p.n \in {refreshing'[t] : t \in Tabs}
                    \/ \E q \in requests' : q.kind = "logout" /\ q.body = store' /\ q.at = "call"
  BY DEF StoredGood, Live, ClientType
<1>0. [Next]_vars /\ revoked \subseteq Known /\ \A p \in presented : p.n >= 1 /\ p.n \in Nat
  BY ServerNext DEF TypeOK, ClientType, Numbers
<1>a. ASSUME NEW t \in Tabs, RefreshDone(t), NEW m \in minted, m.n = refreshing[t], store' = m.jti
      PROVE  store' \notin revoked /\ \A p \in presented : p.jti # store'
  BY <1>a DEF Fresh, Touched
<1>1. store' = store
  <2>1. ASSUME NEW t \in Tabs, SignIn(t), store' = Len(tokens) + 1 PROVE FALSE
    BY <1>0, <2>1, SignInFacts
  <2>2. ASSUME NEW t \in Tabs, RefreshDone(t), NEW m \in minted, m.n = refreshing[t], store' = m.jti
        PROVE  FALSE
    BY <1>a, <2>2, DoneFacts DEF vars
  <2>q. QED BY <2>1, <2>2, StoreStep
<1>2. store \notin lost /\ store \notin expired /\ store # 0
  BY <1>0, <1>1, PresentedStep, ServerGrows
<1>3. \/ \E p \in presented : p.jti = store /\ p.n = refreshing[p.tab] /\ p.tab \in Tabs
      \/ \E q \in requests : q.kind = "logout" /\ q.body = store /\ q.at = "call"
  <2>0. ASSUME NEW p \in presented, NEW t \in Tabs, p.n = refreshing[t]
        PROVE  p.n = refreshing[p.tab] /\ p.tab \in Tabs
    BY <1>0, <2>0 DEF Flight, Numbers
  <2>1. CASE store \in revoked
    BY <1>2, <2>0, <2>1 DEF StoredGood, Live
  <2>2. CASE store \notin revoked
    <3>1. PICK c \in calls : c.jti = store /\ (Rotate(c) \/ Revoke(c)) BY <1>0, <1>1, <2>2, RevokedStep
    <3>2. CASE c.op = "refresh"
      <4>1. PICK t \in Tabs : refreshing[t] = c.n BY <1>2, <3>1, <3>2 DEF Owned
      <4>2. PICK p \in presented : p.n = c.n /\ p.jti = c.jti BY <3>2 DEF Owned
      <4>q. QED BY <2>0, <3>1, <4>1, <4>2
    <3>3. CASE c.op = "logout" BY <1>2, <3>1, <3>3 DEF Owned
    <3>q. QED BY <3>1, <3>2, <3>3 DEF Rotate, Revoke
  <2>q. QED BY <2>1, <2>2
<1>4. CASE \E p \in presented : p.jti = store /\ p.n = refreshing[p.tab] /\ p.tab \in Tabs
  <2>1. PICK p \in presented : p.jti = store /\ p.n = refreshing[p.tab] /\ p.tab \in Tabs BY <1>4
  <2>2. ~RefreshDone(p.tab)
    <3>1. ASSUME RefreshDone(p.tab) PROVE FALSE
      <4>1. PICK m \in minted : m.n = refreshing[p.tab] /\ store' = m.jti BY <3>1 DEF RefreshDone
      <4>q. QED BY <1>1, <1>a, <2>1, <3>1, <4>1
    <3>q. QED BY <3>1
  <2>3. refreshing'[p.tab] = p.n BY <1>1, <2>1, <2>2, RefreshingStep
  <2>4. p \in presented' BY PresentedStep
  <2>q. QED BY <1>1, <2>1, <2>3, <2>4
<1>5. CASE \E q \in requests : q.kind = "logout" /\ q.body = store /\ q.at = "call"
  BY <1>1, <1>5, CallKept
<1>q. QED BY <1>3, <1>4, <1>5

-----------------------------------------------------------------------------
(***************************************************************************)
(* A request causes one refresh at most: every presentation uses up the    *)
(* number of a request that has not been tried again.                      *)
(***************************************************************************)
UntriedIds == {q.id : q \in {q \in requests : ~q.retried}}

Ids ==
  /\ \A q \in requests : q.id \in Nat /\ q.id >= 1 /\ q.id <= sent
  /\ \A q, r \in requests : q.id = r.id => q = r

Counting ==
  /\ IsFiniteSet(presented) /\ IsFiniteSet(UntriedIds)
  /\ Cardinality(presented) + Cardinality(UntriedIds) <= sent

LEMMA UntriedIs == \A i : i \in UntriedIds <=> \E w \in requests : ~w.retried /\ w.id = i
<1> DEFINE Q == {q \in requests : ~q.retried}
<1>1. \A q : q \in Q <=> q \in requests /\ ~q.retried OBVIOUS
<1>2. UntriedIds = {q.id : q \in Q} BY DEF UntriedIds
<1> HIDE DEF Q
<1>q. QED BY <1>1, <1>2

LEMMA DisturbedOne ==
  ASSUME NEW Q \in SUBSET RequestType, \A q, r \in Q : q.id = r.id => q = r
  PROVE  \A x, y \in Disturbed(Q) : x.id = y.id => x = y
<1> DEFINE D(q) == [q EXCEPT !.quiet = FALSE]
<1>1. \A q \in Q : D(q).id = q.id BY QuietIs DEF Alike
<1>2. Disturbed(Q) = {D(q) : q \in Q} BY DEF Disturbed
<1> HIDE DEF D
<1>q. QED BY <1>1, <1>2

LEMMA FetchOne ==
  ASSUME ClientType, NEW t \in Tabs, NEW bearer \in Nat
  PROVE  \A x, y \in FetchUser(t, bearer) : x.id = y.id => x = y
<1>1. PICK a, b : /\ a = Request(sent + 1, t, "me", bearer)
                  /\ b = Request(sent + 2, t, "api", bearer)
  OBVIOUS
<1>2. sent + 1 \in Nat /\ sent + 2 \in Nat /\ sent \in Nat BY DEF ClientType
<1>3. a.id = sent + 1 BY <1>1, <1>2, RequestIs
<1>4. b.id = sent + 2 BY <1>1, <1>2, RequestIs
<1>5. FetchUser(t, bearer) = {a, b} BY <1>1 DEF FetchUser
<1>6. a.id # b.id BY <1>2, <1>3, <1>4
<1>q. QED BY <1>5, <1>6

LEMMA ServerOne ==
  ASSUME ClientType, Ids, NEW c \in calls, ServerStep(c)
  PROVE  \A x, y \in requests' : x.id = y.id => x = y
<1>1. CASE requests' = requests BY <1>1 DEF Ids
<1>2. CASE requests' = {IF q.at = "call" /\ q.call = c.n THEN [q EXCEPT !.quiet = FALSE] ELSE q
                          : q \in requests}
  <2> DEFINE D(q) == IF q.at = "call" /\ q.call = c.n THEN [q EXCEPT !.quiet = FALSE] ELSE q
  <2>1. \A q \in requests : D(q).id = q.id BY QuietIs DEF Alike, ClientType
  <2>2. requests' = {D(q) : q \in requests} BY <1>2
  <2> HIDE DEF D
  <2>q. QED BY <2>1, <2>2 DEF Ids
<1>q. QED BY <1>1, <1>2 DEF ServerStep, client

LEMMA DoneOne ==
  ASSUME ClientType, Ids, NEW t \in Tabs, RefreshDone(t)
  PROVE  \A x, y \in requests' : x.id = y.id => x = y
<1>1. PICK m \in minted : requests' = (requests \ Waiting(t))
             \cup {[q EXCEPT !.at = "sent", !.bearer = m.jti] : q \in Waiting(t)}
  BY DEF RefreshDone
<1> DEFINE D(q) == [q EXCEPT !.at = "sent", !.bearer = m.jti]
<1>2. \A q \in Waiting(t) : D(q).id = q.id /\ q \in requests
  BY DEF Waiting, ClientType, RequestType
<1>3. requests' = (requests \ Waiting(t)) \cup {D(q) : q \in Waiting(t)} BY <1>1
<1> HIDE DEF D
<1>q. QED BY <1>2, <1>3 DEF Ids

\* Requests keep their numbers, and the new ones are numbered on.  Only a request
\* that starts a refresh causes a presentation, and it has then been tried.
LEMMA IdsStep ==
  ASSUME TypeOK, SessionInv, ClientType, Flight, Ids, [ClientNext]_clientVars
  PROVE  /\ sent' \in Nat /\ sent' >= sent
         /\ \A x \in requests' :
              \/ x.id \in Nat /\ x.id > sent /\ x.id <= sent'
              \/ \E q \in requests : x.id = q.id /\ (q.retried => x.retried)
         /\ \A x, y \in requests' : x.id = y.id => x = y
<1>0. requests \in SUBSET RequestType /\ sent \in Nat BY DEF ClientType
<1>r. \A q \in requests : q.id \in Nat /\ q.id <= sent BY DEF Ids
<1>o. \A q, r \in requests : q.id = r.id => q = r BY DEF Ids
<1> DEFINE New(x) == x.id \in Nat /\ x.id > sent /\ x.id <= sent'
           Old(x) == \E q \in requests : x.id = q.id /\ (q.retried => x.retried)
           One == \A x, y \in requests' : x.id = y.id => x = y
           Goal == /\ sent' \in Nat /\ sent' >= sent
                   /\ \A x \in requests' : New(x) \/ Old(x)
                   /\ One
<1>a. \A x, q : q \in requests /\ Alike(x, q) => Old(x) BY DEF Alike
<1>b. ASSUME sent' = sent, requests' \subseteq requests PROVE Goal
  BY <1>0, <1>o, <1>b
<1>c. ASSUME NEW q \in requests, NEW x, requests' = (requests \ {q}) \cup {x}, x.id = q.id,
             q.retried => x.retried, sent' = sent
      PROVE  Goal
  BY <1>0, <1>o, <1>c
<1>1. ASSUME NEW t \in Tabs, SignIn(t) PROVE Goal
  <2>1. PICK n : n = Len(tokens) + 1 OBVIOUS
  <2>2. requests' = Disturbed(requests) \cup FetchUser(t, n) /\ n \in Nat /\ sent' = sent + 2
    BY <1>1, <2>1, SignInFacts DEF Jtis
  <2>3. \A x \in Disturbed(requests) : Old(x) BY <1>0, <1>a, DisturbedIs
  <2>4. \A x \in FetchUser(t, n) : x.id \in {sent + 1, sent + 2} BY <2>2, FetchIs
  <2>5. \A x \in FetchUser(t, n) : New(x) BY <1>0, <2>2, <2>4
  <2>6. \A x \in Disturbed(requests) : x.id \in Nat /\ x.id <= sent BY <1>r, <2>3
  <2>7. \A x, y \in Disturbed(requests) : x.id = y.id => x = y BY <1>0, <1>o, DisturbedOne
  <2>8. \A x, y \in FetchUser(t, n) : x.id = y.id => x = y BY <2>2, FetchOne
  <2>9. \A x \in Disturbed(requests), y \in FetchUser(t, n) : x.id # y.id BY <1>0, <2>5, <2>6
  <2>10. One BY <2>2, <2>7, <2>8, <2>9
  <2>q. QED BY <1>0, <2>2, <2>3, <2>5, <2>10
<1>2. ASSUME NEW t \in Tabs, Reload(t) PROVE Goal
  <2>1. CASE store = 0
    <3>1. sent' = sent /\ requests' \subseteq requests BY <1>2, <2>1 DEF Reload
    <3>q. QED BY <1>b, <3>1
  <2>2. CASE store # 0
    <3>1. /\ \A x \in requests' : x \in requests \/ x \in FetchUser(t, store)
          /\ sent' = sent + 2 /\ store \in Nat
      BY <1>2, <2>2 DEF Reload, ClientType
    <3>2. \A x \in FetchUser(t, store) : x.id \in {sent + 1, sent + 2} BY <3>1, FetchIs
    <3>3. \A x \in FetchUser(t, store) : New(x) BY <1>0, <3>1, <3>2
    <3>4. \A x, y \in FetchUser(t, store) : x.id = y.id => x = y BY <3>1, FetchOne
    <3>5. \A x \in requests, y \in FetchUser(t, store) : x.id # y.id BY <1>0, <1>r, <3>3
    <3>6. One BY <1>o, <3>1, <3>4, <3>5
    <3>q. QED BY <1>0, <3>1, <3>3, <3>6
  <2>q. QED BY <2>1, <2>2
<1>3. ASSUME NEW t \in Tabs, Send(t) \/ Logout(t) PROVE Goal
  <2>1. sent' = sent + 1 /\ (requests' = requests \/
          \E x \in RequestType : requests' = requests \cup {x} /\ x.id = sent + 1)
    BY <1>3, SendFacts
  <2>2. CASE requests' = requests BY <1>0, <1>o, <2>1, <2>2
  <2>3. CASE \E x \in RequestType : requests' = requests \cup {x} /\ x.id = sent + 1
    <3>1. PICK x \in RequestType : requests' = requests \cup {x} /\ x.id = sent + 1 BY <2>3
    <3>2. New(x) /\ \A q \in requests : q.id # x.id BY <1>0, <1>r, <2>1, <3>1
    <3>3. One BY <1>o, <3>1, <3>2
    <3>q. QED BY <1>0, <2>1, <3>1, <3>2, <3>3
  <2>q. QED BY <2>1, <2>2, <2>3
<1>4. ASSUME NEW q \in requests, Ending(q) PROVE Goal
  <2>1. sent' = sent /\ requests' \subseteq requests BY <1>4, EndingFacts
  <2>q. QED BY <1>b, <2>1
<1>5. ASSUME NEW q \in requests, JoinRefresh(q) PROVE Goal
  <2>1. requests' = (requests \ {q}) \cup {Wait(q)} /\ sent' = sent BY <1>5, JoinFacts
  <2>2. Wait(q).id = q.id /\ Wait(q).retried BY <1>0, WaitIs
  <2>q. QED BY <1>c, <2>1, <2>2
<1>6. ASSUME NEW q \in requests, StartRefresh(q) PROVE Goal
  <2>1. requests' = Disturbed(requests \ {q}) \cup {Wait(q)} /\ sent' = sent BY <1>6 DEF StartRefresh
  <2>2. requests \ {q} \in SUBSET RequestType BY <1>0
  <2>3. \A x \in Disturbed(requests \ {q}) : \E r \in requests \ {q} : Alike(x, r)
    BY <2>2, DisturbedIs
  <2>4. \A x \in Disturbed(requests \ {q}) : Old(x) /\ x.id # q.id
    BY <1>a, <1>o, <2>3 DEF Alike
  <2>5. \A x, y \in Disturbed(requests \ {q}) : x.id = y.id => x = y BY <1>o, <2>2, DisturbedOne
  <2>6. Wait(q).id = q.id /\ Wait(q).retried BY <1>0, WaitIs
  <2>7. ASSUME NEW x \in requests', NEW y \in requests', x.id = y.id PROVE x = y
    <3>1. CASE x \in Disturbed(requests \ {q}) /\ y \in Disturbed(requests \ {q})
      BY <2>5, <2>7, <3>1
    <3>2. x \in Disturbed(requests \ {q}) \/ x = Wait(q) BY <2>1
    <3>3. y \in Disturbed(requests \ {q}) \/ y = Wait(q) BY <2>1
    <3>4. \A z \in Disturbed(requests \ {q}) : z.id # Wait(q).id BY <2>4, <2>6
    <3>q. QED BY <2>7, <3>1, <3>2, <3>3, <3>4
  <2>8. Old(Wait(q)) BY <2>6
  <2>9. \A x \in requests' : Old(x) BY <2>1, <2>4, <2>8
  <2>10. sent' \in Nat /\ sent' >= sent BY <1>0, <2>1
  <2>11. One BY <2>7
  <2> HIDE DEF Old, New, One
  <2>q. QED BY <2>9, <2>10, <2>11
<1>7. ASSUME NEW q \in requests, CallLogout(q) PROVE Goal
  <2>1. PICK c, x : LogoutCalled(q, c, x) BY <1>7, CallLogoutFacts
  <2>2. sent' = sent /\ requests' = (requests \ {q}) \cup {x} /\ x.id = q.id /\ x.retried = q.retried
    BY <2>1 DEF LogoutCalled
  <2>q. QED BY <1>c, <2>2
<1>8. ASSUME NEW t \in Tabs, RefreshDone(t) PROVE Goal
  <2>1. sent' = sent /\ \A x \in requests' : Old(x) BY <1>8, DoneFacts
  <2>q. QED BY <1>0, <1>8, <2>1, DoneOne
<1>9. ASSUME NEW t \in Tabs, RefreshFail(t) PROVE Goal
  <2>1. sent' = sent /\ requests' \subseteq requests BY <1>9, FailFacts
  <2>q. QED BY <1>b, <2>1
<1>10. ASSUME NEW c \in calls, ServerStep(c) PROVE Goal
  <2>1. sent' = sent /\ \A x \in requests' : \E q \in requests : Alike(x, q) BY <1>10, ServerSeen
  <2>q. QED BY <1>0, <1>10, <1>a, <2>1, ServerOne
<1>11. ASSUME NEW j, AccessExpires(j) \/ RefreshExpires(j) \/ UNCHANGED clientVars PROVE Goal
  <2>1. sent' = sent /\ requests' = requests
    BY <1>11 DEF AccessExpires, RefreshExpires, clientVars, client
  <2>q. QED BY <1>b, <2>1
<1>12. ASSUME NEW t \in Tabs, SignInFail(t) PROVE Goal
  <2>1. sent' = sent /\ requests' = requests BY <1>12, SignInFailFacts
  <2>q. QED BY <1>b, <2>1
<1>q. QED BY <1>1, <1>2, <1>3, <1>4, <1>5, <1>6, <1>7, <1>8, <1>9, <1>10, <1>11,
          <1>12 DEF ClientNext, Tab, Answer, Ending

LEMMA CountingStep ==
  TypeOK /\ SessionInv /\ ClientType /\ Flight /\ Ids /\ Counting /\ [ClientNext]_clientVars
    => Ids' /\ Counting'
<1> SUFFICES ASSUME TypeOK, SessionInv, ClientType, Flight, Ids, Counting, [ClientNext]_clientVars
             PROVE  Ids' /\ Counting'
  OBVIOUS
<1>0. sent \in Nat /\ sent' \in Nat /\ sent' >= sent BY IdsStep DEF ClientType
<1>1. Ids' BY <1>0, IdsStep DEF Ids
<1>2. Cardinality(presented) \in Nat /\ Cardinality(UntriedIds) \in Nat
  BY FS_CardinalityType DEF Counting
<1>3. CASE presented' = presented
  <2> DEFINE N == (sent + 1) .. sent'
  <2>1. UntriedIds' \subseteq UntriedIds \cup N
    <3>1. ASSUME NEW x \in requests', ~x.retried PROVE x.id \in UntriedIds \cup N
      <4>1. CASE x.id \in Nat /\ x.id > sent /\ x.id <= sent' BY <1>0, <4>1
      <4>2. CASE \E q \in requests : x.id = q.id /\ (q.retried => x.retried)
        BY <3>1, <4>2, UntriedIs
      <4>q. QED BY <4>1, <4>2, IdsStep
    <3>2. (\A i : i \in UntriedIds <=> \E w \in requests : ~w.retried /\ w.id = i)'
      BY UntriedIs, PTL
    <3>q. QED BY <3>1, <3>2
  <2>2. IsFiniteSet(N) /\ Cardinality(N) = sent' - sent
    <3>1. sent + 1 \in Int /\ sent' \in Int BY <1>0
    <3>2. IsFiniteSet(N) /\ Cardinality(N) = IF sent + 1 > sent' THEN 0 ELSE sent' - (sent + 1) + 1
      BY <3>1, FS_Interval
    <3>q. QED BY <1>0, <3>2
  <2> HIDE DEF N
  <2>3. /\ IsFiniteSet(UntriedIds \cup N)
        /\ Cardinality(UntriedIds \cup N)
             = Cardinality(UntriedIds) + Cardinality(N) - Cardinality(UntriedIds \cap N)
    BY <2>2, FS_Union DEF Counting
  <2>4. Cardinality(UntriedIds \cap N) \in Nat
    BY <2>2, FS_Intersection, FS_CardinalityType DEF Counting
  <2>5. IsFiniteSet(UntriedIds') /\ Cardinality(UntriedIds') <= Cardinality(UntriedIds \cup N)
    BY <2>1, <2>3, FS_Subset
  <2>6. Cardinality(UntriedIds') \in Nat BY <2>5, FS_CardinalityType
  <2>7. Cardinality(presented) + Cardinality(UntriedIds') <= sent'
    BY <1>0, <1>2, <2>2, <2>3, <2>4, <2>5, <2>6 DEF Counting
  <2>q. QED BY <1>1, <1>3, <2>5, <2>7 DEF Counting
<1>4. CASE presented' # presented
  <2>0. PICK q \in requests : \E p : StartRefresh(q) /\ presented' = presented \cup {p}
    BY <1>4, PresentedStep
  <2>1. PICK p : StartRefresh(q) /\ presented' = presented \cup {p} BY <2>0
  <2>2. sent' = sent /\ ~q.retried /\ requests' = Disturbed(requests \ {q}) \cup {Wait(q)}
    BY <2>1 DEF StartRefresh
  <2>3. requests \ {q} \in SUBSET RequestType /\ q \in RequestType BY DEF ClientType
  <2>4. q.id \in UntriedIds BY <2>2, UntriedIs
  <2>5. UntriedIds' \subseteq UntriedIds \ {q.id}
    <3>1. ASSUME NEW x \in requests', ~x.retried PROVE x.id \in UntriedIds \ {q.id}
      <4>1. x \in Disturbed(requests \ {q}) BY <2>2, <2>3, <3>1, WaitIs
      <4>2. PICK r \in requests \ {q} : Alike(x, r) BY <2>3, <4>1, DisturbedIs
      <4>3. x.id = r.id /\ ~r.retried /\ r.id # q.id BY <3>1, <4>2 DEF Alike, Ids
      <4>q. QED BY <4>3, UntriedIs
    <3>2. (\A i : i \in UntriedIds <=> \E w \in requests : ~w.retried /\ w.id = i)'
      BY UntriedIs, PTL
    <3>q. QED BY <3>1, <3>2
  <2>6. /\ IsFiniteSet(UntriedIds \ {q.id})
        /\ Cardinality(UntriedIds \ {q.id}) = Cardinality(UntriedIds) - 1
    BY <2>4, FS_RemoveElement DEF Counting
  <2>7. IsFiniteSet(UntriedIds') /\ Cardinality(UntriedIds') <= Cardinality(UntriedIds) - 1
    BY <2>5, <2>6, FS_Subset
  <2>8. /\ IsFiniteSet(presented')
        /\ Cardinality(presented') \in {Cardinality(presented), Cardinality(presented) + 1}
    BY <2>1, FS_AddElement DEF Counting
  <2>9. Cardinality(UntriedIds') \in Nat BY <2>7, FS_CardinalityType
  <2>10. Cardinality(presented') + Cardinality(UntriedIds') <= sent'
    BY <1>0, <1>2, <2>2, <2>7, <2>8, <2>9 DEF Counting
  <2>q. QED BY <1>1, <2>7, <2>8, <2>10 DEF Counting
<1>q. QED BY <1>3, <1>4

-----------------------------------------------------------------------------
\* The logout q has been carried out, or is under way, or was of no use.
Carried(q) ==
  \/ \E c \in calls : c.n = q.call /\ c.op = "logout" /\ c.jti = q.body
  \/ q.body \in revoked \cup expired

\* A quiet request is on its first try and no tab refreshes; a quiet logout shows
\* the access token of the pair it gives up, which no refresh has touched.
Quiet ==
  \A q \in requests : q.quiet =>
    /\ \A t \in Tabs : refreshing[t] = 0
    /\ q.kind = "logout" =>
         /\ q.bearer = q.body
         /\ q.body \notin lost => \A p \in presented : p.jti # q.body
         /\ q.at = "call" => Carried(q)

LEMMA CarriedStep ==
  ASSUME TypeOK, ClientType, LogoutDead, [Next]_vars, NEW c \in calls, ServerStep(c),
         NEW q \in requests, Carried(q),
         \/ LookupRefresh(c) \/ LoadUser(c) \/ LookupLogout(c) \/ Revoke(c) \/ Rotate(c)
         \/ q.call # c.n,
         NEW x, Alike(x, q)
  PROVE  Carried(x)'
<1>x. x.body = q.body /\ x.call = q.call BY DEF Alike
<1>0. revoked \subseteq revoked' /\ expired' = expired
  BY ServerStepFacts, ServerGrows
<1>1. CASE q.body \in revoked \cup expired BY <1>0, <1>1, <1>x DEF Carried
<1>2. CASE \E d \in calls : d.n = q.call /\ d.op = "logout" /\ d.jti = q.body
  <2>1. PICK d \in calls : d.n = q.call /\ d.op = "logout" /\ d.jti = q.body BY <1>2
  <2>2. CASE d # c
    <3>1. d \in calls' BY <2>2, ServerStepFacts
    <3>q. QED BY <1>x, <2>1, <3>1 DEF Carried
  <2>3. CASE d = c
    <3>1. c.op = "logout" /\ c.step # "user" /\ c.jti = q.body /\ c.n = q.call
      BY <2>1, <2>3 DEF LogoutDead
    <3>2. CASE Revoke(c) BY <1>x, <3>1, <3>2 DEF Revoke, Carried
    <3>3. CASE LookupLogout(c)
      <4>1. c.jti \in Known /\ c.user = User /\ tokens[c.jti].user = User BY DEF TypeOK, ClientType
      <4>2. PICK ok \in BOOLEAN : Check(c, ok, "commit")
                                 /\ (ok <=> Live(c.jti) /\ c.jti \notin expired)
        BY <3>3, <4>1 DEF LookupLogout
      <4>3. CASE ok
        <5>0. PICK e : e = [c EXCEPT !.step = "commit"] OBVIOUS
        <5>1. e \in calls' BY <4>2, <4>3, <5>0 DEF Check, Advance
        <5>2. e.n = c.n /\ e.op = c.op /\ e.jti = c.jti BY <5>0 DEF TypeOK, Call
        <5>q. QED BY <1>x, <3>1, <5>1, <5>2 DEF Carried
      <4>4. CASE ~ok
        <5>1. q.body \in revoked \cup expired BY <3>1, <4>1, <4>2, <4>4 DEF Live
        <5>q. QED BY <1>1, <5>1
      <4>q. QED BY <4>3, <4>4
    <3>q. QED BY <3>1, <3>2, <3>3 DEF LookupRefresh, LoadUser, Rotate
  <2>q. QED BY <2>2, <2>3
<1>q. QED BY <1>1, <1>2 DEF Carried

LEMMA QuietStep ==
  TypeOK /\ SessionInv /\ ClientType /\ Numbered /\ Numbers /\ Flight /\ Unused /\ LogoutDead
    /\ Quiet /\ [ClientNext]_clientVars => Quiet'
<1> SUFFICES ASSUME TypeOK, SessionInv, ClientType, Numbered, Numbers, Flight, Unused, LogoutDead,
                    Quiet, [ClientNext]_clientVars
             PROVE  Quiet'
  OBVIOUS
<1>0. requests \in SUBSET RequestType /\ \A q \in requests : Alike(q, q)
  BY DEF ClientType, Alike
<1> DEFINE Calm(x) == /\ \A t \in Tabs : refreshing'[t] = 0
                      /\ x.kind = "logout" =>
                           /\ x.bearer = x.body
                           /\ x.body \notin lost' => \A p \in presented' : p.jti # x.body
                           /\ x.at = "call" => Carried(x)'
<1>p. lost \subseteq lost' BY PresentedStep
\* A request that was quiet stays calm, if no refresh starts.
<1>a. ASSUME NEW x, NEW q \in requests, Alike(x, q), q.quiet, presented' = presented,
             \A t \in Tabs : refreshing'[t] \in {refreshing[t], 0},
             q.kind = "logout" /\ q.at = "call" /\ Carried(q) => Carried(x)'
      PROVE  Calm(x)
  BY <1>a, <1>p DEF Quiet, Alike
<1>v. ASSUME UNCHANGED <<calls, revoked, expired>>, NEW x, NEW q, Alike(x, q), Carried(q)
      PROVE  Carried(x)'
  BY <1>v DEF Carried, Alike
\* A new request is calm if it is quiet.
<1>n. ASSUME NEW x, x.quiet => \A t \in Tabs : refreshing[t] = 0, x.quiet, x.at = "sent",
             x.kind = "logout" => x.bearer = store /\ x.body = store,
             presented' = presented, \A t \in Tabs : refreshing'[t] \in {refreshing[t], 0}
      PROVE  Calm(x)
  <2>1. \A t \in Tabs : refreshing'[t] = 0 BY <1>n
  <2>2. \A p \in presented : p.tab \in Tabs /\ p.n >= 1 BY DEF ClientType, Numbers
  <2>3. \A p \in presented : p.jti = store => p.jti \in lost' BY <1>n, <1>p, <2>2 DEF Unused
  <2>q. QED BY <1>n, <2>1, <2>3
<1>b. ASSUME \A x \in requests' : x.quiet => Calm(x) PROVE Quiet'
  BY <1>b DEF Quiet
<1>1. ASSUME NEW t \in Tabs, SignIn(t) PROVE Quiet'
  <2>1. PICK n : n = Len(tokens) + 1 OBVIOUS
  <2>2. requests' = Disturbed(requests) \cup FetchUser(t, n) /\ n \in Nat
        /\ UNCHANGED <<refreshing, presented>>
    BY <1>1, <2>1, SignInFacts DEF Jtis
  <2>3. \A x \in Disturbed(requests) : ~x.quiet BY <1>0, DisturbedIs
  <2>4. ASSUME NEW x \in FetchUser(t, n), x.quiet PROVE Calm(x)
    <3>1. x.kind # "logout" /\ x.at = "sent" /\ \A s \in Tabs : refreshing[s] = 0
      BY <2>2, <2>4, FetchIs
    <3>q. QED BY <1>n, <2>2, <2>4, <3>1
  <2>q. QED BY <1>b, <2>2, <2>3, <2>4
<1>2. ASSUME NEW t \in Tabs, Reload(t) PROVE Quiet'
  <2>1. /\ refreshing' = [refreshing EXCEPT ![t] = 0] /\ UNCHANGED <<vars, presented>>
        /\ \A x \in requests' : x \in requests \/ (store # 0 /\ x \in FetchUser(t, store))
    BY <1>2, ReloadFacts
  <2>2. \A s \in Tabs : refreshing'[s] \in {refreshing[s], 0} BY <2>1 DEF ClientType
  <2>3. ASSUME NEW x \in requests, x.quiet PROVE Calm(x)
    BY <1>0, <1>a, <1>v, <2>1, <2>2, <2>3 DEF vars
  <2>4. ASSUME NEW x \in FetchUser(t, store), x.quiet PROVE Calm(x)
    <3>1. x.kind # "logout" /\ x.at = "sent" /\ \A s \in Tabs : refreshing[s] = 0
      BY <2>4, FetchIs DEF ClientType
    <3>q. QED BY <1>n, <2>1, <2>2, <2>4, <3>1
  <2>q. QED BY <1>b, <2>1, <2>3, <2>4
<1>3. ASSUME NEW t \in Tabs, Send(t) \/ Logout(t) PROVE Quiet'
  <2>1. UNCHANGED <<vars, refreshing, presented>>
        /\ \A x \in requests' : x \in requests \/
             (x.bearer = store /\ x.body = store /\ x.at = "sent"
               /\ (x.quiet => \A s \in Tabs : refreshing[s] = 0))
    BY <1>3, SendFacts
  <2>2. ASSUME NEW x \in requests, x.quiet PROVE Calm(x)
    BY <1>0, <1>a, <1>v, <2>1, <2>2 DEF vars
  <2>3. ASSUME NEW x \in requests', x \notin requests, x.quiet PROVE Calm(x)
    BY <1>n, <2>1, <2>3
  <2>q. QED BY <1>b, <2>1, <2>2, <2>3
<1>4. ASSUME NEW q \in requests, Ending(q) PROVE Quiet'
  <2>1. UNCHANGED <<vars, refreshing, presented>> /\ requests' \subseteq requests
    BY <1>4, EndingFacts
  <2>q. QED BY <1>0, <1>a, <1>b, <1>v, <2>1 DEF vars
<1>5. ASSUME NEW q \in requests, JoinRefresh(q) PROVE Quiet'
  <2>1. UNCHANGED <<vars, refreshing, presented>> /\ requests' = (requests \ {q}) \cup {Wait(q)}
    BY <1>5, JoinFacts
  <2>2. ~Wait(q).quiet BY <1>0, WaitIs
  <2>q. QED BY <1>0, <1>a, <1>b, <1>v, <2>1, <2>2 DEF vars
<1>6. ASSUME NEW q \in requests, StartRefresh(q) PROVE Quiet'
  <2>1. requests' = Disturbed(requests \ {q}) \cup {Wait(q)} BY <1>6 DEF StartRefresh
  <2>2. requests \ {q} \in SUBSET RequestType BY <1>0
  <2>3. \A x \in requests' : ~x.quiet BY <1>0, <2>1, <2>2, WaitIs, DisturbedIs
  <2>q. QED BY <1>b, <2>3
<1>7. ASSUME NEW q \in requests, CallLogout(q) PROVE Quiet'
  <2>1. PICK c, x : LogoutCalled(q, c, x) BY <1>7, CallLogoutFacts
  <2>2. /\ UNCHANGED <<revoked, expired, refreshing, presented, lost>>
        /\ calls' = calls \cup {c} /\ c.n = served + 1 /\ c.op = "logout" /\ c.jti = q.body
        /\ requests' = (requests \ {q}) \cup {x}
        /\ x.bearer = q.bearer /\ x.body = q.body /\ x.quiet = q.quiet /\ x.kind = q.kind
        /\ x.call = served + 1
    <3>1. UNCHANGED <<revoked, expired, refreshing, presented, lost>>
      BY <2>1 DEF LogoutCalled
    <3>2. /\ calls' = calls \cup {c} /\ c.n = served + 1 /\ c.op = "logout" /\ c.jti = q.body
          /\ requests' = (requests \ {q}) \cup {x}
      BY <2>1 DEF LogoutCalled
    <3>3. /\ x.bearer = q.bearer /\ x.body = q.body /\ x.quiet = q.quiet /\ x.kind = q.kind
          /\ x.call = served + 1
      BY <2>1 DEF LogoutCalled
    <3>q. QED BY <3>1, <3>2, <3>3
  <2>3. ASSUME NEW r \in requests, r.quiet PROVE Calm(r)
    <3>1. Carried(r) => Carried(r)' BY <2>2 DEF Carried
    <3>q. QED BY <1>0, <1>a, <2>2, <2>3, <3>1
  <2>4. ASSUME x.quiet PROVE Calm(x)
    <3>1. Carried(x)' BY <2>2 DEF Carried
    <3>q. QED BY <2>2, <2>4, <3>1 DEF Quiet
  <2>q. QED BY <1>b, <2>2, <2>3, <2>4
<1>8. ASSUME NEW t \in Tabs, RefreshDone(t) PROVE Quiet'
  <2>1. PICK m \in minted :
          /\ m.n = refreshing[t]
          /\ \A x \in requests' : \E q \in requests : x.quiet = q.quiet
    BY <1>8, DoneFacts
  <2>2. refreshing[t] # 0 BY <2>1 DEF Numbers, Numbered
  <2>3. \A x \in requests' : ~x.quiet BY <2>1, <2>2 DEF Quiet
  <2>q. QED BY <1>b, <2>3
<1>9. ASSUME NEW t \in Tabs, RefreshFail(t) PROVE Quiet'
  <2>1. refreshing[t] # 0 /\ requests' \subseteq requests BY <1>9, FailFacts
  <2>2. \A x \in requests' : ~x.quiet BY <2>1 DEF Quiet
  <2>q. QED BY <1>b, <2>2
<1>10. ASSUME NEW c \in calls, ServerStep(c) PROVE Quiet'
  <2>1. /\ UNCHANGED <<refreshing, presented>>
        /\ \A x \in requests' : \E q \in requests : Alike(x, q) /\ (x.quiet => q.quiet)
        /\ \/ LookupRefresh(c) \/ LoadUser(c) \/ LookupLogout(c) \/ Revoke(c) \/ Rotate(c)
           \/ \A x \in requests' : x.at = "call" /\ x.call = c.n => ~x.quiet
    BY <1>10, ServerSeen
  <2>2. ASSUME NEW x \in requests', x.quiet PROVE Calm(x)
    <3>1. PICK q \in requests : Alike(x, q) /\ q.quiet BY <2>1, <2>2
    <3>2. ASSUME q.kind = "logout", q.at = "call", Carried(q) PROVE Carried(x)'
      <4>1. \/ LookupRefresh(c) \/ LoadUser(c) \/ LookupLogout(c) \/ Revoke(c) \/ Rotate(c)
            \/ q.call # c.n
        BY <2>1, <2>2, <3>1, <3>2 DEF Alike
      <4>q. QED BY <1>10, <3>1, <3>2, <4>1, CarriedStep, ServerNext
    <3>q. QED BY <1>a, <2>1, <3>1, <3>2
  <2>q. QED BY <1>b, <2>2
<1>11. ASSUME NEW j, AccessExpires(j) \/ RefreshExpires(j) \/ UNCHANGED clientVars
       PROVE  Quiet'
  <2>1. UNCHANGED <<refreshing, requests, presented, calls, revoked>> /\ expired \subseteq expired'
    BY <1>11 DEF AccessExpires, RefreshExpires, Expire, clientVars, client, vars
  <2>2. \A q \in requests : Carried(q) => Carried(q)' BY <2>1 DEF Carried
  <2>q. QED BY <1>0, <1>a, <1>b, <2>1, <2>2
<1>12. ASSUME NEW t \in Tabs, SignInFail(t) PROVE Quiet'
  <2>1. UNCHANGED <<refreshing, requests, presented, calls, revoked, expired>>
    BY <1>12, SignInFailFacts
  <2>q. QED BY <1>0, <1>a, <1>b, <1>v, <2>1
<1>q. QED BY <1>1, <1>2, <1>3, <1>4, <1>5, <1>6, <1>7, <1>8, <1>9, <1>10, <1>11,
          <1>12 DEF ClientNext, Tab, Answer, Ending

-----------------------------------------------------------------------------
EndedDead == \A s \in ended : Dead(s)

\* A logout that counts has been carried out: nobody else can have revoked its token.
LEMMA EndsDead ==
  ASSUME TypeOK, ClientType, Numbered, Owned, LogoutDead, Quiet,
         NEW q \in requests, LogoutAnswered(q) \/ GiveUp(q), NEW s \in Ends(q)
  PROVE  Dead(s)
<1>1. /\ q.kind = "logout" /\ q.quiet /\ q.body \notin stale \cup expired \cup lost
      /\ s = tokens[q.body].session /\ Orderly(s)
  BY DEF Ends
<1>2. q.bearer = q.body /\ q.body \in Known /\ q.body # 0 /\ \A p \in presented : p.jti # q.body
  BY <1>1, RowFacts DEF Quiet, ClientType, Jtis
<1>3. Accepted(q) BY <1>1, <1>2 DEF Accepted
<1>4. q.at = "call" /\ \A c \in calls : c.n # q.call
  BY <1>3 DEF LogoutAnswered, GiveUp
<1>5. q.body \in revoked BY <1>1, <1>4 DEF Quiet, Carried
<1>6. PICK d \in done : d.jti = q.body BY <1>5 DEF LogoutDead
<1>7. d.op = "logout" BY <1>2, <1>6 DEF Owned, TypeOK, Call
<1>q. QED BY <1>1, <1>6, <1>7 DEF LogoutDead

LEMMA EndedDeadStep ==
  TypeOK /\ SessionInv /\ ClientType /\ Numbered /\ Flight /\ Owned /\ LogoutDead /\ Quiet
    /\ EndedDead /\ [ClientNext]_clientVars => EndedDead'
<1> SUFFICES ASSUME TypeOK, SessionInv, ClientType, Numbered, Flight, Owned, LogoutDead, Quiet,
                    EndedDead, [ClientNext]_clientVars, NEW s \in ended'
             PROVE  Dead(s)'
  BY DEF EndedDead
<1>1. CASE s \in ended
  <2>1. s \in Known /\ Dead(s) BY <1>1 DEF EndedDead, ClientType
  <2>q. QED BY <2>1, ServerNext, DeadStays
<1>2. CASE s \notin ended
  <2>1. \/ ended' = ended
        \/ \E q \in requests : Ending(q)
    <3>1. ASSUME NEW t \in Tabs, Tab(t) PROVE ended' = ended
      BY <3>1 DEF Tab, SignIn, SignInFail, Reload, Send, Logout, RefreshDone, RefreshFail
    <3>2. ASSUME NEW q \in requests, CallLogout(q) \/ JoinRefresh(q) \/ StartRefresh(q)
          PROVE  ended' = ended
      BY <3>2 DEF CallLogout, JoinRefresh, StartRefresh
    <3>3. ASSUME NEW c \in calls, ServerStep(c) PROVE ended' = ended BY <3>3, ServerSeen
    <3>4. ASSUME NEW j, AccessExpires(j) \/ RefreshExpires(j) \/ UNCHANGED clientVars
          PROVE  ended' = ended
      BY <3>4 DEF AccessExpires, RefreshExpires, clientVars, client
    <3>q. QED BY <3>1, <3>2, <3>3, <3>4 DEF ClientNext, Answer, Ending
  <2>2. PICK q \in requests : Ending(q) BY <1>2, <2>1
  <2>3. UNCHANGED vars /\ (LogoutAnswered(q) \/ GiveUp(q)) /\ s \in Ends(q)
    BY <1>2, <2>2, EndingFacts
  <2>4. Dead(s) BY <2>3, EndsDead
  <2>q. QED BY <2>3, <2>4 DEF Dead, GoodTokens, Live, Known, vars
<1>q. QED BY <1>1, <1>2

-----------------------------------------------------------------------------
ClientInv ==
  /\ TypeOK /\ SessionInv /\ Numbered /\ LogoutDead
  /\ ClientType /\ Numbers /\ Flight /\ Owned
  /\ Fresh /\ Unused /\ Twice /\ StoredGood
  /\ Ids /\ Counting
  /\ Quiet /\ EndedDead

LEMMA ClientInvInit == ClientInit => ClientInv
<1> SUFFICES ASSUME ClientInit PROVE ClientInv
  OBVIOUS
<1>1. Init /\ requests = {} /\ presented = {} /\ minted = {} /\ ended = {} /\ lost = {}
      /\ store = 0 /\ sent = 0 /\ \A t \in Tabs : refreshing[t] = 0
  BY DEF ClientInit
<1>2. TypeOK BY <1>1, TokenBounds DEF Init, TypeOK, Known
<1>3. SessionInv BY <1>1 DEF Init, SessionInv, OneGoodToken, GoodTokens, Live, Known
<1>4. Numbered /\ LogoutDead BY <1>1 DEF Init, Numbered, LogoutDead
<1>5. ClientType
  <2>1. hasToken \in [Tabs -> BOOLEAN] /\ refreshing \in [Tabs -> Nat] BY DEF ClientInit
  <2>q. QED BY <1>1, <2>1 DEF Init, ClientType, Known
<1>6. Numbers /\ Flight /\ Owned BY <1>1 DEF Init, Numbers, Flight, Owned
<1>7. Fresh /\ Unused /\ Twice /\ StoredGood BY <1>1 DEF Fresh, Unused, Twice, StoredGood
<1>8. Ids BY <1>1 DEF Ids
<1>9. Counting
  <2>1. UntriedIds = {} BY <1>1, UntriedIs
  <2>q. QED BY <1>1, <2>1, FS_EmptySet DEF Counting
<1>10. Quiet /\ EndedDead BY <1>1 DEF Quiet, EndedDead
<1>q. QED BY <1>2, <1>3, <1>4, <1>5, <1>6, <1>7, <1>8, <1>9, <1>10 DEF ClientInv

LEMMA ClientInvStep == ClientInv /\ [ClientNext]_clientVars => ClientInv'
<1> SUFFICES ASSUME ClientInv, [ClientNext]_clientVars PROVE ClientInv'
  OBVIOUS
<1>0. /\ TypeOK /\ SessionInv /\ Numbered /\ LogoutDead
      /\ ClientType /\ Numbers /\ Flight /\ Owned
      /\ Fresh /\ Unused /\ Twice /\ StoredGood /\ Ids /\ Counting /\ Quiet /\ EndedDead
  BY DEF ClientInv
<1>1. [Next]_vars BY <1>0, ServerNext
<1>2. TypeOK' BY <1>0, <1>1, TypeStep
<1>3. SessionInv' BY <1>0, <1>1, <1>2, SessionStep
<1>4. Numbered' /\ LogoutDead' BY <1>0, <1>1, NumberedStep, LogoutDeadStep
<1>5. ClientType' BY <1>0, <1>2, ClientTypeStep
<1>6. Numbers' /\ Flight' /\ Owned' BY <1>0, NumbersStep, FlightStep, OwnedStep
<1>7. Fresh' BY <1>0, <1>2, <1>5, FreshStep
<1>8. Unused' /\ Twice' BY <1>0, UnusedStep
<1>9. StoredGood' BY <1>0, <1>5, StoredStep
<1>10. Ids' /\ Counting' BY <1>0, CountingStep
<1>11. Quiet' BY <1>0, QuietStep
<1>12. EndedDead' BY <1>0, EndedDeadStep
<1>q. QED BY <1>2, <1>3, <1>4, <1>5, <1>6, <1>7, <1>8, <1>9, <1>10, <1>11, <1>12 DEF ClientInv

LEMMA ClientInvCorrect == ClientSpec => []ClientInv
BY ClientInvInit, ClientInvStep, PTL DEF ClientSpec

\* A browser, whatever its tabs do, drives the server as AuthTokens describes it:
\* what is proved of the server above holds behind every such client.
THEOREM ClientImplements == ClientSpec => Spec
<1>1. ClientInit => Init BY DEF ClientInit
<1>2. ClientInv /\ [ClientNext]_clientVars => [Next]_vars BY ServerNext DEF ClientInv
<1>q. QED BY <1>1, <1>2, ClientInvCorrect, PTL DEF ClientSpec, Spec

\* So the server keeps its guarantees behind a browser.
THEOREM ServerBehindClient ==
  ClientSpec => SessionSpec /\ [](StaleRejected /\ OneGoodToken /\ SpentOnce /\ LogoutFinal)
BY ClientImplements, SessionImplemented, StaleRejectedCorrect, OneGoodTokenCorrect,
   SpentOnceCorrect, LogoutFinalCorrect, PTL

\* No tab presents a refresh token twice unless the answer to the first time was
\* lost, and no request causes more than one refresh.
THEOREM FrugalRefreshCorrect == ClientSpec => []FrugalRefresh
<1>1. ClientInv => FrugalRefresh
  <2> SUFFICES ASSUME ClientInv PROVE FrugalRefresh
    OBVIOUS
  <2>1. Cardinality(presented) \in Nat /\ Cardinality(UntriedIds) \in Nat
    BY FS_CardinalityType DEF ClientInv, Counting
  <2>2. sent \in Nat BY DEF ClientInv, ClientType
  <2>3. Cardinality(presented) <= sent BY <2>1, <2>2 DEF ClientInv, Counting
  <2>q. QED BY <2>3 DEF ClientInv, Twice, FrugalRefresh
<1>q. QED BY <1>1, ClientInvCorrect, PTL

\* The stored refresh token is good, unless it is past its time, being exchanged or
\* logged out, or the answer that would have replaced it was lost.
THEOREM StoredGoodCorrect == ClientSpec => []StoredGood
<1>1. ClientInv => StoredGood BY DEF ClientInv
<1>q. QED BY <1>1, ClientInvCorrect, PTL

\* A calm logout of an orderly session ends it for good.
THEOREM LogoutEndsCorrect == ClientSpec => []LogoutEnds
<1>1. ClientInv => LogoutEnds
  <2> SUFFICES ASSUME ClientInv, NEW j \in DOMAIN tokens, tokens[j].session \in ended
               PROVE  ~Live(j)
    BY DEF LogoutEnds
  <2>1. GoodTokens(tokens[j].session) = {} BY DEF ClientInv, EndedDead, Dead
  <2>q. QED BY <2>1 DEF GoodTokens, Known
<1>q. QED BY <1>1, ClientInvCorrect, PTL
=============================================================================
