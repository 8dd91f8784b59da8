--------------------------- MODULE RateLimit_proofs ---------------------------
(***************************************************************************)
(* For every limit, every window and any number of keys: the window is     *)
(* never overfull, and the Retry-After of a refusal is right.  Then, for   *)
(* any arrivals, with scripts that are late or lost: the gateway around    *)
(* the window keeps that promise, charges each window for the requests of  *)
(* its own sender, tells one story of a request, and its metrics add up.   *)
(***************************************************************************)
EXTENDS Gateway, FiniteSetTheorems, TLAPS

USE LimitAssumption, SecondAssumption

\* Rounding up: the whole seconds cover ms, and one second less does not.
LEMMA SecondsFacts ==
  ASSUME NEW ms \in Nat, ms >= 1
  PROVE  /\ Seconds(ms) \in Nat /\ Seconds(ms) >= 1
         /\ Second * Seconds(ms) >= ms
         /\ Second * (Seconds(ms) - 1) < ms
<1> DEFINE n == ms + Second - 1
           q == n \div Second
<1>1. n \in Nat /\ n >= Second OBVIOUS
<1>2. q \in Int /\ Second * q <= n /\ n < Second * (q + 1) BY <1>1
<1> QED BY <1>1, <1>2 DEF Seconds

-----------------------------------------------------------------------------
\* Nothing let through is in the future, and the key outlives each of them.
Times(k) == \A i \in DOMAIN admitted[k] :
              admitted[k][i] <= now /\ admitted[k][i] + Window <= expires[k]

\* Whoever was let through less than a window ago still has its member.
Held(k) == Recent(k) \subseteq zset[k]

Sized(k) == IsFiniteSet(zset[k]) /\ Cardinality(zset[k]) <= Limit

WindowInv == TypeOK /\ \A k \in Keys : Times(k) /\ Held(k) /\ Sized(k)

\* What the script counts is exactly what was let through within the window.
LEMMA KeptIsRecent ==
  ASSUME WindowInv, NEW k \in Keys
  PROVE  /\ Kept(k) = Recent(k) /\ Kept(k) \subseteq zset[k]
         /\ IsFiniteSet(Kept(k)) /\ Cardinality(Kept(k)) \in Nat
         /\ Cardinality(Kept(k)) <= Cardinality(zset[k])
         /\ Cardinality(Kept(k)) = Cardinality(zset[k]) => Kept(k) = zset[k]
<1>1. Kept(k) = Recent(k)
  BY DEF WindowInv, TypeOK, Times, Held, Kept, Recent, Members
<1>2. Kept(k) \subseteq zset[k] BY DEF Kept, Members
<1>3. IsFiniteSet(zset[k]) BY DEF WindowInv, Sized
<1> QED BY <1>1, <1>2, <1>3, FS_Subset, FS_CardinalityType

LEMMA InitInv == Init => WindowInv
<1> SUFFICES ASSUME Init PROVE WindowInv OBVIOUS
<1>1. TypeOK BY DEF Init, TypeOK
<1>2. ASSUME NEW k \in Keys PROVE Times(k) /\ Held(k) /\ Sized(k)
  BY FS_EmptySet DEF Init, Times, Held, Sized, Recent
<1> QED BY <1>1, <1>2 DEF WindowInv

\* The ZSET after a request was let through.
LEMMA AdmitKeeps ==
  ASSUME WindowInv, NEW k \in Keys, Admit(k)
  PROVE  WindowInv'
<1> DEFINE n == Len(admitted[k]) + 1
<1>1. n \in Nat /\ admitted'[k] = Append(admitted[k], now) /\ zset'[k] = Kept(k) \cup {n}
      /\ expires'[k] = now + Window /\ now' = now /\ told' = told
  BY DEF Admit, WindowInv, TypeOK
<1>2. \A j \in Keys \ {k} : admitted'[j] = admitted[j] /\ zset'[j] = zset[j]
                            /\ expires'[j] = expires[j]
  BY DEF Admit, WindowInv, TypeOK
<1>3. /\ DOMAIN (admitted'[k]) = DOMAIN admitted[k] \cup {n} /\ admitted'[k][n] = now
      /\ \A i \in DOMAIN admitted[k] : admitted'[k][i] = admitted[k][i] /\ i # n
  BY <1>1 DEF WindowInv, TypeOK
<1>4. TypeOK'
  <2>1. Kept(k) \subseteq zset[k] BY KeptIsRecent
  <2>2. zset' \in [Keys -> SUBSET Nat] /\ admitted' \in [Keys -> Seq(Nat)]
        /\ expires' \in [Keys -> Nat]
    BY <1>1, <2>1 DEF Admit, WindowInv, TypeOK
  <2>3. \A j \in Keys : zset'[j] \subseteq DOMAIN (admitted'[j])
    BY <1>1, <1>2, <1>3, <2>1 DEF WindowInv, TypeOK
  <2> QED BY <1>1, <2>2, <2>3 DEF WindowInv, TypeOK
<1>5. ASSUME NEW j \in Keys, j # k PROVE (Times(j) /\ Held(j) /\ Sized(j))'
  BY <1>1, <1>2, <1>5 DEF WindowInv, Times, Held, Sized, Recent
<1>6. Times(k)' BY <1>1, <1>3 DEF WindowInv, TypeOK, Times
<1>7. Held(k)'
  <2>1. Recent(k)' \subseteq Recent(k) \cup {n} BY <1>1, <1>3 DEF Recent
  <2> QED BY <1>1, <2>1, KeptIsRecent DEF Held
<1>8. Sized(k)'
  <2>1. Cardinality(Kept(k)) < Limit /\ IsFiniteSet(Kept(k)) /\ Cardinality(Kept(k)) \in Nat
    BY KeptIsRecent DEF Admit, Room
  <2>2. /\ IsFiniteSet(Kept(k) \cup {n})
        /\ Cardinality(Kept(k) \cup {n}) <= Cardinality(Kept(k)) + 1
    BY <2>1, FS_AddElement
  <2>3. Cardinality(Kept(k) \cup {n}) \in Nat BY <2>2, FS_CardinalityType
  <2> QED BY <1>1, <2>1, <2>2, <2>3 DEF Sized
<1> QED BY <1>4, <1>5, <1>6, <1>7, <1>8 DEF WindowInv

\* A refusal removes only what is out of the window.
LEMMA RefuseKeeps ==
  ASSUME WindowInv, NEW k \in Keys, Refuse(k)
  PROVE  WindowInv'
<1>1. /\ zset'[k] = Kept(k) /\ \A j \in Keys \ {k} : zset'[j] = zset[j]
      /\ now' = now /\ admitted' = admitted /\ expires' = expires
  BY DEF Refuse, WindowInv, TypeOK
<1>2. told' \subseteq Refusal
  <2>1. PICK o \in Kept(k) : told' = told \cup
            {[key |-> k, seen |-> Len(admitted[k]), at |-> now,
              wait |-> Seconds(admitted[k][o] + Window - now)]}
    BY DEF Refuse
  <2>2. o \in DOMAIN admitted[k] /\ admitted[k][o] > now - Window
    BY KeptIsRecent DEF Kept, WindowInv, TypeOK
  <2>3. admitted[k][o] + Window - now \in Nat /\ admitted[k][o] + Window - now >= 1
    BY <2>2 DEF WindowInv, TypeOK
  <2>4. Seconds(admitted[k][o] + Window - now) \in Nat BY <2>3, SecondsFacts
  <2>5. Len(admitted[k]) \in Nat /\ now \in Nat BY DEF WindowInv, TypeOK
  <2> QED BY <2>1, <2>4, <2>5 DEF WindowInv, TypeOK, Refusal
<1>3. TypeOK'
  <2>1. Kept(k) \subseteq zset[k] BY KeptIsRecent
  <2>2. zset' \in [Keys -> SUBSET Nat] BY <2>1 DEF Refuse, WindowInv, TypeOK
  <2>3. \A j \in Keys : zset'[j] \subseteq DOMAIN (admitted'[j])
    BY <1>1, <2>1 DEF WindowInv, TypeOK
  <2> QED BY <1>1, <1>2, <2>2, <2>3 DEF WindowInv, TypeOK
<1>4. ASSUME NEW j \in Keys PROVE Times(j)' BY <1>1 DEF WindowInv, Times
<1>5. ASSUME NEW j \in Keys, j # k PROVE Held(j)' /\ Sized(j)'
  BY <1>1, <1>5 DEF WindowInv, Held, Sized, Recent
<1>6. Recent(k)' = Recent(k) BY <1>1 DEF Recent
<1>7. Held(k)' BY <1>1, <1>6, KeptIsRecent DEF Held
<1>8. Sized(k)'
  <2>1. Cardinality(Kept(k)) <= Limit
    <3>1. Cardinality(zset[k]) \in Nat /\ Cardinality(zset[k]) <= Limit
      BY FS_CardinalityType DEF WindowInv, Sized
    <3> QED BY <3>1, KeptIsRecent
  <2> QED BY <1>1, <2>1, KeptIsRecent DEF Sized
<1> QED BY <1>3, <1>4, <1>5, <1>7, <1>8 DEF WindowInv

LEMMA TickKeeps ==
  ASSUME WindowInv, Tick
  PROVE  WindowInv'
<1>1. now' = now + 1 /\ now \in Nat /\ admitted' = admitted /\ zset' = zset
      /\ expires' = expires /\ told' = told
  BY DEF Tick, WindowInv, TypeOK
<1>2. TypeOK' BY <1>1 DEF WindowInv, TypeOK
<1>3. ASSUME NEW k \in Keys PROVE (Times(k) /\ Held(k) /\ Sized(k))'
  <2>1. admitted[k] \in Seq(Nat) /\ expires[k] \in Nat BY DEF WindowInv, TypeOK
  <2>2. Times(k)' BY <1>1, <2>1 DEF WindowInv, Times
  <2>3. Held(k)' BY <1>1, <2>1 DEF WindowInv, Held, Recent
  <2>4. Sized(k)' BY <1>1 DEF WindowInv, Sized
  <2> QED BY <2>2, <2>3, <2>4
<1> QED BY <1>2, <1>3 DEF WindowInv

LEMMA NextInv == WindowInv /\ [Next]_vars => WindowInv'
<1> SUFFICES ASSUME WindowInv, [Next]_vars PROVE WindowInv' OBVIOUS
<1>1. CASE UNCHANGED vars
  BY <1>1 DEF vars, WindowInv, TypeOK, Times, Held, Sized, Recent
<1>2. CASE Tick BY <1>2, TickKeeps
<1>3. CASE \E k \in Keys : Admit(k) BY <1>3, AdmitKeeps
<1>4. CASE \E k \in Keys : Refuse(k) BY <1>4, RefuseKeeps
<1> QED BY <1>1, <1>2, <1>3, <1>4 DEF Next

\* The window of every key holds at all times at most Limit requests let through.
THEOREM SlidingLimitCorrect == Spec => [](TypeOK /\ SlidingLimit)
<1>1. WindowInv => TypeOK /\ SlidingLimit
  <2> SUFFICES ASSUME WindowInv, NEW k \in Keys PROVE Cardinality(Recent(k)) <= Limit
    BY DEF WindowInv, SlidingLimit
  <2>1. Cardinality(zset[k]) \in Nat /\ Cardinality(zset[k]) <= Limit
    BY FS_CardinalityType DEF WindowInv, Sized
  <2> QED BY <2>1, KeptIsRecent
<1> QED BY <1>1, InitInv, NextInv, PTL DEF Spec

-----------------------------------------------------------------------------
\* What a refusal rested on: a full window S, the oldest request o in it, and as
\* long as nobody was let through since, o is still the first to leave.
Grounds(r, S, o) ==
  /\ S \subseteq DOMAIN admitted[r.key] /\ o \in S
  /\ IsFiniteSet(S) /\ Cardinality(S) >= Limit
  /\ \A i \in S : admitted[r.key][i] >= admitted[r.key][o]
  /\ admitted[r.key][o] <= r.at /\ r.at < admitted[r.key][o] + Window
  /\ r.wait = Seconds(admitted[r.key][o] + Window - r.at)
  /\ r.seen <= Len(admitted[r.key])
  /\ Len(admitted[r.key]) = r.seen => o \in zset[r.key]

Grounded(r) == \E S \in SUBSET Nat : \E o \in S : Grounds(r, S, o)

RefusalInv == WindowInv /\ \A r \in told : Grounded(r)

LEMMA RefuseGrounded ==
  ASSUME RefusalInv, NEW k \in Keys, Refuse(k)
  PROVE  \A r \in told' : Grounded(r)'
<1>1. WindowInv BY DEF RefusalInv
<1>2. PICK o \in Kept(k) :
        /\ \A i \in Kept(k) : admitted[k][o] <= admitted[k][i]
        /\ told' = told \cup
            {[key |-> k, seen |-> Len(admitted[k]), at |-> now,
              wait |-> Seconds(admitted[k][o] + Window - now)]}
  BY DEF Refuse
<1>3. now' = now /\ admitted' = admitted /\ zset' = [zset EXCEPT ![k] = Kept(k)] BY DEF Refuse
<1>4. zset' = zset
  <2>1. Cardinality(Kept(k)) >= Limit BY <1>1, KeptIsRecent DEF Refuse, Room
  <2>2. Cardinality(zset[k]) <= Limit /\ Cardinality(zset[k]) \in Nat
    BY <1>1, FS_CardinalityType DEF WindowInv, Sized
  <2>3. Kept(k) = zset[k] BY <1>1, <2>1, <2>2, KeptIsRecent
  <2> QED BY <1>1, <1>3, <2>3 DEF WindowInv, TypeOK
<1>5. ASSUME NEW r \in told PROVE Grounded(r)'
  BY <1>3, <1>4, <1>5 DEF RefusalInv, Grounded, Grounds
<1>10. PICK r : r = [key |-> k, seen |-> Len(admitted[k]), at |-> now,
                     wait |-> Seconds(admitted[k][o] + Window - now)]
  OBVIOUS
<1>6. Grounds(r, Kept(k), o)
  <2>1. Kept(k) = Recent(k) /\ Kept(k) \subseteq zset[k] /\ IsFiniteSet(Kept(k))
        /\ Cardinality(Kept(k)) \in Nat
    BY <1>1, KeptIsRecent
  <2>2. Cardinality(Kept(k)) >= Limit BY <2>1 DEF Refuse, Room
  <2>3. Kept(k) \subseteq DOMAIN admitted[k] BY <2>1 DEF Recent
  <2>4. admitted[k] \in Seq(Nat) /\ now \in Nat BY <1>1 DEF WindowInv, TypeOK
  <2>5. admitted[k][o] <= now /\ now < admitted[k][o] + Window
    BY <1>1, <2>1, <2>3, <2>4 DEF WindowInv, Times, Recent
  <2>6. \A i \in Kept(k) : admitted[k][i] >= admitted[k][o] BY <1>2, <2>3, <2>4
  <2> QED BY <2>1, <2>2, <2>3, <2>4, <2>5, <2>6, <1>10 DEF Grounds
<1>7. Kept(k) \in SUBSET Nat BY <1>1, KeptIsRecent DEF WindowInv, TypeOK
<1>8. Grounded(r) BY <1>6, <1>7 DEF Grounded
<1>9. Grounded(r)' BY <1>3, <1>4, <1>8 DEF Grounded, Grounds
<1>11. told' = told \cup {r} BY <1>2, <1>10
<1> QED BY <1>5, <1>9, <1>11

LEMMA AdmitGrounded ==
  ASSUME RefusalInv, NEW k \in Keys, Admit(k)
  PROVE  \A r \in told' : Grounded(r)'
<1>1. WindowInv BY DEF RefusalInv
<1>2. /\ told' = told /\ admitted' = [admitted EXCEPT ![k] = Append(@, now)]
      /\ zset' = [zset EXCEPT ![k] = Kept(k) \cup {Len(admitted[k]) + 1}]
  BY DEF Admit
<1>3. admitted \in [Keys -> Seq(Nat)] /\ now \in Nat /\ told \subseteq Refusal
      /\ zset \in [Keys -> SUBSET Nat]
  BY <1>1 DEF WindowInv, TypeOK
<1> SUFFICES ASSUME NEW r \in told PROVE Grounded(r)' BY <1>2
<1>4. r \in Refusal /\ r.key \in Keys /\ r.seen \in Nat BY <1>3 DEF Refusal
<1>0. PICK S \in SUBSET Nat : \E o \in S : Grounds(r, S, o) BY DEF RefusalInv, Grounded
<1>5. PICK o \in S : Grounds(r, S, o) BY <1>0
<1>6. CASE r.key # k
  <2>1. admitted'[r.key] = admitted[r.key] /\ zset'[r.key] = zset[r.key]
    BY <1>2, <1>3, <1>4, <1>6
  <2>2. Grounds(r, S, o)' BY <1>5, <2>1 DEF Grounds
  <2> QED BY <2>2 DEF Grounded
<1>7. CASE r.key = k
  <2>1. admitted[k] \in Seq(Nat) /\ admitted'[k] = Append(admitted[k], now)
    BY <1>2, <1>3
  <2>2. /\ Len(admitted'[k]) = Len(admitted[k]) + 1 /\ Len(admitted[k]) \in Nat
        /\ DOMAIN admitted[k] \subseteq DOMAIN (admitted'[k])
        /\ \A i \in DOMAIN admitted[k] : admitted'[k][i] = admitted[k][i]
    BY <1>3, <2>1
  <2>3. r.seen <= Len(admitted[k]) BY <1>5, <1>7 DEF Grounds
  <2>4. Len(admitted'[k]) # r.seen /\ r.seen <= Len(admitted'[k]) BY <1>4, <2>2, <2>3
  <2>5. S \subseteq DOMAIN admitted[k] BY <1>5, <1>7 DEF Grounds
  <2>6. Grounds(r, S, o)' BY <1>5, <1>7, <2>2, <2>4, <2>5 DEF Grounds
  <2> QED BY <2>6 DEF Grounded
<1> QED BY <1>6, <1>7

LEMMA RefusalStep == RefusalInv /\ [Next]_vars => RefusalInv'
<1> SUFFICES ASSUME RefusalInv, [Next]_vars PROVE RefusalInv' OBVIOUS
<1>1. WindowInv' BY NextInv DEF RefusalInv
<1>2. CASE UNCHANGED vars \/ Tick
  <2>1. told' = told /\ admitted' = admitted /\ zset' = zset BY <1>2 DEF vars, Tick
  <2>2. \A r, S, o : Grounds(r, S, o)' <=> Grounds(r, S, o) BY <2>1 DEF Grounds
  <2>3. \A r : Grounded(r)' <=> Grounded(r) BY <2>2 DEF Grounded
  <2> QED BY <1>1, <2>1, <2>3 DEF RefusalInv
<1>3. CASE \E k \in Keys : Admit(k) BY <1>1, <1>3, AdmitGrounded DEF RefusalInv
<1>4. CASE \E k \in Keys : Refuse(k) BY <1>1, <1>4, RefuseGrounded DEF RefusalInv
<1> QED BY <1>2, <1>3, <1>4 DEF Next

\* What a refusal rests on makes its Retry-After right.
LEMMA GroundsHonest ==
  ASSUME WindowInv, NEW r \in Refusal, NEW S \in SUBSET Nat, NEW o \in S, Grounds(r, S, o)
  PROVE  /\ r.wait >= 1
         /\ now >= r.at + Second * r.wait /\ Len(admitted[r.key]) = r.seen => Room(r.key)
         /\ now <= r.at + Second * (r.wait - 1) => ~Room(r.key)
<1> DEFINE k == r.key
           b == admitted[k][o]
           ms == b + Window - r.at
           soon == Second * (r.wait - 1)
           late == Second * r.wait
<1>1. k \in Keys /\ r.at \in Nat /\ r.wait \in Int /\ r.seen \in Nat BY DEF Refusal
<1>2. admitted[k] \in Seq(Nat) /\ now \in Nat /\ zset[k] \subseteq DOMAIN admitted[k]
  BY <1>1 DEF WindowInv, TypeOK
<1>3. o \in DOMAIN admitted[k] /\ b \in Nat BY <1>2 DEF Grounds
<1>4. ms \in Nat /\ ms >= 1 /\ r.wait = Seconds(ms) BY <1>1, <1>3 DEF Grounds
<1>5. r.wait \in Nat /\ r.wait >= 1 /\ late >= ms /\ soon < ms BY <1>4, SecondsFacts
<1>6. late \in Nat /\ soon \in Nat BY <1>5
<1> HIDE DEF soon, late
<1>7. ASSUME now >= r.at + late, Len(admitted[k]) = r.seen PROVE Room(k)
  <2>1. now >= b + Window
    <3> HIDE DEF b
    <3> QED BY <1>1, <1>2, <1>3, <1>5, <1>6, <1>7
  <2>2. o \in zset[k] BY <1>7 DEF Grounds
  <2>3. o \notin Kept(k) BY <1>2, <1>3, <2>1 DEF Kept
  <2>4. Kept(k) # zset[k] /\ Kept(k) \subseteq zset[k] BY <1>1, <2>2, <2>3, KeptIsRecent
  <2>5. Cardinality(zset[k]) \in Nat /\ Cardinality(zset[k]) <= Limit
    BY <1>1, FS_CardinalityType DEF WindowInv, Sized
  <2>6. Cardinality(Kept(k)) \in Nat /\ Cardinality(Kept(k)) < Cardinality(zset[k])
    BY <1>1, <2>4, <2>5, KeptIsRecent
  <2> QED BY <2>5, <2>6 DEF Room
<1>8. ASSUME now <= r.at + soon PROVE ~Room(k)
  <2>1. now < b + Window
    <3> HIDE DEF b
    <3> QED BY <1>1, <1>2, <1>3, <1>5, <1>6, <1>8
  <2>2. S \subseteq Recent(k)
    <3> SUFFICES ASSUME NEW i \in S PROVE i \in Recent(k) OBVIOUS
    <3>1. i \in DOMAIN admitted[k] /\ admitted[k][i] >= b BY DEF Grounds
    <3>2. admitted[k][i] \in Nat BY <1>2, <3>1
    <3> HIDE DEF b
    <3>3. admitted[k][i] > now - Window BY <1>2, <1>3, <2>1, <3>1, <3>2
    <3> QED BY <3>1, <3>3 DEF Recent
  <2>3. IsFiniteSet(Kept(k)) /\ S \subseteq Kept(k) BY <1>1, <2>2, KeptIsRecent
  <2>4. /\ Cardinality(S) >= Limit /\ Cardinality(S) <= Cardinality(Kept(k))
        /\ Cardinality(S) \in Nat /\ Cardinality(Kept(k)) \in Nat
    BY <2>3, FS_Subset, FS_CardinalityType DEF Grounds
  <2> QED BY <2>4 DEF Room
<1> QED BY <1>5, <1>7, <1>8 DEF soon, late

\* Every Retry-After that was ever given is right to the second.
THEOREM RetryAfterCorrect == Spec => []RetryAfterHonest
<1>1. Init => RefusalInv BY InitInv DEF RefusalInv, Init
<1>2. RefusalInv => RetryAfterHonest
  <2> SUFFICES ASSUME RefusalInv, NEW r \in told
               PROVE  /\ r.wait >= 1
                      /\ now >= r.at + Second * r.wait /\ Len(admitted[r.key]) = r.seen
                           => Room(r.key)
                      /\ now <= r.at + Second * (r.wait - 1) => ~Room(r.key)
    BY DEF RetryAfterHonest
  <2>1. WindowInv /\ Grounded(r) /\ r \in Refusal BY DEF RefusalInv, WindowInv, TypeOK
  <2>2. PICK S \in SUBSET Nat : \E o \in S : Grounds(r, S, o) BY <2>1 DEF Grounded
  <2>3. PICK o \in S : Grounds(r, S, o) BY <2>2
  <2> QED BY <2>1, <2>3, GroundsHonest
<1> QED BY <1>1, <1>2, RefusalStep, PTL DEF Spec

\* A Retry-After never asks for more than the window, rounded up: who is refused is
\* never locked out for longer than it takes the oldest request to leave.
RetryAfterBounded == \A r \in told : Second * (r.wait - 1) < Window

\* No client is told to wait longer than the window (services/rate_limit.py:75-81).
THEOREM RetryAfterBoundedCorrect == Spec => []RetryAfterBounded
<1>1. Init => RefusalInv BY InitInv DEF RefusalInv, Init
<1>2. RefusalInv => RetryAfterBounded
  <2> SUFFICES ASSUME RefusalInv, NEW r \in told PROVE Second * (r.wait - 1) < Window
    BY DEF RetryAfterBounded
  <2>1. WindowInv /\ Grounded(r) /\ r \in Refusal BY DEF RefusalInv, WindowInv, TypeOK
  <2>2. PICK S \in SUBSET Nat : \E o \in S : Grounds(r, S, o) BY <2>1 DEF Grounded
  <2>3. PICK o \in S : Grounds(r, S, o) BY <2>2
  <2> DEFINE b == admitted[r.key][o]
             ms == b + Window - r.at
  <2>4. r.key \in Keys /\ r.at \in Nat BY <2>1 DEF Refusal
  <2>5. b \in Nat BY <2>1, <2>3, <2>4 DEF Grounds, WindowInv, TypeOK
  <2>6. b <= r.at /\ r.at < b + Window /\ r.wait = Seconds(ms) BY <2>3 DEF Grounds
  <2> HIDE DEF b
  <2>7. ms \in Nat /\ ms >= 1 /\ ms <= Window BY <2>4, <2>5, <2>6
  <2>8. Seconds(ms) \in Nat /\ Second * (Seconds(ms) - 1) < ms BY <2>7, SecondsFacts
  <2> DEFINE soon == Second * (r.wait - 1)
  <2>9. soon \in Int /\ soon < ms BY <2>6, <2>8
  <2> HIDE DEF soon, ms
  <2>10. soon < Window BY <2>7, <2>9
  <2> QED BY <2>10 DEF soon
<1> QED BY <1>1, <1>2, RefusalStep, PTL DEF Spec

-----------------------------------------------------------------------------
\* The requests around the window (Gateway).
Stages == {"limit", "route", "probe", "log", "count", "answer"}
Request == [n: Nat, a: Arrivals, rid: SafeIds \cup ({"uuid4"} \X Nat), user: Users \cup {Null},
            at: Stages, verdict: {Null, "allowed", "refused", "up", "down"},
            status: Statuses \cup {Null, "raised"}]
Passage == [n: Nat, a: Arrivals, how: {"exempt", "allowed", "unjudged"}]

\* The variables of the gateway have their types; a status is set on the way out.
Served ==
  /\ reqs \subseteq Request /\ IsFiniteSet(reqs)
  /\ scripts \subseteq [n: Nat, key: Keys]
  /\ count \in Nat /\ gauge \in Int /\ counted \in [Statuses -> Int]
  /\ passed \subseteq Passage /\ IsFiniteSet(passed)
  /\ answers \subseteq [n: Nat, a: Arrivals, status: Statuses, rid: SafeIds \cup ({"uuid4"} \X Nat)]
  /\ IsFiniteSet(answers) /\ \A l \in logs : l.n \in Nat
  /\ \A r \in reqs : /\ r.at \in {"log", "count"} => r.status \in {"200", "429", "503", "raised"}
                     /\ r.at = "answer" => r.status \in Statuses

\* A number belongs to one request, and whatever carries it is its own.
Sole(S) == \A x, y \in S : x.n = y.n => x = y
Known(S) == \A x \in S : x.n <= count
Numbering ==
  /\ Sole(reqs) /\ Sole(answers) /\ Sole(scripts) /\ Sole(passed)
  /\ Known(reqs) /\ Known(answers) /\ Known(scripts) /\ Known(passed) /\ Known(logs)
  /\ \A r \in reqs, x \in answers : r.n # x.n

Labels ==
  /\ \A r \in reqs \cup answers : r.rid = resolve_request_id(r.a, r.n)
  /\ \A l \in logs, r \in reqs \cup answers : l.n = r.n => l.rid = r.rid

\* What the log says of a request: nothing on its way in, one access record on its
\* way out, and an error record as soon as it is a 500 and not before.
Access(n) == {l \in logs : l.n = n /\ l.what = "access"}
Line(x) == [n |-> x.n, what |-> "access", rid |-> x.rid, user |-> user_id(x.a),
            status |-> Shown(x.status)]
Failed(n) == \E l \in logs : l.n = n /\ l.what = "error"

Story(r) ==
  /\ r.at \notin {"count", "answer"} => Access(r.n) = {} /\ r.user = user_id(r.a)
  /\ r.at \in {"count", "answer"} => Access(r.n) = {Line(r)}
  /\ Failed(r.n) <=> r.at = "answer" /\ r.status = "500"
Ending(x) == Access(x.n) = {Line(x)} /\ (Failed(x.n) <=> x.status = "500")
Stories == (\A r \in reqs : Story(r)) /\ (\A x \in answers : Ending(x))

\* A script is on its way for a request that waits for it, or for one that was
\* passed on without it; a request that waits was not passed on.
Waits(s) ==
  \/ \E r \in reqs : r.n = s.n /\ r.at = "limit" /\ r.verdict = Null /\ Sender(r.a) = s.key
  \/ \E p \in passed : p.n = s.n /\ p.how = "unjudged" /\ Sender(p.a) = s.key
Sent ==
  /\ \A s \in scripts : Waits(s)
  /\ \A r \in reqs : r.at = "limit" => \A p \in passed : p.n # r.n
  /\ \A r \in reqs, s \in scripts : r.at = "limit" /\ r.n = s.n => r.verdict = Null

\* What fills a window: requests passed on, requests about to be, and requests
\* passed on whose script has come or was lost since.
By(k, how) == {p \in passed : Sender(p.a) = k /\ p.how = how}
Going(k) == {r \in reqs : r.at = "limit" /\ r.verdict = "allowed" /\ Sender(r.a) = k}
Spent(k) == {p \in By(k, "unjudged") : \A s \in scripts : s.n # p.n}
Charges(k) ==
  LET judged == Cardinality(By(k, "allowed")) + Cardinality(Going(k))
  IN judged <= Len(admitted[k]) /\ Len(admitted[k]) <= judged + Cardinality(Spent(k))

GatewayInv ==
  /\ WindowInv /\ Served /\ Numbering /\ Labels /\ Stories /\ Sent
  /\ CountsAgree /\ \A k \in Keys : Charges(k)

-----------------------------------------------------------------------------
\* The limiter charges the sender of a request, whatever way it took and however
\* the addresses are spelled (core/client_ip.py:45-138).
THEOREM Identity == \A a \in Arrivals : rate_limit_identity(a) = Sender(a) /\ Sender(a) \in Keys
<1> SUFFICES ASSUME NEW a \in Arrivals PROVE rate_limit_identity(a) = Sender(a)
  BY ArrivalsAssumption
<1> DEFINE c == a.client
<1>1. c \in Addresses /\ (Direct(a) \/ Proxied(a)) BY ArrivalsAssumption
<1>2. ASSUME NEW b \in Addresses, NEW s \in Spellings(b) PROVE normalize_ip(s) = b /\ b # Null
  <2>1. <<"::ffff:", b>> \in Mapped /\ <<"::ffff:", b>> \notin Addresses /\ b # Null
    BY AddressAssumption DEF Mapped
  <2> QED BY <2>1 DEF Spellings, normalize_ip
<1>3. CASE Direct(a)
  <2>1. normalize_ip(a.peer) = c /\ c # Null BY <1>1, <1>2, <1>3 DEF Direct
  <2>2. ASSUME TrustProxy, c \in Trusted PROVE single_forwarded_ip(a.forwarded) = Null
    BY <1>3, <2>2 DEF Direct, single_forwarded_ip
  <2> QED BY <2>1, <2>2 DEF rate_limit_identity, resolve_client_ip, Sender
<1>4. CASE Proxied(a)
  <2>1. PICK p \in Trusted : a.peer \in Spellings(p) BY <1>4 DEF Proxied
  <2>2. PICK s \in Spellings(c) : a.forwarded = <<s>> BY <1>4 DEF Proxied
  <2>3. normalize_ip(a.peer) = p /\ p # Null /\ p \in Trusted /\ TrustProxy
    BY <1>2, <1>4, <2>1, TrustAssumption DEF Proxied
  <2>4. single_forwarded_ip(a.forwarded) = c /\ c # Null
    BY <1>1, <1>2, <2>2 DEF single_forwarded_ip
  <2> QED BY <2>3, <2>4 DEF rate_limit_identity, resolve_client_ip, Sender
<1> QED BY <1>1, <1>3, <1>4

\* A script only judges; it does nothing to a request that waits no longer.
LEMMA TellIs ==
  ASSUME Sole(reqs), NEW s, NEW v, Tell(s, v)
  PROVE  \/ reqs' = reqs /\ \A r \in reqs : ~(r.n = s.n /\ r.at = "limit")
         \/ \E r \in reqs : /\ r.n = s.n /\ r.at = "limit"
                            /\ Replace(r, [r EXCEPT !.verdict = v])
<1> DEFINE D(r) == IF r.n = s.n /\ r.at = "limit" THEN [r EXCEPT !.verdict = v] ELSE r
<1>1. reqs' = {D(r) : r \in reqs} BY DEF Tell
<1>2. CASE \A r \in reqs : ~(r.n = s.n /\ r.at = "limit") BY <1>1, <1>2
<1>3. ASSUME NEW r \in reqs, r.n = s.n, r.at = "limit" PROVE Replace(r, [r EXCEPT !.verdict = v])
  <2>1. \A q \in reqs : q # r => D(q) = q BY <1>3 DEF Sole
  <2>2. D(r) = [r EXCEPT !.verdict = v] BY <1>3
  <2> HIDE DEF D
  <2>3. reqs' = (reqs \ {r}) \cup {D(r)} BY <1>1, <2>1
  <2> QED BY <2>2, <2>3 DEF Replace
<1> QED BY <1>2, <1>3

\* A step of a request towards its answer: x takes the place of r.
Moves(r, x) ==
  /\ x \in Request /\ x.n = r.n /\ x.a = r.a /\ x.rid = r.rid
  /\ reqs' = (reqs \ {r}) \cup {x}
  /\ UNCHANGED <<count, answers>>

ServeStep(r, x) ==
  /\ Moves(r, x) /\ vars' = vars /\ scripts' = scripts
  /\ \/ Receive(r) /\ r.verdict = "allowed" /\ x = [r EXCEPT !.at = "route"]
     \/ Receive(r) /\ r.verdict # "allowed" /\ x = [r EXCEPT !.at = "log", !.status = "429"]
     \/ FailOpen(r) /\ x = [r EXCEPT !.at = "route"]
     \/ \E o \in {"200", "raised"} : Route(r, o) /\ x = [r EXCEPT !.at = "log", !.status = o]
     \/ \E up \in {"up", "down"} : ProbeDatabase(r, up) /\ x = [r EXCEPT !.at = "probe", !.verdict = up]
     \/ \E up \in {"up", "down"}, st \in {"200", "503"} :
          ProbeRedis(r, up) /\ x = [r EXCEPT !.at = "log", !.status = st]
     \/ LogAccess(r) /\ x = [r EXCEPT !.at = "count", !.user = Null]
     \/ Count(r) /\ x = [r EXCEPT !.at = "answer", !.status = Shown(r.status)]

LEMMA ServeIs ==
  ASSUME Served, NEW r \in reqs, Serve(r)
  PROVE  Answer(r) \/ \E x : ServeStep(r, x)
<1>1. r \in Request BY DEF Served
<1> USE <1>1 DEF ServeStep, Moves, Replace
<1>2. CASE Receive(r) /\ r.verdict = "allowed"
  <2>1. [r EXCEPT !.at = "route"] \in Request BY DEF Request, Stages
  <2> QED BY <1>2, <2>1 DEF Receive, PassOn, Request
<1>3. CASE Receive(r) /\ r.verdict # "allowed"
  <2>1. [r EXCEPT !.at = "log", !.status = "429"] \in Request BY DEF Request, Stages, Statuses
  <2> QED BY <1>3, <2>1 DEF Receive, Request
<1>4. CASE FailOpen(r)
  <2>1. [r EXCEPT !.at = "route"] \in Request BY DEF Request, Stages
  <2> QED BY <1>4, <2>1 DEF FailOpen, PassOn, Request
<1>5. ASSUME NEW o \in {"200", "raised"}, Route(r, o) PROVE \E x : ServeStep(r, x)
  <2>1. [r EXCEPT !.at = "log", !.status = o] \in Request BY DEF Request, Stages, Statuses
  <2> QED BY <1>5, <2>1 DEF Route, Request
<1>6. ASSUME NEW up \in {"up", "down"}, ProbeDatabase(r, up) PROVE \E x : ServeStep(r, x)
  <2>1. [r EXCEPT !.at = "probe", !.verdict = up] \in Request BY DEF Request, Stages
  <2> QED BY <1>6, <2>1 DEF ProbeDatabase, Request
<1>7. ASSUME NEW up \in {"up", "down"}, ProbeRedis(r, up) PROVE \E x : ServeStep(r, x)
  <2>1. PICK st \in {"200", "503"} : Replace(r, [r EXCEPT !.at = "log", !.status = st])
    BY <1>7 DEF ProbeRedis
  <2>2. [r EXCEPT !.at = "log", !.status = st] \in Request BY DEF Request, Stages, Statuses
  <2> QED BY <1>7, <2>1, <2>2 DEF ProbeRedis, Request
<1>8. CASE LogAccess(r)
  <2>1. [r EXCEPT !.at = "count", !.user = Null] \in Request BY DEF Request, Stages
  <2> QED BY <1>8, <2>1 DEF LogAccess, Request
<1>9. CASE Count(r)
  <2>1. Shown(r.status) \in Statuses BY <1>9 DEF Served, Count, Shown, Statuses
  <2>2. [r EXCEPT !.at = "answer", !.status = Shown(r.status)] \in Request
    BY <2>1 DEF Request, Stages
  <2> QED BY <1>9, <2>2 DEF Count, Request
<1> QED BY <1>2, <1>3, <1>4, <1>5, <1>6, <1>7, <1>8, <1>9 DEF Serve

\* What a step may leave behind for a request: a record of its own, a passage of its own.
Marks(r) ==
  /\ scripts' \subseteq scripts
  /\ \A l \in logs' : l \in logs \/ (l.n = r.n /\ l.rid = r.rid)
  /\ \/ passed' = passed
     \/ \E p \in Passage : /\ p.n = r.n /\ passed' = passed \cup {p}
                           /\ \A q \in passed : q.n # r.n

LEMMA ServeMarks ==
  ASSUME Served, Sent, NEW r \in reqs, NEW x, ServeStep(r, x)
  PROVE  Marks(r)
<1>1. r \in Request /\ r.n \in Nat /\ r.a \in Arrivals BY DEF Served, Request
<1>2. scripts' = scripts BY DEF ServeStep
<1>3. ASSUME NEW how \in {"exempt", "allowed", "unjudged"}, r.at = "limit", PassOn(r, how)
      PROVE  \E p \in Passage : /\ p.n = r.n /\ passed' = passed \cup {p}
                                /\ \A q \in passed : q.n # r.n
  <2>1. [n |-> r.n, a |-> r.a, how |-> how] \in Passage BY <1>1 DEF Passage
  <2>2. \A q \in passed : q.n # r.n BY <1>3 DEF Sent
  <2> QED BY <1>3, <2>1, <2>2 DEF PassOn
<1>4. \A what, user, status : Log(r, what, user, status) =>
        \A l \in logs' : l \in logs \/ (l.n = r.n /\ l.rid = r.rid)
  BY DEF Log
<1>5. CASE Receive(r) /\ r.verdict = "allowed" BY <1>2, <1>3, <1>5 DEF Receive, Marks
<1>6. CASE Receive(r) /\ r.verdict # "allowed" BY <1>2, <1>6 DEF Receive, Marks
<1>7. CASE FailOpen(r) BY <1>2, <1>3, <1>4, <1>7 DEF FailOpen, Marks
<1>8. CASE \E o \in {"200", "raised"} : Route(r, o) BY <1>2, <1>8 DEF Route, Marks
<1>9. CASE \E up \in {"up", "down"} : ProbeDatabase(r, up) \/ ProbeRedis(r, up)
  BY <1>2, <1>9 DEF ProbeDatabase, ProbeRedis, Marks
<1>10. CASE LogAccess(r) BY <1>2, <1>4, <1>10 DEF LogAccess, Marks
<1>11. CASE Count(r)
  <2>1. passed' = passed BY <1>11 DEF Count
  <2>2. \A l \in logs' : l \in logs \/ (l.n = r.n /\ l.rid = r.rid)
    BY <1>4, <1>11 DEF Count
  <2> QED BY <1>2, <2>1, <2>2 DEF Marks
<1> QED BY <1>5, <1>6, <1>7, <1>8, <1>9, <1>10, <1>11 DEF ServeStep

LEMMA MovesFinite ==
  ASSUME Served, NEW r, NEW x, Moves(r, x) 
  PROVE  reqs' \subseteq Request /\ IsFiniteSet(reqs')
<1>1. IsFiniteSet(reqs \ {r}) BY FS_RemoveElement DEF Served
<1>2. IsFiniteSet((reqs \ {r}) \cup {x}) BY <1>1, FS_AddElement
<1> QED BY <1>2 DEF Served, Moves

LEMMA MarksPassed ==
  ASSUME Served, NEW r \in reqs, Marks(r)
  PROVE  passed' \subseteq Passage /\ IsFiniteSet(passed') /\ scripts' \subseteq [n: Nat, key: Keys]
<1>1. \A p : IsFiniteSet(passed \cup {p}) BY FS_AddElement DEF Served
<1> QED BY <1>1 DEF Served, Marks

LEMMA MovesNumbering ==
  ASSUME Numbering, NEW r \in reqs, NEW x, Moves(r, x), Marks(r)
  PROVE  Numbering'
<1>1. /\ x.n = r.n /\ reqs' = (reqs \ {r}) \cup {x} /\ count' = count /\ answers' = answers
      /\ scripts' \subseteq scripts
  BY DEF Moves, Marks
<1>2. Sole(reqs)' BY <1>1 DEF Numbering, Sole
<1>3. Sole(answers)' /\ Sole(scripts)' BY <1>1 DEF Numbering, Sole
<1>4. Sole(passed)' /\ Known(passed)' BY <1>1 DEF Numbering, Sole, Known, Marks
<1>5. Known(reqs)' /\ Known(answers)' /\ Known(scripts)' BY <1>1 DEF Numbering, Known
<1>6. Known(logs)' BY <1>1 DEF Numbering, Known, Marks
<1>7. \A q \in reqs', y \in answers' : q.n # y.n BY <1>1 DEF Numbering
<1> QED BY <1>2, <1>3, <1>4, <1>5, <1>6, <1>7 DEF Numbering

LEMMA MovesLabels ==
  ASSUME Numbering, Labels, NEW r \in reqs, NEW x, Moves(r, x), Marks(r)
  PROVE  Labels'
<1>1. /\ x.n = r.n /\ x.a = r.a /\ x.rid = r.rid /\ reqs' = (reqs \ {r}) \cup {x}
      /\ answers' = answers
  BY DEF Moves
<1>2. \A q \in reqs' \cup answers' : q.rid = resolve_request_id(q.a, q.n) BY <1>1 DEF Labels
<1>3. ASSUME NEW l \in logs', NEW q \in reqs' \cup answers', l.n = q.n PROVE l.rid = q.rid
  <2>1. CASE q = x
    <3>1. l \in logs => l.rid = r.rid BY <1>1, <1>3, <2>1 DEF Labels
    <3> QED BY <1>1, <2>1, <3>1 DEF Marks
  <2>2. CASE q \in (reqs \ {r}) \cup answers
    <3>1. q.n # r.n BY <2>2 DEF Numbering, Sole
    <3>2. l \in logs BY <1>3, <3>1 DEF Marks
    <3> QED BY <1>3, <2>2, <3>2 DEF Labels
  <2> QED BY <1>1, <2>1, <2>2
<1> QED BY <1>2, <1>3 DEF Labels

\* The counters: a step changes them only when it counts.
LEMMA ServeServed ==
  ASSUME Served, Sent, NEW r \in reqs, NEW x, ServeStep(r, x)
  PROVE  Served'
<1>1. Moves(r, x) /\ Marks(r) BY ServeMarks DEF ServeStep
<1>2. reqs' = (reqs \ {r}) \cup {x} /\ r \in Request BY <1>1 DEF Moves, Served
<1>3. count' = count /\ answers' = answers BY <1>1 DEF Moves
<1>4. gauge' \in Int /\ counted' \in [Statuses -> Int]
  <2>1. CASE Count(r)
    <3>1. Shown(r.status) \in Statuses BY <2>1 DEF Served, Count, Shown, Statuses
    <3> QED BY <2>1, <3>1 DEF Count, Served
  <2>2. CASE ~Count(r)
    <3>1. gauge' = gauge /\ counted' = counted
      BY <2>2 DEF ServeStep, Receive, FailOpen, Route, ProbeDatabase, ProbeRedis, LogAccess
    <3> QED BY <3>1 DEF Served
  <2> QED BY <2>1, <2>2
<1>5. /\ x.at \in {"log", "count"} => x.status \in {"200", "429", "503", "raised"}
      /\ x.at = "answer" => x.status \in Statuses
  <2>0. r = [n |-> r.n, a |-> r.a, rid |-> r.rid, user |-> r.user, at |-> r.at,
             verdict |-> r.verdict, status |-> r.status]
    BY <1>2 DEF Request
  <2>1. CASE Receive(r) /\ x = [r EXCEPT !.at = "route"] BY <2>0, <2>1
  <2>2. CASE Receive(r) /\ x = [r EXCEPT !.at = "log", !.status = "429"] BY <2>0, <2>2
  <2>3. CASE FailOpen(r) /\ x = [r EXCEPT !.at = "route"] BY <2>0, <2>3
  <2>4. CASE \E o \in {"200", "raised"} : x = [r EXCEPT !.at = "log", !.status = o]
    BY <2>0, <2>4
  <2>5. CASE \E up \in {"up", "down"} : x = [r EXCEPT !.at = "probe", !.verdict = up]
    BY <2>0, <2>5
  <2>6. CASE \E st \in {"200", "503"} : x = [r EXCEPT !.at = "log", !.status = st]
    BY <2>0, <2>6
  <2>7. CASE LogAccess(r) /\ x = [r EXCEPT !.at = "count", !.user = Null]
    <3>1. r.status \in {"200", "429", "503", "raised"} BY <2>7 DEF LogAccess, Served
    <3> QED BY <2>0, <2>7, <3>1
  <2>8. CASE Count(r) /\ x = [r EXCEPT !.at = "answer", !.status = Shown(r.status)]
    <3>1. Shown(r.status) \in Statuses BY <2>8 DEF Served, Count, Shown, Statuses
    <3> QED BY <2>0, <2>8, <3>1
  <2> QED BY <2>1, <2>2, <2>3, <2>4, <2>5, <2>6, <2>7, <2>8 DEF ServeStep
<1>6. reqs' \subseteq Request /\ IsFiniteSet(reqs') BY <1>1, MovesFinite
<1>7. passed' \subseteq Passage /\ IsFiniteSet(passed') /\ scripts' \subseteq [n: Nat, key: Keys]
  BY <1>1, MarksPassed
<1>8. \A q \in reqs' : /\ q.at \in {"log", "count"} => q.status \in {"200", "429", "503", "raised"}
                       /\ q.at = "answer" => q.status \in Statuses
  BY <1>2, <1>5 DEF Served
<1>9. \A l \in logs' : l.n \in Nat BY <1>1, <1>2 DEF Served, Marks, Request
<1> QED BY <1>3, <1>4, <1>6, <1>7, <1>8, <1>9 DEF Served

\* What comes in with a: a request r, on its way to Redis or to the router.
Enters(a, r) ==
  /\ r.n = count + 1 /\ r.a = a /\ r.rid = resolve_request_id(a, r.n)
  /\ r.user = user_id(a) /\ r.verdict = Null /\ r.status = Null
  /\ r.at \in {"limit", "route"}
  /\ reqs' = reqs \cup {r}
  /\ \/ /\ r.at = "limit" /\ a.path = "api" /\ passed' = passed
        /\ scripts' = scripts \cup {[n |-> r.n, key |-> Sender(a)]}
     \/ /\ r.at = "route" /\ scripts' = scripts
        /\ passed' = passed \cup {[n |-> r.n, a |-> a, how |-> "exempt"]}

\* The number of a request that comes in is new.
LEMMA ArriveIs ==
  ASSUME Served, Numbering, NEW a \in Arrivals, Arrive(a)
  PROVE  \E r \in Request : Enters(a, r)
<1> DEFINE n == count + 1
           r == [n |-> n, a |-> a, rid |-> resolve_request_id(a, n), user |-> user_id(a),
                 at |-> IF a.path = "api" THEN "limit" ELSE "route",
                 verdict |-> Null, status |-> Null]
<1>1. n \in Nat BY DEF Served
<1>2. resolve_request_id(a, n) \in SafeIds \cup ({"uuid4"} \X Nat)
  BY <1>1 DEF resolve_request_id
<1>3. user_id(a) \in Users \cup {Null} BY DEF user_id
<1>4. r \in Request BY <1>1, <1>2, <1>3 DEF Request, Stages
<1>5. rate_limit_identity(a) = Sender(a) BY Identity
<1> QED BY <1>4, <1>5 DEF Arrive, Enters

LEMMA ArriveServed ==
  ASSUME Served, Numbering, NEW a \in Arrivals, Arrive(a)
  PROVE  Served'
<1>1. PICK r \in Request : Enters(a, r) BY ArriveIs
<1> USE <1>1 DEF Enters
<1>2. r.n \in Nat BY <1>1 DEF Request
<1>3. reqs' \subseteq Request /\ IsFiniteSet(reqs') BY <1>1, FS_AddElement DEF Served
<1>4. scripts' \subseteq [n: Nat, key: Keys]
  <2>1. [n |-> r.n, key |-> Sender(a)] \in [n: Nat, key: Keys] BY <1>2, Identity
  <2> QED BY <1>1, <2>1 DEF Served
<1>5. passed' \subseteq Passage /\ IsFiniteSet(passed')
  <2>1. [n |-> r.n, a |-> a, how |-> "exempt"] \in Passage BY <1>2 DEF Passage
  <2>2. \A p : IsFiniteSet(passed \cup {p}) BY FS_AddElement DEF Served
  <2> QED BY <1>1, <2>1, <2>2 DEF Served
<1>6. /\ count' \in Nat /\ gauge' \in Int /\ counted' = counted /\ answers' = answers
      /\ logs' = logs
  BY DEF Arrive, Served
<1>7. \A q \in reqs' : /\ q.at \in {"log", "count"} => q.status \in {"200", "429", "503", "raised"}
                       /\ q.at = "answer" => q.status \in Statuses
  BY <1>1 DEF Served
<1> QED BY <1>3, <1>4, <1>5, <1>6, <1>7 DEF Served

LEMMA ArriveNumbering ==
  ASSUME Served, Numbering, Labels, NEW a \in Arrivals, Arrive(a)
  PROVE  Numbering' /\ Labels'
<1>1. PICK r \in Request : Enters(a, r) BY ArriveIs
<1> USE <1>1 DEF Enters
<1>2. count' = count + 1 /\ logs' = logs /\ answers' = answers BY DEF Arrive
<1>3. count \in Nat /\ r.n = count + 1 BY <1>1 DEF Served
<1>4. /\ \A x \in reqs \cup answers \cup scripts \cup passed : x.n \in Nat /\ x.n <= count /\ x.n # r.n
      /\ \A l \in logs : l.n \in Nat /\ l.n <= count /\ l.n # r.n
  BY <1>3 DEF Served, Numbering, Known, Request, Passage
<1>5. Sole(reqs)' /\ Sole(answers)' BY <1>1, <1>2, <1>4 DEF Numbering, Sole
<1>6. Sole(scripts)' /\ Sole(passed)' BY <1>1, <1>4 DEF Numbering, Sole
<1>7. /\ \A x \in reqs' \cup answers' : x.n <= count'
      /\ \A x \in scripts' : x.n <= count'
      /\ \A x \in passed' : x.n <= count'
  BY <1>1, <1>2, <1>3, <1>4
<1>8. Known(logs)' BY <1>2, <1>3, <1>4 DEF Known
<1>9. \A q \in reqs', x \in answers' : q.n # x.n BY <1>1, <1>2, <1>4 DEF Numbering
<1>10. \A q \in reqs' \cup answers' : q.rid = resolve_request_id(q.a, q.n)
  BY <1>1, <1>2 DEF Labels
<1>11. \A l \in logs', q \in reqs' \cup answers' : l.n = q.n => l.rid = q.rid
  <2> SUFFICES ASSUME NEW l \in logs, NEW q \in (reqs \cup {r}) \cup answers, l.n = q.n
               PROVE  l.rid = q.rid
    BY <1>1, <1>2
  <2>1. q # r BY <1>4
  <2> QED BY <2>1 DEF Labels
<1> QED BY <1>5, <1>6, <1>7, <1>8, <1>9, <1>10, <1>11 DEF Numbering, Labels, Known

LEMMA AnswerCore ==
  ASSUME Served, Numbering, Labels, NEW r \in reqs, Answer(r)
  PROVE  Served' /\ Numbering' /\ Labels'
<1> DEFINE x == [n |-> r.n, a |-> r.a, status |-> r.status, rid |-> r.rid]
<1>1. /\ reqs' = reqs \ {r} /\ answers' = answers \cup {x} /\ scripts' = scripts
      /\ count' = count /\ gauge' = gauge /\ counted' = counted /\ logs' = logs
      /\ passed' = passed /\ r.at = "answer"
  BY DEF Answer
<1>2. r \in Request /\ r.status \in Statuses BY <1>1 DEF Served
<1>3. x \in [n: Nat, a: Arrivals, status: Statuses, rid: SafeIds \cup ({"uuid4"} \X Nat)]
  BY <1>2 DEF Request
<1>4. IsFiniteSet(reqs \ {r}) /\ IsFiniteSet(answers \cup {x})
  BY FS_RemoveElement, FS_AddElement DEF Served
<1>5. x.n = r.n /\ x.a = r.a /\ x.rid = r.rid OBVIOUS
<1> HIDE DEF x
<1>6. Served' BY <1>1, <1>3, <1>4 DEF Served
<1>7. Numbering'
  <2>1. Sole(reqs)' /\ Sole(scripts)' /\ Sole(passed)' BY <1>1 DEF Numbering, Sole
  <2>2. Sole(answers)' BY <1>1, <1>5 DEF Numbering, Sole
  <2>3. Known(reqs)' /\ Known(answers)' /\ Known(scripts)' /\ Known(passed)' /\ Known(logs)'
    BY <1>1, <1>5 DEF Numbering, Known
  <2>4. \A q \in reqs', y \in answers' : q.n # y.n BY <1>1, <1>5 DEF Numbering, Sole
  <2> QED BY <2>1, <2>2, <2>3, <2>4 DEF Numbering
<1>8. Labels' BY <1>1, <1>5 DEF Labels
<1> QED BY <1>6, <1>7, <1>8

\* A script that runs for a request that waits changes the verdict of that request.
Judges(s, r, v) ==
  /\ r.n = s.n /\ r.at = "limit"
  /\ Moves(r, [r EXCEPT !.verdict = v]) /\ Marks(r)

Verdict(s, v) ==
  \/ reqs' = reqs /\ \A r \in reqs : ~(r.n = s.n /\ r.at = "limit")
  \/ \E r \in reqs : Judges(s, r, v)

LEMMA TellVerdict ==
  ASSUME Served, Numbering, NEW s \in scripts, RunScript(s),
         NEW v \in {"allowed", "refused"}, Tell(s, v)
  PROVE  Verdict(s, v)
<1>1. ASSUME NEW r \in reqs, r.n = s.n, r.at = "limit", Replace(r, [r EXCEPT !.verdict = v])
      PROVE  Judges(s, r, v)
  <2>1. r \in Request BY DEF Served
  <2>2. [r EXCEPT !.verdict = v] \in Request BY <2>1 DEF Request
  <2>3. /\ [r EXCEPT !.verdict = v].n = r.n /\ [r EXCEPT !.verdict = v].a = r.a
        /\ [r EXCEPT !.verdict = v].rid = r.rid
    BY <2>1 DEF Request
  <2> QED BY <1>1, <2>2, <2>3 DEF Judges, Moves, Marks, Replace, RunScript
<1> QED BY <1>1, TellIs DEF Numbering, Verdict

LEMMA ScriptIs ==
  ASSUME Served, Numbering, NEW s \in scripts, RunScript(s)
  PROVE  \/ Admit(s.key) /\ Verdict(s, "allowed")
         \/ Refuse(s.key) /\ Verdict(s, "refused")
<1>1. \/ Admit(s.key) /\ Tell(s, "allowed")
      \/ Refuse(s.key) /\ Tell(s, "refused")
  BY DEF RunScript
<1> QED BY <1>1, TellVerdict

\* Nothing happens to any request; a script may be gone.
Stays ==
  /\ scripts' \subseteq scripts /\ reqs' = reqs /\ count' = count /\ gauge' = gauge
  /\ counted' = counted /\ logs' = logs /\ passed' = passed /\ answers' = answers

LEMMA StaysCore ==
  ASSUME Served, Numbering, Labels, Stays
  PROVE  Served' /\ Numbering' /\ Labels'
<1>1. Served' BY DEF Served, Stays
<1>2. Numbering' BY DEF Numbering, Sole, Known, Stays
<1>3. Labels' BY DEF Labels, Stays
<1> QED BY <1>1, <1>2, <1>3

LEMMA ScriptCore ==
  ASSUME Served, Numbering, Labels, NEW s \in scripts, RunScript(s)
  PROVE  Served' /\ Numbering' /\ Labels'
<1>1. /\ scripts' = scripts \ {s} /\ count' = count /\ gauge' = gauge /\ counted' = counted
      /\ logs' = logs /\ passed' = passed /\ answers' = answers
  BY DEF RunScript
<1>2. CASE reqs' = reqs BY <1>1, <1>2, StaysCore DEF Stays
<1>3. ASSUME NEW v \in {"allowed", "refused"}, NEW r \in reqs, Judges(s, r, v)
      PROVE  Served' /\ Numbering' /\ Labels'
  <2> DEFINE x == [r EXCEPT !.verdict = v]
  <2>1. r \in Request BY DEF Served
  <2>2. x.at = r.at /\ x.status = r.status BY <2>1 DEF Request
  <2>3. Moves(r, x) /\ Marks(r) BY <1>3 DEF Judges
  <2> HIDE DEF x
  <2>4. reqs' \subseteq Request /\ IsFiniteSet(reqs') BY <2>3, MovesFinite
  <2>5. \A q \in reqs' :
          /\ q.at \in {"log", "count"} => q.status \in {"200", "429", "503", "raised"}
          /\ q.at = "answer" => q.status \in Statuses
    BY <2>2, <2>3 DEF Moves, Served
  <2>6. Served' BY <1>1, <2>4, <2>5 DEF Served
  <2> QED BY <2>3, <2>6, MovesNumbering, MovesLabels
<1> QED BY <1>2, <1>3, ScriptIs DEF Verdict

-----------------------------------------------------------------------------
\* The log of a request that does nothing in a step stays as it is.
LEMMA OthersStory ==
  ASSUME NEW n, \A l \in logs' : l \in logs \/ l.n # n, logs \subseteq logs'
  PROVE  Access(n)' = Access(n) /\ Failed(n)' = Failed(n)
BY DEF Access, Failed

LEMMA LogGrows ==
  ASSUME NEW r, NEW what, NEW user, NEW status, Log(r, what, user, status)
  PROVE  /\ what # "access" => Access(r.n)' = Access(r.n)
         /\ what = "access" => Access(r.n)' = Access(r.n) \cup
              {[n |-> r.n, what |-> "access", rid |-> r.rid, user |-> user, status |-> status]}
         /\ what # "error" => Failed(r.n)' = Failed(r.n)
         /\ what = "error" => Failed(r.n)'
<1> DEFINE l == [n |-> r.n, what |-> what, rid |-> r.rid, user |-> user, status |-> status]
<1>1. logs' = logs \cup {l} /\ l.n = r.n /\ l.what = what BY DEF Log
<1>2. what = "access" =>
        l = [n |-> r.n, what |-> "access", rid |-> r.rid, user |-> user, status |-> status]
  OBVIOUS
<1> HIDE DEF l
<1> QED BY <1>1, <1>2 DEF Access, Failed

LEMMA ServeStory ==
  ASSUME Served, Stories, NEW r \in reqs, NEW x, ServeStep(r, x)
  PROVE  Story(x)'
<1>1. r \in Request /\ Story(r) BY DEF Served, Stories
<1>2. r = [n |-> r.n, a |-> r.a, rid |-> r.rid, user |-> r.user, at |-> r.at,
           verdict |-> r.verdict, status |-> r.status]
  BY <1>1 DEF Request
<1>3. CASE logs' = logs /\ x.user = r.user /\ x.n = r.n /\ x.a = r.a
           /\ r.at \notin {"count", "answer"} /\ x.at \notin {"count", "answer"}
  <2>1. Access(x.n)' = Access(r.n) /\ Failed(x.n)' = Failed(r.n) BY <1>3 DEF Access, Failed
  <2> QED BY <1>1, <1>3, <2>1 DEF Story
<1>4. CASE Receive(r) /\ r.verdict = "allowed" /\ x = [r EXCEPT !.at = "route"]
  <2>1. logs' = logs /\ r.at = "limit" BY <1>4 DEF Receive
  <2> QED BY <1>2, <1>3, <1>4, <2>1
<1>5. CASE Receive(r) /\ x = [r EXCEPT !.at = "log", !.status = "429"]
  <2>1. logs' = logs /\ r.at = "limit" BY <1>5 DEF Receive
  <2> QED BY <1>2, <1>3, <1>5, <2>1
<1>6. CASE FailOpen(r) /\ x = [r EXCEPT !.at = "route"]
  <2>1. r.at = "limit" /\ Log(r, "warning", r.user, Null) BY <1>6 DEF FailOpen
  <2>2. Access(r.n)' = Access(r.n) /\ Failed(r.n)' = Failed(r.n) BY <2>1, LogGrows
  <2>3. x.n = r.n /\ x.at = "route" /\ x.user = r.user /\ x.a = r.a BY <1>2, <1>6
  <2> QED BY <1>1, <2>1, <2>2, <2>3 DEF Story, Access, Failed
<1>7. ASSUME NEW o, Route(r, o), x = [r EXCEPT !.at = "log", !.status = o] PROVE Story(x)'
  <2>1. logs' = logs /\ r.at = "route" BY <1>7 DEF Route
  <2> QED BY <1>2, <1>3, <1>7, <2>1
<1>8. ASSUME NEW up, ProbeDatabase(r, up), x = [r EXCEPT !.at = "probe", !.verdict = up]
      PROVE  Story(x)'
  <2>1. logs' = logs /\ r.at = "route" BY <1>8 DEF ProbeDatabase
  <2> QED BY <1>2, <1>3, <1>8, <2>1
<1>9. ASSUME NEW up, NEW st, ProbeRedis(r, up), x = [r EXCEPT !.at = "log", !.status = st]
      PROVE  Story(x)'
  <2>1. logs' = logs /\ r.at = "probe" BY <1>9 DEF ProbeRedis
  <2> QED BY <1>2, <1>3, <1>9, <2>1
<1>10. CASE LogAccess(r) /\ x = [r EXCEPT !.at = "count", !.user = Null]
  <2>1. r.at = "log" /\ Log(r, "access", r.user, Shown(r.status)) BY <1>10 DEF LogAccess
  <2>2. Access(r.n) = {} /\ r.user = user_id(r.a) /\ ~Failed(r.n) BY <1>1, <2>1 DEF Story
  <2>3. /\ x.n = r.n /\ x.at = "count" /\ x.a = r.a /\ x.rid = r.rid /\ x.status = r.status
    BY <1>2, <1>10
  <2>4. Access(r.n)' = {Line(x)} /\ Failed(r.n)' = Failed(r.n)
    BY <2>1, <2>2, <2>3, LogGrows DEF Line
  <2> QED BY <2>2, <2>3, <2>4 DEF Story, Access, Failed
<1>11. CASE Count(r) /\ x = [r EXCEPT !.at = "answer", !.status = Shown(r.status)]
  <2>1. r.at = "count" /\ (IF r.status = "raised" THEN Log(r, "error", r.user, "500")
                                                  ELSE logs' = logs)
    BY <1>11 DEF Count
  <2>2. Access(r.n) = {Line(r)} /\ ~Failed(r.n) BY <1>1, <2>1 DEF Story
  <2>3. /\ x.n = r.n /\ x.at = "answer" /\ x.a = r.a /\ x.rid = r.rid
        /\ x.status = Shown(r.status)
    BY <1>2, <1>11
  <2>4. Line(x) = Line(r) BY <2>3 DEF Line, Shown
  <2>5. Access(r.n)' = Access(r.n) BY <2>1, LogGrows DEF Access
  <2>6. Failed(r.n)' <=> r.status = "raised" BY <2>1, <2>2, LogGrows DEF Failed
  <2>7. r.status \in {"200", "429", "503", "raised"} BY <2>1 DEF Served
  <2>8. Failed(x.n)' <=> x.status = "500" BY <2>3, <2>6, <2>7 DEF Shown, Failed
  <2> QED BY <2>2, <2>3, <2>4, <2>5, <2>8 DEF Story, Access, Failed
<1> QED BY <1>4, <1>5, <1>6, <1>7, <1>8, <1>9, <1>10, <1>11 DEF ServeStep

LEMMA ServeStories ==
  ASSUME Served, Numbering, Sent, Stories, NEW r \in reqs, NEW x, ServeStep(r, x)
  PROVE  Stories'
<1>1. /\ reqs' = (reqs \ {r}) \cup {x} /\ answers' = answers /\ Story(x)'
  BY ServeStory DEF ServeStep, Moves
<1>2. Marks(r) BY ServeMarks
<1>3. logs \subseteq logs'
  BY DEF ServeStep, Receive, FailOpen, Route, ProbeDatabase, ProbeRedis, LogAccess, Count, Log
<1>4. ASSUME NEW n, n # r.n PROVE Access(n)' = Access(n) /\ Failed(n)' = Failed(n)
  BY <1>2, <1>3, <1>4, OthersStory DEF Marks
<1>5. ASSUME NEW q \in reqs, q # r PROVE Story(q)'
  <2>1. q.n # r.n BY <1>5 DEF Numbering, Sole
  <2>2. Access(q.n)' = Access(q.n) /\ Failed(q.n)' = Failed(q.n) BY <1>4, <2>1
  <2> QED BY <2>2 DEF Stories, Story, Access, Failed
<1>6. ASSUME NEW y \in answers PROVE Ending(y)'
  <2>1. y.n # r.n BY DEF Numbering
  <2>2. Access(y.n)' = Access(y.n) /\ Failed(y.n)' = Failed(y.n) BY <1>4, <2>1
  <2> QED BY <2>2 DEF Stories, Ending, Access, Failed
<1> QED BY <1>1, <1>5, <1>6 DEF Stories

LEMMA ArriveStories ==
  ASSUME Served, Numbering, Stories, NEW a \in Arrivals, Arrive(a)
  PROVE  Stories'
<1>1. PICK r \in Request : Enters(a, r) BY ArriveIs
<1>2. logs' = logs /\ answers' = answers /\ reqs' = reqs \cup {r} BY <1>1 DEF Arrive, Enters
<1>3. \A n : Access(n)' = Access(n) /\ Failed(n)' = Failed(n) BY <1>2 DEF Access, Failed
<1>4. \A l \in logs : l.n # r.n
  <2>1. \A l \in logs : l.n \in Nat /\ l.n <= count BY DEF Served, Numbering, Known
  <2>2. r.n = count + 1 /\ count \in Nat BY <1>1 DEF Enters, Served
  <2> QED BY <2>1, <2>2
<1>5. Story(r)'
  <2>1. Access(r.n) = {} /\ ~Failed(r.n) BY <1>4 DEF Access, Failed
  <2> QED BY <1>1, <1>2, <2>1 DEF Story, Access, Failed, Enters
<1>6. \A q \in reqs : Story(q)' BY <1>2 DEF Stories, Story, Access, Failed
<1>7. \A x \in answers : Ending(x)' BY <1>2 DEF Stories, Ending, Access, Failed
<1> QED BY <1>2, <1>5, <1>6, <1>7 DEF Stories

LEMMA AnswerStories ==
  ASSUME Served, Stories, NEW r \in reqs, Answer(r)
  PROVE  Stories'
<1> DEFINE x == [n |-> r.n, a |-> r.a, status |-> r.status, rid |-> r.rid]
<1>1. /\ reqs' = reqs \ {r} /\ answers' = answers \cup {x} /\ logs' = logs
      /\ r.at = "answer"
  BY DEF Answer
<1>2. Access(r.n) = {Line(r)} /\ (Failed(r.n) <=> r.status = "500") BY <1>1 DEF Stories, Story
<1>3. x.n = r.n /\ x.status = r.status /\ Line(x) = Line(r) BY DEF Line
<1> HIDE DEF x
<1>4. Ending(x)' BY <1>1, <1>2, <1>3 DEF Ending, Access, Failed
<1>5. \A q \in reqs : Story(q)' BY <1>1 DEF Stories, Story, Access, Failed
<1>6. \A y \in answers : Ending(y)' BY <1>1 DEF Stories, Ending, Access, Failed
<1> QED BY <1>1, <1>4, <1>5, <1>6 DEF Stories

LEMMA ScriptStories ==
  ASSUME Served, Numbering, Stories, NEW s \in scripts, RunScript(s)
  PROVE  Stories'
<1>1. logs' = logs /\ answers' = answers BY DEF RunScript
<1>2. /\ \A q \in reqs : Story(q)'
      /\ \A y \in answers : Ending(y)'
  BY <1>1 DEF Stories, Story, Ending, Access, Failed
<1>3. ASSUME NEW v, NEW r \in reqs, Judges(s, r, v) PROVE Stories'
  <2> DEFINE x == [r EXCEPT !.verdict = v]
  <2>1. r \in Request BY DEF Served
  <2>2. /\ x.at = r.at /\ x.status = r.status /\ x.n = r.n /\ x.a = r.a /\ x.rid = r.rid
        /\ x.user = r.user /\ r.at = "limit"
    BY <1>3, <2>1 DEF Request, Judges
  <2>3. reqs' = (reqs \ {r}) \cup {x} BY <1>3 DEF Judges, Moves
  <2> HIDE DEF x
  <2>4. Story(x)' BY <1>1, <1>2, <2>2 DEF Story, Access, Failed
  <2> QED BY <1>1, <1>2, <2>3, <2>4 DEF Stories
<1> QED BY <1>1, <1>2, <1>3, ScriptIs DEF Stories, Verdict

LEMMA StaysStories ==
  ASSUME Stories, Stays
  PROVE  Stories'
BY DEF Stories, Story, Ending, Access, Failed, Stays

\* What the stories say of the answers is what was promised.
LEMMA StoriesTold ==
  ASSUME Served, Numbering, Labels, Stories
  PROVE  OneStory
<1>1. ASSUME NEW x \in answers
      PROVE  LET records(what) == {l \in logs : l.n = x.n /\ l.what = what}
             IN /\ Cardinality(records("access")) = 1
                /\ \A l \in records("access") : l.status = x.status /\ l.user = user_id(x.a)
                /\ records("error") # {} <=> x.status = "500"
  <2> DEFINE records(what) == {l \in logs : l.n = x.n /\ l.what = what}
  <2>1. records("access") = {Line(x)} /\ (records("error") # {} <=> x.status = "500")
    BY DEF Stories, Ending, Access, Failed
  <2>2. Cardinality({Line(x)}) = 1 BY FS_Singleton
  <2>3. x.status \in Statuses BY DEF Served
  <2>4. Line(x).status = x.status /\ Line(x).user = user_id(x.a)
    BY <2>3 DEF Line, Shown, Statuses
  <2> QED BY <2>1, <2>2, <2>4
<1>2. ASSUME NEW x \in answers, NEW y \in answers, x.rid = y.rid, x # y PROVE x.rid \in SafeIds
  <2>1. /\ x.rid = resolve_request_id(x.a, x.n) /\ y.rid = resolve_request_id(y.a, y.n)
        /\ x.n # y.n
    BY <1>2 DEF Labels, Numbering, Sole
  <2>2. ASSUME x.rid \notin SafeIds
        PROVE  x.rid = <<"uuid4", x.n>> /\ y.rid = <<"uuid4", y.n>>
    BY <1>2, <2>1, <2>2 DEF resolve_request_id
  <2>3. <<"uuid4", x.n>> # <<"uuid4", y.n>> BY <2>1
  <2> QED BY <1>2, <2>2, <2>3
<1> QED BY <1>1, <1>2 DEF OneStory, Labels

-----------------------------------------------------------------------------
\* A script has its request, waiting or passed on without it.
LEMMA ServeSent ==
  ASSUME Served, Numbering, Sent, NEW r \in reqs, NEW x, ServeStep(r, x)
  PROVE  Sent'
<1>1. /\ reqs' = (reqs \ {r}) \cup {x} /\ x.n = r.n /\ x.a = r.a /\ scripts' = scripts
      /\ r \in Request
  BY DEF ServeStep, Moves, Served
<1>2. Marks(r) BY ServeMarks
<1>3. x.at # "limit"
  <2>1. r = [n |-> r.n, a |-> r.a, rid |-> r.rid, user |-> r.user, at |-> r.at,
             verdict |-> r.verdict, status |-> r.status]
    BY <1>1 DEF Request
  <2> QED BY <2>1 DEF ServeStep
<1>4. passed \subseteq passed' BY <1>2 DEF Marks
<1>5. ASSUME NEW s \in scripts PROVE Waits(s)'
  <2>1. CASE \E p \in passed : p.n = s.n /\ p.how = "unjudged" /\ Sender(p.a) = s.key
    BY <1>4, <2>1 DEF Waits
  <2>2. ASSUME NEW q \in reqs, q.n = s.n, q.at = "limit", q.verdict = Null, Sender(q.a) = s.key
        PROVE  Waits(s)'
    <3>1. CASE q # r BY <1>1, <2>2, <3>1 DEF Waits
    <3>2. CASE q = r
      <4>1. FailOpen(r)
        BY <2>2, <3>2 DEF ServeStep, Receive, Route, ProbeDatabase, ProbeRedis, LogAccess, Count
      <4>2. [n |-> r.n, a |-> r.a, how |-> "unjudged"] \in passed' BY <4>1 DEF FailOpen, PassOn
      <4>3. \E p \in passed' : p.n = r.n /\ p.how = "unjudged" /\ p.a = r.a BY <4>2
      <4> QED BY <2>2, <3>2, <4>3 DEF Waits
    <3> QED BY <3>1, <3>2
  <2> QED BY <2>1, <2>2 DEF Sent, Waits
<1>6. ASSUME NEW q \in reqs', q.at = "limit" PROVE \A p \in passed' : p.n # q.n
  <2>1. q \in reqs /\ q # r BY <1>1, <1>3, <1>6
  <2>2. q.n # r.n /\ \A p \in passed : p.n # q.n BY <1>6, <2>1 DEF Sent, Numbering, Sole
  <2> QED BY <1>2, <2>2 DEF Marks
<1>7. ASSUME NEW q \in reqs', NEW s \in scripts, q.at = "limit", q.n = s.n PROVE q.verdict = Null
  BY <1>1, <1>3, <1>7 DEF Sent
<1> QED BY <1>1, <1>5, <1>6, <1>7 DEF Sent

LEMMA ArriveSent ==
  ASSUME Served, Numbering, Sent, NEW a \in Arrivals, Arrive(a)
  PROVE  Sent'
<1>1. PICK r \in Request : Enters(a, r) BY ArriveIs
<1>2. /\ \A q \in reqs : q.n # r.n
      /\ \A q \in scripts : q.n # r.n
      /\ \A q \in passed : q.n # r.n
  <2>1. r.n = count + 1 /\ count \in Nat BY <1>1 DEF Served, Enters
  <2>2. /\ \A q \in reqs : q.n \in Nat /\ q.n <= count
        /\ \A q \in scripts : q.n \in Nat /\ q.n <= count
        /\ \A q \in passed : q.n \in Nat /\ q.n <= count
    BY DEF Served, Numbering, Known, Request, Passage
  <2> QED BY <2>1, <2>2
<1>3. reqs \subseteq reqs' /\ passed \subseteq passed' /\ reqs' = reqs \cup {r} BY <1>1 DEF Enters
<1>4. \A s \in scripts : Waits(s)' BY <1>3 DEF Sent, Waits
<1>5. CASE r.at = "limit"
  <2> DEFINE t == [n |-> r.n, key |-> Sender(a)]
  <2>1. scripts' = scripts \cup {t} /\ passed' = passed /\ r.a = a /\ r.verdict = Null
    BY <1>1, <1>5 DEF Enters
  <2>2. t.n = r.n /\ t.key = Sender(a) OBVIOUS
  <2> HIDE DEF t
  <2>3. Waits(t)' BY <1>3, <1>5, <2>1, <2>2 DEF Waits
  <2>4. \A s \in scripts' : Waits(s)' BY <1>4, <2>1, <2>3
  <2>5. \A q \in reqs' : q.at = "limit" => \A p \in passed' : p.n # q.n
    BY <1>2, <1>3, <2>1 DEF Sent
  <2>6. \A q \in reqs', s \in scripts' : q.at = "limit" /\ q.n = s.n => q.verdict = Null
    BY <1>2, <1>3, <2>1, <2>2 DEF Sent
  <2> QED BY <2>4, <2>5, <2>6 DEF Sent
<1>6. CASE r.at # "limit"
  <2> DEFINE t == [n |-> r.n, a |-> a, how |-> "exempt"]
  <2>1. scripts' = scripts /\ passed' = passed \cup {t} /\ t.n = r.n BY <1>1, <1>6 DEF Enters
  <2> HIDE DEF t
  <2>5. \A q \in reqs' : q.at = "limit" => \A p \in passed' : p.n # q.n
    BY <1>2, <1>3, <1>6, <2>1 DEF Sent
  <2>6. \A q \in reqs', s \in scripts' : q.at = "limit" /\ q.n = s.n => q.verdict = Null
    BY <1>3, <1>6, <2>1 DEF Sent
  <2> QED BY <1>4, <2>1, <2>5, <2>6 DEF Sent
<1> QED BY <1>5, <1>6

LEMMA AnswerSent ==
  ASSUME Sent, NEW r \in reqs, Answer(r)
  PROVE  Sent'
<1>1. /\ reqs' = reqs \ {r} /\ r.at = "answer" /\ scripts' = scripts /\ passed' = passed
  BY DEF Answer
<1>2. \A s \in scripts : Waits(s)' BY <1>1 DEF Sent, Waits
<1> QED BY <1>1, <1>2 DEF Sent

LEMMA StaysSent ==
  ASSUME Sent, Stays
  PROVE  Sent'
BY DEF Sent, Waits, Stays

LEMMA ScriptSent ==
  ASSUME Served, Numbering, Sent, NEW s \in scripts, RunScript(s)
  PROVE  Sent'
<1>1. scripts' = scripts \ {s} /\ passed' = passed BY DEF RunScript
<1>2. CASE reqs' = reqs BY <1>1, <1>2 DEF Sent, Waits
<1>3. ASSUME NEW v, NEW r \in reqs, Judges(s, r, v) PROVE Sent'
  <2> DEFINE x == [r EXCEPT !.verdict = v]
  <2>1. x.n = r.n /\ reqs' = (reqs \ {r}) \cup {x} BY <1>3 DEF Judges, Moves
  <2>2. r.n = s.n /\ r.at = "limit" BY <1>3 DEF Judges
  <2> HIDE DEF x
  <2>3. ASSUME NEW t \in scripts' PROVE Waits(t)'
    <3>1. t \in scripts /\ t.n # r.n BY <1>1, <2>2 DEF Numbering, Sole
    <3> QED BY <1>1, <2>1, <3>1 DEF Sent, Waits
  <2>4. \A q \in reqs' : q.at = "limit" => \A p \in passed' : p.n # q.n
    BY <1>1, <2>1, <2>2 DEF Sent
  <2>5. ASSUME NEW q \in reqs', NEW t \in scripts', q.at = "limit", q.n = t.n
        PROVE  q.verdict = Null
    <3>1. t \in scripts /\ t.n # r.n BY <1>1, <2>2 DEF Numbering, Sole
    <3> QED BY <2>1, <2>5, <3>1 DEF Sent
  <2> QED BY <2>3, <2>4, <2>5 DEF Sent
<1> QED BY <1>2, <1>3, ScriptIs DEF Verdict

-----------------------------------------------------------------------------
\* One element less, one more, or one for another.
LEMMA OneLess ==
  ASSUME NEW S, IsFiniteSet(S), NEW r \in S
  PROVE  IsFiniteSet(S \ {r}) /\ Cardinality(S \ {r}) = Cardinality(S) - 1
         /\ Cardinality(S) \in Nat /\ Cardinality(S) >= 1
<1>1. IsFiniteSet(S \ {r}) /\ Cardinality(S \ {r}) = Cardinality(S) - 1 BY FS_RemoveElement
<1>2. Cardinality(S) \in Nat /\ Cardinality(S \ {r}) \in Nat BY <1>1, FS_CardinalityType
<1> QED BY <1>1, <1>2

LEMMA OneMore ==
  ASSUME NEW S, IsFiniteSet(S), NEW x, x \notin S
  PROVE  IsFiniteSet(S \cup {x}) /\ Cardinality(S \cup {x}) = Cardinality(S) + 1
         /\ Cardinality(S) \in Nat
BY FS_AddElement, FS_CardinalityType

LEMMA OneForAnother ==
  ASSUME NEW S, IsFiniteSet(S), NEW r \in S, NEW x, x \notin S \ {r}
  PROVE  Cardinality((S \ {r}) \cup {x}) = Cardinality(S) /\ Cardinality(S) \in Nat
<1>1. IsFiniteSet(S \ {r}) /\ Cardinality(S \ {r}) = Cardinality(S) - 1 /\ Cardinality(S) \in Nat
  BY OneLess
<1>2. Cardinality((S \ {r}) \cup {x}) = Cardinality(S \ {r}) + 1 BY <1>1, OneMore
<1> QED BY <1>1, <1>2

\* The sets the metrics count: requests inside, responses on their way out, and sent.
Inside == {r \in reqs : r.at # "answer"}
Leaving(s) == {r \in reqs : r.at = "answer" /\ r.status = s}
Gone(s) == {x \in answers : x.status = s}

Counts ==
  /\ \A s \in Statuses : counted[s] = Cardinality(Gone(s)) + Cardinality(Leaving(s))
  /\ gauge = Cardinality(Inside)

LEMMA CountsAre == CountsAgree <=> Counts
BY DEF CountsAgree, Counts, Inside, Leaving, Gone

LEMMA CountedSets ==
  ASSUME Served
  PROVE  /\ IsFiniteSet(Inside) /\ Cardinality(Inside) \in Nat
         /\ \A s : /\ IsFiniteSet(Leaving(s)) /\ Cardinality(Leaving(s)) \in Nat
                   /\ IsFiniteSet(Gone(s)) /\ Cardinality(Gone(s)) \in Nat
<1>1. Inside \subseteq reqs /\ \A s : Leaving(s) \subseteq reqs /\ Gone(s) \subseteq answers
  BY DEF Inside, Leaving, Gone
<1>2. IsFiniteSet(reqs) /\ IsFiniteSet(answers) BY DEF Served
<1>3. IsFiniteSet(Inside) /\ \A s : IsFiniteSet(Leaving(s)) /\ IsFiniteSet(Gone(s))
  BY <1>1, <1>2, FS_Subset
<1> QED BY <1>3, FS_CardinalityType

\* A request that stays inside changes no number.
LEMMA InsideCounts ==
  ASSUME Served, Numbering, Counts, NEW r \in reqs, NEW x, Moves(r, x),
         r.at # "answer", x.at # "answer", gauge' = gauge, counted' = counted
  PROVE  Counts'
<1>1. /\ reqs' = (reqs \ {r}) \cup {x} /\ answers' = answers /\ x.n = r.n BY DEF Moves
<1>2. Inside' = (Inside \ {r}) \cup {x} /\ r \in Inside BY <1>1 DEF Inside
<1>3. x \notin Inside \ {r} BY <1>1 DEF Inside, Numbering, Sole
<1>4. Cardinality(Inside') = Cardinality(Inside)
  BY <1>2, <1>3, OneForAnother, CountedSets
<1>5. ASSUME NEW s PROVE Leaving(s)' = Leaving(s) /\ Gone(s)' = Gone(s)
  BY <1>1 DEF Leaving, Gone
<1> QED BY <1>4, <1>5 DEF Counts

LEMMA ServeCounts ==
  ASSUME Served, Numbering, Counts, NEW r \in reqs, NEW x, ServeStep(r, x)
  PROVE  Counts'
<1>1. r \in Request /\ Moves(r, x) BY DEF Served, ServeStep
<1>2. r = [n |-> r.n, a |-> r.a, rid |-> r.rid, user |-> r.user, at |-> r.at,
           verdict |-> r.verdict, status |-> r.status]
  BY <1>1 DEF Request
<1>3. CASE Count(r) /\ x = [r EXCEPT !.at = "answer", !.status = Shown(r.status)]
  <2> DEFINE t == Shown(r.status)
  <2>1. r.at = "count" /\ t \in Statuses BY <1>3 DEF Count, Served, Shown, Statuses
  <2>2. x.at = "answer" /\ x.status = t /\ x.n = r.n BY <1>2, <1>3
  <2>3. gauge' = gauge - 1 /\ counted' = [counted EXCEPT ![t] = @ + 1] BY <1>3 DEF Count
  <2>4. reqs' = (reqs \ {r}) \cup {x} /\ answers' = answers BY <1>1 DEF Moves
  <2> HIDE DEF t
  <2>5. r \in Inside /\ Inside' = Inside \ {r} BY <2>1, <2>2, <2>4 DEF Inside
  <2>6. Cardinality(Inside') = Cardinality(Inside) - 1 BY <2>5, OneLess, CountedSets
  <2>7. Leaving(t)' = Leaving(t) \cup {x} /\ x \notin Leaving(t)
    BY <2>1, <2>2, <2>4 DEF Leaving, Numbering, Sole
  <2>8. Cardinality(Leaving(t)') = Cardinality(Leaving(t)) + 1
    BY <2>7, OneMore, CountedSets
  <2>9. \A s : s # t => Leaving(s)' = Leaving(s) BY <2>1, <2>2, <2>4 DEF Leaving
  <2>10. \A s : Gone(s)' = Gone(s) BY <2>4 DEF Gone
  <2>11. ASSUME NEW s \in Statuses
         PROVE  counted'[s] = Cardinality(Gone(s)') + Cardinality(Leaving(s)')
    <3>1. counted[s] = Cardinality(Gone(s)) + Cardinality(Leaving(s)) BY DEF Counts
    <3>2. Cardinality(Gone(s)) \in Nat /\ Cardinality(Leaving(s)) \in Nat BY CountedSets
    <3>3. counted'[s] = IF s = t THEN counted[s] + 1 ELSE counted[s] BY <2>3 DEF Served
    <3>4. CASE s = t BY <2>8, <2>10, <3>1, <3>2, <3>3, <3>4
    <3>5. CASE s # t BY <2>9, <2>10, <3>1, <3>3, <3>5
    <3> QED BY <3>4, <3>5
  <2> QED BY <2>3, <2>6, <2>11 DEF Counts
<1>4. CASE ~(Count(r) /\ x = [r EXCEPT !.at = "answer", !.status = Shown(r.status)])
  <2>1. gauge' = gauge /\ counted' = counted /\ r.at # "answer"
    BY <1>4 DEF ServeStep, Receive, FailOpen, Route, ProbeDatabase, ProbeRedis, LogAccess
  <2>2. x.at # "answer"
    <3>1. x.at \in {"route", "log", "probe", "count"} BY <1>2, <1>4 DEF ServeStep
    <3> QED BY <3>1
  <2> QED BY <1>1, <2>1, <2>2, InsideCounts
<1> QED BY <1>3, <1>4

LEMMA ArriveCounts ==
  ASSUME Served, Numbering, Counts, NEW a \in Arrivals, Arrive(a)
  PROVE  Counts'
<1>1. PICK r \in Request : Enters(a, r) BY ArriveIs
<1>2. /\ reqs' = reqs \cup {r} /\ answers' = answers /\ gauge' = gauge + 1
      /\ counted' = counted /\ r.at # "answer"
  BY <1>1 DEF Arrive, Enters
<1>3. r \notin reqs
  <2>1. r.n = count + 1 /\ count \in Nat BY <1>1 DEF Served, Enters
  <2>2. \A q \in reqs : q.n <= count BY DEF Numbering, Known
  <2> QED BY <2>1, <2>2
<1>4. Inside' = Inside \cup {r} /\ r \notin Inside BY <1>2, <1>3 DEF Inside
<1>5. Cardinality(Inside') = Cardinality(Inside) + 1 BY <1>4, OneMore, CountedSets
<1>6. \A s : Leaving(s)' = Leaving(s) /\ Gone(s)' = Gone(s) BY <1>2 DEF Leaving, Gone
<1> QED BY <1>2, <1>5, <1>6 DEF Counts

LEMMA AnswerCounts ==
  ASSUME Served, Numbering, Counts, NEW r \in reqs, Answer(r)
  PROVE  Counts'
<1> DEFINE x == [n |-> r.n, a |-> r.a, status |-> r.status, rid |-> r.rid]
           t == r.status
<1>1. /\ reqs' = reqs \ {r} /\ answers' = answers \cup {x} /\ gauge' = gauge
      /\ counted' = counted /\ r.at = "answer"
  BY DEF Answer
<1>2. x.n = r.n /\ x.status = t OBVIOUS
<1> HIDE DEF x, t
<1>3. Inside' = Inside BY <1>1 DEF Inside
<1>4. Leaving(t)' = Leaving(t) \ {r} /\ r \in Leaving(t) BY <1>1 DEF Leaving, t
<1>5. Cardinality(Leaving(t)') = Cardinality(Leaving(t)) - 1 BY <1>4, OneLess, CountedSets
<1>6. Gone(t)' = Gone(t) \cup {x} /\ x \notin Gone(t) BY <1>1, <1>2 DEF Gone, Numbering
<1>7. Cardinality(Gone(t)') = Cardinality(Gone(t)) + 1 BY <1>6, OneMore, CountedSets
<1>8. \A s : s # t => Leaving(s)' = Leaving(s) /\ Gone(s)' = Gone(s)
  BY <1>1, <1>2 DEF Leaving, Gone, t
<1>9. ASSUME NEW s \in Statuses
      PROVE  counted'[s] = Cardinality(Gone(s)') + Cardinality(Leaving(s)')
  <2>1. counted'[s] = Cardinality(Gone(s)) + Cardinality(Leaving(s)) BY <1>1 DEF Counts
  <2>2. Cardinality(Gone(s)) \in Nat /\ Cardinality(Leaving(s)) \in Nat BY CountedSets
  <2>3. CASE s = t BY <1>5, <1>7, <2>1, <2>2, <2>3
  <2>4. CASE s # t BY <1>8, <2>1, <2>4
  <2> QED BY <2>3, <2>4
<1> QED BY <1>1, <1>3, <1>9 DEF Counts

LEMMA StaysCounts ==
  ASSUME Counts, Stays
  PROVE  Counts'
BY DEF Counts, Inside, Leaving, Gone, Stays

LEMMA ScriptCounts ==
  ASSUME Served, Numbering, Counts, NEW s \in scripts, RunScript(s)
  PROVE  Counts'
<1>1. gauge' = gauge /\ counted' = counted /\ answers' = answers BY DEF RunScript
<1>2. CASE reqs' = reqs BY <1>1, <1>2 DEF Counts, Inside, Leaving, Gone
<1>3. ASSUME NEW v, NEW r \in reqs, Judges(s, r, v) PROVE Counts'
  <2>1. r \in Request BY DEF Served
  <2>2. [r EXCEPT !.verdict = v].at = "limit" /\ r.at = "limit" BY <1>3, <2>1 DEF Request, Judges
  <2> QED BY <1>1, <1>3, <2>2, InsideCounts DEF Judges
<1> QED BY <1>2, <1>3, ScriptIs DEF Verdict

-----------------------------------------------------------------------------
LEMMA ChargedSets ==
  ASSUME Served, NEW k
  PROVE  /\ \A how : IsFiniteSet(By(k, how)) /\ Cardinality(By(k, how)) \in Nat
         /\ IsFiniteSet(Going(k)) /\ Cardinality(Going(k)) \in Nat
         /\ IsFiniteSet(Spent(k)) /\ Cardinality(Spent(k)) \in Nat
         /\ Spent(k) \subseteq By(k, "unjudged")
<1>1. /\ \A how : By(k, how) \subseteq passed
      /\ Going(k) \subseteq reqs /\ Spent(k) \subseteq By(k, "unjudged")
  BY DEF By, Going, Spent
<1>2. IsFiniteSet(reqs) /\ IsFiniteSet(passed) BY DEF Served
<1>3. \A how : IsFiniteSet(By(k, how)) BY <1>1, <1>2, FS_Subset
<1>4. IsFiniteSet(Going(k)) /\ IsFiniteSet(Spent(k)) BY <1>1, <1>2, <1>3, FS_Subset
<1> QED BY <1>1, <1>3, <1>4, FS_CardinalityType

LEMMA SpentFinite ==
  ASSUME Served', NEW k
  PROVE  IsFiniteSet(Spent(k)')
<1>1. Spent(k)' \subseteq passed' BY DEF Spent, By
<1>2. IsFiniteSet(passed') BY DEF Served
<1> QED BY <1>1, <1>2, FS_Subset

LEMMA Windows == ASSUME WindowInv, NEW k \in Keys PROVE Len(admitted[k]) \in Nat
BY DEF WindowInv, TypeOK

\* Nobody is let through, nobody who was is gone, and the spent only become more.
LEMMA ChargesStay ==
  ASSUME WindowInv, Served, Served', NEW k \in Keys, Charges(k), admitted'[k] = admitted[k],
         By(k, "allowed")' = By(k, "allowed"), Going(k)' = Going(k), Spent(k) \subseteq Spent(k)'
  PROVE  Charges(k)'
<1>1. /\ Cardinality(Spent(k)) \in Nat /\ Cardinality(By(k, "allowed")) \in Nat
      /\ Cardinality(Going(k)) \in Nat /\ Len(admitted[k]) \in Nat
  BY ChargedSets, Windows
<1>2. IsFiniteSet(Spent(k)') BY SpentFinite
<1>3. Cardinality(Spent(k)) <= Cardinality(Spent(k)') /\ Cardinality(Spent(k)') \in Nat
  BY <1>2, FS_Subset, FS_CardinalityType
<1> QED BY <1>1, <1>3 DEF Charges

\* A request that is let through while it waits is about to be passed on.
LEMMA ScriptCharges ==
  ASSUME WindowInv, Served, Numbering, Labels, Sent, NEW s \in scripts, RunScript(s),
         NEW k \in Keys, Charges(k)
  PROVE  Charges(k)'
<1>1. scripts' = scripts \ {s} /\ passed' = passed BY DEF RunScript
<1>2. Served' BY ScriptCore
<1>3. /\ By(k, "allowed")' = By(k, "allowed") /\ By(k, "unjudged")' = By(k, "unjudged")
      /\ Spent(k) \subseteq Spent(k)'
  BY <1>1 DEF By, Spent
<1>4. /\ Cardinality(Spent(k)) \in Nat /\ Cardinality(By(k, "allowed")) \in Nat
      /\ Cardinality(Going(k)) \in Nat /\ Len(admitted[k]) \in Nat
      /\ IsFiniteSet(Going(k)) /\ IsFiniteSet(Spent(k))
  BY ChargedSets, Windows
<1>5. IsFiniteSet(Spent(k)') BY <1>2, SpentFinite
<1>6. Cardinality(Spent(k)) <= Cardinality(Spent(k)') /\ Cardinality(Spent(k)') \in Nat
  BY <1>3, <1>5, FS_Subset, FS_CardinalityType
<1>7. CASE Refuse(s.key) /\ Verdict(s, "refused")
  <2>1. admitted' = admitted BY <1>7 DEF Refuse
  <2>2. Going(k)' = Going(k)
    <3>1. CASE reqs' = reqs BY <3>1 DEF Going
    <3>2. ASSUME NEW r \in reqs, Judges(s, r, "refused") PROVE Going(k)' = Going(k)
      <4> DEFINE x == [r EXCEPT !.verdict = "refused"]
      <4>1. reqs' = (reqs \ {r}) \cup {x} /\ r.n = s.n /\ r.at = "limit" /\ r \in Request
        BY <3>2 DEF Judges, Moves, Served
      <4>2. x.verdict = "refused" BY <4>1 DEF Request
      <4>3. r.verdict = Null BY <4>1 DEF Sent
      <4> HIDE DEF x
      <4> QED BY <4>1, <4>2, <4>3 DEF Going, Null
    <3> QED BY <1>7, <3>1, <3>2 DEF Verdict
  <2> QED BY <1>2, <1>3, <2>1, <2>2, ChargesStay
<1>8. CASE Admit(s.key) /\ Verdict(s, "allowed")
  <2>1. /\ s.key # k => admitted'[k] = admitted[k]
        /\ s.key = k => Len(admitted'[k]) = Len(admitted[k]) + 1
    <3>1. s.key \in Keys /\ admitted \in [Keys -> Seq(Nat)] BY DEF Served, WindowInv, TypeOK
    <3>2. admitted' = [admitted EXCEPT ![s.key] = Append(@, now)] BY <1>8 DEF Admit
    <3>3. Len(Append(admitted[k], now)) = Len(admitted[k]) + 1
      BY <3>1 DEF WindowInv, TypeOK
    <3> QED BY <3>1, <3>2, <3>3
  <2>2. ASSUME NEW r \in reqs, Judges(s, r, "allowed") PROVE Charges(k)'
    <3> DEFINE x == [r EXCEPT !.verdict = "allowed"]
    <3>1. /\ reqs' = (reqs \ {r}) \cup {x} /\ r.n = s.n /\ r.at = "limit" /\ r \in Request
          /\ r.verdict = Null
      BY <2>2 DEF Judges, Moves, Served, Sent
    <3>2. x.verdict = "allowed" /\ x.n = r.n /\ x.a = r.a /\ x.at = "limit"
      BY <3>1 DEF Request
    <3> HIDE DEF x
    <3>3. Sender(r.a) = s.key BY <3>1 DEF Sent, Waits, Numbering, Sole
    <3>4. CASE s.key = k
      <4>1. Going(k)' = Going(k) \cup {x} /\ x \notin Going(k)
        BY <3>1, <3>2, <3>3, <3>4 DEF Going, Numbering, Sole, Null
      <4>2. Cardinality(Going(k)') = Cardinality(Going(k)) + 1 BY <1>4, <4>1, OneMore
      <4> QED BY <1>3, <1>4, <1>6, <2>1, <3>4, <4>2 DEF Charges
    <3>5. CASE s.key # k
      <4>1. Going(k)' = Going(k) BY <3>1, <3>2, <3>3, <3>5 DEF Going, Null
      <4> QED BY <1>2, <1>3, <2>1, <3>5, <4>1, ChargesStay
    <3> QED BY <3>4, <3>5
  <2>3. CASE reqs' = reqs /\ \A r \in reqs : ~(r.n = s.n /\ r.at = "limit")
    <3>1. Going(k)' = Going(k) BY <2>3 DEF Going
    <3>2. PICK p \in passed : p.n = s.n /\ p.how = "unjudged" /\ Sender(p.a) = s.key
      BY <2>3 DEF Sent, Waits
    <3>3. CASE s.key = k
      <4>1. Spent(k)' = Spent(k) \cup {p} /\ p \notin Spent(k)
        BY <1>1, <3>2, <3>3 DEF Spent, By, Numbering, Sole
      <4>2. Cardinality(Spent(k)') = Cardinality(Spent(k)) + 1 BY <1>4, <4>1, OneMore
      <4> QED BY <1>3, <1>4, <2>1, <3>1, <3>3, <4>2 DEF Charges
    <3>4. CASE s.key # k BY <1>2, <1>3, <2>1, <3>1, <3>4, ChargesStay
    <3> QED BY <3>3, <3>4
  <2> QED BY <1>8, <2>2, <2>3 DEF Verdict
<1> QED BY <1>7, <1>8, ScriptIs

\* A request that is passed on is judged, or its script is late or lost.
LEMMA ServeCharges ==
  ASSUME WindowInv, Served, Numbering, Sent, NEW r \in reqs, NEW x, ServeStep(r, x),
         NEW k \in Keys, Charges(k)
  PROVE  Charges(k)'
<1>1. /\ reqs' = (reqs \ {r}) \cup {x} /\ r \in Request /\ scripts' = scripts
      /\ admitted' = admitted
  BY DEF ServeStep, Moves, Served, vars
<1>2. Served' BY ServeServed
<1>3. x.at # "limit"
  <2>1. r = [n |-> r.n, a |-> r.a, rid |-> r.rid, user |-> r.user, at |-> r.at,
             verdict |-> r.verdict, status |-> r.status]
    BY <1>1 DEF Request
  <2> QED BY <2>1 DEF ServeStep
<1>4. Going(k)' = Going(k) \ {r} BY <1>1, <1>3 DEF Going
<1>5. /\ Cardinality(Spent(k)) \in Nat /\ Cardinality(By(k, "allowed")) \in Nat
      /\ Cardinality(Going(k)) \in Nat /\ Len(admitted[k]) \in Nat
      /\ IsFiniteSet(Going(k)) /\ IsFiniteSet(Spent(k)) /\ IsFiniteSet(By(k, "allowed"))
  BY ChargedSets, Windows
<1>6. CASE r.at # "limit"
  <2>1. passed' = passed
    BY <1>6 DEF ServeStep, Receive, FailOpen, Route, ProbeDatabase, ProbeRedis, LogAccess, Count
  <2>2. /\ By(k, "allowed")' = By(k, "allowed") /\ Spent(k)' = Spent(k)
        /\ Going(k)' = Going(k)
    BY <1>1, <1>4, <1>6, <2>1 DEF By, Spent, Going
  <2> QED BY <1>1, <1>2, <2>2, ChargesStay
<1>7. CASE r.at = "limit" /\ Receive(r) /\ r.verdict # "allowed"
  <2>1. passed' = passed BY <1>7 DEF Receive
  <2>2. /\ By(k, "allowed")' = By(k, "allowed") /\ Spent(k)' = Spent(k)
        /\ Going(k)' = Going(k)
    BY <1>1, <1>4, <1>7, <2>1 DEF By, Spent, Going
  <2> QED BY <1>1, <1>2, <2>2, ChargesStay
<1>8. CASE r.at = "limit" /\ Receive(r) /\ r.verdict = "allowed"
  <2> DEFINE p == [n |-> r.n, a |-> r.a, how |-> "allowed"]
  <2>1. passed' = passed \cup {p} BY <1>8 DEF Receive, PassOn
  <2>2. p.n = r.n /\ p.a = r.a /\ p.how = "allowed" OBVIOUS
  <2> HIDE DEF p
  <2>3. p \notin passed BY <1>8, <2>2 DEF Sent
  <2>4. Spent(k)' = Spent(k) BY <1>1, <2>1, <2>2 DEF Spent, By
  <2>5. CASE Sender(r.a) = k
    <3>1. By(k, "allowed")' = By(k, "allowed") \cup {p} /\ p \notin By(k, "allowed")
      BY <2>1, <2>2, <2>3, <2>5 DEF By
    <3>2. r \in Going(k) BY <1>8, <2>5 DEF Going
    <3>3. Cardinality(By(k, "allowed")') = Cardinality(By(k, "allowed")) + 1
      BY <1>5, <3>1, OneMore
    <3>4. Cardinality(Going(k)') = Cardinality(Going(k)) - 1 BY <1>4, <1>5, <3>2, OneLess
    <3> QED BY <1>1, <1>5, <2>4, <3>3, <3>4 DEF Charges
  <2>6. CASE Sender(r.a) # k
    <3>1. By(k, "allowed")' = By(k, "allowed") /\ Going(k)' = Going(k)
      BY <1>4, <2>1, <2>2, <2>6 DEF By, Going
    <3> QED BY <1>1, <1>2, <2>4, <3>1, ChargesStay
  <2> QED BY <2>5, <2>6
<1>9. CASE r.at = "limit" /\ FailOpen(r)
  <2> DEFINE p == [n |-> r.n, a |-> r.a, how |-> "unjudged"]
  <2>1. passed' = passed \cup {p} BY <1>9 DEF FailOpen, PassOn
  <2>2. p.n = r.n /\ p.a = r.a /\ p.how = "unjudged" OBVIOUS
  <2> HIDE DEF p
  <2>3. p \notin passed BY <1>9, <2>2 DEF Sent
  <2>4. By(k, "allowed")' = By(k, "allowed") /\ Spent(k) \subseteq Spent(k)'
    BY <1>1, <2>1, <2>2 DEF Spent, By
  <2>5. CASE r \in Going(k)
    <3>1. Sender(r.a) = k /\ \A s \in scripts : s.n # r.n
      BY <2>5 DEF Going, Sent, Null
    <3>2. Spent(k)' = Spent(k) \cup {p} /\ p \notin Spent(k)
      BY <1>1, <2>1, <2>2, <2>3, <3>1 DEF Spent, By
    <3>3. Cardinality(Spent(k)') = Cardinality(Spent(k)) + 1 BY <1>5, <3>2, OneMore
    <3>4. Cardinality(Going(k)') = Cardinality(Going(k)) - 1 BY <1>4, <1>5, <2>5, OneLess
    <3> QED BY <1>1, <1>5, <2>4, <3>3, <3>4 DEF Charges
  <2>6. CASE r \notin Going(k)
    <3>1. Going(k)' = Going(k) BY <1>4, <2>6
    <3> QED BY <1>1, <1>2, <2>4, <3>1, ChargesStay
  <2> QED BY <2>5, <2>6
<1>10. r.at = "limit" => Receive(r) \/ FailOpen(r)
  BY DEF ServeStep, Route, ProbeDatabase, ProbeRedis, LogAccess, Count
<1> QED BY <1>6, <1>7, <1>8, <1>9, <1>10

LEMMA ArriveCharges ==
  ASSUME WindowInv, Served, Numbering, NEW a \in Arrivals, Arrive(a), NEW k \in Keys, Charges(k)
  PROVE  Charges(k)'
<1>1. PICK r \in Request : Enters(a, r) BY ArriveIs
<1>2. reqs' = reqs \cup {r} /\ r.verdict = Null /\ admitted' = admitted
  BY <1>1 DEF Arrive, Enters, vars
<1>3. Served' BY ArriveServed
<1>4. Going(k)' = Going(k) BY <1>2 DEF Going, Null
<1>5. By(k, "allowed")' = By(k, "allowed") /\ By(k, "unjudged")' = By(k, "unjudged")
  BY <1>1 DEF Enters, By
<1>6. \A p \in passed : p.n # r.n
  <2>1. r.n = count + 1 /\ count \in Nat BY <1>1 DEF Served, Enters
  <2>2. \A p \in passed : p.n <= count BY DEF Numbering, Known
  <2> QED BY <2>1, <2>2
<1>7. \A s \in scripts' : s \in scripts \/ s.n = r.n BY <1>1 DEF Enters
<1>8. Spent(k) \subseteq Spent(k)' BY <1>5, <1>6, <1>7 DEF Spent, By
<1> QED BY <1>2, <1>3, <1>4, <1>5, <1>8, ChargesStay

LEMMA AnswerCharges ==
  ASSUME WindowInv, Served, Numbering, Labels, NEW r \in reqs, Answer(r),
         NEW k \in Keys, Charges(k)
  PROVE  Charges(k)'
<1>1. /\ reqs' = reqs \ {r} /\ r.at = "answer" /\ scripts' = scripts /\ passed' = passed
      /\ admitted' = admitted
  BY DEF Answer, vars
<1>2. /\ By(k, "allowed")' = By(k, "allowed") /\ Going(k)' = Going(k)
      /\ Spent(k) \subseteq Spent(k)'
  BY <1>1 DEF By, Going, Spent
<1> QED BY <1>1, <1>2, AnswerCore, ChargesStay

LEMMA StaysCharges ==
  ASSUME WindowInv, Served, Numbering, Labels, Stays, admitted' = admitted,
         NEW k \in Keys, Charges(k)
  PROVE  Charges(k)'
<1>1. /\ By(k, "allowed")' = By(k, "allowed") /\ Going(k)' = Going(k)
      /\ Spent(k) \subseteq Spent(k)'
  BY DEF By, Going, Spent, Stays
<1> QED BY <1>1, StaysCore, ChargesStay

-----------------------------------------------------------------------------
LEMMA GatewayInvInit == GatewayInit => GatewayInv
<1> SUFFICES ASSUME GatewayInit PROVE GatewayInv OBVIOUS
<1>1. WindowInv BY InitInv DEF GatewayInit
<1>2. Served BY FS_EmptySet DEF GatewayInit, Served
<1>3. Numbering BY DEF GatewayInit, Numbering, Sole, Known
<1>4. Labels /\ Stories /\ Sent BY DEF GatewayInit, Labels, Stories, Sent
<1>5. CountsAgree
  <2>1. Inside = {} /\ \A s : Leaving(s) = {} /\ Gone(s) = {}
    BY DEF GatewayInit, Inside, Leaving, Gone
  <2>2. Counts BY <2>1, FS_EmptySet DEF GatewayInit, Counts
  <2> QED BY <2>2, CountsAre
<1>6. ASSUME NEW k \in Keys PROVE Charges(k)
  <2>1. By(k, "allowed") = {} /\ Going(k) = {} /\ Spent(k) = {}
    BY DEF GatewayInit, By, Going, Spent
  <2>2. Len(admitted[k]) = 0 BY DEF GatewayInit, Init
  <2> QED BY <2>1, <2>2, FS_EmptySet DEF Charges
<1> QED BY <1>1, <1>2, <1>3, <1>4, <1>5, <1>6 DEF GatewayInv

\* What the gateway does to the windows, the script did.
LEMMA GatewayStep == Served /\ [GatewayNext]_gatewayVars => [Next]_vars
<1> SUFFICES ASSUME Served, [GatewayNext]_gatewayVars PROVE [Next]_vars OBVIOUS
<1>1. CASE UNCHANGED gatewayVars BY <1>1 DEF gatewayVars
<1>2. CASE \E a \in Arrivals : Arrive(a) BY <1>2 DEF Arrive
<1>3. ASSUME NEW s \in scripts, RunScript(s) \/ LoseScript(s) PROVE [Next]_vars
  <2>1. s.key \in Keys BY DEF Served
  <2>2. RunScript(s) => Admit(s.key) \/ Refuse(s.key) BY DEF RunScript
  <2>3. LoseScript(s) => vars' = vars BY DEF LoseScript
  <2> QED BY <1>3, <2>1, <2>2, <2>3 DEF Next
<1>4. ASSUME NEW r \in reqs, Serve(r) PROVE vars' = vars
  BY <1>4, ServeIs DEF ServeStep, Answer
<1>5. CASE Pass BY <1>5 DEF Pass, Next
<1> QED BY <1>1, <1>2, <1>3, <1>4, <1>5 DEF GatewayNext

LEMMA GatewayInvStep == GatewayInv /\ [GatewayNext]_gatewayVars => GatewayInv'
<1> SUFFICES ASSUME GatewayInv, [GatewayNext]_gatewayVars PROVE GatewayInv' OBVIOUS
<1>1. /\ WindowInv /\ Served /\ Numbering /\ Labels /\ Stories /\ Sent
      /\ Counts /\ \A k \in Keys : Charges(k)
  BY CountsAre DEF GatewayInv
<1>2. WindowInv' BY <1>1, GatewayStep, NextInv
<1>3. CountsAgree' <=> Counts' BY DEF CountsAgree, Counts, Inside, Leaving, Gone
<1>4. ASSUME NEW a \in Arrivals, Arrive(a) PROVE GatewayInv'
  BY <1>1, <1>2, <1>3, <1>4, ArriveServed, ArriveNumbering, ArriveStories, ArriveSent,
     ArriveCounts, ArriveCharges DEF GatewayInv
<1>5. ASSUME NEW s \in scripts, RunScript(s) PROVE GatewayInv'
  BY <1>1, <1>2, <1>3, <1>5, ScriptCore, ScriptStories, ScriptSent, ScriptCounts, ScriptCharges
  DEF GatewayInv
<1>6. ASSUME Stays, admitted' = admitted PROVE GatewayInv'
  BY <1>1, <1>2, <1>3, <1>6, StaysCore, StaysStories, StaysSent, StaysCounts, StaysCharges
  DEF GatewayInv
<1>7. ASSUME NEW s \in scripts, LoseScript(s) PROVE GatewayInv'
  BY <1>6, <1>7 DEF LoseScript, Stays, vars
<1>8. ASSUME NEW r \in reqs, Answer(r) PROVE GatewayInv'
  <2>1. Sent' BY <1>1, <1>8, AnswerSent
  <2> QED BY <1>1, <1>2, <1>3, <1>8, <2>1, AnswerCore, AnswerStories, AnswerCounts, AnswerCharges
      DEF GatewayInv
<1>9. ASSUME NEW r \in reqs, NEW x, ServeStep(r, x) PROVE GatewayInv'
  <2>1. Moves(r, x) /\ Marks(r) BY <1>1, <1>9, ServeMarks DEF ServeStep
  <2>2. Numbering' /\ Labels' BY <1>1, <2>1, MovesNumbering, MovesLabels
  <2> QED BY <1>1, <1>2, <1>3, <1>9, <2>2, ServeServed, ServeStories, ServeSent, ServeCounts,
             ServeCharges
      DEF GatewayInv
<1>10. CASE Pass BY <1>6, <1>10 DEF Pass, Tick, served, Stays
<1>11. CASE UNCHANGED gatewayVars BY <1>6, <1>11 DEF gatewayVars, served, vars, Stays
<1>12. ASSUME NEW r \in reqs, Serve(r) PROVE GatewayInv'
  <2>1. Answer(r) \/ \E x : ServeStep(r, x) BY <1>1, <1>12, ServeIs
  <2> QED BY <1>8, <1>9, <2>1
<1> QED BY <1>4, <1>5, <1>7, <1>10, <1>11, <1>12 DEF GatewayNext

LEMMA GatewayInvCorrect == GatewaySpec => []GatewayInv
BY GatewayInvInit, GatewayInvStep, PTL DEF GatewaySpec

\* Behind the gateway, with calls that are lost or late, the window keeps what it
\* promises: its theorems hold of the whole.
THEOREM GatewayImplements == GatewaySpec => Spec
<1>1. GatewayInit => Init BY DEF GatewayInit
<1>2. GatewayInv /\ [GatewayNext]_gatewayVars => [Next]_vars BY GatewayStep DEF GatewayInv
<1> QED BY <1>1, <1>2, GatewayInvCorrect, PTL DEF GatewaySpec, Spec

\* So behind the gateway too no window is overfull and every Retry-After is right.
THEOREM GatewayWindow == GatewaySpec => [](SlidingLimit /\ RetryAfterHonest)
BY GatewayImplements, SlidingLimitCorrect, RetryAfterCorrect, PTL

\* A request that was answered has one access record, with the status of the answer and
\* its user, and an error record exactly if it failed; all it logged carries the id of
\* the answer, and no two answers share an id the server made.
THEOREM OneStoryCorrect == GatewaySpec => []OneStory
<1>1. GatewayInv => OneStory BY StoriesTold DEF GatewayInv
<1> QED BY <1>1, GatewayInvCorrect, PTL

\* The counters are the responses, and the gauge is the requests inside.
THEOREM CountsAgreeCorrect == GatewaySpec => []CountsAgree
<1>1. GatewayInv => CountsAgree BY DEF GatewayInv
<1> QED BY <1>1, GatewayInvCorrect, PTL

\* A window is charged for the requests of its own sender that are served, and
\* for no other, whatever way they took and whenever the script came.
THEOREM ChargedCorrect == GatewaySpec => []Charged
<1>1. GatewayInv => Charged
  <2> SUFFICES ASSUME GatewayInv, NEW k \in Keys
               PROVE  LET by(how) == {p \in passed : Sender(p.a) = k /\ p.how = how}
                          going == {r \in reqs : /\ r.at = "limit" /\ r.verdict = "allowed"
                                                 /\ Sender(r.a) = k}
                          judged == Cardinality(by("allowed")) + Cardinality(going)
                      IN /\ judged <= Len(admitted[k])
                         /\ Len(admitted[k]) <= judged + Cardinality(by("unjudged"))
    BY DEF Charged
  <2>1. Served /\ WindowInv /\ Charges(k) BY DEF GatewayInv
  <2>2. Cardinality(Spent(k)) <= Cardinality(By(k, "unjudged"))
    BY <2>1, ChargedSets, FS_Subset
  <2>3. /\ Cardinality(Spent(k)) \in Nat /\ Cardinality(By(k, "allowed")) \in Nat
        /\ Cardinality(By(k, "unjudged")) \in Nat
        /\ Cardinality(Going(k)) \in Nat /\ Len(admitted[k]) \in Nat
    BY <2>1, ChargedSets, Windows
  <2>4. LET judged == Cardinality(By(k, "allowed")) + Cardinality(Going(k))
        IN /\ judged <= Len(admitted[k])
           /\ Len(admitted[k]) <= judged + Cardinality(By(k, "unjudged"))
    BY <2>1, <2>2, <2>3 DEF Charges
  <2> QED BY <2>4 DEF By, Going
<1> QED BY <1>1, GatewayInvCorrect, PTL

-----------------------------------------------------------------------------
\* The sender of a has been refused by its own window, on a limited path.
TurnedAway(a) == a.path = "api" /\ \E t \in told : t.key = Sender(a)

\* Whoever gets 429 has been refused himself: no request pays for what others of
\* another key sent, and no health probe is ever turned away.
RefusedOwn == \A x \in answers : x.status = "429" => TurnedAway(x.a)

\* A verdict is the limiter's as long as the request waits for it.
Refused(r) ==
  /\ r.at = "limit" => r.a.path = "api" /\ r.verdict \in {Null, "allowed", "refused"}
  /\ r.at = "limit" /\ r.verdict = "refused" => TurnedAway(r.a)
  /\ r.status = "429" => TurnedAway(r.a)
RefusedInv == (\A r \in reqs : Refused(r)) /\ RefusedOwn

LEMMA ServeRefused ==
  ASSUME Served, RefusedInv, NEW r \in reqs, NEW x, ServeStep(r, x)
  PROVE  RefusedInv'
<1>1. /\ r \in Request /\ Refused(r) /\ told' = told /\ answers' = answers
      /\ reqs' = (reqs \ {r}) \cup {x} /\ x.a = r.a
  BY DEF Served, RefusedInv, ServeStep, Moves, vars
<1>2. r = [n |-> r.n, a |-> r.a, rid |-> r.rid, user |-> r.user, at |-> r.at,
           verdict |-> r.verdict, status |-> r.status]
  BY <1>1 DEF Request
<1>3. x.at # "limit" BY <1>2 DEF ServeStep
<1>4. x.status = "429" => TurnedAway(r.a)
  <2>1. CASE Receive(r) /\ r.verdict # "allowed"
    BY <1>1, <2>1 DEF Receive, Refused
  <2>2. CASE x.status = r.status BY <1>1, <2>2 DEF Refused
  <2>3. CASE Count(r) /\ x.status = Shown(r.status) BY <1>1, <2>3 DEF Refused, Shown
  <2>4. CASE x.status \in {"200", "503", "raised"} BY <2>4
  <2> QED BY <1>2, <2>1, <2>2, <2>3, <2>4 DEF ServeStep
<1>5. Refused(x)' BY <1>1, <1>3, <1>4 DEF Refused, TurnedAway
<1>6. ASSUME NEW q \in reqs PROVE Refused(q)'
  BY <1>1 DEF RefusedInv, Refused, TurnedAway
<1>7. RefusedOwn' BY <1>1 DEF RefusedInv, RefusedOwn, TurnedAway
<1> QED BY <1>1, <1>5, <1>6, <1>7 DEF RefusedInv

\* Who has been turned away has been, whatever else is told.
LEMMA ToldStays ==
  ASSUME RefusedInv, told \subseteq told', answers' = answers
  PROVE  RefusedOwn' /\ \A r \in reqs : Refused(r)'
<1>1. \A a : TurnedAway(a) => TurnedAway(a)' BY DEF TurnedAway
<1>2. RefusedOwn' BY <1>1 DEF RefusedInv, RefusedOwn
<1>3. \A r \in reqs : Refused(r)' BY <1>1 DEF RefusedInv, Refused
<1> QED BY <1>2, <1>3

LEMMA ScriptRefused ==
  ASSUME Served, Numbering, Sent, RefusedInv, NEW s \in scripts, RunScript(s)
  PROVE  RefusedInv'
<1>1. answers' = answers BY DEF RunScript
<1>2. ASSUME NEW v \in {"allowed", "refused"}, Verdict(s, v), told \subseteq told',
             v = "refused" => \E t \in told' : t.key = s.key
      PROVE  RefusedInv'
  <2>1. RefusedOwn' /\ \A q \in reqs : Refused(q)' BY <1>1, <1>2, ToldStays
  <2>2. CASE reqs' = reqs BY <2>1, <2>2 DEF RefusedInv
  <2>3. ASSUME NEW r \in reqs, Judges(s, r, v) PROVE RefusedInv'
    <3> DEFINE x == [r EXCEPT !.verdict = v]
    <3>1. /\ r \in Request /\ Refused(r) /\ Refused(r)' /\ r.n = s.n /\ r.at = "limit"
          /\ reqs' = (reqs \ {r}) \cup {x}
      BY <2>1, <2>3 DEF Judges, Moves, Served, RefusedInv
    <3>2. x.verdict = v /\ x.a = r.a /\ x.at = "limit" /\ x.status = r.status
      BY <3>1 DEF Request
    <3> HIDE DEF x
    <3>3. Sender(r.a) = s.key BY <3>1 DEF Sent, Waits, Numbering, Sole
    <3>4. v = "refused" => TurnedAway(r.a)' BY <1>2, <3>1, <3>3 DEF Refused, TurnedAway
    <3>5. Refused(x)' BY <3>1, <3>2, <3>4 DEF Refused, TurnedAway
    <3> QED BY <2>1, <3>1, <3>5 DEF RefusedInv
  <2> QED BY <1>2, <2>2, <2>3 DEF Verdict
<1>3. CASE Admit(s.key) /\ Verdict(s, "allowed") BY <1>2, <1>3 DEF Admit
<1>4. CASE Refuse(s.key) /\ Verdict(s, "refused")
  <2>1. PICK o \in Kept(s.key) : told' = told \cup
            {[key |-> s.key, seen |-> Len(admitted[s.key]), at |-> now,
              wait |-> Seconds(admitted[s.key][o] + Window - now)]}
    BY <1>4 DEF Refuse
  <2>2. PICK t : t = [key |-> s.key, seen |-> Len(admitted[s.key]), at |-> now,
                      wait |-> Seconds(admitted[s.key][o] + Window - now)]
    OBVIOUS
  <2>3. told' = told \cup {t} /\ t.key = s.key BY <2>1, <2>2
  <2> QED BY <1>2, <1>4, <2>3
<1> QED BY <1>3, <1>4, ScriptIs

LEMMA RefusedStep == GatewayInv /\ RefusedInv /\ [GatewayNext]_gatewayVars => RefusedInv'
<1> SUFFICES ASSUME GatewayInv, RefusedInv, [GatewayNext]_gatewayVars PROVE RefusedInv' OBVIOUS
<1>1. Served /\ Numbering /\ Sent BY DEF GatewayInv
<1>2. ASSUME NEW a \in Arrivals, Arrive(a) PROVE RefusedInv'
  <2>1. told' = told /\ answers' = answers BY <1>2 DEF Arrive, vars
  <2>2. PICK r \in Request : Enters(a, r) BY <1>1, <1>2, ArriveIs
  <2>3. /\ reqs' = reqs \cup {r} /\ r.verdict = Null /\ r.status = Null
        /\ r.at = "limit" => r.a.path = "api"
    BY <2>2 DEF Enters
  <2>4. Refused(r)' BY <2>3 DEF Refused, Null
  <2> QED BY <2>1, <2>3, <2>4, ToldStays DEF RefusedInv
<1>3. ASSUME NEW s \in scripts, RunScript(s) PROVE RefusedInv' BY <1>1, <1>3, ScriptRefused
<1>4. ASSUME reqs' = reqs, told' = told, answers' = answers PROVE RefusedInv'
  BY <1>4, ToldStays DEF RefusedInv
<1>5. ASSUME NEW s \in scripts, LoseScript(s) PROVE RefusedInv'
  BY <1>4, <1>5 DEF LoseScript, vars
<1>6. ASSUME NEW r \in reqs, Answer(r) PROVE RefusedInv'
  <2> DEFINE x == [n |-> r.n, a |-> r.a, status |-> r.status, rid |-> r.rid]
  <2>1. reqs' = reqs \ {r} /\ answers' = answers \cup {x} /\ told' = told
    BY <1>6 DEF Answer, vars
  <2>2. x.a = r.a /\ x.status = r.status OBVIOUS
  <2> HIDE DEF x
  <2>3. Refused(r) BY DEF RefusedInv
  <2>4. RefusedOwn' BY <2>1, <2>2, <2>3 DEF RefusedInv, RefusedOwn, Refused, TurnedAway
  <2>5. \A q \in reqs : Refused(q)' BY <2>1 DEF RefusedInv, Refused, TurnedAway
  <2> QED BY <2>1, <2>4, <2>5 DEF RefusedInv
<1>7. ASSUME NEW r \in reqs, Serve(r) PROVE RefusedInv'
  <2>1. Answer(r) \/ \E x : ServeStep(r, x) BY <1>1, <1>7, ServeIs
  <2> QED BY <1>1, <1>6, <2>1, ServeRefused
<1>8. CASE Pass BY <1>4, <1>8 DEF Pass, Tick, served
<1>9. CASE UNCHANGED gatewayVars BY <1>4, <1>9 DEF gatewayVars, served, vars
<1> QED BY <1>2, <1>3, <1>5, <1>7, <1>8, <1>9 DEF GatewayNext

\* A 429 answers a request for the API whose own sender's window had refused it
\* (core/middleware.py:143-182): nobody is turned away for another.
THEOREM RefusedOwnCorrect == GatewaySpec => []RefusedOwn
<1>1. GatewayInit => RefusedInv BY DEF GatewayInit, RefusedInv, RefusedOwn
<1>2. RefusedInv => RefusedOwn BY DEF RefusedInv
<1> QED BY <1>1, <1>2, GatewayInvCorrect, RefusedStep, PTL DEF GatewaySpec
=============================================================================
