------------------------------ MODULE RateLimit ------------------------------
(***************************************************************************)
(* The sliding window of app/services/rate_limit.py.  The Lua script runs  *)
(* in Redis as one step, on the clock of Redis; every request that is let  *)
(* through leaves a member in the ZSET of its key, scored with its time.   *)
(* A member is named here by its place among the requests let through.     *)
(* Requests that find Redis down pass unjudged and are left out.           *)
(***************************************************************************)
EXTENDS Integers, Sequences, FiniteSets

CONSTANTS
  Keys,
  Limit,            \* rate_limit_requests
  Window,           \* rate_limit_window_seconds, in milliseconds
  Second,           \* milliseconds in a second (1000)
  MaxTime           \* bound: the clock stops here

ASSUME LimitAssumption == Limit \in Nat \ {0} /\ Window \in Nat \ {0}
ASSUME SecondAssumption == Second \in Nat \ {0} /\ MaxTime \in Nat

VARIABLES
  now,              \* redis.call('TIME')
  admitted,         \* history: when each request of a key was let through
  zset,             \* the members of the ZSET
  expires,          \* PEXPIRE: the key is gone after this time
  told              \* history: who was refused when, and the Retry-After given

vars == <<now, admitted, zset, expires, told>>

Init ==
  /\ now = 0
  /\ admitted = [k \in Keys |-> <<>>]
  /\ zset = [k \in Keys |-> {}]
  /\ expires = [k \in Keys |-> 0]
  /\ told = {}

\* What the script works on: nothing once the key has expired.
Members(k) == IF now > expires[k] THEN {} ELSE zset[k]

\* ZREMRANGEBYSCORE key 0 window_start removes both ends.
Kept(k) == {i \in Members(k) : admitted[k][i] > now - Window}

Room(k) == Cardinality(Kept(k)) < Limit

\* Mutant: the key lives half a window.
AdmitShortLife(k) ==
  /\ Room(k)
  /\ admitted' = [admitted EXCEPT ![k] = Append(@, now)]
  /\ zset' = [zset EXCEPT ![k] = Kept(k) \cup {Len(admitted[k]) + 1}]
  /\ expires' = [expires EXCEPT ![k] = now + Window \div 2]
  /\ UNCHANGED <<now, told>>

Admit(k) ==
  /\ Room(k)
  /\ admitted' = [admitted EXCEPT ![k] = Append(@, now)]
  /\ zset' = [zset EXCEPT ![k] = Kept(k) \cup {Len(admitted[k]) + 1}]
  /\ expires' = [expires EXCEPT ![k] = now + Window]
  /\ UNCHANGED <<now, told>>

\* Mutant: rounded down instead of up.
SecondsFloor(ms) == ms \div Second

Seconds(ms) == (ms + Second - 1) \div Second

\* Refused: not recorded, told when the oldest member leaves the window.
Refuse(k) ==
  /\ ~Room(k)
  /\ \E o \in Kept(k) :
       /\ \A i \in Kept(k) : admitted[k][o] <= admitted[k][i]
       /\ told' = told \cup
            {[key |-> k, seen |-> Len(admitted[k]), at |-> now,
              wait |-> Seconds(admitted[k][o] + Window - now)]}
  /\ zset' = [zset EXCEPT ![k] = Kept(k)]
  /\ UNCHANGED <<now, admitted, expires>>

Tick == now < MaxTime /\ now' = now + 1 /\ UNCHANGED <<admitted, zset, expires, told>>

Next == Tick \/ \E k \in Keys : Admit(k) \/ Refuse(k)

Spec == Init /\ [][Next]_vars

-----------------------------------------------------------------------------
Refusal == [key: Keys, seen: Nat, at: Nat, wait: Int]

\* The variables have their types.
TypeOK ==
  /\ now \in Nat
  /\ admitted \in [Keys -> Seq(Nat)]
  /\ zset \in [Keys -> SUBSET Nat] /\ \A k \in Keys : zset[k] \subseteq DOMAIN admitted[k]
  /\ expires \in [Keys -> Nat]
  /\ told \subseteq Refusal

Recent(k) == {i \in DOMAIN admitted[k] : admitted[k][i] > now - Window}

\* No window of that length, wherever it starts, has more than Limit requests of
\* a key let through: no burst at a window's edge, no member lost with an
\* expired key (services/rate_limit.py:66-89).
SlidingLimit == \A k \in Keys : Cardinality(Recent(k)) <= Limit

\* Retry-After is right to the second.  Who waits that long gets in, unless
\* others of the same key got in first; who comes a second earlier does not
\* (services/rate_limit.py:75-81).
RetryAfterHonest ==
  \A r \in told :
    /\ r.wait >= 1
    /\ now >= r.at + Second * r.wait /\ Len(admitted[r.key]) = r.seen => Room(r.key)
    /\ now <= r.at + Second * (r.wait - 1) => ~Room(r.key)
=============================================================================
