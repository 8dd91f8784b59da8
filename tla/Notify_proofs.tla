---------------------------- MODULE Notify_proofs -----------------------------
(***************************************************************************)
(* For any finite number of messages, retries and slips: a notification is *)
(* stored at most once per slip, and lost by no crash.                     *)
(***************************************************************************)
EXTENDS Notify, FiniteSetTheorems, TLAPS

USE MessagesAssumption, BoundsAssumption

\* The messages that may still add a row although nothing else goes wrong.
Owing ==
  {m \in Messages : \/ step[m] = "checked"
                    \/ ~done /\ step[m] \in {"queued", "failed", "settled"}}

CopiesOwed == rows + Cardinality(Owing) <= 1 + slips

Unsent == ~sent => rows = 0 /\ \A m \in Messages : step[m] = "none"

\* The mark, and a task that has got as far as setting it, come after the row.
MarkedMeansStored ==
  /\ done => rows > 0
  /\ \A m \in Messages : step[m] \in {"stored", "settled"} => rows > 0

\* A message that only waits for its acknowledgement has a successor.
UnderWay ==
  sent /\ rows = 0 /\ losses = {} =>
    \E m \in Messages : step[m] \in {"queued", "checked", "failed"}

NotifyInv == TypeOK /\ CopiesOwed /\ Unsent /\ MarkedMeansStored /\ UnderWay

-----------------------------------------------------------------------------
LEMMA OwingFinite == IsFiniteSet(Owing) /\ Cardinality(Owing) \in Nat
<1>1. IsFiniteSet(Owing) BY FS_Subset DEF Owing
<1> QED BY <1>1, FS_CardinalityType

\* How much a set that changes by one element can grow.
LEMMA Fewer ==
  ASSUME NEW T, IsFiniteSet(T), NEW S, S \subseteq T
  PROVE  Cardinality(S) \in Nat /\ Cardinality(S) <= Cardinality(T)
BY FS_Subset, FS_CardinalityType

LEMMA OneMore ==
  ASSUME NEW T, IsFiniteSet(T), NEW m, NEW S, S \subseteq T \cup {m}
  PROVE  Cardinality(S) \in Nat /\ Cardinality(S) <= Cardinality(T) + 1
<1>1. Cardinality(T) \in Nat BY FS_CardinalityType
<1>2. IsFiniteSet(T \cup {m}) BY FS_AddElement
<1>3. Cardinality(T \cup {m}) = Cardinality(T) \/ Cardinality(T \cup {m}) = Cardinality(T) + 1
  BY FS_AddElement
<1>4. Cardinality(S) \in Nat /\ Cardinality(S) <= Cardinality(T \cup {m}) BY <1>2, Fewer
<1> QED BY <1>1, <1>3, <1>4

LEMMA OneLess ==
  ASSUME NEW T, IsFiniteSet(T), NEW m \in T, NEW S, S \subseteq T \ {m}
  PROVE  Cardinality(S) \in Nat /\ Cardinality(S) <= Cardinality(T) - 1
<1>1. IsFiniteSet(T \ {m}) /\ Cardinality(T \ {m}) = Cardinality(T) - 1
  BY FS_RemoveElement
<1> QED BY <1>1, Fewer

-----------------------------------------------------------------------------
LEMMA InitInv == Init => NotifyInv
<1> SUFFICES ASSUME Init PROVE NotifyInv OBVIOUS
<1>1. TypeOK
  <2>1. sent \in BOOLEAN /\ done \in BOOLEAN /\ losses \subseteq Causes BY Zenon DEF Init
  <2>2. rows \in Nat /\ slips \in 0 .. MaxSlips /\ 0 \in 0 .. MaxRetries BY DEF Init
  <2>3. step \in [Messages -> Steps] /\ tries \in [Messages -> 0 .. MaxRetries]
    BY <2>2, Zenon DEF Init, Steps
  <2> QED BY <2>1, <2>2, <2>3, Zenon DEF TypeOK
<1>2. Owing = {} BY DEF Init, Owing
<1>3. CopiesOwed BY <1>2, FS_EmptySet DEF Init, CopiesOwed
<1> QED BY <1>1, <1>3 DEF Init, NotifyInv, Unsent, MarkedMeansStored, UnderWay

\* The flags, the numbers and the causes apart: no prover takes them together.
Flags == sent \in BOOLEAN /\ done \in BOOLEAN

Counts ==
  /\ step \in [Messages -> Steps] /\ tries \in [Messages -> 0 .. MaxRetries]
  /\ rows \in Nat /\ slips \in 0 .. MaxSlips

KnownLosses == losses \subseteq Causes

LEMMA TypeParts == TypeOK <=> Flags /\ Counts /\ KnownLosses
BY Zenon DEF TypeOK, Flags, Counts, KnownLosses

LEMMA FlagsStep == Flags /\ [Next]_vars => Flags'
<1> SUFFICES ASSUME Flags, [Next]_vars PROVE Flags' OBVIOUS
<1> USE DEF Flags
<1>1. CASE UNCHANGED vars BY <1>1, Zenon DEF vars
<1>2. ASSUME NEW m \in Messages,
             \/ Dispatch(m) \/ Check(m) \/ CheckBlind(m)
             \/ Insert(m) \/ InsertFails(m) \/ InsertUnheard(m)
      PROVE  Flags'
  BY <1>2, Zenon DEF Dispatch, Check, CheckBlind, Insert, InsertFails, InsertUnheard
<1>3. ASSUME NEW m \in Messages, NEW n \in Messages, Retry(m, n) PROVE Flags'
  BY <1>3, Zenon DEF Retry
<1>4. ASSUME NEW m \in Messages,
             \/ GiveUp(m) \/ Mark(m) \/ MarkFails(m) \/ Ack(m)
             \/ TimeOut(m) \/ Redeliver(m) \/ RedeliverSlip(m)
      PROVE  Flags'
  BY <1>4, Zenon DEF GiveUp, Mark, MarkFails, Ack, TimeOut, Redeliver, RedeliverSlip
<1> QED BY <1>1, <1>2, <1>3, <1>4, Zenon DEF Next

LEMMA CountsStep == Counts /\ [Next]_vars => Counts'
<1> SUFFICES ASSUME Counts, [Next]_vars PROVE Counts' OBVIOUS
<1> USE DEF Counts, Steps
<1>1. CASE UNCHANGED vars BY <1>1 DEF vars
<1>2. ASSUME NEW m \in Messages,
             \/ Dispatch(m) \/ Check(m) \/ CheckBlind(m)
             \/ Insert(m) \/ InsertFails(m) \/ InsertUnheard(m)
      PROVE  Counts'
  BY <1>2 DEF Dispatch, Check, CheckBlind, Insert, InsertFails, InsertUnheard, Move, Slip
<1>3. ASSUME NEW m \in Messages, NEW n \in Messages, Retry(m, n) PROVE Counts'
  BY <1>3 DEF Retry
<1>4. ASSUME NEW m \in Messages,
             \/ GiveUp(m) \/ Mark(m) \/ MarkFails(m) \/ Ack(m)
             \/ TimeOut(m) \/ Redeliver(m) \/ RedeliverSlip(m)
      PROVE  Counts'
  BY <1>4 DEF GiveUp, Mark, MarkFails, Ack, TimeOut, Redeliver, RedeliverSlip, Move, Slip
<1> QED BY <1>1, <1>2, <1>3, <1>4 DEF Next

LEMMA LossesStep == KnownLosses /\ [Next]_vars => KnownLosses'
<1> SUFFICES ASSUME KnownLosses, [Next]_vars PROVE KnownLosses' OBVIOUS
<1>1. CASE losses' = losses BY <1>1 DEF KnownLosses
<1>2. ASSUME NEW m \in Messages, Dispatch(m) PROVE KnownLosses'
  <2>1. losses' = losses \/ losses' = {"dispatch"} BY <1>2 DEF Dispatch
  <2> QED BY <2>1 DEF KnownLosses, Causes
<1>3. ASSUME NEW m \in Messages, GiveUp(m) PROVE KnownLosses'
  <2>1. losses' = losses \cup {"retries"} BY <1>3 DEF GiveUp
  <2> QED BY <2>1 DEF KnownLosses, Causes
<1>4. ASSUME NEW m \in Messages, TimeOut(m) PROVE KnownLosses'
  <2>1. losses' = losses \/ losses' = losses \cup {"limit"} BY <1>4 DEF TimeOut
  <2> QED BY <2>1 DEF KnownLosses, Causes
<1>5. losses' = losses \/ \E m \in Messages : Dispatch(m) \/ GiveUp(m) \/ TimeOut(m)
  BY DEF Next, vars, Check, CheckBlind, Insert, InsertFails, InsertUnheard, Retry, Mark,
         MarkFails, Ack, Redeliver, RedeliverSlip
<1> QED BY <1>1, <1>2, <1>3, <1>4, <1>5

LEMMA TypeStep == TypeOK /\ [Next]_vars => TypeOK'
<1>1. TypeOK' <=> Flags' /\ Counts' /\ KnownLosses'
  BY Zenon DEF TypeOK, Flags, Counts, KnownLosses
<1> QED BY TypeParts, <1>1, FlagsStep, CountsStep, LossesStep, Zenon

\* The three parts that count nothing.
LEMMA OrderStep ==
  ASSUME NotifyInv, TypeOK', [Next]_vars
  PROVE  Unsent' /\ MarkedMeansStored' /\ UnderWay'
<1> USE DEF NotifyInv, TypeOK, Unsent, MarkedMeansStored, UnderWay
<1>1. CASE UNCHANGED vars BY <1>1 DEF vars
<1>2. ASSUME NEW m \in Messages, Dispatch(m) PROVE Unsent' /\ MarkedMeansStored' /\ UnderWay'
  BY <1>2 DEF Dispatch, Move
<1>3. ASSUME NEW m \in Messages, Check(m) \/ CheckBlind(m) \/ InsertFails(m)
      PROVE  Unsent' /\ MarkedMeansStored' /\ UnderWay'
  BY <1>3 DEF Check, CheckBlind, InsertFails, Move, Slip
<1>4. ASSUME NEW m \in Messages, Insert(m) \/ InsertUnheard(m)
      PROVE  Unsent' /\ MarkedMeansStored' /\ UnderWay'
  BY <1>4 DEF Insert, InsertUnheard, Move, Slip
<1>5. ASSUME NEW m \in Messages, NEW n \in Messages, Retry(m, n)
      PROVE  Unsent' /\ MarkedMeansStored' /\ UnderWay'
  BY <1>5 DEF Retry
<1>6. ASSUME NEW m \in Messages, GiveUp(m) \/ TimeOut(m) \/ Mark(m) \/ MarkFails(m)
      PROVE  Unsent' /\ MarkedMeansStored' /\ UnderWay'
  BY <1>6 DEF GiveUp, TimeOut, Mark, MarkFails, Move, Slip
<1>7. ASSUME NEW m \in Messages, Ack(m) \/ Redeliver(m) \/ RedeliverSlip(m)
      PROVE  Unsent' /\ MarkedMeansStored' /\ UnderWay'
  BY <1>7 DEF Ack, Redeliver, RedeliverSlip, Slip
<1> QED BY <1>1, <1>2, <1>3, <1>4, <1>5, <1>6, <1>7 DEF Next

\* Every row was owed, and what a fault adds to the debt is a slip.
LEMMA CopiesStep ==
  ASSUME NotifyInv, TypeOK', [Next]_vars
  PROVE  CopiesOwed'
<1> USE DEF NotifyInv, TypeOK, CopiesOwed
<1>0. IsFiniteSet(Owing) /\ Cardinality(Owing) \in Nat BY OwingFinite
<1>1. CASE UNCHANGED vars
  <2>1. Owing' = Owing BY <1>1 DEF vars, Owing
  <2> QED BY <1>1, <2>1 DEF vars
<1>2. ASSUME NEW m \in Messages, Dispatch(m) PROVE CopiesOwed'
  <2>1. Owing = {} BY <1>2 DEF Dispatch, Unsent, Owing
  <2>2. Owing' \subseteq Owing \cup {m} BY <1>2 DEF Dispatch, Move, Owing
  <2>3. Cardinality(Owing') \in Nat /\ Cardinality(Owing') <= Cardinality(Owing) + 1
    BY <1>0, <2>2, OneMore
  <2>4. Cardinality(Owing) = 0 BY <2>1, FS_EmptySet
  <2> QED BY <1>2, <2>3, <2>4 DEF Dispatch, Unsent
<1>3. ASSUME NEW m \in Messages,
             \/ Check(m) \/ InsertFails(m) \/ GiveUp(m) \/ Mark(m)
             \/ Ack(m) \/ TimeOut(m) \/ Redeliver(m)
      PROVE  CopiesOwed'
  <2>1. Owing' \subseteq Owing
    BY <1>3 DEF Check, InsertFails, GiveUp, Mark, Ack, TimeOut, Redeliver, Move, Owing
  <2>2. rows' = rows /\ slips' = slips
    BY <1>3 DEF Check, InsertFails, GiveUp, Mark, Ack, TimeOut, Redeliver
  <2>3. Cardinality(Owing') \in Nat /\ Cardinality(Owing') <= Cardinality(Owing)
    BY <1>0, <2>1, Fewer
  <2> QED BY <1>0, <2>2, <2>3
<1>4. ASSUME NEW m \in Messages, CheckBlind(m) \/ MarkFails(m) \/ RedeliverSlip(m)
      PROVE  CopiesOwed'
  <2>1. Owing' \subseteq Owing \cup {m}
    BY <1>4 DEF CheckBlind, MarkFails, RedeliverSlip, Move, Owing
  <2>2. rows' = rows /\ slips' = slips + 1
    BY <1>4 DEF CheckBlind, MarkFails, RedeliverSlip, Slip
  <2>3. Cardinality(Owing') \in Nat /\ Cardinality(Owing') <= Cardinality(Owing) + 1
    BY <1>0, <2>1, OneMore
  <2> QED BY <1>0, <2>2, <2>3
<1>5. ASSUME NEW m \in Messages, Insert(m) PROVE CopiesOwed'
  <2>1. m \in Owing /\ Owing' \subseteq Owing \ {m} BY <1>5 DEF Insert, Move, Owing
  <2>2. Cardinality(Owing') \in Nat /\ Cardinality(Owing') <= Cardinality(Owing) - 1
    BY <1>0, <2>1, OneLess
  <2> QED BY <1>0, <1>5, <2>2 DEF Insert
<1>6. ASSUME NEW m \in Messages, InsertUnheard(m) PROVE CopiesOwed'
  <2>1. Owing' \subseteq Owing BY <1>6 DEF InsertUnheard, Move, Owing
  <2>2. Cardinality(Owing') \in Nat /\ Cardinality(Owing') <= Cardinality(Owing)
    BY <1>0, <2>1, Fewer
  <2> QED BY <1>0, <1>6, <2>2 DEF InsertUnheard, Slip
<1>7. ASSUME NEW m \in Messages, NEW n \in Messages, Retry(m, n) PROVE CopiesOwed'
  <2>1. CASE done
    <3>1. Owing' \subseteq Owing BY <1>7, <2>1 DEF Retry, Owing
    <3>2. Cardinality(Owing') \in Nat /\ Cardinality(Owing') <= Cardinality(Owing)
      BY <1>0, <3>1, Fewer
    <3> QED BY <1>0, <1>7, <3>2 DEF Retry
  <2>2. CASE ~done
    <3> DEFINE Others == Owing \ {m}
    <3>1. m \in Owing /\ Owing' \subseteq Others \cup {n} BY <1>7, <2>2 DEF Retry, Owing
    <3>2. IsFiniteSet(Others) /\ Cardinality(Others) \in Nat
          /\ Cardinality(Others) <= Cardinality(Owing) - 1
      BY <1>0, <3>1, OneLess, FS_Subset
    <3>3. Cardinality(Owing') \in Nat /\ Cardinality(Owing') <= Cardinality(Others) + 1
      <4> HIDE DEF Others
      <4> QED BY <3>1, <3>2, OneMore
    <3> QED BY <1>0, <1>7, <3>2, <3>3 DEF Retry
  <2> QED BY <2>1, <2>2
<1> QED BY <1>1, <1>2, <1>3, <1>4, <1>5, <1>6, <1>7 DEF Next

LEMMA NotifyInvariant == Spec => []NotifyInv
<1>1. NotifyInv /\ [Next]_vars => NotifyInv'
  BY TypeStep, OrderStep, CopiesStep DEF NotifyInv
<1> QED BY InitInv, <1>1, PTL DEF Spec

\* Every reachable state of the broker, the workers and the mark is well typed
\* (tasks/notification_tasks.py:91-220).
THEOREM TypeCorrect == Spec => []TypeOK
<1>1. NotifyInv => TypeOK BY DEF NotifyInv
<1> QED BY <1>1, NotifyInvariant, PTL

\* However messages are retried, redelivered and executed side by side, there is at
\* most one notification, and one more per slip.
THEOREM CopiesCorrect == Spec => []OneCopyPerSlip
<1>1. NotifyInv => OneCopyPerSlip
  BY OwingFinite DEF NotifyInv, TypeOK, CopiesOwed, OneCopyPerSlip
<1> QED BY <1>1, NotifyInvariant, PTL

\* A notification that is not stored is on its way, whatever workers died, unless its
\* dispatch failed, its retries were used up or a time limit ended an execution of it
\* before the row was stored.
THEOREM NotLostCorrect == Spec => []NotLost
<1>1. NotifyInv => NotLost BY DEF NotifyInv, UnderWay, NotLost
<1> QED BY <1>1, NotifyInvariant, PTL
=============================================================================
