---------------------------- MODULE TQueueProofs ----------------------------
(***************************************************************************)
(* What module TQueue promises for every number of producers, every        *)
(* maximum length and every number of items: the type invariant with the   *)
(* real capacity, mutual exclusion, no lost wake-up and FIFO order.        *)
(***************************************************************************)
EXTENDS TQueue, SequenceTheorems, TLAPS

(* The mutex says who is inside a critical section. *)
MutualExclusion ==
  /\ \A p \in Producers : ppc[p] = "locked" <=> mutex = {p}
  /\ cpc \in {"locked", "sleep"} <=> mutex = {Consumer}

(* The bound of the model holds inside a critical section too. *)
Bounded == \A p \in Producers : ppc[p] = "locked" => sent < MaxSent

(* The consumer decides to wait on an empty queue and keeps the mutex until *)
(* it blocks, so nothing can be queued in between.                          *)
WaitsOnEmpty == cpc = "sleep" => queue = <<>>

(* Items are numbered as they are pushed: nothing carries a later number. *)
KnownItems ==
  /\ \A i \in 1..Len(received) : received[i] <= sent
  /\ \A i \in 1..Len(queue) : queue[i] <= sent

Wakeups == TypeOK /\ MutualExclusion /\ WaitsOnEmpty /\ NoLostWakeup
Items == TypeOK /\ KnownItems /\ FifoOrder

-----------------------------------------------------------------------------
(* Making room keeps a queue a queue and never lengthens it past MaxLength. *)
LEMMA MakeRoomType ==
  ASSUME NEW S, NEW q \in Seq(S), Len(q) <= MaxLength + 1
  PROVE  /\ MakeRoom(q) \in Seq(S)
         /\ Len(MakeRoom(q)) <= MaxLength
  <1>1. CASE Len(q) > MaxLength
    <2>1. q # <<>>
      BY <1>1, TQueueAssumption
    <2>2. Tail(q) \in Seq(S) /\ Len(Tail(q)) = Len(q) - 1
      BY <2>1, HeadTailProperties
    <2> QED
      BY <1>1, <2>2, TQueueAssumption, LenProperties DEF MakeRoom
  <1>2. CASE ~(Len(q) > MaxLength)
    BY <1>2, TQueueAssumption, LenProperties DEF MakeRoom
  <1> QED
    BY <1>1, <1>2

-----------------------------------------------------------------------------
(* Mutual exclusion is inductive by itself. *)
LEMMA Exclusion ==
  ASSUME TypeOK, MutualExclusion, [Next]_vars
  PROVE  MutualExclusion'
  <1> USE TQueueAssumption DEF TypeOK, MutualExclusion
  <1>1. ASSUME NEW p \in Producers, PushLock(p) PROVE MutualExclusion'
    BY <1>1 DEF PushLock
  <1>2. ASSUME NEW p \in Producers, PushBody(p) PROVE MutualExclusion'
    BY <1>2 DEF PushBody
  <1>3. ASSUME NEW p \in Producers, Notify(p) PROVE MutualExclusion'
    BY <1>3 DEF Notify
  <1>4. ASSUME NEW w \in WaitTimes, PopLock(w) PROVE MutualExclusion'
    BY <1>4 DEF PopLock
  <1>5. CASE PopSteps
    BY <1>5 DEF PopSteps, PopItem, PopNothing, PopWait, PopSleep, PopRelock
  <1>6. CASE WakeUnnotified
    BY <1>6 DEF WakeUnnotified
  <1>7. CASE UNCHANGED vars
    BY <1>7 DEF vars
  <1> QED
    BY <1>1, <1>2, <1>3, <1>4, <1>5, <1>6, <1>7 DEF Next, Push

(* A step keeps the types; a producer inside its critical section is the only *)
(* one, so the item it is about to number is within the bound of the model.   *)
LEMMA TypeStep ==
  ASSUME TypeOK, MutualExclusion, Bounded, [Next]_vars
  PROVE  TypeOK' /\ Bounded'
  <1> USE TQueueAssumption DEF TypeOK, Bounded
  <1>1. ASSUME NEW p \in Producers, PushLock(p) PROVE TypeOK' /\ Bounded'
    BY <1>1 DEF PushLock, MutualExclusion
  <1>2. ASSUME NEW p \in Producers, PushBody(p) PROVE TypeOK' /\ Bounded'
    <2>1. sent + 1 \in 1..MaxSent
      BY <1>2 DEF PushBody
    <2>2. queue' \in Seq(1..MaxSent) /\ Len(queue') <= MaxLength + 1
      BY <1>2, <2>1, MakeRoomType, AppendProperties DEF PushBody
    <2>3. \A q \in Producers : ppc'[q] # "locked"
      BY <1>2 DEF PushBody, MutualExclusion
    <2> QED
      BY <1>2, <2>1, <2>2, <2>3 DEF PushBody
  <1>3. ASSUME NEW p \in Producers, Notify(p) PROVE TypeOK' /\ Bounded'
    BY <1>3 DEF Notify
  <1>4. ASSUME NEW w \in WaitTimes, PopLock(w) PROVE TypeOK' /\ Bounded'
    BY <1>4 DEF PopLock
  <1>5. CASE PopItem
    BY <1>5, HeadTailProperties, AppendProperties DEF PopItem, Rest
  <1>6. CASE PopNothing \/ PopWait \/ PopSleep \/ PopRelock
    BY <1>6 DEF PopNothing, PopWait, PopSleep, PopRelock
  <1>7. CASE WakeUnnotified
    BY <1>7 DEF WakeUnnotified
  <1>8. CASE UNCHANGED vars
    BY <1>8 DEF vars
  <1> QED
    BY <1>1, <1>2, <1>3, <1>4, <1>5, <1>6, <1>7, <1>8 DEF Next, Push, PopSteps

(* The type invariant: in particular no queue ever holds more than one item *)
(* over its nominal maximum, and only one thread is in a critical section.  *)
THEOREM TypeCorrect == Spec => [](TypeOK /\ MutualExclusion)
  <1>1. Init => TypeOK /\ MutualExclusion /\ Bounded
    <2> SUFFICES ASSUME Init PROVE TypeOK /\ MutualExclusion /\ Bounded
      OBVIOUS
    <2>1. queue \in Seq(1..MaxSent) /\ Len(queue) <= MaxLength + 1
      BY EmptySeq, TQueueAssumption DEF Init
    <2>2. timedOut \in BOOLEAN
      BY DEF Init
    <2> QED
      BY <2>1, <2>2, TQueueAssumption
         DEF Init, TypeOK, WaitTimes, MutualExclusion, Bounded
  <1>2. TypeOK /\ MutualExclusion /\ Bounded /\ [Next]_vars
          => TypeOK' /\ MutualExclusion' /\ Bounded'
    BY TypeStep, Exclusion
  <1> QED
    BY <1>1, <1>2, PTL DEF Spec

(* The wait: an item cannot arrive between the test and the block, because  *)
(* the producer that would queue it does not have the mutex, and one that    *)
(* arrives later leaves its producer about to notify.                        *)
LEMMA Waiting ==
  ASSUME Wakeups, [Next]_vars
  PROVE  WaitsOnEmpty' /\ NoLostWakeup'
  <1> USE TQueueAssumption DEF Wakeups, TypeOK, WaitsOnEmpty, NoLostWakeup
  <1>1. ASSUME NEW p \in Producers, PushLock(p) PROVE WaitsOnEmpty' /\ NoLostWakeup'
    BY <1>1 DEF PushLock
  <1>2. ASSUME NEW p \in Producers, PushBody(p) PROVE WaitsOnEmpty' /\ NoLostWakeup'
    <2>1. cpc # "sleep"
      BY <1>2 DEF PushBody, MutualExclusion
    <2>2. ppc'[p] = "notify" /\ cpc' = cpc
      BY <1>2 DEF PushBody
    <2> QED
      BY <2>1, <2>2
  <1>3. ASSUME NEW p \in Producers, Notify(p) PROVE WaitsOnEmpty' /\ NoLostWakeup'
    BY <1>3 DEF Notify
  <1>4. ASSUME NEW w \in WaitTimes, PopLock(w) PROVE WaitsOnEmpty' /\ NoLostWakeup'
    BY <1>4 DEF PopLock
  <1>5. CASE PopSteps
    BY <1>5 DEF PopSteps, PopItem, PopNothing, PopWait, PopSleep, PopRelock
  <1>6. CASE WakeUnnotified
    BY <1>6 DEF WakeUnnotified
  <1>7. CASE UNCHANGED vars
    BY <1>7 DEF vars
  <1> QED
    BY <1>1, <1>2, <1>3, <1>4, <1>5, <1>6, <1>7 DEF Next, Push

(* pop() never sleeps on an item nobody will tell it about. *)
THEOREM WakeupNotLost == Spec => []NoLostWakeup
  <1>1. Init => WaitsOnEmpty /\ NoLostWakeup
    BY DEF Init, WaitsOnEmpty, NoLostWakeup
  <1>2. Wakeups /\ [Next]_vars => WaitsOnEmpty' /\ NoLostWakeup'
    BY Waiting
  <1> QED
    BY <1>1, <1>2, TypeCorrect, PTL DEF Spec, Wakeups

-----------------------------------------------------------------------------
(* When the concatenation of two sequences of numbers is increasing. *)
LEMMA IncreasingConcat ==
  ASSUME NEW a \in Seq(Nat), NEW b \in Seq(Nat)
  PROVE  Increasing(a \o b) <=>
           /\ Increasing(a) /\ Increasing(b)
           /\ \A i \in 1..Len(a), j \in 1..Len(b) : a[i] < b[j]
  <1> DEFINE c == a \o b
  <1>1. /\ Len(a) \in Nat /\ Len(b) \in Nat
        /\ \A i \in 1..Len(a) : a[i] \in Nat
        /\ \A i \in 1..Len(b) : b[i] \in Nat
    BY LenProperties, ElementOfSeq
  <1>2. /\ Len(c) = Len(a) + Len(b)
        /\ \A i \in 1..Len(c) : c[i] = IF i <= Len(a) THEN a[i] ELSE b[i - Len(a)]
    BY ConcatProperties
  <1>3. \A i \in 1..Len(b) : Len(a) + i \in 1..Len(c) /\ c[Len(a) + i] = b[i]
    BY <1>1, <1>2
  <1>4. \A i \in 1..Len(a) : i \in 1..Len(c) /\ c[i] = a[i]
    BY <1>1, <1>2
  <1> HIDE DEF c
  <1>5. ASSUME Increasing(c)
        PROVE  /\ Increasing(a) /\ Increasing(b)
               /\ \A i \in 1..Len(a), j \in 1..Len(b) : a[i] < b[j]
    <2>1. Increasing(a)
      <3> SUFFICES ASSUME NEW i \in 1..Len(a), NEW j \in 1..Len(a), i < j
                   PROVE  a[i] < a[j]
        BY DEF Increasing
      <3>1. c[i] < c[j]
        BY <1>4, <1>5 DEF Increasing
      <3> QED
        BY <3>1, <1>4
    <2>2. Increasing(b)
      <3> SUFFICES ASSUME NEW i \in 1..Len(b), NEW j \in 1..Len(b), i < j
                   PROVE  b[i] < b[j]
        BY DEF Increasing
      <3>1. Len(a) + i < Len(a) + j
        BY <1>1
      <3>2. c[Len(a) + i] < c[Len(a) + j]
        BY <1>3, <1>5, <3>1 DEF Increasing
      <3> QED
        BY <3>2, <1>3
    <2>3. ASSUME NEW i \in 1..Len(a), NEW j \in 1..Len(b) PROVE a[i] < b[j]
      <3>1. i < Len(a) + j
        BY <1>1
      <3>2. c[i] < c[Len(a) + j]
        BY <1>3, <1>4, <1>5, <3>1 DEF Increasing
      <3> QED
        BY <3>2, <1>3, <1>4
    <2> QED
      BY <2>1, <2>2, <2>3
  <1>6. ASSUME Increasing(a), Increasing(b),
               \A i \in 1..Len(a), j \in 1..Len(b) : a[i] < b[j]
        PROVE  Increasing(c)
    <2> SUFFICES ASSUME NEW i \in 1..Len(c), NEW j \in 1..Len(c), i < j
                 PROVE  c[i] < c[j]
      BY DEF Increasing
    <2>1. CASE j <= Len(a)
      <3>1. i \in 1..Len(a) /\ j \in 1..Len(a) /\ c[i] = a[i] /\ c[j] = a[j]
        BY <1>1, <1>2, <2>1
      <3> QED
        BY <1>6, <3>1 DEF Increasing
    <2>2. CASE i <= Len(a) /\ Len(a) < j
      <3>1. /\ i \in 1..Len(a) /\ j - Len(a) \in 1..Len(b)
            /\ c[i] = a[i] /\ c[j] = b[j - Len(a)]
        BY <1>1, <1>2, <2>2
      <3> QED
        BY <1>6, <3>1
    <2>3. CASE Len(a) < i
      <3>1. /\ i - Len(a) \in 1..Len(b) /\ j - Len(a) \in 1..Len(b)
            /\ i - Len(a) < j - Len(a)
            /\ c[i] = b[i - Len(a)] /\ c[j] = b[j - Len(a)]
        BY <1>1, <1>2, <2>3
      <3> QED
        BY <1>6, <3>1 DEF Increasing
    <2> QED
      BY <1>1, <1>2, <2>1, <2>2, <2>3
  <1> QED
    BY <1>5, <1>6 DEF c

(* Taking the first item of the queue leaves the order of delivery as it is. *)
LEMMA TakingKeepsOrder ==
  ASSUME NEW S, NEW a \in Seq(S), NEW b \in Seq(S), b # <<>>
  PROVE  Append(a, Head(b)) \o Tail(b) = a \o b
  <1>1. Head(b) \in S /\ Tail(b) \in Seq(S) /\ 1 \in 1..Len(b) /\ Len(b) \in 1..Len(b)
    BY HeadTailProperties, EmptySeq
  <1>2. <<Head(b)>> \in Seq(S)
    BY <1>1
  <1>3. <<Head(b)>> \o Tail(b) = b
    <2>1. SubSeq(b, 1, Len(b)) = <<b[1]>> \o SubSeq(b, 1 + 1, Len(b))
      BY <1>1, SubSeqRecursiveFirst
    <2> QED
      BY <2>1, SubSeqFull, TailIsSubSeq
  <1>4. Append(a, Head(b)) = a \o <<Head(b)>>
    BY <1>1, AppendIsConcat
  <1> QED
    BY <1>1, <1>2, <1>3, <1>4, ConcatAssociative

(* A queue that made room and took a newer item at its end is still increasing, *)
(* and above everything that was below all of it.                               *)
LEMMA PushKeepsIncreasing ==
  ASSUME NEW a \in Seq(Nat), NEW b \in Seq(Nat), NEW n \in Nat,
         Increasing(a \o b),
         \A i \in 1..Len(a) : a[i] < n,
         \A i \in 1..Len(b) : b[i] < n
  PROVE  Increasing(a \o Append(MakeRoom(b), n))
  <1>1. /\ Increasing(a) /\ Increasing(b)
        /\ \A i \in 1..Len(a), j \in 1..Len(b) : a[i] < b[j]
    BY IncreasingConcat
  <1>2. Len(b) \in Nat
    BY LenProperties
  <1>3. PICK k \in {0, 1} :
          /\ MakeRoom(b) \in Seq(Nat)
          /\ k <= Len(b) /\ Len(MakeRoom(b)) = Len(b) - k
          /\ \A i \in 1..Len(b) - k : MakeRoom(b)[i] = b[i + k]
    <2>1. CASE Len(b) > MaxLength
      <3>1. b # <<>> /\ Len(b) >= 1
        BY <1>2, <2>1, TQueueAssumption
      <3> QED
        BY <1>2, <2>1, <3>1, HeadTailProperties DEF MakeRoom
    <2>2. CASE ~(Len(b) > MaxLength)
      BY <1>2, <2>2 DEF MakeRoom
    <2> QED
      BY <2>1, <2>2
  <1> DEFINE q == MakeRoom(b)
             e == Append(q, n)
  <1>4. /\ e \in Seq(Nat) /\ Len(e) = Len(q) + 1
        /\ \A i \in 1..Len(q) : e[i] = q[i]
        /\ e[Len(q) + 1] = n
    BY <1>3, AppendProperties
  <1>5. ASSUME NEW i \in 1..Len(e)
        PROVE  (i = Len(e) /\ e[i] = n)
               \/ (i < Len(e) /\ i + k \in 1..Len(b) /\ e[i] = b[i + k])
    <2>1. CASE i = Len(q) + 1
      BY <1>4, <2>1
    <2>2. CASE i # Len(q) + 1
      <3>1. i \in 1..Len(q) /\ i + k \in 1..Len(b) /\ i \in 1..Len(b) - k
        BY <1>2, <1>3, <1>4, <2>2
      <3> QED
        BY <1>2, <1>3, <1>4, <3>1
    <2> QED
      BY <2>1, <2>2
  <1> HIDE DEF e, q
  <1>6. Len(e) \in Nat
    BY <1>4, LenProperties
  <1>7. Increasing(e)
    <2> SUFFICES ASSUME NEW i \in 1..Len(e), NEW j \in 1..Len(e), i < j
                 PROVE  e[i] < e[j]
      BY DEF Increasing
    <2>1. i + k \in 1..Len(b) /\ e[i] = b[i + k]
      BY <1>5, <1>6
    <2>2. CASE j = Len(e) /\ e[j] = n
      BY <2>1, <2>2
    <2>3. CASE j + k \in 1..Len(b) /\ e[j] = b[j + k]
      <3>1. i + k < j + k
        BY <1>3
      <3> QED
        BY <1>1, <2>1, <2>3, <3>1 DEF Increasing
    <2> QED
      BY <1>5, <2>2, <2>3
  <1>8. \A i \in 1..Len(a), j \in 1..Len(e) : a[i] < e[j]
    BY <1>1, <1>5
  <1> QED
    BY <1>1, <1>4, <1>7, <1>8, IncreasingConcat DEF e, q

-----------------------------------------------------------------------------
(* The order of delivery through one step. *)
LEMMA DeliveryStep ==
  ASSUME Items, TypeOK', [Next]_vars
  PROVE  KnownItems' /\ FifoOrder'
  <1> USE TQueueAssumption DEF Items
  <1>1. /\ queue \in Seq(Nat) /\ received \in Seq(Nat) /\ sent \in Nat
        /\ Len(queue) \in Nat /\ Len(received) \in Nat
        /\ \A i \in 1..Len(queue) : queue[i] \in Nat
        /\ \A i \in 1..Len(received) : received[i] \in Nat
    <2>1. 1..MaxSent \subseteq Nat
      OBVIOUS
    <2>2. queue \in Seq(Nat) /\ received \in Seq(Nat)
      BY <2>1, SeqMonotonic DEF TypeOK
    <2> QED
      BY <2>2, LenProperties, ElementOfSeq DEF TypeOK
  <1>2. ASSUME NEW p \in Producers, PushBody(p) PROVE KnownItems' /\ FifoOrder'
    <2>1. /\ queue' = Append(MakeRoom(queue), sent + 1)
          /\ received' = received /\ sent' = sent + 1
      BY <1>2 DEF PushBody
    <2>2. /\ \A i \in 1..Len(received) : received[i] < sent + 1
          /\ \A i \in 1..Len(queue) : queue[i] < sent + 1
      BY <1>1 DEF KnownItems
    <2>3. Increasing(received' \o queue')
      <3>1. sent + 1 \in Nat /\ Increasing(received \o queue)
        BY <1>1 DEF FifoOrder
      <3>2. Increasing(received \o Append(MakeRoom(queue), sent + 1))
        BY <1>1, <2>2, <3>1, PushKeepsIncreasing
      <3> QED
        BY <2>1, <3>2
    <2>4. /\ queue'[Len(queue')] = sent'
          /\ \A i \in 1..Len(queue') : queue'[i] <= sent'
      <3>1. /\ MakeRoom(queue) \in Seq(Nat)
            /\ \A i \in 1..Len(MakeRoom(queue)) : MakeRoom(queue)[i] <= sent
        <4>1. CASE Len(queue) > MaxLength
          <5>1. queue # <<>>
            BY <4>1
          <5>2. /\ Tail(queue) \in Seq(Nat) /\ Len(Tail(queue)) = Len(queue) - 1
                /\ \A i \in 1..Len(Tail(queue)) : Tail(queue)[i] = queue[i + 1]
            BY <1>1, <5>1, HeadTailProperties
          <5> QED
            BY <1>1, <4>1, <5>2 DEF MakeRoom, KnownItems
        <4>2. CASE ~(Len(queue) > MaxLength)
          BY <1>1, <4>2 DEF MakeRoom, KnownItems
        <4> QED
          BY <4>1, <4>2
      <3>2. /\ Len(queue') = Len(MakeRoom(queue)) + 1 /\ Len(MakeRoom(queue)) \in Nat
            /\ \A i \in 1..Len(MakeRoom(queue)) : queue'[i] = MakeRoom(queue)[i]
            /\ queue'[Len(MakeRoom(queue)) + 1] = sent + 1
        BY <1>1, <2>1, <3>1, AppendProperties, LenProperties
      <3>3. ASSUME NEW i \in 1..Len(queue') PROVE queue'[i] <= sent'
        <4>1. CASE i = Len(queue')
          BY <1>1, <2>1, <3>2, <4>1
        <4>2. CASE i # Len(queue')
          <5>1. i \in 1..Len(MakeRoom(queue))
            BY <3>2, <4>2
          <5>2. MakeRoom(queue)[i] <= sent /\ MakeRoom(queue)[i] \in Nat
            BY <3>1, <5>1, ElementOfSeq
          <5> QED
            BY <1>1, <2>1, <3>2, <5>1, <5>2
        <4> QED
          BY <4>1, <4>2
      <3> QED
        BY <2>1, <3>2, <3>3
    <2> QED
      BY <1>1, <2>1, <2>2, <2>3, <2>4 DEF KnownItems, FifoOrder
  <1>3. CASE PopItem
    <2>1. /\ queue # <<>> /\ queue' = Tail(queue) /\ sent' = sent
          /\ received' = Append(received, Head(queue))
      BY <1>3 DEF PopItem, Rest
    <2>2. Increasing(received' \o queue')
      BY <1>1, <2>1, TakingKeepsOrder DEF FifoOrder
    <2>3. /\ Len(Tail(queue)) = Len(queue) - 1 /\ Head(queue) = queue[1]
          /\ \A i \in 1..Len(queue) - 1 : Tail(queue)[i] = queue[i + 1]
          /\ Len(queue) >= 1
      BY <1>1, <2>1, HeadTailProperties, EmptySeq
    <2>4. /\ Len(received') = Len(received) + 1
          /\ \A i \in 1..Len(received) : received'[i] = received[i]
          /\ received'[Len(received) + 1] = queue[1]
      BY <1>1, <2>1, <2>3, AppendProperties
    <2>5. KnownItems'
      <3>1. ASSUME NEW i \in 1..Len(received') PROVE received'[i] <= sent
        <4>1. CASE i = Len(received) + 1
          <5>1. 1 \in 1..Len(queue) /\ received'[i] = queue[1]
            BY <1>1, <2>3, <2>4, <4>1
          <5> QED
            BY <5>1 DEF KnownItems
        <4>2. CASE i # Len(received) + 1
          <5>1. i \in 1..Len(received) /\ received'[i] = received[i]
            BY <1>1, <2>4, <4>2
          <5> QED
            BY <5>1 DEF KnownItems
        <4> QED
          BY <4>1, <4>2
      <3>2. ASSUME NEW i \in 1..Len(queue') PROVE queue'[i] <= sent
        BY <1>1, <2>1, <2>3 DEF KnownItems
      <3> QED
        BY <2>1, <3>1, <3>2 DEF KnownItems
    <2>6. queue' # <<>> => queue'[Len(queue')] = sent'
      <3> SUFFICES ASSUME queue' # <<>> PROVE queue'[Len(queue')] = sent'
        OBVIOUS
      <3>1. Len(queue') = Len(queue) - 1 /\ Len(queue') >= 1
        BY <1>1, <2>1, <2>3, HeadTailProperties, EmptySeq
      <3>2. Len(queue) - 1 \in 1..Len(queue) - 1 /\ Len(queue) - 1 + 1 = Len(queue)
        BY <1>1, <3>1
      <3> QED
        BY <2>1, <2>3, <3>1, <3>2 DEF FifoOrder
    <2> QED
      BY <2>2, <2>5, <2>6 DEF FifoOrder
  <1>4. ASSUME UNCHANGED <<queue, received, sent>> PROVE KnownItems' /\ FifoOrder'
    BY <1>4 DEF KnownItems, FifoOrder
  <1> QED
    BY <1>2, <1>3, <1>4 DEF Next, Push, PushLock, Notify, PopLock, PopSteps,
       PopNothing, PopWait, PopSleep, PopRelock, WakeUnnotified, vars

(* Requests and results are delivered in the order they were queued, none of *)
(* them twice, and the newest one is never the one that is dropped.          *)
THEOREM DeliveryInOrder == Spec => []FifoOrder
  <1>1. Init => KnownItems /\ FifoOrder
    <2>1. ASSUME queue = <<>>, received = <<>>
          PROVE  Len(queue) = 0 /\ Len(received) = 0 /\ Len(received \o queue) = 0
      <3>1. <<>> \in Seq(Nat) /\ Len(<<>>) = 0
        BY EmptySeq
      <3> QED
        BY <2>1, <3>1, ConcatProperties
    <2> QED
      BY <2>1 DEF Init, KnownItems, FifoOrder, Increasing
  <1>2. Items /\ TypeOK' /\ [Next]_vars => KnownItems' /\ FifoOrder'
    BY DeliveryStep
  <1> QED
    BY <1>1, <1>2, TypeCorrect, PTL DEF Spec, Items

=============================================================================
