------------------------------- MODULE TQueue -------------------------------
(***************************************************************************)
(* dev::TQueue<T> (utils/tqueue.h): the queue that carries requests from   *)
(* the IPC thread to the emulation thread and results back.  One mutex,    *)
(* one condition variable, any number of pushing threads and the single    *)
(* popping thread each queue of the program has.                           *)
(*                                                                         *)
(* A critical section is two steps, acquiring the mutex and the body that  *)
(* ends by releasing it.  notify_one() is a step of its own because the    *)
(* code calls it after unlocking.  Items are numbered in push order.       *)
(***************************************************************************)
EXTENDS Naturals, Sequences

CONSTANTS
  Producers,   \* the threads that call push() or emplace()
  Consumer,    \* the one thread that calls pop()
  MaxLength,   \* the constructor's _maxLegth (10 in the code)
  MaxSent      \* bound: items pushed in a behaviour

ASSUME TQueueAssumption ==
  /\ Consumer \notin Producers
  /\ MaxLength \in Nat
  /\ MaxSent \in Nat

VARIABLES
  queue,       \* m_queue: the numbers of the items it holds
  mutex,       \* m_mutex: the threads that hold it
  ppc,         \* where each producer is
  cpc,         \* where the consumer is
  waitTime,    \* the _waitTime of the consumer's call
  timedOut,    \* the consumer has been back from wait_for() once
  sent,        \* how many items were pushed
  received     \* the item numbers pop() has returned

vars == <<queue, mutex, ppc, cpc, waitTime, timedOut, sent, received>>

WaitTimes == {"none", "timed", "forever"}    \* = 0, > 0 and < 0 nanoseconds

Init ==
  /\ queue = <<>>
  /\ mutex = {}
  /\ ppc = [p \in Producers |-> "idle"]
  /\ cpc = "idle"
  /\ waitTime = "none"
  /\ timedOut = FALSE
  /\ sent = 0
  /\ received = <<>>

-----------------------------------------------------------------------------
(* push(), emplace() *)

PushLock(p) ==
  /\ ppc[p] = "idle" /\ sent < MaxSent
  /\ mutex = {}
  /\ mutex' = {p}
  /\ ppc' = [ppc EXCEPT ![p] = "locked"]
  /\ UNCHANGED <<queue, cpc, waitTime, timedOut, sent, received>>

(* Mutants: no limit; the item is queued and nobody is told. *)
NoLimit(q) == q

PushSilently(p) ==
  /\ ppc[p] = "locked"
  /\ queue' = Append(queue, sent + 1)
  /\ sent' = sent + 1
  /\ mutex' = {}
  /\ ppc' = [ppc EXCEPT ![p] = "idle"]
  /\ UNCHANGED <<cpc, waitTime, timedOut, received>>

(* The oldest item makes room only once the queue is LONGER than MaxLength. *)
MakeRoom(q) == IF Len(q) > MaxLength THEN Tail(q) ELSE q

PushBody(p) ==
  /\ ppc[p] = "locked"
  /\ queue' = Append(MakeRoom(queue), sent + 1)
  /\ sent' = sent + 1
  /\ mutex' = {}
  /\ ppc' = [ppc EXCEPT ![p] = "notify"]
  /\ UNCHANGED <<cpc, waitTime, timedOut, received>>

Notify(p) ==
  /\ ppc[p] = "notify"
  /\ ppc' = [ppc EXCEPT ![p] = "idle"]
  /\ cpc' = IF cpc = "waiting" THEN "woken" ELSE cpc
  /\ UNCHANGED <<queue, mutex, waitTime, timedOut, sent, received>>

-----------------------------------------------------------------------------
(* pop() *)

PopLock(w) ==
  /\ cpc = "idle"
  /\ mutex = {}
  /\ mutex' = {Consumer}
  /\ cpc' = "locked"
  /\ waitTime' = w
  /\ timedOut' = FALSE
  /\ UNCHANGED <<queue, ppc, sent, received>>

(* m_queue.pop(), and the mutant that forgets it. *)
StillThere(q) == q
Rest(q) == Tail(q)

PopItem ==
  /\ cpc = "locked" /\ queue # <<>>
  /\ received' = Append(received, Head(queue))
  /\ queue' = Rest(queue)
  /\ mutex' = {}
  /\ cpc' = "idle"
  /\ UNCHANGED <<ppc, waitTime, timedOut, sent>>

(* The two early returns: no waiting asked for, or one wait already over. *)
PopNothing ==
  /\ cpc = "locked" /\ queue = <<>>
  /\ waitTime = "none" \/ (waitTime = "timed" /\ timedOut)
  /\ mutex' = {}
  /\ cpc' = "idle"
  /\ UNCHANGED <<queue, ppc, waitTime, timedOut, sent, received>>

(* Mutant: the empty test and the wait are not under one lock. *)
PopWaitUnlocked ==
  /\ cpc = "locked" /\ queue = <<>>
  /\ waitTime = "forever" \/ (waitTime = "timed" /\ ~timedOut)
  /\ mutex' = {}
  /\ cpc' = "sleep"
  /\ UNCHANGED <<queue, ppc, waitTime, timedOut, sent, received>>

(* The test that decides to wait, made with the mutex held ... *)
PopWait ==
  /\ cpc = "locked" /\ queue = <<>>
  /\ waitTime = "forever" \/ (waitTime = "timed" /\ ~timedOut)
  /\ cpc' = "sleep"
  /\ UNCHANGED <<queue, mutex, ppc, waitTime, timedOut, sent, received>>

(* ... and the wait, which releases it and blocks in one step. *)
PopSleep ==
  /\ cpc = "sleep"
  /\ mutex' = {}
  /\ cpc' = "waiting"
  /\ UNCHANGED <<queue, ppc, waitTime, timedOut, sent, received>>

(* The timeout of wait_for(), or the spurious wake-up either wait allows. *)
WakeUnnotified ==
  /\ cpc = "waiting"
  /\ cpc' = "woken"
  /\ UNCHANGED <<queue, mutex, ppc, waitTime, timedOut, sent, received>>

PopRelock ==
  /\ cpc = "woken"
  /\ mutex = {}
  /\ mutex' = {Consumer}
  /\ cpc' = "locked"
  /\ timedOut' = (waitTime = "timed")
  /\ UNCHANGED <<queue, ppc, waitTime, sent, received>>

-----------------------------------------------------------------------------
Push(p) == PushLock(p) \/ PushBody(p) \/ Notify(p)
PopSteps == PopItem \/ PopNothing \/ PopWait \/ PopSleep \/ PopRelock

Next ==
  \/ \E p \in Producers : Push(p)
  \/ \E w \in WaitTimes : PopLock(w)
  \/ PopSteps
  \/ WakeUnnotified

(* A thread inside a call finishes it; nothing makes a thread start one, and *)
(* nothing but a notification has to wake a waiter.                          *)
Fairness ==
  /\ \A p \in Producers : WF_vars(PushBody(p) \/ Notify(p))
  /\ WF_vars(PopSteps)

Spec == Init /\ [][Next]_vars /\ Fairness

-----------------------------------------------------------------------------
(* The type invariant.  Its bound on the length is the queue's real capacity: *)
(* push() tests the length before it inserts, so one more than _maxLegth.     *)
TypeOK ==
  /\ queue \in Seq(1..MaxSent) /\ Len(queue) <= MaxLength + 1
  /\ mutex \subseteq Producers \union {Consumer}
  /\ ppc \in [Producers -> {"idle", "locked", "notify"}]
  /\ cpc \in {"idle", "locked", "sleep", "waiting", "woken"}
  /\ waitTime \in WaitTimes
  /\ timedOut \in BOOLEAN
  /\ sent \in 0..MaxSent
  /\ received \in Seq(1..MaxSent)

Increasing(s) == \A i, j \in 1..Len(s) : i < j => s[i] < s[j]

(* First in, first out, nothing twice: what pop() has returned followed by *)
(* what the queue holds is increasing in push order, and ends with the     *)
(* newest item whenever one is queued (only OLD items are ever dropped).   *)
FifoOrder ==
  /\ Increasing(received \o queue)
  /\ queue # <<>> => queue[Len(queue)] = sent

(* No lost wake-up: if the consumer sleeps although an item is queued, some *)
(* producer has released the mutex and is about to notify.                  *)
NoLostWakeup ==
  cpc = "waiting" /\ queue # <<>> => \E p \in Producers : ppc[p] = "notify"

(* A waiting pop() that an item has reached returns. *)
WaiterServed == (cpc = "waiting" /\ queue # <<>>) ~> (cpc = "idle")

=============================================================================
