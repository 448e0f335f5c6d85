------------------------------ MODULE Dispatcher ------------------------------
(***************************************************************************)
(* The MAD dispatcher of the management simulator (class IBMSDispatcher):  *)
(* a queue of MADs sorted by wake-up time, a timer thread that moves the   *)
(* MADs that are due to the dispatch queue, and worker threads that take   *)
(* them from there and route them.                                         *)
(*                                                                         *)
(* Granularity.  A critical section that its thread runs from lock to      *)
(* unlock without waiting for anything else is one action.  The timer      *)
(* thread keeps madQueueByWakeupLock over several iterations of its loop,  *)
(* so the lock is held exactly when timer is "scan" or "move" (see         *)
(* WakeupLockFree).  madDispatchQueueLock is never held across actions.    *)
(***************************************************************************)
EXTENDS Integers, SequencesExt

CONSTANTS
  Mads,      \* the MADs handed to dispatchMad, each one a distinct packet
  Workers,   \* the worker threads
  Delays,    \* the random travel times, around avgDelay_usec
  IdlePoll,  \* how long the timer thread sleeps on an empty queue (2 seconds)
  MaxTime    \* bound: the clock stops here, nothing is due later

ASSUME DispatcherAssumption ==
  /\ IsFiniteSet(Workers)
  /\ Delays \subseteq Nat
  /\ IdlePoll \in Nat
  /\ MaxTime \in Nat

VARIABLES
  now,        \* the time of day
  stamped,    \* items whose caller computed the wake-up time and wants the lock
  waitQ,      \* madQueueByWakeup: items sorted by wake-up time
  timer,      \* what the timer thread does
  deadline,   \* nextWakeup, the absolute time of its timed wait
  dispatchQ,  \* madDispatchQueue
  worker,     \* what each worker thread does
  hand,       \* the MAD a worker is routing: {} or a singleton
  routed,     \* MADs whose routing has returned
  accepted,   \* history: the items in order of insertion
  taken       \* history: the MADs in the order the workers took them

vars == <<now, stamped, waitQ, timer, deadline, dispatchQ, worker, hand,
          routed, accepted, taken>>

Items == [mad : Mads, wake : Nat]

WakeupLockFree == timer \notin {"scan", "move"}

\* Mutants of InsertByWakeup: a map with unique keys refuses the second item of
\* a key; an insertion at the lower bound reverses the items of a key.
InsertByUniqueKey(q, item) ==
  IF \E i \in DOMAIN q : q[i].wake = item.wake
    THEN q
    ELSE InsertAt(q, 1 + Cardinality({i \in DOMAIN q : q[i].wake < item.wake}), item)

InsertAtLowerBound(q, item) ==
  InsertAt(q, 1 + Cardinality({i \in DOMAIN q : q[i].wake < item.wake}), item)

\* Insertion into the multimap: after the items with the same key.
InsertByWakeup(q, item) ==
  InsertAt(q, 1 + Cardinality({i \in DOMAIN q : q[i].wake <= item.wake}), item)

MadsIn(q) == {q[i].mad : i \in DOMAIN q}

Init ==
  /\ now = 0
  /\ stamped = {}
  /\ waitQ = <<>>
  /\ timer = "scan"
  /\ deadline = 0
  /\ dispatchQ = <<>>
  /\ worker = [w \in Workers |-> "test"]
  /\ hand = [w \in Workers |-> {}]
  /\ routed = {}
  /\ accepted = <<>>
  /\ taken = <<>>

-----------------------------------------------------------------------------
\* dispatchMad, before the lock: the caller reads the clock and adds the delay.
StampMad(m, d) ==
  /\ m \notin {it.mad : it \in stamped} \cup MadsIn(accepted)
  /\ now + d <= MaxTime
  /\ stamped' = stamped \cup {[mad |-> m, wake |-> now + d]}
  /\ UNCHANGED <<now, waitQ, timer, deadline, dispatchQ, worker, hand, routed,
                 accepted, taken>>

\* Mutant of InsertMad: no signal to the timer.
InsertMadNoSignal(item) ==
  /\ item \in stamped
  /\ WakeupLockFree
  /\ stamped' = stamped \ {item}
  /\ waitQ' = InsertByWakeup(waitQ, item)
  /\ accepted' = Append(accepted, item)
  /\ UNCHANGED <<now, timer, deadline, dispatchQ, worker, hand, routed, taken>>

\* dispatchMad, under madQueueByWakeupLock: insert and signal the timer.
InsertMad(item) ==
  /\ item \in stamped
  /\ WakeupLockFree
  /\ stamped' = stamped \ {item}
  /\ waitQ' = InsertByWakeup(waitQ, item)
  /\ timer' = IF timer = "wait" THEN "woken" ELSE timer
  /\ accepted' = Append(accepted, item)
  /\ UNCHANGED <<now, deadline, dispatchQ, worker, hand, routed, taken>>

-----------------------------------------------------------------------------
\* timerCallback finds a MAD that is due at the head of the queue.
TimerFindDue ==
  /\ timer = "scan"
  /\ waitQ # <<>>
  /\ Head(waitQ).wake <= now
  /\ timer' = "move"
  /\ UNCHANGED <<now, stamped, waitQ, deadline, dispatchQ, worker, hand,
                 routed, accepted, taken>>

\* ... or none, and waits for the first one or for two seconds.
TimerWait ==
  /\ timer = "scan"
  /\ \/ /\ waitQ = <<>>
        /\ deadline' = now + IdlePoll
     \/ /\ waitQ # <<>>
        /\ now < Head(waitQ).wake
        /\ deadline' = Head(waitQ).wake
  /\ timer' = "wait"
  /\ UNCHANGED <<now, stamped, waitQ, dispatchQ, worker, hand, routed,
                 accepted, taken>>

Sleepers == {w \in Workers : worker[w] = "wait"}

\* pthread_cond_signal on newMadIntoDispatchQ.
SignalWorker ==
  IF Sleepers = {}
    THEN UNCHANGED worker
    ELSE \E w \in Sleepers : worker' = [worker EXCEPT ![w] = "test"]

\* Mutants of TimerMove: the item is not erased from the sorted queue; a worker
\* is signalled only when the dispatch queue was empty; no worker is signalled.
TimerMoveNoErase ==
  /\ timer = "move"
  /\ dispatchQ' = Append(dispatchQ, Head(waitQ).mad)
  /\ SignalWorker
  /\ timer' = "scan"
  /\ UNCHANGED <<now, stamped, waitQ, deadline, hand, routed, accepted, taken>>

TimerMoveSignalFirst ==
  /\ timer = "move"
  /\ dispatchQ' = Append(dispatchQ, Head(waitQ).mad)
  /\ waitQ' = Tail(waitQ)
  /\ IF dispatchQ = <<>> THEN SignalWorker ELSE UNCHANGED worker
  /\ timer' = "scan"
  /\ UNCHANGED <<now, stamped, deadline, hand, routed, accepted, taken>>

TimerMoveNoSignal ==
  /\ timer = "move"
  /\ dispatchQ' = Append(dispatchQ, Head(waitQ).mad)
  /\ waitQ' = Tail(waitQ)
  /\ timer' = "scan"
  /\ UNCHANGED <<now, stamped, deadline, worker, hand, routed, accepted, taken>>

\* Under both locks: move the MAD to the dispatch queue, signal one worker.
TimerMove ==
  /\ timer = "move"
  /\ dispatchQ' = Append(dispatchQ, Head(waitQ).mad)
  /\ waitQ' = Tail(waitQ)
  /\ SignalWorker
  /\ timer' = "scan"
  /\ UNCHANGED <<now, stamped, deadline, hand, routed, accepted, taken>>

\* The timed wait ends: at its deadline, or spuriously.
TimerTimeout ==
  /\ timer = "wait"
  /\ deadline <= now
  /\ timer' = "woken"
  /\ UNCHANGED <<now, stamped, waitQ, deadline, dispatchQ, worker, hand,
                 routed, accepted, taken>>

TimerSpuriousWakeup ==
  /\ timer = "wait"
  /\ timer' = "woken"
  /\ UNCHANGED <<now, stamped, waitQ, deadline, dispatchQ, worker, hand,
                 routed, accepted, taken>>

\* The timer thread gets madQueueByWakeupLock back.
TimerResume ==
  /\ timer = "woken"
  /\ timer' = "scan"
  /\ UNCHANGED <<now, stamped, waitQ, deadline, dispatchQ, worker, hand,
                 routed, accepted, taken>>

-----------------------------------------------------------------------------
\* workerCallback, under madDispatchQueueLock: take the first MAD ...
WorkerTake(w) ==
  /\ worker[w] = "test"
  /\ dispatchQ # <<>>
  /\ hand' = [hand EXCEPT ![w] = {Head(dispatchQ)}]
  /\ taken' = Append(taken, Head(dispatchQ))
  /\ dispatchQ' = Tail(dispatchQ)
  /\ worker' = [worker EXCEPT ![w] = "route"]
  /\ UNCHANGED <<now, stamped, waitQ, timer, deadline, routed, accepted>>

\* ... or wait for one.
WorkerWait(w) ==
  /\ worker[w] = "test"
  /\ dispatchQ = <<>>
  /\ worker' = [worker EXCEPT ![w] = "wait"]
  /\ UNCHANGED <<now, stamped, waitQ, timer, deadline, dispatchQ, hand,
                 routed, accepted, taken>>

\* Mutant of WorkerRouted: the worker keeps the item and routes it again.
WorkerRoutedAgain(w) ==
  /\ worker[w] = "route"
  /\ routed' = routed \cup hand[w]
  /\ worker' = [worker EXCEPT ![w] = "test"]
  /\ UNCHANGED <<now, stamped, waitQ, timer, deadline, dispatchQ, hand,
                 accepted, taken>>

\* routeMadToDest returns; the worker goes back to the lock.
WorkerRouted(w) ==
  /\ worker[w] = "route"
  /\ routed' = routed \cup hand[w]
  /\ hand' = [hand EXCEPT ![w] = {}]
  /\ worker' = [worker EXCEPT ![w] = "test"]
  /\ UNCHANGED <<now, stamped, waitQ, timer, deadline, dispatchQ, accepted,
                 taken>>

WorkerSpuriousWakeup(w) ==
  /\ worker[w] = "wait"
  /\ worker' = [worker EXCEPT ![w] = "test"]
  /\ UNCHANGED <<now, stamped, waitQ, timer, deadline, dispatchQ, hand,
                 routed, accepted, taken>>

-----------------------------------------------------------------------------
Tick ==
  /\ now < MaxTime
  /\ now' = now + 1
  /\ UNCHANGED <<stamped, waitQ, timer, deadline, dispatchQ, worker, hand,
                 routed, accepted, taken>>

TimerStep ==
  \/ TimerFindDue
  \/ TimerWait
  \/ TimerMove
  \/ TimerTimeout
  \/ TimerResume

WorkerStep(w) == WorkerTake(w) \/ WorkerWait(w) \/ WorkerRouted(w)

Next ==
  \/ \E m \in Mads, d \in Delays : StampMad(m, d)
  \/ \E item \in stamped : InsertMad(item)
  \/ TimerStep
  \/ TimerSpuriousWakeup
  \/ \E w \in Workers : WorkerStep(w) \/ WorkerSpuriousWakeup(w)
  \/ Tick

\* Every thread that can go on does, a caller that keeps finding the lock free
\* gets it in the end, and time passes.  Nobody is obliged to send a MAD.
Fairness ==
  /\ WF_vars(TimerStep)
  /\ \A w \in Workers : WF_vars(WorkerStep(w))
  /\ \A m \in Mads : SF_vars(\E item \in stamped : item.mad = m /\ InsertMad(item))
  /\ WF_vars(Tick)

Spec == Init /\ [][Next]_vars

FairSpec == Spec /\ Fairness
-----------------------------------------------------------------------------
AcceptedMads == MadsIn(accepted)
WaitingMads == MadsIn(waitQ)
DueMads == ToSet(dispatchQ)
HandMads == UNION {hand[w] : w \in Workers}

\* Types of the variables: the queues hold MADs and absolute times, a worker
\* has a MAD in its hand exactly while it routes.
TypeOK ==
  /\ now \in 0 .. MaxTime
  /\ stamped \subseteq Items
  /\ waitQ \in Seq(Items)
  /\ timer \in {"scan", "move", "wait", "woken"}
  /\ deadline \in Nat
  /\ dispatchQ \in Seq(Mads)
  /\ worker \in [Workers -> {"test", "wait", "route"}]
  /\ hand \in [Workers -> SUBSET Mads]
  /\ routed \subseteq Mads
  /\ accepted \in Seq(Items)
  /\ taken \in Seq(Mads)
  /\ \A w \in Workers : worker[w] # "route" => hand[w] = {}

\* A MAD handed to dispatchMad is never dropped between the two queues, the
\* timer thread and the workers: it is waiting, due, in a worker's hand or routed.
NoMadLost ==
  AcceptedMads = WaitingMads \cup DueMads \cup HandMads \cup routed

\* ... and it is in one of these places only, once: no MAD is routed twice.
NoMadTwice ==
  /\ \A i, j \in DOMAIN waitQ : waitQ[i].mad = waitQ[j].mad => i = j
  /\ \A i, j \in DOMAIN dispatchQ : dispatchQ[i] = dispatchQ[j] => i = j
  /\ \A v, w \in Workers : v # w => hand[v] \cap hand[w] = {}
  /\ WaitingMads \cap (DueMads \cup HandMads \cup routed) = {}
  /\ DueMads \cap (HandMads \cup routed) = {}
  /\ HandMads \cap routed = {}

\* No wake-up of a worker is lost: while one sleeps in pthread_cond_wait there
\* are at least as many workers on their way to the queue as MADs in it.
NoIdleWorker ==
  Sleepers # {} =>
    Len(dispatchQ) <= Cardinality({w \in Workers : worker[w] = "test"})

\* No wake-up of the timer is lost: while it sleeps in pthread_cond_timedwait
\* it will wake no later than the first MAD is due, whatever was inserted.
NoOversleep == timer = "wait" /\ waitQ # <<>> => deadline <= Head(waitQ).wake

\* The dispatcher keeps the promise of the abstract delay line: every MAD is
\* routed once, never before its time, never overtaken by a MAD that was
\* accepted later and is due no earlier.
Line == INSTANCE DelayLine WITH clock <- now, delivered <- ToSet(taken)
ImplementsDelayLine == Line!LineSafety

\* Every MAD handed to dispatchMad is routed: timer, workers and clock go on.
EveryMadRouted ==
  \A m \in Mads : (\E it \in stamped : it.mad = m) ~> (m \in routed)
=============================================================================
