------------------------------ MODULE MKeyTimer ------------------------------
(***************************************************************************)
(* M_Key protection in the simulated SMA (class IBMSSma) and its timer     *)
(* (class SMATimer).  A SubnSet with a wrong M_Key is dropped and starts   *)
(* the lease timer of the port; the right M_Key stops it; when the lease   *)
(* runs out the timer thread clears the M_Key.                             *)
(*                                                                         *)
(* The node lock lets one worker at a time into the SMA of a node, so a    *)
(* node stands for the worker that processes its current MAD.  One timer   *)
(* thread and its mutex serve the ports of all nodes.  What a thread does  *)
(* between the lock and the unlock of a port is one action, except for the *)
(* expiry of a lease.                                                      *)
(***************************************************************************)
EXTENDS Integers, SequencesExt

CONSTANTS
  Nodes,      \* simulated nodes
  Ports,      \* the ports with an M_Key of their own
  NodeOf,     \* the node of each port
  Keys,       \* the M_Keys in use, 0 excluded
  MaxLease,   \* bound: the longest lease period set, in seconds
  Wrapped     \* what an unsigned counter becomes below 0, far above MaxLease

ASSUME MKeyAssumption ==
  /\ Ports # {} /\ IsFiniteSet(Ports)
  /\ NodeOf \in [Ports -> Nodes]
  /\ 0 \notin Keys
  /\ MaxLease \in Nat
  /\ Wrapped \in Nat /\ Wrapped > MaxLease
  /\ {"free", "timer"} \cap Nodes = {}

VARIABLES
  key,         \* m_key of each port, 0 when there is no protection
  lease,       \* m_key_lease_period of each port
  timerOn,     \* portTiming::timerOn
  counter,     \* portTiming::counter
  portMutex,   \* portTiming::mut
  entries,     \* SMATimer::L, the ports registered with the timer
  timerMutex,  \* SMATimer::timerMutex
  timer,       \* what the timer thread does, and its index in L
  handler,     \* what the worker in each node does, with which MAD
  promised,    \* history: the lease when the timer of the port was started
  waited       \* history: the rounds of the timer since then, up to MaxLease

portVars == <<key, lease, timerOn, counter, portMutex>>
history == <<promised, waited>>
vars == <<portVars, entries, timerMutex, timer, handler, history>>

\* Mutant of Decrement: a counter with a sign.
DecrementSigned(c) == c - 1

\* The counter is an unsigned int of 32 bits: from 0 it goes on to 2^32 - 1
\* (Wrapped), which takes 136 years to count down; it is kept there.
Decrement(c) == IF c \in {0, Wrapped} THEN Wrapped ELSE c - 1

\* Mutant of Expired: a lease ends one round early.
ExpiredEarly(c) == c <= 1
Expired(c) == c <= 0

Idle == [pc |-> "idle", port |-> CHOOSE p \in Ports : TRUE, set |-> FALSE]

\* The history of a port ends when its timer has stopped or its lease is over.
Forget(p) ==
  /\ promised' = [promised EXCEPT ![p] = 0]
  /\ waited' = [waited EXCEPT ![p] = 0]

Init ==
  /\ key = [p \in Ports |-> 0]
  /\ lease = [p \in Ports |-> 0]
  /\ timerOn = [p \in Ports |-> FALSE]
  /\ counter = [p \in Ports |-> 0]
  /\ portMutex = [p \in Ports |-> "free"]
  /\ entries = <<>>
  /\ timerMutex = "free"
  /\ timer = [pc |-> "sleep", i |-> 1]
  /\ handler = [n \in Nodes |-> Idle]
  /\ promised = [p \in Ports |-> 0]
  /\ waited = [p \in Ports |-> 0]

-----------------------------------------------------------------------------
(* IBMSSma::processMad *)

\* Mutant of Mismatch: a wrong M_Key is looked at only when no timer runs.
MismatchOnce(p, k, set) == set /\ key[p] # 0 /\ k # key[p] /\ ~timerOn[p]

Mismatch(p, k, set) == set /\ key[p] # 0 /\ k # key[p]

\* A MAD arrives at port p of a node that is idle, and the worker locks the port.
AtPort(p) == handler[NodeOf[p]] = Idle /\ portMutex[p] = "free"

Arrives(p, pc, set) ==
  /\ AtPort(p)
  /\ handler' = [handler EXCEPT ![NodeOf[p]] = [pc |-> pc, port |-> p, set |-> set]]

\* A wrong M_Key while the timer runs: the MAD is dropped.
Drop(p, k) ==
  /\ AtPort(p)
  /\ Mismatch(p, k, TRUE)
  /\ timerOn[p]
  /\ UNCHANGED vars

\* Mutant of StartTimer: the timer is started again while it runs.
StartTimerAgain(p, k) ==
  /\ Arrives(p, "reg", TRUE)
  /\ Mismatch(p, k, TRUE)
  /\ counter' = [counter EXCEPT ![p] = lease[p]]
  /\ timerOn' = [timerOn EXCEPT ![p] = TRUE]
  /\ promised' = [promised EXCEPT ![p] = lease[p]]
  /\ waited' = [waited EXCEPT ![p] = 0]
  /\ UNCHANGED <<key, lease, portMutex, entries, timerMutex, timer>>

\* The first wrong M_Key: dropped as well, and the lease begins.
StartTimer(p, k) ==
  /\ Arrives(p, "reg", TRUE)
  /\ Mismatch(p, k, TRUE)
  /\ ~timerOn[p]
  /\ counter' = [counter EXCEPT ![p] = lease[p]]
  /\ timerOn' = [timerOn EXCEPT ![p] = TRUE]
  /\ promised' = [promised EXCEPT ![p] = lease[p]]
  /\ waited' = [waited EXCEPT ![p] = 0]
  /\ UNCHANGED <<key, lease, portMutex, entries, timerMutex, timer>>

\* SMATimer::reg; the MAD is done.
Reg(n) ==
  /\ handler[n].pc = "reg"
  /\ timerMutex = "free"
  /\ entries' = Append(entries, handler[n].port)
  /\ handler' = [handler EXCEPT ![n] = Idle]
  /\ UNCHANGED <<portVars, timerMutex, timer, history>>

\* Mutant of StopTimer: the port is not unregistered.
StopTimerOnly(p, k, set) ==
  /\ Arrives(p, "again", set)
  /\ k = key[p]
  /\ timerOn[p]
  /\ timerOn' = [timerOn EXCEPT ![p] = FALSE]
  /\ UNCHANGED <<key, lease, counter, portMutex, entries, timerMutex, timer, history>>

\* The right M_Key while the timer runs.
StopTimer(p, k, set) ==
  /\ Arrives(p, "unreg", set)
  /\ k = key[p]
  /\ timerOn[p]
  /\ timerOn' = [timerOn EXCEPT ![p] = FALSE]
  /\ UNCHANGED <<key, lease, counter, portMutex, entries, timerMutex, timer, history>>

\* SMATimer::unreg returns without unlocking when it finds the port.
Unreg(n) ==
  /\ handler[n].pc = "unreg"
  /\ timerMutex = "free"
  /\ IF Contains(entries, handler[n].port)
       THEN /\ entries' = RemoveFirst(entries, handler[n].port)
            /\ timerMutex' = n
       ELSE UNCHANGED <<entries, timerMutex>>
  /\ Forget(handler[n].port)
  /\ handler' = [handler EXCEPT ![n].pc = "again"]
  /\ UNCHANGED <<portVars, timer>>

\* The port is unlocked a second time, whoever holds it now.
UnlockAgain(n) ==
  /\ handler[n].pc = "again"
  /\ portMutex' = [portMutex EXCEPT ![handler[n].port] = "free"]
  /\ handler' = [handler EXCEPT ![n].pc = "handle"]
  /\ UNCHANGED <<key, lease, timerOn, counter, entries, timerMutex, timer, history>>

\* Any other MAD passes.
Pass(p, k, set) ==
  /\ Arrives(p, "handle", set)
  /\ ~Mismatch(p, k, set)
  /\ ~(k = key[p] /\ timerOn[p])
  /\ UNCHANGED <<portVars, entries, timerMutex, timer, history>>

\* The attribute handler.  A SubnSet(PortInfo) may write the M_Key and the lease
\* of any port of the node, without locking that port; other MADs write neither.
Handle(n) ==
  /\ handler[n].pc = "handle"
  /\ handler' = [handler EXCEPT ![n] = Idle]
  /\ \/ UNCHANGED <<key, lease>>
     \/ /\ handler[n].set
        /\ \E p \in Ports, k \in Keys \cup {0}, t \in 0 .. MaxLease :
             /\ NodeOf[p] = n
             /\ key' = [key EXCEPT ![p] = k]
             /\ lease' = [lease EXCEPT ![p] = t]
  /\ UNCHANGED <<timerOn, counter, portMutex, entries, timerMutex, timer, history>>

-----------------------------------------------------------------------------
(* SMATimer::timerRun and IBMSSma::cbMkey *)

TimerWake ==
  /\ timer.pc = "sleep"
  /\ timerMutex = "free"
  /\ timerMutex' = "timer"
  /\ timer' = [pc |-> "scan", i |-> 1]
  /\ UNCHANGED <<portVars, entries, handler, history>>

\* The callback of the entry locks its port and counts down; it keeps the lock
\* when the lease is over.
TimerCall ==
  /\ timer.pc = "scan"
  /\ timer.i <= Len(entries)
  /\ LET p == entries[timer.i]
         c == Decrement(counter[p])
     IN  /\ portMutex[p] = "free"
         /\ counter' = [counter EXCEPT ![p] = c]
         /\ waited' = [waited EXCEPT ![p] = IF @ < MaxLease THEN @ + 1 ELSE @]
         /\ IF Expired(c)
              THEN /\ timer' = [timer EXCEPT !.pc = "expire"]
                   /\ portMutex' = [portMutex EXCEPT ![p] = "timer"]
              ELSE /\ timer' = [timer EXCEPT !.i = @ + 1]
                   /\ UNCHANGED portMutex
  /\ UNCHANGED <<key, lease, timerOn, entries, timerMutex, handler, promised>>

\* Mutant of TimerExpire: timerOn is not cleared.
TimerExpireKeepsFlag ==
  /\ timer.pc = "expire"
  /\ key' = [key EXCEPT ![entries[timer.i]] = 0]
  /\ portMutex' = [portMutex EXCEPT ![entries[timer.i]] = "free"]
  /\ Forget(entries[timer.i])
  /\ timer' = [timer EXCEPT !.pc = "erase"]
  /\ UNCHANGED <<lease, timerOn, counter, entries, timerMutex, handler>>

\* The lease is over: the M_Key is cleared and the port unlocked ...
TimerExpire ==
  /\ timer.pc = "expire"
  /\ key' = [key EXCEPT ![entries[timer.i]] = 0]
  /\ timerOn' = [timerOn EXCEPT ![entries[timer.i]] = FALSE]
  /\ portMutex' = [portMutex EXCEPT ![entries[timer.i]] = "free"]
  /\ Forget(entries[timer.i])
  /\ timer' = [timer EXCEPT !.pc = "erase"]
  /\ UNCHANGED <<lease, counter, entries, timerMutex, handler>>

\* ... and the entry is erased.
TimerErase ==
  /\ timer.pc = "erase"
  /\ entries' = RemoveAt(entries, timer.i)
  /\ timer' = [timer EXCEPT !.pc = "scan"]
  /\ UNCHANGED <<portVars, timerMutex, handler, history>>

\* Mutant of TimerDone: the timer thread sleeps with its mutex.
TimerDoneLocked ==
  /\ timer.pc = "scan"
  /\ timer.i > Len(entries)
  /\ timer' = [pc |-> "sleep", i |-> 1]
  /\ UNCHANGED <<portVars, entries, timerMutex, handler, history>>

\* The round is over.
TimerDone ==
  /\ timer.pc = "scan"
  /\ timer.i > Len(entries)
  /\ timerMutex' = "free"
  /\ timer' = [pc |-> "sleep", i |-> 1]
  /\ UNCHANGED <<portVars, entries, handler, history>>

-----------------------------------------------------------------------------
TimerStep == TimerWake \/ TimerCall \/ TimerExpire \/ TimerErase \/ TimerDone

HandlerStep(n) == Reg(n) \/ Unreg(n) \/ UnlockAgain(n) \/ Handle(n)

MadArrives ==
  \E p \in Ports, k \in Keys \cup {0} :
    \/ Drop(p, k)
    \/ StartTimer(p, k)
    \/ \E set \in BOOLEAN : StopTimer(p, k, set) \/ Pass(p, k, set)

Next == MadArrives \/ TimerStep \/ \E n \in Nodes : HandlerStep(n)

\* The timer thread and the workers go on; nobody has to send a MAD.
Fairness == WF_vars(TimerStep) /\ \A n \in Nodes : WF_vars(HandlerStep(n))

Spec == Init /\ [][Next]_vars

FairSpec == Spec /\ Fairness
-----------------------------------------------------------------------------
Busy(p, pcs) == handler[NodeOf[p]].port = p /\ handler[NodeOf[p]].pc \in pcs

Registered(p) == Contains(entries, p)

\* Types of the variables.
TypeOK ==
  /\ key \in [Ports -> Keys \cup {0}]
  /\ lease \in [Ports -> 0 .. MaxLease]
  /\ timerOn \in [Ports -> BOOLEAN]
  /\ counter \in [Ports -> 0 .. MaxLease \cup {Wrapped}]
  /\ portMutex \in [Ports -> {"free", "timer"}]
  /\ entries \in Seq(Ports)
  /\ timerMutex \in {"free", "timer"} \cup Nodes
  /\ timer \in [pc : {"sleep", "scan", "expire", "erase"},
                i : 1 .. Cardinality(Ports) + 1]
  /\ handler \in [Nodes -> [pc : {"idle", "reg", "unreg", "again", "handle"},
                            port : Ports, set : BOOLEAN]]
  /\ promised \in [Ports -> 0 .. MaxLease]
  /\ waited \in [Ports -> 0 .. MaxLease]

\* A port has one entry in the timer at most, so a lease is counted down once a
\* second and not twice.
OneEntryPerPort == IsInjective(entries)

\* The flag of a port and the list of the timer agree, except while a worker is
\* on its way from one to the other or the timer thread is.
FlagMatchesList ==
  \A p \in Ports :
    \/ timerOn[p] = Registered(p)
    \/ Busy(p, {"reg", "unreg"})
    \/ timer.pc = "erase" /\ entries[timer.i] = p

\* An M_Key is cleared no earlier than the lease that was promised when the first
\* wrong M_Key arrived, and never for a lease of 0.
LeaseKept ==
  timer.pc = "expire" =>
    LET p == entries[timer.i] IN promised[p] > 0 /\ waited[p] >= promised[p]

\* The second unlock of a port in processMad never frees a lock that the timer
\* thread holds.
SecondUnlockHarmless ==
  \A p \in Ports : Busy(p, {"again"}) => portMutex[p] = "free"

\* While the lease timer of a port runs, nothing but its expiry changes the M_Key.
\* (Not so in an HCA with several ports: see Handle.)
KeyProtected ==
  [][\A p \in Ports : timerOn[p] /\ key'[p] # key[p] =>
       timer.pc = "expire" /\ entries[timer.i] = p]_vars

\* The timer goes on counting the lease of every port in the list, unless unreg has
\* kept its mutex: sma.h:117 says of unreg that it removes the registered object
\* identified by its pointer, and nothing of the others.
EveryLeaseEnds ==
  \A p \in Ports :
    Registered(p) /\ counter[p] \in 1 .. MaxLease
      ~> ~Registered(p) \/ timerMutex \in Nodes
===============================================================================
