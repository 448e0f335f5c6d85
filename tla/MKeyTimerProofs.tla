---------------------------- MODULE MKeyTimerProofs ----------------------------
(***************************************************************************)
(* Proofs about the M_Key timer, for any number of nodes and ports, any    *)
(* keys and any lease periods.                                             *)
(*                                                                         *)
(* The invariant follows one port at a time: where the flag of its timer   *)
(* and its entry in the list may differ, and that the counter and the      *)
(* rounds that were waited add up to the lease that was promised.          *)
(***************************************************************************)
EXTENDS MKeyTimer, DataLemmas

\* The timer thread has ended the lease of the port, but has not cleared its
\* M_Key yet; or has cleared it, but not erased its entry yet.
Expiring(p) == timer.pc = "expire" /\ entries[timer.i] = p
Erasing(p) == timer.pc = "erase" /\ entries[timer.i] = p

\* The worker of the port's node works for this port.
Works(p, pc) == handler[NodeOf[p]].port = p /\ handler[NodeOf[p]].pc = pc

\* A lease of the port runs: it is in the list, or about to be.
Counting(p) == Works(p, "reg") \/ (Registered(p) /\ ~Erasing(p))

\* The rounds that remain and the rounds that were waited make the lease that was
\* promised; a lease of 0 never ends.
LeaseCounted(p) ==
  \/ promised[p] = 0 /\ counter[p] \in {0, Wrapped} /\ ~Expiring(p)
  \/ /\ promised[p] > 0 /\ counter[p] \in 0 .. MaxLease
     /\ counter[p] + waited[p] = promised[p]
     /\ counter[p] = 0 <=> Expiring(p)

\* The lock of a port, the flag of its timer and its entry in the list.
PortOK(p) ==
  /\ portMutex[p] = "timer" <=> Expiring(p)
  /\ Works(p, "reg") => timerOn[p] /\ (Registered(p) => Erasing(p))
  /\ Works(p, "unreg") => ~timerOn[p]
  /\ Works(p, "again") => ~Registered(p)
  /\ Erasing(p) /\ timerOn[p] => Works(p, "reg")
  /\ (timerOn[p] <=> Registered(p)) \/ Works(p, "reg") \/ Works(p, "unreg") \/ Erasing(p)
  /\ Counting(p) => LeaseCounted(p)

\* A worker handles a MAD for a port of its own node.
HandlerOK == \A n \in Nodes : handler[n].pc # "idle" => NodeOf[handler[n].port] = n

\* The timer thread works on the list under its mutex only.
TimerOK ==
  /\ timerMutex = "timer" <=> timer.pc # "sleep"
  /\ timer.pc \in {"expire", "erase"} => timer.i \in 1 .. Len(entries)

MKeyInv ==
  /\ TypeOK /\ OneEntryPerPort /\ HandlerOK /\ TimerOK
  /\ \A p \in Ports : PortOK(p)

HandlerType == [pc : {"idle", "reg", "unreg", "again", "handle"}, port : Ports, set : BOOLEAN]

\* The bounds, and what an idle worker holds.
LEMMA MKeyBounds ==
  /\ MaxLease \in Nat /\ Wrapped \in Nat /\ Wrapped > MaxLease
  /\ NodeOf \in [Ports -> Nodes]
  /\ "free" \notin Nodes /\ "timer" \notin Nodes
  /\ Idle \in HandlerType /\ Idle.pc = "idle"
<1>1. (CHOOSE p \in Ports : TRUE) \in Ports
  BY MKeyAssumption
<1> QED
  BY <1>1, MKeyAssumption DEF Idle, HandlerType

\* The list is never longer than there are ports.
LEMMA EntriesBounded ==
  ASSUME entries \in Seq(Ports), OneEntryPerPort
  PROVE  /\ Cardinality(Ports) \in Nat /\ Len(entries) \in Nat
         /\ Len(entries) <= Cardinality(Ports)
<1>1. IsFiniteSet(Ports)
  BY MKeyAssumption
<1>2. entries \in Injection(1 .. Len(entries), Ports)
  BY DEF OneEntryPerPort, Injection, IsInjective
<1>3. Cardinality(1 .. Len(entries)) <= Cardinality(Ports)
  BY <1>1, <1>2, FS_Injection
<1>4. Len(entries) \in Nat
  OBVIOUS
<1>5. Cardinality(1 .. Len(entries)) = Len(entries)
  <2> DEFINE k == Len(entries)
  <2>1. k \in Nat
    BY <1>4
  <2> HIDE DEF k
  <2>2. Cardinality(1 .. k) = k
    BY <2>1, FS_Interval
  <2> QED
    BY <2>2 DEF k
<1> QED
  BY <1>1, <1>3, <1>4, <1>5, FS_CardinalityType

\* The initial state satisfies the invariant.
LEMMA MKeyInit == Init => MKeyInv
<1> SUFFICES ASSUME Init PROVE MKeyInv
  OBVIOUS
<1> USE MKeyBounds
<1>1. TypeOK
  <2>1. Cardinality(Ports) \in Nat
    BY MKeyAssumption, FS_CardinalityType
  <2> QED
    BY <2>1 DEF Init, TypeOK, HandlerType
<1>2. OneEntryPerPort /\ \A p \in Ports : ~Registered(p)
  BY DEF Init, OneEntryPerPort, IsInjective, Registered, Contains
<1>3. HandlerOK /\ TimerOK
  BY DEF Init, HandlerOK, TimerOK
<1>4. ASSUME NEW p \in Ports
      PROVE  PortOK(p)
  <2>1. ~Works(p, "reg") /\ ~Works(p, "unreg") /\ ~Works(p, "again")
    BY DEF Init, Works
  <2>2. ~Expiring(p) /\ ~Erasing(p)
    BY DEF Init, Expiring, Erasing
  <2> QED
    BY <1>2, <2>1, <2>2 DEF Init, PortOK, Counting, LeaseCounted
<1> QED
  BY <1>1, <1>2, <1>3, <1>4 DEF MKeyInv

-----------------------------------------------------------------------------
(* A MAD arrives, is handled, and the worker is idle again. *)

\* What a step leaves alone, the invariant of one port allows to leave alone.
LEMMA PortFrame ==
  ASSUME NEW p \in Ports, PortOK(p),
         counter'[p] = counter[p], timerOn'[p] = timerOn[p], promised'[p] = promised[p],
         waited'[p] = waited[p], portMutex'[p] = portMutex[p],
         Works(p, "reg")' <=> Works(p, "reg"), Works(p, "unreg")' <=> Works(p, "unreg"),
         Works(p, "again")' <=> Works(p, "again"),
         Registered(p)' <=> Registered(p),
         Expiring(p)' <=> Expiring(p), Erasing(p)' <=> Erasing(p)
  PROVE  PortOK(p)'
  BY DEF PortOK, Counting, LeaseCounted

\* A worker's step concerns the port that it works for.
LEMMA WorkerMoves ==
  ASSUME MKeyInv, NEW n \in Nodes, NEW h \in HandlerType,
         handler' = [handler EXCEPT ![n] = h],
         NodeOf[h.port] = n \/ h.pc = "idle",
         NEW p \in Ports, handler[n].port = p \/ handler[n].pc = "idle",
         h.port = p \/ h.pc = "idle"
  PROVE  /\ handler' \in [Nodes -> HandlerType] /\ HandlerOK'
         /\ NodeOf[p] = n => /\ Works(p, "reg")' <=> h.pc = "reg"
                             /\ Works(p, "unreg")' <=> h.pc = "unreg"
                             /\ Works(p, "again")' <=> h.pc = "again"
         /\ \A q \in Ports : q # p =>
              /\ Works(q, "reg")' <=> Works(q, "reg")
              /\ Works(q, "unreg")' <=> Works(q, "unreg")
              /\ Works(q, "again")' <=> Works(q, "again")
<1>1. handler \in [Nodes -> HandlerType] /\ handler'[n] = h
  BY DEF MKeyInv, TypeOK, HandlerType
<1>2. handler' \in [Nodes -> HandlerType] /\ HandlerOK'
  BY <1>1 DEF MKeyInv, HandlerOK
<1>3. ASSUME NEW q \in Ports, q # p
      PROVE  /\ Works(q, "reg")' <=> Works(q, "reg")
             /\ Works(q, "unreg")' <=> Works(q, "unreg")
             /\ Works(q, "again")' <=> Works(q, "again")
  BY <1>1, <1>3, MKeyBounds DEF Works
<1> QED
  BY <1>1, <1>2, <1>3 DEF Works

\* A MAD for a port whose worker was idle: nobody else works for this port.
LEMMA ArrivesFacts ==
  ASSUME MKeyInv, NEW p \in Ports, NEW pc \in {"reg", "unreg", "handle"},
         NEW set \in BOOLEAN, Arrives(p, pc, set)
  PROVE  /\ handler' \in [Nodes -> HandlerType] /\ HandlerOK'
         /\ ~Works(p, "reg") /\ ~Works(p, "unreg") /\ ~Works(p, "again")
         /\ Works(p, "reg")' <=> pc = "reg"
         /\ Works(p, "unreg")' <=> pc = "unreg"
         /\ ~Works(p, "again")'
         /\ \A q \in Ports : q # p =>
              /\ Works(q, "reg")' <=> Works(q, "reg")
              /\ Works(q, "unreg")' <=> Works(q, "unreg")
              /\ Works(q, "again")' <=> Works(q, "again")
         /\ portMutex[p] = "free" /\ ~Expiring(p)
<1> DEFINE h == [pc |-> pc, port |-> p, set |-> set]
           n == NodeOf[p]
<1>1. n \in Nodes /\ h \in HandlerType /\ h.port = p /\ h.pc = pc /\ NodeOf[p] = n
  BY MKeyBounds DEF HandlerType
<1>2. handler[n].pc = "idle" /\ portMutex[p] = "free"
  BY MKeyBounds DEF Arrives, AtPort
<1>3. handler' = [handler EXCEPT ![n] = h]
  BY DEF Arrives
<1> HIDE DEF h, n
<1>4. /\ handler' \in [Nodes -> HandlerType] /\ HandlerOK'
      /\ Works(p, "reg")' <=> h.pc = "reg"
      /\ Works(p, "unreg")' <=> h.pc = "unreg"
      /\ Works(p, "again")' <=> h.pc = "again"
      /\ \A q \in Ports : q # p =>
           /\ Works(q, "reg")' <=> Works(q, "reg")
           /\ Works(q, "unreg")' <=> Works(q, "unreg")
           /\ Works(q, "again")' <=> Works(q, "again")
  BY <1>1, <1>2, <1>3, WorkerMoves
<1>5. ~Expiring(p)
  BY <1>2 DEF MKeyInv, PortOK
<1> QED
  BY <1>1, <1>2, <1>4, <1>5 DEF Works

\* The first wrong M_Key: the lease that is promised begins to count.
LEMMA MKeyStart ==
  ASSUME MKeyInv, NEW p \in Ports, NEW k, StartTimer(p, k)
  PROVE  MKeyInv'
<1>1. Arrives(p, "reg", TRUE) /\ ~timerOn[p]
  BY DEF StartTimer
<1>2. /\ handler' \in [Nodes -> HandlerType] /\ HandlerOK'
      /\ ~Works(p, "reg") /\ ~Works(p, "unreg") /\ ~Works(p, "again")
      /\ Works(p, "reg")' /\ ~Works(p, "unreg")' /\ ~Works(p, "again")'
      /\ \A q \in Ports : q # p =>
           /\ Works(q, "reg")' <=> Works(q, "reg")
           /\ Works(q, "unreg")' <=> Works(q, "unreg")
           /\ Works(q, "again")' <=> Works(q, "again")
      /\ portMutex[p] = "free" /\ ~Expiring(p)
  BY <1>1, ArrivesFacts
<1>3. /\ counter' = [counter EXCEPT ![p] = lease[p]]
      /\ timerOn' = [timerOn EXCEPT ![p] = TRUE]
      /\ promised' = [promised EXCEPT ![p] = lease[p]]
      /\ waited' = [waited EXCEPT ![p] = 0]
      /\ UNCHANGED <<key, lease, portMutex, entries, timerMutex, timer>>
  BY DEF StartTimer
<1>4. TypeOK'
  <2>1. lease[p] \in 0 .. MaxLease /\ 0 \in 0 .. MaxLease
    BY MKeyBounds DEF MKeyInv, TypeOK
  <2>2. /\ counter' \in [Ports -> 0 .. MaxLease \cup {Wrapped}]
        /\ timerOn' \in [Ports -> BOOLEAN]
        /\ promised' \in [Ports -> 0 .. MaxLease] /\ waited' \in [Ports -> 0 .. MaxLease]
    BY <1>3, <2>1 DEF MKeyInv, TypeOK
  <2> QED
    BY <1>2, <1>3, <2>2 DEF MKeyInv, TypeOK, HandlerType
<1>5. OneEntryPerPort' /\ TimerOK'
  BY <1>3 DEF MKeyInv, OneEntryPerPort, TimerOK
<1>6. \A q \in Ports : /\ (Registered(q)' <=> Registered(q)) /\ (Expiring(q)' <=> Expiring(q))
                       /\ (Erasing(q)' <=> Erasing(q))
  BY <1>3 DEF Registered, Expiring, Erasing
<1>7. PortOK(p)'
  <2>1. timerOn'[p] /\ portMutex'[p] = portMutex[p]
    BY <1>3 DEF MKeyInv, TypeOK
  <2>2. Registered(p) => Erasing(p)
    BY <1>1, <1>2 DEF MKeyInv, PortOK
  <2>3. counter'[p] = lease[p] /\ promised'[p] = lease[p] /\ waited'[p] = 0
        /\ lease[p] \in 0 .. MaxLease
    BY <1>3 DEF MKeyInv, TypeOK
  <2>4. LeaseCounted(p)'
    BY <1>2, <1>6, <2>3, MKeyBounds DEF LeaseCounted
  <2>5. Works(p, "reg")' /\ ~Works(p, "unreg")' /\ ~Works(p, "again")'
    BY <1>2
  <2> QED
    BY <1>2, <1>6, <2>1, <2>2, <2>4, <2>5 DEF PortOK
<1>8. ASSUME NEW q \in Ports, q # p
      PROVE  PortOK(q)'
  BY <1>2, <1>3, <1>6, <1>8, PortFrame DEF MKeyInv, TypeOK
<1> QED
  BY <1>2, <1>4, <1>5, <1>7, <1>8 DEF MKeyInv

\* The right M_Key stops the timer; the port is still in the list.
LEMMA MKeyStop ==
  ASSUME MKeyInv, NEW p \in Ports, NEW k, NEW set \in BOOLEAN, StopTimer(p, k, set)
  PROVE  MKeyInv'
<1>1. Arrives(p, "unreg", set) /\ timerOn[p]
  BY DEF StopTimer
<1>2. /\ handler' \in [Nodes -> HandlerType] /\ HandlerOK'
      /\ ~Works(p, "reg") /\ ~Works(p, "unreg") /\ ~Works(p, "again")
      /\ ~Works(p, "reg")' /\ Works(p, "unreg")' /\ ~Works(p, "again")'
      /\ \A q \in Ports : q # p =>
           /\ Works(q, "reg")' <=> Works(q, "reg")
           /\ Works(q, "unreg")' <=> Works(q, "unreg")
           /\ Works(q, "again")' <=> Works(q, "again")
      /\ portMutex[p] = "free" /\ ~Expiring(p)
  BY <1>1, ArrivesFacts
<1>3. /\ timerOn' = [timerOn EXCEPT ![p] = FALSE]
      /\ UNCHANGED <<key, lease, counter, portMutex, entries, timerMutex, timer, promised, waited>>
  BY DEF StopTimer, history
<1>4. TypeOK'
  <2>1. timerOn' \in [Ports -> BOOLEAN]
    BY <1>3 DEF MKeyInv, TypeOK
  <2> QED
    BY <1>2, <1>3, <2>1 DEF MKeyInv, TypeOK, HandlerType
<1>5. OneEntryPerPort' /\ TimerOK'
  BY <1>3 DEF MKeyInv, OneEntryPerPort, TimerOK
<1>6. \A q \in Ports : /\ (Registered(q)' <=> Registered(q)) /\ (Expiring(q)' <=> Expiring(q))
                       /\ (Erasing(q)' <=> Erasing(q))
  BY <1>3 DEF Registered, Expiring, Erasing
<1>7. PortOK(p)'
  <2>1. ~timerOn'[p] /\ portMutex'[p] = portMutex[p]
    BY <1>3 DEF MKeyInv, TypeOK
  <2>2. ~Erasing(p) /\ Registered(p) /\ LeaseCounted(p)
    BY <1>1, <1>2 DEF MKeyInv, PortOK, Counting
  <2>3. LeaseCounted(p)'
    BY <1>3, <1>6, <2>2 DEF LeaseCounted
  <2> QED
    BY <1>2, <1>6, <2>1, <2>2, <2>3 DEF PortOK
<1>8. ASSUME NEW q \in Ports, q # p
      PROVE  PortOK(q)'
  BY <1>2, <1>3, <1>6, <1>8, PortFrame DEF MKeyInv, TypeOK
<1> QED
  BY <1>2, <1>4, <1>5, <1>7, <1>8 DEF MKeyInv

\* A step that moves nothing but a worker which leaves no mark on the timer.
LEMMA QuietMove ==
  ASSUME MKeyInv, UNCHANGED <<timerOn, counter, portMutex, entries, timerMutex, timer, history>>,
         key' \in [Ports -> Keys \cup {0}], lease' \in [Ports -> 0 .. MaxLease],
         handler' \in [Nodes -> HandlerType], HandlerOK',
         \A q \in Ports : /\ Works(q, "reg")' <=> Works(q, "reg")
                          /\ Works(q, "unreg")' <=> Works(q, "unreg")
                          /\ Works(q, "again")' => Works(q, "again")
  PROVE  MKeyInv'
<1>1. UNCHANGED <<promised, waited>>
  BY DEF history
<1>2. TypeOK' /\ OneEntryPerPort' /\ TimerOK'
  BY <1>1 DEF MKeyInv, TypeOK, HandlerType, OneEntryPerPort, TimerOK
<1>3. \A q \in Ports : /\ (Registered(q)' <=> Registered(q)) /\ (Expiring(q)' <=> Expiring(q))
                       /\ (Erasing(q)' <=> Erasing(q))
  BY DEF Registered, Expiring, Erasing
<1>4. ASSUME NEW q \in Ports
      PROVE  PortOK(q)'
  BY <1>1, <1>3 DEF MKeyInv, PortOK, Counting, LeaseCounted
<1> QED
  BY <1>2, <1>4 DEF MKeyInv

LEMMA MKeyPass ==
  ASSUME MKeyInv, NEW p \in Ports, NEW k, NEW set \in BOOLEAN, Pass(p, k, set)
  PROVE  MKeyInv'
<1>1. Arrives(p, "handle", set) /\ UNCHANGED <<portVars, entries, timerMutex, timer, history>>
  BY DEF Pass
<1>2. /\ handler' \in [Nodes -> HandlerType] /\ HandlerOK'
      /\ ~Works(p, "reg") /\ ~Works(p, "unreg") /\ ~Works(p, "again")
      /\ ~Works(p, "reg")' /\ ~Works(p, "unreg")' /\ ~Works(p, "again")'
      /\ \A q \in Ports : q # p =>
           /\ Works(q, "reg")' <=> Works(q, "reg")
           /\ Works(q, "unreg")' <=> Works(q, "unreg")
           /\ Works(q, "again")' <=> Works(q, "again")
  BY <1>1, ArrivesFacts
<1>3. /\ key' \in [Ports -> Keys \cup {0}] /\ lease' \in [Ports -> 0 .. MaxLease]
      /\ UNCHANGED <<timerOn, counter, portMutex, entries, timerMutex, timer, history>>
  BY <1>1 DEF portVars, MKeyInv, TypeOK
<1> QED
  BY <1>2, <1>3, QuietMove

\* Where a worker is that handles a MAD.
LEMMA HandlerFacts ==
  ASSUME MKeyInv, NEW n \in Nodes, handler[n].pc # "idle"
  PROVE  /\ handler[n] \in HandlerType /\ handler[n].port \in Ports
         /\ NodeOf[handler[n].port] = n
         /\ \A pc : Works(handler[n].port, pc) <=> handler[n].pc = pc
<1>1. handler[n] \in HandlerType /\ handler[n].port \in Ports
  BY DEF MKeyInv, TypeOK, HandlerType
<1> QED
  BY <1>1 DEF MKeyInv, HandlerOK, Works

\* A worker that is done with its MAD, or goes on with it, concerns no other port.
LEMMA WorkerLeaves ==
  ASSUME MKeyInv, NEW n \in Nodes, NEW p \in Ports, handler[n].pc # "idle",
         p = handler[n].port, handler' = [handler EXCEPT ![n] = Idle]
  PROVE  /\ handler' \in [Nodes -> HandlerType] /\ HandlerOK'
         /\ ~Works(p, "reg")' /\ ~Works(p, "unreg")' /\ ~Works(p, "again")'
         /\ \A q \in Ports : q # p =>
              /\ Works(q, "reg")' <=> Works(q, "reg")
              /\ Works(q, "unreg")' <=> Works(q, "unreg")
              /\ Works(q, "again")' <=> Works(q, "again")
<1>1. PICK h \in HandlerType : h = Idle /\ h.pc = "idle"
  BY MKeyBounds
<1>2. NodeOf[p] = n
  BY HandlerFacts
<1>3. /\ handler' \in [Nodes -> HandlerType] /\ HandlerOK'
      /\ Works(p, "reg")' <=> h.pc = "reg"
      /\ Works(p, "unreg")' <=> h.pc = "unreg"
      /\ Works(p, "again")' <=> h.pc = "again"
      /\ \A q \in Ports : q # p =>
           /\ Works(q, "reg")' <=> Works(q, "reg")
           /\ Works(q, "unreg")' <=> Works(q, "unreg")
           /\ Works(q, "again")' <=> Works(q, "again")
  BY <1>1, <1>2, WorkerMoves, ZenonT(60)
<1> QED
  BY <1>1, <1>3

LEMMA WorkerGoesOn ==
  ASSUME MKeyInv, NEW n \in Nodes, NEW p \in Ports, handler[n].pc # "idle",
         p = handler[n].port, NEW pc \in {"again", "handle"},
         handler' = [handler EXCEPT ![n].pc = pc]
  PROVE  /\ handler' \in [Nodes -> HandlerType] /\ HandlerOK'
         /\ ~Works(p, "reg")' /\ ~Works(p, "unreg")' /\ (Works(p, "again")' <=> pc = "again")
         /\ \A q \in Ports : q # p =>
              /\ Works(q, "reg")' <=> Works(q, "reg")
              /\ Works(q, "unreg")' <=> Works(q, "unreg")
              /\ Works(q, "again")' <=> Works(q, "again")
<1>1. NodeOf[p] = n /\ handler[n] \in HandlerType
  BY HandlerFacts
<1>2. PICK h \in HandlerType : h.pc = pc /\ h.port = p /\ handler' = [handler EXCEPT ![n] = h]
  BY <1>1 DEF HandlerType
<1>3. /\ handler' \in [Nodes -> HandlerType] /\ HandlerOK'
      /\ Works(p, "reg")' <=> h.pc = "reg"
      /\ Works(p, "unreg")' <=> h.pc = "unreg"
      /\ Works(p, "again")' <=> h.pc = "again"
      /\ \A q \in Ports : q # p =>
           /\ Works(q, "reg")' <=> Works(q, "reg")
           /\ Works(q, "unreg")' <=> Works(q, "unreg")
           /\ Works(q, "again")' <=> Works(q, "again")
  BY <1>1, <1>2, WorkerMoves, ZenonT(30)
<1> QED
  BY <1>2, <1>3

\* SMATimer::reg puts the port into the list, where it is not.
LEMMA MKeyReg ==
  ASSUME MKeyInv, NEW n \in Nodes, Reg(n)
  PROVE  MKeyInv'
<1>0. PICK p \in Ports : p = handler[n].port
  BY HandlerFacts DEF Reg
<1>1. /\ handler[n].pc = "reg" /\ timerMutex = "free"
      /\ entries' = Append(entries, p) /\ handler' = [handler EXCEPT ![n] = Idle]
      /\ UNCHANGED <<portVars, timerMutex, timer, history>>
  BY <1>0 DEF Reg
<1>2. p \in Ports /\ NodeOf[p] = n /\ Works(p, "reg") /\ ~Works(p, "unreg") /\ ~Works(p, "again")
  BY <1>0, <1>1, HandlerFacts
<1>3. /\ handler' \in [Nodes -> HandlerType] /\ HandlerOK'
      /\ ~Works(p, "reg")' /\ ~Works(p, "unreg")' /\ ~Works(p, "again")'
      /\ \A q \in Ports : q # p =>
           /\ Works(q, "reg")' <=> Works(q, "reg")
           /\ Works(q, "unreg")' <=> Works(q, "unreg")
           /\ Works(q, "again")' <=> Works(q, "again")
  BY <1>0, <1>1, WorkerLeaves
<1>4. /\ UNCHANGED <<key, lease, timerOn, counter, portMutex, timerMutex, timer, promised, waited>>
      /\ timer.pc = "sleep" /\ entries \in Seq(Ports)
      /\ \A q \in Ports : ~Expiring(q) /\ ~Erasing(q) /\ ~Expiring(q)' /\ ~Erasing(q)'
  BY <1>1 DEF MKeyInv, TypeOK, TimerOK, portVars, history, Expiring, Erasing
<1>5. timerOn[p] /\ ~Registered(p) /\ LeaseCounted(p) /\ portMutex[p] # "timer"
  BY <1>2, <1>4 DEF MKeyInv, PortOK, Counting
<1>6. /\ entries' \in Seq(Ports) /\ OneEntryPerPort'
      /\ \A q \in Ports : Registered(q)' <=> Registered(q) \/ q = p
  <2>1. entries' \in Seq(Ports)
    BY <1>1, <1>2, <1>4, AppendProperties
  <2>2. OneEntryPerPort'
    BY <1>1, <1>2, <1>4, <1>5, AppendInjectiveSeq DEF MKeyInv, OneEntryPerPort, Registered
  <2>3. \A q \in Ports : Registered(q)' <=> Registered(q) \/ q = p
    BY <1>1, <1>2, <1>4, AppendContains DEF Registered
  <2> QED
    BY <2>1, <2>2, <2>3
<1>7. TypeOK' /\ TimerOK'
  BY <1>3, <1>4, <1>6 DEF MKeyInv, TypeOK, HandlerType, TimerOK
<1>8. PortOK(p)'
  <2>1. LeaseCounted(p)'
    BY <1>2, <1>4, <1>5 DEF LeaseCounted
  <2> QED
    BY <1>2, <1>3, <1>4, <1>5, <1>6, <2>1 DEF PortOK
<1>9. ASSUME NEW q \in Ports, q # p
      PROVE  PortOK(q)'
  BY <1>3, <1>4, <1>6, <1>9, PortFrame DEF MKeyInv
<1> QED
  BY <1>3, <1>6, <1>7, <1>8, <1>9 DEF MKeyInv

\* SMATimer::unreg takes the only entry of the port out of the list, if the timer
\* has not erased it before.
LEMMA MKeyUnreg ==
  ASSUME MKeyInv, NEW n \in Nodes, Unreg(n)
  PROVE  MKeyInv'
<1>0. PICK p \in Ports : p = handler[n].port
  BY HandlerFacts DEF Unreg
<1>1. /\ handler[n].pc = "unreg" /\ timerMutex = "free"
      /\ handler' = [handler EXCEPT ![n].pc = "again"]
      /\ promised' = [promised EXCEPT ![p] = 0] /\ waited' = [waited EXCEPT ![p] = 0]
      /\ UNCHANGED <<key, lease, timerOn, counter, portMutex, timer>>
      /\ \/ /\ Registered(p) /\ timerMutex' = n
            /\ entries' = RemoveFirst(entries, p)
         \/ ~Registered(p) /\ UNCHANGED <<entries, timerMutex>>
  BY <1>0 DEF Unreg, Forget, portVars, Registered
<1>2. ~Works(p, "reg") /\ Works(p, "unreg") /\ ~Works(p, "again")
  BY <1>0, <1>1, HandlerFacts
<1>3. /\ handler' \in [Nodes -> HandlerType] /\ HandlerOK'
      /\ ~Works(p, "reg")' /\ ~Works(p, "unreg")' /\ Works(p, "again")'
      /\ \A q \in Ports : q # p =>
           /\ Works(q, "reg")' <=> Works(q, "reg")
           /\ Works(q, "unreg")' <=> Works(q, "unreg")
           /\ Works(q, "again")' <=> Works(q, "again")
  BY <1>0, <1>1, WorkerGoesOn
<1>4. /\ timer.pc = "sleep" /\ entries \in Seq(Ports) /\ IsInjective(entries)
      /\ \A q \in Ports : ~Expiring(q) /\ ~Erasing(q) /\ ~Expiring(q)' /\ ~Erasing(q)'
  BY <1>1 DEF MKeyInv, TypeOK, TimerOK, OneEntryPerPort, Expiring, Erasing
<1>5. ~timerOn[p] /\ portMutex[p] # "timer"
  BY <1>2, <1>4 DEF MKeyInv, PortOK
<1>6. /\ entries' \in Seq(Ports) /\ OneEntryPerPort'
      /\ \A q \in Ports : Registered(q)' <=> Registered(q) /\ q # p
  <2>1. CASE Registered(p)
    <3>1. PICK i \in 1 .. Len(entries) : entries[i] = p /\ entries' = RemoveAt(entries, i)
      BY <1>1, <1>4, <2>1, RemoveFirstPlace DEF Registered
    <3>2. entries' \in Seq(Ports) /\ OneEntryPerPort'
      BY <1>4, <3>1, RemoveAtPlaces, RemoveAtInjective DEF OneEntryPerPort
    <3>3. ASSUME NEW q \in Ports
          PROVE  Registered(q)' <=> Registered(q) /\ q # p
      <4>1. Contains(entries', q) <=> \E j \in 1 .. Len(entries) : j # i /\ entries[j] = q
        BY <1>4, <3>1, RemoveAtContains
      <4>2. \A j \in 1 .. Len(entries) : entries[j] = p => j = i
        BY <1>4, <3>1 DEF IsInjective
      <4> QED
        BY <3>1, <4>1, <4>2 DEF Registered, Contains
    <3> QED
      BY <3>2, <3>3
  <2>2. CASE ~Registered(p)
    BY <1>1, <1>4, <2>2 DEF OneEntryPerPort, Registered
  <2> QED
    BY <2>1, <2>2
<1>7. TypeOK' /\ TimerOK'
  <2>1. 0 \in 0 .. MaxLease
    BY MKeyBounds
  <2>2. promised' \in [Ports -> 0 .. MaxLease] /\ waited' \in [Ports -> 0 .. MaxLease]
    BY <1>1, <2>1 DEF MKeyInv, TypeOK
  <2>3. timerMutex' \in {"free", "timer"} \cup Nodes /\ timerMutex' # "timer"
    BY <1>1, MKeyBounds
  <2> QED
    BY <1>1, <1>3, <1>4, <1>6, <2>2, <2>3 DEF MKeyInv, TypeOK, HandlerType, TimerOK
<1>8. PortOK(p)'
  BY <1>1, <1>3, <1>4, <1>5, <1>6 DEF PortOK, Counting
<1>9. ASSUME NEW q \in Ports, q # p
      PROVE  PortOK(q)'
  <2>1. promised'[q] = promised[q] /\ waited'[q] = waited[q]
    BY <1>1, <1>9 DEF MKeyInv, TypeOK
  <2> QED
    BY <1>1, <1>3, <1>4, <1>6, <1>9, <2>1, PortFrame DEF MKeyInv
<1> QED
  BY <1>3, <1>6, <1>7, <1>8, <1>9 DEF MKeyInv

\* The second unlock finds the lock free: the port is not in the list, so that the
\* timer thread has no business with it.
LEMMA MKeyUnlockAgain ==
  ASSUME MKeyInv, NEW n \in Nodes, UnlockAgain(n)
  PROVE  MKeyInv'
<1>0. PICK p \in Ports : p = handler[n].port
  BY HandlerFacts DEF UnlockAgain
<1>1. /\ handler[n].pc = "again" /\ portMutex' = [portMutex EXCEPT ![p] = "free"]
      /\ handler' = [handler EXCEPT ![n].pc = "handle"]
      /\ UNCHANGED <<key, lease, timerOn, counter, entries, timerMutex, timer, history>>
  BY <1>0 DEF UnlockAgain
<1>2. ~Works(p, "reg") /\ ~Works(p, "unreg") /\ Works(p, "again")
  BY <1>0, <1>1, HandlerFacts
<1>3. /\ handler' \in [Nodes -> HandlerType] /\ HandlerOK'
      /\ ~Works(p, "reg")' /\ ~Works(p, "unreg")' /\ ~Works(p, "again")'
      /\ \A q \in Ports : q # p =>
           /\ Works(q, "reg")' <=> Works(q, "reg")
           /\ Works(q, "unreg")' <=> Works(q, "unreg")
           /\ Works(q, "again")' <=> Works(q, "again")
  BY <1>0, <1>1, WorkerGoesOn
<1>4. portMutex[p] = "free"
  <2>1. ~Registered(p) /\ portMutex[p] \in {"free", "timer"}
    BY <1>2 DEF MKeyInv, PortOK, TypeOK
  <2>2. ~Expiring(p)
    BY <2>1 DEF MKeyInv, TimerOK, Expiring, Registered, Contains
  <2> QED
    BY <2>1, <2>2 DEF MKeyInv, PortOK
<1>5. portMutex' = portMutex
  BY <1>1, <1>4 DEF MKeyInv, TypeOK
<1>6. key' \in [Ports -> Keys \cup {0}] /\ lease' \in [Ports -> 0 .. MaxLease]
  BY <1>1 DEF MKeyInv, TypeOK
<1> QED
  BY <1>1, <1>2, <1>3, <1>5, <1>6, QuietMove

\* The attribute handler leaves the timer alone.
LEMMA MKeyHandle ==
  ASSUME MKeyInv, NEW n \in Nodes, Handle(n)
  PROVE  MKeyInv'
<1>0. PICK p \in Ports : p = handler[n].port
  BY HandlerFacts DEF Handle
<1>1. /\ handler[n].pc = "handle" /\ handler' = [handler EXCEPT ![n] = Idle]
      /\ UNCHANGED <<timerOn, counter, portMutex, entries, timerMutex, timer, history>>
  BY DEF Handle
<1>2. ~Works(p, "reg") /\ ~Works(p, "unreg") /\ ~Works(p, "again")
  BY <1>0, <1>1, HandlerFacts
<1>3. /\ handler' \in [Nodes -> HandlerType] /\ HandlerOK'
      /\ ~Works(p, "reg")' /\ ~Works(p, "unreg")' /\ ~Works(p, "again")'
      /\ \A q \in Ports : q # p =>
           /\ Works(q, "reg")' <=> Works(q, "reg")
           /\ Works(q, "unreg")' <=> Works(q, "unreg")
           /\ Works(q, "again")' <=> Works(q, "again")
  BY <1>0, <1>1, WorkerLeaves
<1>4. key' \in [Ports -> Keys \cup {0}] /\ lease' \in [Ports -> 0 .. MaxLease]
  <2>1. CASE UNCHANGED <<key, lease>>
    BY <2>1 DEF MKeyInv, TypeOK
  <2>2. CASE \E q \in Ports, k \in Keys \cup {0}, t \in 0 .. MaxLease :
               /\ key' = [key EXCEPT ![q] = k]
               /\ lease' = [lease EXCEPT ![q] = t]
    <3>1. key \in [Ports -> Keys \cup {0}] /\ lease \in [Ports -> 0 .. MaxLease]
      BY DEF MKeyInv, TypeOK
    <3>2. PICK q \in Ports, k \in Keys \cup {0}, t \in 0 .. MaxLease :
               /\ key' = [key EXCEPT ![q] = k]
               /\ lease' = [lease EXCEPT ![q] = t]
      BY <2>2
    <3> DEFINE Leases == 0 .. MaxLease
    <3> HIDE DEF Leases
    <3>3. t \in Leases /\ lease \in [Ports -> Leases]
      BY <3>1 DEF Leases
    <3>4. lease' \in [Ports -> Leases]
      BY <3>2, <3>3
    <3>5. key' \in [Ports -> Keys \cup {0}]
      BY <3>1, <3>2
    <3> QED
      BY <3>4, <3>5 DEF Leases
  <2> QED
    BY <2>1, <2>2, Zenon DEF Handle
<1> QED
  BY <1>1, <1>2, <1>3, <1>4, QuietMove

-----------------------------------------------------------------------------
(* The timer thread. *)

\* A round begins or ends between two calls.
LEMMA MKeyRound ==
  ASSUME MKeyInv, TimerWake \/ TimerDone
  PROVE  MKeyInv'
<1>1. /\ timer.pc \in {"sleep", "scan"} /\ timer' \in [pc : {"sleep", "scan"}, i : {1}]
      /\ timerMutex' = "timer" <=> timer'.pc # "sleep"
      /\ timerMutex' \in {"free", "timer"}
      /\ UNCHANGED <<portVars, entries, handler, history>>
  BY DEF TimerWake, TimerDone
<1>2. UNCHANGED <<key, lease, timerOn, counter, portMutex, promised, waited>>
  BY <1>1 DEF portVars, history
<1>3. /\ timer' \in [pc : {"sleep", "scan", "expire", "erase"}, i : 1 .. Cardinality(Ports) + 1]
      /\ timer'.pc \in {"sleep", "scan"}
  BY <1>1, EntriesBounded DEF MKeyInv, TypeOK
<1>4. TypeOK' /\ OneEntryPerPort' /\ HandlerOK' /\ TimerOK'
  BY <1>1, <1>2, <1>3 DEF MKeyInv, TypeOK, OneEntryPerPort, HandlerOK, TimerOK
<1>5. ASSUME NEW p \in Ports
      PROVE  PortOK(p)'
  <2>1. ~Expiring(p) /\ ~Erasing(p) /\ ~Expiring(p)' /\ ~Erasing(p)'
    BY <1>1, <1>3 DEF Expiring, Erasing
  <2>2. /\ Works(p, "reg")' <=> Works(p, "reg")
        /\ Works(p, "unreg")' <=> Works(p, "unreg")
        /\ Works(p, "again")' <=> Works(p, "again")
        /\ Registered(p)' <=> Registered(p)
    BY <1>1 DEF Works, Registered
  <2> QED
    BY <1>2, <2>1, <2>2, PortFrame DEF MKeyInv
<1> QED
  BY <1>4, <1>5 DEF MKeyInv

\* The entry that the timer thread works on: its port is in the list, and no other
\* port is there.
LEMMA EntryFacts ==
  ASSUME MKeyInv, timer.i \in 1 .. Len(entries), NEW p \in Ports, p = entries[timer.i]
  PROVE  /\ Registered(p) /\ ~Works(p, "again") /\ (Works(p, "reg") => Erasing(p))
         /\ Expiring(p) <=> timer.pc = "expire"
         /\ Erasing(p) <=> timer.pc = "erase"
         /\ \A q \in Ports : q # p => ~Expiring(q) /\ ~Erasing(q)
<1>1. Registered(p)
  BY DEF Registered, Contains
<1> QED
  BY <1>1 DEF MKeyInv, PortOK, Expiring, Erasing

\* The callback counts down one second of the lease.
LEMMA MKeyCall ==
  ASSUME MKeyInv, TimerCall
  PROVE  MKeyInv'
<1>1. /\ timer.pc = "scan" /\ timer.i \in 1 .. Len(entries) /\ entries \in Seq(Ports)
      /\ timer \in [pc : {"sleep", "scan", "expire", "erase"}, i : 1 .. Cardinality(Ports) + 1]
  BY DEF TimerCall, MKeyInv, TypeOK
<1>2. PICK p \in Ports : p = entries[timer.i]
  BY <1>1
<1>3. PICK c : c = Decrement(counter[p])
  OBVIOUS
<1>4. /\ portMutex[p] = "free"
      /\ counter' = [counter EXCEPT ![p] = c]
      /\ waited' = [waited EXCEPT ![p] = IF @ < MaxLease THEN @ + 1 ELSE @]
      /\ \/ /\ Expired(c) /\ timer' = [timer EXCEPT !.pc = "expire"]
            /\ portMutex' = [portMutex EXCEPT ![p] = "timer"]
         \/ /\ ~Expired(c) /\ timer' = [timer EXCEPT !.i = @ + 1]
            /\ UNCHANGED portMutex
      /\ UNCHANGED <<key, lease, timerOn, entries, timerMutex, handler, promised>>
  BY <1>2, <1>3 DEF TimerCall
<1>5. /\ Registered(p) /\ ~Works(p, "again") /\ ~Works(p, "reg")
      /\ ~Expiring(p) /\ ~Erasing(p)
      /\ \A q \in Ports : ~Expiring(q) /\ ~Erasing(q)
  BY <1>1, <1>2, EntryFacts DEF Expiring, Erasing
<1>6. LeaseCounted(p) /\ (timerOn[p] \/ Works(p, "unreg"))
  BY <1>5 DEF MKeyInv, PortOK, Counting
<1>7. /\ counter[p] \in 0 .. MaxLease \cup {Wrapped}
      /\ promised[p] \in 0 .. MaxLease /\ waited[p] \in 0 .. MaxLease
      /\ counter'[p] = c /\ promised'[p] = promised[p]
      /\ waited'[p] = IF waited[p] < MaxLease THEN waited[p] + 1 ELSE waited[p]
  BY <1>4 DEF MKeyInv, TypeOK
<1>8. /\ c \in 0 .. MaxLease \cup {Wrapped} /\ waited'[p] \in 0 .. MaxLease
      /\ \/ promised[p] = 0 /\ c \in {0, Wrapped} /\ ~Expired(c)
         \/ /\ promised[p] > 0 /\ c \in 0 .. MaxLease
            /\ c + waited'[p] = promised[p]
            /\ c = 0 <=> Expired(c)
  <2>1. CASE promised[p] = 0
    <3>1. counter[p] \in {0, Wrapped}
      BY <1>6, <2>1 DEF LeaseCounted
    <3>2. c = Wrapped
      BY <1>3, <3>1 DEF Decrement
    <3> QED
      BY <1>7, <2>1, <3>2, MKeyBounds DEF Expired
  <2>2. CASE promised[p] > 0
    <3>1. counter[p] \in 1 .. MaxLease /\ counter[p] + waited[p] = promised[p]
      BY <1>5, <1>6, <1>7, <2>2, MKeyBounds DEF LeaseCounted
    <3>2. c = counter[p] - 1
      BY <1>3, <3>1, MKeyBounds DEF Decrement
    <3> QED
      BY <1>7, <2>2, <3>1, <3>2, MKeyBounds DEF Expired
  <2> QED
    BY <1>7, <2>1, <2>2, MKeyBounds
<1>9. /\ timer' \in [pc : {"sleep", "scan", "expire", "erase"}, i : 1 .. Cardinality(Ports) + 1]
      /\ \/ Expired(c) /\ timer'.pc = "expire" /\ timer'.i = timer.i
         \/ ~Expired(c) /\ timer'.pc = "scan"
      /\ portMutex' \in [Ports -> {"free", "timer"}]
      /\ portMutex'[p] = "timer" <=> Expired(c)
      /\ \A q \in Ports : q # p => portMutex'[q] = portMutex[q]
  <2>1. timer.i + 1 \in 1 .. Cardinality(Ports) + 1
    BY <1>1, EntriesBounded DEF MKeyInv
  <2>2. portMutex \in [Ports -> {"free", "timer"}]
    BY DEF MKeyInv, TypeOK
  <2>3. CASE Expired(c)
    BY <1>1, <1>4, <2>2, <2>3
  <2>4. CASE ~Expired(c)
    <3>1. timer' = [timer EXCEPT !.i = @ + 1] /\ portMutex' = portMutex
      BY <1>4, <2>4
    <3> QED
      BY <1>1, <1>4, <2>1, <2>2, <2>4, <3>1
  <2> QED
    BY <2>3, <2>4
<1>10. TypeOK' /\ OneEntryPerPort' /\ HandlerOK' /\ TimerOK'
  <2>1. counter' \in [Ports -> 0 .. MaxLease \cup {Wrapped}]
    BY <1>4, <1>8 DEF MKeyInv, TypeOK
  <2>2. waited' \in [Ports -> 0 .. MaxLease]
    <3>1. waited' = [waited EXCEPT ![p] = waited'[p]]
      BY <1>4, <1>7 DEF MKeyInv, TypeOK
    <3> QED
      BY <1>8, <3>1 DEF MKeyInv, TypeOK
  <2>3. TypeOK'
    BY <1>4, <1>9, <2>1, <2>2 DEF MKeyInv, TypeOK
  <2>4. OneEntryPerPort' /\ HandlerOK'
    BY <1>4 DEF MKeyInv, OneEntryPerPort, HandlerOK
  <2>5. TimerOK'
    BY <1>1, <1>4, <1>9 DEF MKeyInv, TimerOK
  <2> QED
    BY <2>3, <2>4, <2>5
<1>11. \A q \in Ports : /\ Works(q, "reg")' <=> Works(q, "reg")
                        /\ Works(q, "unreg")' <=> Works(q, "unreg")
                        /\ Works(q, "again")' <=> Works(q, "again")
                        /\ Registered(q)' <=> Registered(q)
                        /\ ~Erasing(q)'
                        /\ Expiring(q)' <=> q = p /\ Expired(c)
  BY <1>1, <1>2, <1>4, <1>9 DEF Works, Registered, Erasing, Expiring
<1>12. PortOK(p)'
  <2>1. LeaseCounted(p)'
    BY <1>7, <1>8, <1>11 DEF LeaseCounted
  <2>2. /\ portMutex'[p] = "timer" <=> Expiring(p)'
        /\ ~Works(p, "reg")' /\ ~Works(p, "again")' /\ ~Erasing(p)'
        /\ timerOn' = timerOn
    BY <1>4, <1>5, <1>9, <1>11
  <2> QED
    BY <1>5, <1>6, <1>11, <2>1, <2>2 DEF MKeyInv, PortOK
<1>13. ASSUME NEW q \in Ports, q # p
       PROVE  PortOK(q)'
  <2>1. counter'[q] = counter[q] /\ waited'[q] = waited[q]
    BY <1>4, <1>13 DEF MKeyInv, TypeOK
  <2> QED
    BY <1>4, <1>5, <1>9, <1>11, <1>13, <2>1, PortFrame DEF MKeyInv
<1> QED
  BY <1>10, <1>12, <1>13 DEF MKeyInv

\* The lease is over: nobody holds the port, and its entry waits to be erased.
LEMMA MKeyExpire ==
  ASSUME MKeyInv, TimerExpire
  PROVE  MKeyInv'
<1>1. /\ timer.pc = "expire" /\ timer.i \in 1 .. Len(entries) /\ entries \in Seq(Ports)
      /\ timer \in [pc : {"sleep", "scan", "expire", "erase"}, i : 1 .. Cardinality(Ports) + 1]
  BY DEF TimerExpire, MKeyInv, TypeOK, TimerOK
<1>2. PICK p \in Ports : p = entries[timer.i]
  BY <1>1
<1>3. /\ key' = [key EXCEPT ![p] = 0] /\ timerOn' = [timerOn EXCEPT ![p] = FALSE]
      /\ portMutex' = [portMutex EXCEPT ![p] = "free"]
      /\ promised' = [promised EXCEPT ![p] = 0] /\ waited' = [waited EXCEPT ![p] = 0]
      /\ timer' = [timer EXCEPT !.pc = "erase"]
      /\ UNCHANGED <<lease, counter, entries, timerMutex, handler>>
  BY <1>2 DEF TimerExpire, Forget
<1>4. /\ Registered(p) /\ ~Works(p, "again") /\ ~Works(p, "reg")
      /\ \A q \in Ports : ~Erasing(q) /\ (q # p => ~Expiring(q))
  BY <1>1, <1>2, EntryFacts DEF Erasing
<1>5. /\ timer' \in [pc : {"sleep", "scan", "expire", "erase"}, i : 1 .. Cardinality(Ports) + 1]
      /\ timer'.pc = "erase" /\ timer'.i = timer.i
  BY <1>1, <1>3
<1>6. TypeOK' /\ OneEntryPerPort' /\ HandlerOK' /\ TimerOK'
  <2>1. 0 \in 0 .. MaxLease
    BY MKeyBounds
  <2>2. /\ key' \in [Ports -> Keys \cup {0}] /\ timerOn' \in [Ports -> BOOLEAN]
        /\ portMutex' \in [Ports -> {"free", "timer"}]
    BY <1>3 DEF MKeyInv, TypeOK
  <2>3. promised' \in [Ports -> 0 .. MaxLease] /\ waited' \in [Ports -> 0 .. MaxLease]
    BY <1>3, <2>1 DEF MKeyInv, TypeOK
  <2>4. TypeOK'
    BY <1>3, <1>5, <2>2, <2>3 DEF MKeyInv, TypeOK
  <2> QED
    BY <1>1, <1>3, <1>5, <2>4 DEF MKeyInv, OneEntryPerPort, HandlerOK, TimerOK
<1>7. \A q \in Ports : /\ Works(q, "reg")' <=> Works(q, "reg")
                       /\ Works(q, "unreg")' <=> Works(q, "unreg")
                       /\ Works(q, "again")' <=> Works(q, "again")
                       /\ Registered(q)' <=> Registered(q)
                       /\ ~Expiring(q)'
                       /\ Erasing(q)' <=> q = p
  BY <1>1, <1>2, <1>3, <1>5 DEF Works, Registered, Erasing, Expiring
<1>8. PortOK(p)'
  <2>1. portMutex'[p] = "free" /\ ~timerOn'[p]
    BY <1>3 DEF MKeyInv, TypeOK
  <2> QED
    BY <1>4, <1>7, <2>1 DEF PortOK, Counting
<1>9. ASSUME NEW q \in Ports, q # p
      PROVE  PortOK(q)'
  <2>1. /\ timerOn'[q] = timerOn[q] /\ portMutex'[q] = portMutex[q]
        /\ promised'[q] = promised[q] /\ waited'[q] = waited[q] /\ counter'[q] = counter[q]
    BY <1>3, <1>9 DEF MKeyInv, TypeOK
  <2> QED
    BY <1>4, <1>7, <1>9, <2>1, PortFrame DEF MKeyInv
<1> QED
  BY <1>6, <1>8, <1>9 DEF MKeyInv

\* The entry is erased, and the timer thread goes on with the one behind it.
LEMMA MKeyErase ==
  ASSUME MKeyInv, TimerErase
  PROVE  MKeyInv'
<1>1. /\ timer.pc = "erase" /\ timer.i \in 1 .. Len(entries) /\ entries \in Seq(Ports)
      /\ timer \in [pc : {"sleep", "scan", "expire", "erase"}, i : 1 .. Cardinality(Ports) + 1]
      /\ IsInjective(entries)
  BY DEF TimerErase, MKeyInv, TypeOK, TimerOK, OneEntryPerPort
<1>2. PICK p \in Ports : p = entries[timer.i]
  BY <1>1
<1>3. PICK i \in 1 .. Len(entries) : i = timer.i /\ entries[i] = p
  BY <1>1, <1>2
<1>4. /\ entries' = RemoveAt(entries, i) /\ timer' = [timer EXCEPT !.pc = "scan"]
      /\ UNCHANGED <<key, lease, timerOn, counter, portMutex, timerMutex, handler, promised, waited>>
  BY <1>3 DEF TimerErase, portVars, history
<1>5. /\ Registered(p) /\ ~Works(p, "again") /\ Erasing(p)
      /\ \A q \in Ports : ~Expiring(q) /\ (q # p => ~Erasing(q))
  BY <1>1, <1>2, EntryFacts DEF Expiring
<1>6. /\ timer' \in [pc : {"sleep", "scan", "expire", "erase"}, i : 1 .. Cardinality(Ports) + 1]
      /\ timer'.pc = "scan"
  BY <1>1, <1>4
<1>7. entries' \in Seq(Ports) /\ OneEntryPerPort'
  BY <1>1, <1>4, RemoveAtPlaces, RemoveAtInjective DEF OneEntryPerPort
<1>8. TypeOK' /\ HandlerOK' /\ TimerOK'
  BY <1>1, <1>4, <1>6, <1>7 DEF MKeyInv, TypeOK, HandlerOK, TimerOK
<1>9. ASSUME NEW q \in Ports
      PROVE  Registered(q)' <=> Registered(q) /\ q # p
  <2>1. Contains(entries', q) <=> \E j \in 1 .. Len(entries) : j # i /\ entries[j] = q
    BY <1>1, <1>4, RemoveAtContains
  <2>2. \A j \in 1 .. Len(entries) : entries[j] = p => j = i
    BY <1>1, <1>3 DEF IsInjective
  <2> QED
    BY <1>3, <2>1, <2>2 DEF Registered, Contains
<1>10. \A q \in Ports : /\ Works(q, "reg")' <=> Works(q, "reg")
                        /\ Works(q, "unreg")' <=> Works(q, "unreg")
                        /\ Works(q, "again")' <=> Works(q, "again")
                        /\ ~Expiring(q)' /\ ~Erasing(q)'
  BY <1>4, <1>6 DEF Works, Erasing, Expiring
<1>11. PortOK(p)'
  <2>1. /\ Works(p, "reg") => timerOn[p] /\ LeaseCounted(p)
        /\ Works(p, "unreg") => ~timerOn[p]
        /\ timerOn[p] => Works(p, "reg")
        /\ portMutex[p] # "timer"
    BY <1>5 DEF MKeyInv, PortOK, Counting
  <2>2. LeaseCounted(p) => LeaseCounted(p)'
    BY <1>4, <1>5, <1>10 DEF LeaseCounted
  <2> QED
    BY <1>4, <1>9, <1>10, <2>1, <2>2 DEF PortOK, Counting
<1>12. ASSUME NEW q \in Ports, q # p
       PROVE  PortOK(q)'
  BY <1>4, <1>5, <1>9, <1>10, <1>12, PortFrame DEF MKeyInv
<1> QED
  BY <1>7, <1>8, <1>11, <1>12 DEF MKeyInv

-----------------------------------------------------------------------------
(* The theorems. *)

\* Nothing happens.
LEMMA MKeyUnchanged ==
  ASSUME MKeyInv, UNCHANGED vars
  PROVE  MKeyInv'
<1>1. /\ UNCHANGED <<key, lease, timerOn, counter, portMutex, entries, timerMutex, timer>>
      /\ UNCHANGED <<handler, promised, waited>>
  BY DEF vars, portVars, history
<1> QED
  BY <1>1 DEF MKeyInv, TypeOK, OneEntryPerPort, HandlerOK, TimerOK, PortOK, Counting,
     LeaseCounted, Works, Registered, Expiring, Erasing

\* Every step keeps the invariant.
LEMMA MKeyStep ==
  ASSUME MKeyInv, [Next]_vars
  PROVE  MKeyInv'
<1>1. ASSUME NEW p \in Ports, NEW k, Drop(p, k) PROVE MKeyInv'
  BY <1>1, MKeyUnchanged DEF Drop
<1>2. ASSUME NEW p \in Ports, NEW k, StartTimer(p, k) PROVE MKeyInv'
  BY <1>2, MKeyStart
<1>3. ASSUME NEW p \in Ports, NEW k, NEW set \in BOOLEAN, StopTimer(p, k, set) PROVE MKeyInv'
  BY <1>3, MKeyStop
<1>4. ASSUME NEW p \in Ports, NEW k, NEW set \in BOOLEAN, Pass(p, k, set) PROVE MKeyInv'
  BY <1>4, MKeyPass
<1>5. CASE MadArrives
  BY <1>1, <1>2, <1>3, <1>4, <1>5 DEF MadArrives
<1>6. CASE TimerStep
  BY <1>6, MKeyRound, MKeyCall, MKeyExpire, MKeyErase DEF TimerStep
<1>7. CASE \E n \in Nodes : HandlerStep(n)
  BY <1>7, MKeyReg, MKeyUnreg, MKeyUnlockAgain, MKeyHandle DEF HandlerStep
<1>8. CASE UNCHANGED vars
  BY <1>8, MKeyUnchanged
<1> QED
  BY <1>5, <1>6, <1>7, <1>8 DEF Next

\* The invariant holds in every state the timer can reach.
THEOREM MKeyCorrect == Spec => []MKeyInv
<1>1. Init => MKeyInv
  BY MKeyInit
<1>2. MKeyInv /\ [Next]_vars => MKeyInv'
  BY MKeyStep
<1> QED
  BY <1>1, <1>2, PTL DEF Spec

\* The variables of IBMSSma and SMATimer have their types.
THEOREM MKeyTypes == Spec => []TypeOK
<1>1. MKeyInv => TypeOK
  BY DEF MKeyInv
<1> QED
  BY <1>1, MKeyCorrect, PTL

\* SMATimer::reg never finds the port in the list: a lease is counted down once a
\* second however MADs, timer and expiry interleave.
THEOREM RegisteredOnce == Spec => []OneEntryPerPort
<1>1. MKeyInv => OneEntryPerPort
  BY DEF MKeyInv
<1> QED
  BY <1>1, MKeyCorrect, PTL

\* The flag and the list of the timer differ only under the hand of a worker or of
\* the timer thread.
THEOREM FlagFollowsList == Spec => []FlagMatchesList
<1>1. ASSUME MKeyInv PROVE FlagMatchesList
  <2> SUFFICES ASSUME NEW p \in Ports
               PROVE  \/ timerOn[p] = Registered(p)
                      \/ Busy(p, {"reg", "unreg"})
                      \/ timer.pc = "erase" /\ entries[timer.i] = p
    BY DEF FlagMatchesList
  <2>1. (timerOn[p] <=> Registered(p)) \/ Works(p, "reg") \/ Works(p, "unreg") \/ Erasing(p)
    BY <1>1 DEF MKeyInv, PortOK
  <2>2. CASE timerOn[p] <=> Registered(p)
    <3>1. timerOn[p] \in BOOLEAN /\ Registered(p) \in BOOLEAN
      BY <1>1 DEF MKeyInv, TypeOK, Registered, Contains
    <3> QED
      BY <2>2, <3>1
  <2>3. CASE Works(p, "reg") \/ Works(p, "unreg")
    BY <2>3 DEF Works, Busy
  <2>4. CASE Erasing(p)
    BY <2>4 DEF Erasing
  <2> QED
    BY <2>1, <2>2, <2>3, <2>4
<1> QED
  BY <1>1, MKeyCorrect, PTL

\* cbMkey clears an M_Key when as many seconds have passed as the lease had when the
\* first wrong M_Key arrived, not before, and never for a lease of 0.
THEOREM LeaseIsKept == Spec => []LeaseKept
<1>1. ASSUME MKeyInv PROVE LeaseKept
  <2> SUFFICES ASSUME timer.pc = "expire"
               PROVE  /\ promised[entries[timer.i]] > 0
                      /\ waited[entries[timer.i]] >= promised[entries[timer.i]]
    BY DEF LeaseKept
  <2>1. timer.i \in 1 .. Len(entries) /\ entries \in Seq(Ports)
    BY <1>1 DEF MKeyInv, TimerOK, TypeOK
  <2>2. PICK p \in Ports : p = entries[timer.i]
    BY <2>1
  <2>3. Expiring(p) /\ ~Erasing(p) /\ Registered(p)
    BY <2>1, <2>2 DEF Expiring, Erasing, Registered, Contains
  <2>4. LeaseCounted(p)
    BY <1>1, <2>3 DEF MKeyInv, PortOK, Counting
  <2>5. promised[p] \in 0 .. MaxLease /\ waited[p] \in 0 .. MaxLease
    BY <1>1 DEF MKeyInv, TypeOK
  <2>6. promised[p] > 0 /\ counter[p] = 0 /\ counter[p] + waited[p] = promised[p]
    BY <2>3, <2>4 DEF LeaseCounted
  <2> QED
    BY <2>2, <2>5, <2>6, MKeyBounds
<1> QED
  BY <1>1, MKeyCorrect, PTL

\* The unlock at the end of processMad that follows unreg never frees the lock under
\* the feet of the timer thread.
THEOREM SecondUnlockIsHarmless == Spec => []SecondUnlockHarmless
<1>1. ASSUME MKeyInv PROVE SecondUnlockHarmless
  <2> SUFFICES ASSUME NEW p \in Ports, Busy(p, {"again"})
               PROVE  portMutex[p] = "free"
    BY DEF SecondUnlockHarmless
  <2>1. Works(p, "again")
    BY DEF Busy, Works
  <2>2. ~Registered(p) /\ portMutex[p] \in {"free", "timer"}
    BY <1>1, <2>1 DEF MKeyInv, PortOK, TypeOK
  <2>3. ~Expiring(p)
    BY <1>1, <2>2 DEF MKeyInv, TimerOK, Expiring, Registered, Contains
  <2> QED
    BY <1>1, <2>2, <2>3 DEF MKeyInv, PortOK
<1> QED
  BY <1>1, MKeyCorrect, PTL

-----------------------------------------------------------------------------
(* Nodes with one protected port. *)

\* The worker of the port's node has a SubnSet in hand that processMad let through.
Writer(p) ==
  /\ handler[NodeOf[p]].set = TRUE
  /\ handler[NodeOf[p]].pc \in {"unreg", "again", "handle"}

\* A timer that runs protects an M_Key, and nobody who may write it is at work.
KeyGuarded == \A p \in Ports : (timerOn[p] => key[p] # 0) /\ (Writer(p) => ~timerOn[p])

\* A step that sets no timer, writes no key and lets no SubnSet through.
LEMMA GuardFrame ==
  ASSUME KeyGuarded, UNCHANGED <<timerOn, key>>, \A p \in Ports : Writer(p)' => Writer(p)
  PROVE  KeyGuarded' /\ \A p \in Ports : key'[p] = key[p]
  BY DEF KeyGuarded

\* Where each node has one such port, the invariant above is kept, and a key whose
\* timer runs changes by its expiry only.
LEMMA KeyGuardedStep ==
  ASSUME \A p, q \in Ports : NodeOf[p] = NodeOf[q] => p = q,
         MKeyInv, KeyGuarded, [Next]_vars
  PROVE  /\ KeyGuarded'
         /\ \A p \in Ports : timerOn[p] /\ key'[p] # key[p] => Expiring(p)
<1> USE MKeyBounds
<1>0. /\ key \in [Ports -> Keys \cup {0}] /\ timerOn \in [Ports -> BOOLEAN]
      /\ handler \in [Nodes -> HandlerType]
  BY DEF MKeyInv, TypeOK, HandlerType
<1> DEFINE Kept == KeyGuarded' /\ \A p \in Ports : timerOn[p] /\ key'[p] # key[p] => Expiring(p)
<1>1. ASSUME NEW p \in Ports, NEW k, StartTimer(p, k)
      PROVE  Kept
  <2>1. /\ handler' = [handler EXCEPT ![NodeOf[p]] = [pc |-> "reg", port |-> p, set |-> TRUE]]
        /\ timerOn' = [timerOn EXCEPT ![p] = TRUE] /\ key' = key /\ key[p] # 0
    BY <1>1 DEF StartTimer, Arrives, Mismatch
  <2>2. ~Writer(p)' /\ \A q \in Ports : q # p => (Writer(q)' <=> Writer(q))
    BY <1>0, <2>1 DEF Writer
  <2> QED
    BY <1>0, <2>1, <2>2 DEF KeyGuarded
<1>2. ASSUME NEW p \in Ports, NEW k, NEW set \in BOOLEAN, StopTimer(p, k, set)
      PROVE  Kept
  <2>1. /\ handler' = [handler EXCEPT ![NodeOf[p]] = [pc |-> "unreg", port |-> p, set |-> set]]
        /\ timerOn' = [timerOn EXCEPT ![p] = FALSE] /\ key' = key
    BY <1>2 DEF StopTimer, Arrives
  <2>2. \A q \in Ports : q # p => (Writer(q)' <=> Writer(q))
    BY <1>0, <2>1 DEF Writer
  <2> QED
    BY <1>0, <2>1, <2>2 DEF KeyGuarded
<1>3. ASSUME NEW p \in Ports, NEW k, NEW set \in BOOLEAN, Pass(p, k, set)
      PROVE  Kept
  <2>1. /\ handler' = [handler EXCEPT ![NodeOf[p]] = [pc |-> "handle", port |-> p, set |-> set]]
        /\ timerOn' = timerOn /\ key' = key
        /\ ~Mismatch(p, k, set) /\ ~(k = key[p] /\ timerOn[p])
    BY <1>3 DEF Pass, Arrives, portVars
  <2>2. \A q \in Ports : q # p => (Writer(q)' <=> Writer(q))
    BY <1>0, <2>1 DEF Writer
  <2>3. Writer(p)' => set
    BY <1>0, <2>1 DEF Writer
  <2>4. set => ~timerOn[p]
    BY <2>1 DEF Mismatch, KeyGuarded
  <2>5. \A q \in Ports : (timerOn'[q] => key'[q] # 0) /\ (Writer(q)' => ~timerOn'[q])
    BY <2>1, <2>2, <2>3, <2>4 DEF KeyGuarded
  <2> QED
    BY <2>1, <2>5 DEF KeyGuarded
<1>4. ASSUME NEW n \in Nodes, Reg(n) \/ Unreg(n) \/ UnlockAgain(n)
      PROVE  Kept
  <2>1. timerOn' = timerOn /\ key' = key
    BY <1>4 DEF Reg, Unreg, UnlockAgain, portVars
  <2>2. \/ handler' = [handler EXCEPT ![n] = Idle]
        \/ /\ handler[n].pc = "unreg" \/ handler[n].pc = "again"
           /\ \E pc \in {"again", "handle"} : handler' = [handler EXCEPT ![n].pc = pc]
    BY <1>4 DEF Reg, Unreg, UnlockAgain
  <2>3. \A q \in Ports : Writer(q)' => Writer(q)
    BY <1>0, <2>2 DEF Writer, HandlerType
  <2> QED
    BY <2>1, <2>3, GuardFrame
<1>5. ASSUME NEW n \in Nodes, Handle(n)
      PROVE  Kept
  <2>1. /\ handler[n].pc = "handle" /\ handler' = [handler EXCEPT ![n] = Idle]
        /\ timerOn' = timerOn
    BY <1>5 DEF Handle
  <2>2. \A q \in Ports : Writer(q)' => Writer(q)
    BY <1>0, <2>1 DEF Writer
  <2>3. CASE key' = key
    BY <2>1, <2>2, <2>3, GuardFrame
  <2>4. CASE \E q \in Ports, k \in Keys \cup {0} :
               /\ handler[n].set
               /\ NodeOf[q] = n
               /\ key' = [key EXCEPT ![q] = k]
    <3>1. PICK q \in Ports, k \in Keys \cup {0} :
               /\ handler[n].set
               /\ NodeOf[q] = n
               /\ key' = [key EXCEPT ![q] = k]
      BY <2>4
    <3>2. handler[n].set = TRUE
      BY <1>0, <3>1 DEF HandlerType
    <3>3. ~timerOn[q]
      BY <2>1, <3>1, <3>2 DEF KeyGuarded, Writer
    <3>4. \A p \in Ports : p # q => key'[p] = key[p]
      BY <1>0, <3>1
    <3>5. \A p \in Ports : timerOn[p] => key'[p] = key[p]
      BY <3>3, <3>4
    <3> QED
      BY <2>1, <2>2, <3>5 DEF KeyGuarded
  <2> QED
    BY <1>5, <2>3, <2>4, Zenon DEF Handle
<1>6. ASSUME TimerExpire
      PROVE  Kept
  <2>1. timer.pc = "expire" /\ timer.i \in 1 .. Len(entries) /\ entries \in Seq(Ports)
    BY <1>6 DEF TimerExpire, MKeyInv, TypeOK, TimerOK
  <2>2. PICK p \in Ports : p = entries[timer.i]
    BY <2>1
  <2>3. /\ key' = [key EXCEPT ![p] = 0] /\ timerOn' = [timerOn EXCEPT ![p] = FALSE]
        /\ handler' = handler
    BY <1>6, <2>2 DEF TimerExpire
  <2>4. Expiring(p) /\ ~timerOn'[p]
    BY <1>0, <2>1, <2>2, <2>3 DEF Expiring
  <2>5. \A q \in Ports : q # p => timerOn'[q] = timerOn[q] /\ key'[q] = key[q]
    BY <1>0, <2>3
  <2>6. \A q \in Ports : Writer(q)' <=> Writer(q)
    BY <2>3 DEF Writer
  <2> QED
    BY <2>4, <2>5, <2>6 DEF KeyGuarded
<1>7. ASSUME UNCHANGED <<timerOn, key, handler>>
      PROVE  Kept
  <2>1. \A q \in Ports : Writer(q)' => Writer(q)
    BY <1>7 DEF Writer
  <2> QED
    BY <1>7, <2>1, GuardFrame
<1>8. ASSUME TimerStep
      PROVE  Kept
  <2>1. TimerExpire \/ UNCHANGED <<timerOn, key, handler>>
    BY <1>8 DEF TimerStep, TimerWake, TimerCall, TimerErase, TimerDone, portVars
  <2> QED
    BY <1>6, <1>7, <2>1
<1>9. ASSUME NEW p \in Ports, NEW k, Drop(p, k)
      PROVE  Kept
  BY <1>7, <1>9 DEF Drop, vars, portVars
<1>10. ASSUME UNCHANGED vars
       PROVE  Kept
  BY <1>7, <1>10 DEF vars, portVars
<1> HIDE DEF Kept
<1>11. ASSUME MadArrives
       PROVE  Kept
  BY <1>1, <1>2, <1>3, <1>9, <1>11 DEF MadArrives
<1>12. ASSUME \E n \in Nodes : HandlerStep(n)
       PROVE  Kept
  BY <1>4, <1>5, <1>12 DEF HandlerStep
<1>13. Kept
  BY <1>8, <1>10, <1>11, <1>12, Zenon DEF Next
<1> QED
  BY <1>13 DEF Kept

\* While the lease timer of a port runs, nothing but its expiry changes the M_Key, in
\* a fabric whose nodes have one port with an M_Key each: switches (port 0) and HCAs
\* with one port.  An HCA with more ports does not satisfy the hypothesis: there a
\* SubnSet that port 1 lets through may write the key of port 2.
THEOREM KeyIsProtected ==
  ASSUME \A p, q \in Ports : NodeOf[p] = NodeOf[q] => p = q
  PROVE  Spec => KeyProtected
<1>1. Init => KeyGuarded
  BY MKeyBounds DEF Init, KeyGuarded, Writer
<1>2. MKeyInv /\ KeyGuarded /\ [Next]_vars => KeyGuarded'
  BY KeyGuardedStep
<1>3. MKeyInv /\ KeyGuarded /\ [Next]_vars =>
        [\A p \in Ports : timerOn[p] /\ key'[p] # key[p] =>
           timer.pc = "expire" /\ entries[timer.i] = p]_vars
  BY KeyGuardedStep DEF Expiring
<1> QED
  BY <1>1, <1>2, <1>3, MKeyCorrect, PTL DEF Spec, KeyProtected
=============================================================================
