--------------------------- MODULE SimServerProofs ---------------------------
(***************************************************************************)
(* Proofs about the simulator's server, for any number of clients, sockets,*)
(* connections, nodes and workers.                                         *)
(*                                                                         *)
(* The invariant says who owns what: a socket number that is open belongs  *)
(* to one thread, a connection to one entry of the map or to the thread    *)
(* that deletes it, a node's lock to the thread or worker between its lock *)
(* and unlock; and a thread that binds finds the connection it looked up   *)
(* before, or none.                                                        *)
(***************************************************************************)
EXTENDS SimServer, DataLemmas

ThreadType ==
  [pc : {"gone", "recv", "closed", "closeDelete", "unlist", "delete", "bindNode", "bindServer"},
   sock : Socks, conn : Conns \cup {None}, node : Nodes]
ConnType == [owner : Threads \cup {None}, node : Nodes, procs : 0 .. MaxBinds]
Bound == MaxBinds * Cardinality(Conns)
WorkerType == [pc : {"idle", "lock", "walk", "client"}, node : Nodes, i : 1 .. Bound + 1]

\* TypeOK in parts.
Types ==
  /\ thread \in [Threads -> ThreadType]
  /\ open \subseteq Socks
  /\ accepted \in Threads \cup {None}
  /\ listed \subseteq Threads
  /\ entry \in [Socks -> Conns \cup {None}]
  /\ conn \in [Conns -> ConnType]
  /\ serverLock \in Threads \cup {None}
  /\ processors \in [Nodes -> Seq(Conns)]
  /\ nodeLock \in [Nodes -> Threads \cup Workers \cup {None}]
  /\ worker \in [Workers -> WorkerType]
  /\ inFlight \in [Nodes -> 0 .. MaxMads]

\* A thread that may still receive a request of its client, and so holds its socket.
Live(t) == thread[t].pc \in {"recv", "delete", "bindNode", "bindServer"}

Binding(t) == thread[t].pc \in {"bindNode", "bindServer"}

\* An open socket number belongs to one thread; a thread that has closed its socket
\* may still name the number that another has now.
Sockets ==
  /\ \A t \in Threads : Live(t) => thread[t].sock \in open
  /\ \A t, u \in Threads : Live(t) /\ Live(u) /\ thread[t].sock = thread[u].sock => t = u

\* What is in the map exists and is there once; what is being deleted exists, is not
\* in the map, and is deleted by one thread; what exists is in the map or deleted.
Holders ==
  /\ \A s \in Socks : entry[s] # None => Exists(entry[s])
  /\ \A r, s \in Socks : entry[r] # None /\ entry[r] = entry[s] => r = s
  /\ \A t \in Threads : Deleting(t) =>
       /\ thread[t].conn \in Conns /\ Exists(thread[t].conn)
       /\ \A s \in Socks : entry[s] # thread[t].conn
  /\ \A t, u \in Threads :
       Deleting(t) /\ Deleting(u) /\ thread[t].conn = thread[u].conn => t = u
  /\ \A c \in Conns : Exists(c) =>
       \/ \E s \in Socks : entry[s] = c
       \/ \E t \in Threads : Deleting(t) /\ thread[t].conn = c

\* A thread that binds finds no connection at its socket any more, or the one it
\* looked up, at the node it has locked or is about to lock.
Bindings ==
  \A t \in Threads : Binding(t) /\ Entry(t) # None =>
    /\ Entry(t) = thread[t].conn
    /\ conn[Entry(t)].node = thread[t].node
    /\ conn[Entry(t)].procs < MaxBinds

Walking(w) == worker[w].pc \in {"walk", "client"}

\* Who works at the processors of a node holds its lock.
Locks ==
  /\ \A w \in Workers : Walking(w) => nodeLock[worker[w].node] = w
  /\ \A t \in Threads : thread[t].pc = "bindServer" => nodeLock[thread[t].node] = t

\* A worker that waits for a client does so for a processor of the list.
Walks ==
  \A w \in Workers :
    worker[w].pc = "client" => worker[w].i <= Len(processors[worker[w].node])

ServerInv ==
  /\ Types /\ Sockets /\ Holders /\ Bindings /\ Locks /\ Walks
  /\ ProcessorsMatch /\ EveryThreadListed

\* The two forms of the type invariant agree.
LEMMA TypesAgree == Types <=> TypeOK
  BY DEF Types, TypeOK, ThreadType, ConnType, WorkerType, Bound

\* The constants, and what is at rest.
LEMMA ServerBounds ==
  /\ MaxBinds \in Nat /\ Bound \in Nat
  /\ None \notin Conns /\ None \notin Threads /\ None \notin Workers
  /\ Threads \cap Workers = {}
  /\ Gone \in ThreadType /\ Gone.pc = "gone" /\ Gone.conn = None
  /\ Free \in ConnType /\ Free.owner = None /\ Free.procs = 0
  /\ Resting \in WorkerType /\ Resting.pc = "idle"
<1>1. Cardinality(Conns) \in Nat
  BY ServerAssumption, FS_CardinalityType
<1>2. MaxBinds \in Nat /\ Bound \in Nat
  BY <1>1, ServerAssumption DEF Bound
<1>3. (CHOOSE s \in Socks : TRUE) \in Socks /\ (CHOOSE n \in Nodes : TRUE) \in Nodes
  BY ServerAssumption
<1>4. Gone \in ThreadType /\ Gone.pc = "gone" /\ Gone.conn = None /\ Gone.node \in Nodes
  BY <1>3 DEF Gone, ThreadType
<1>5. Free \in ConnType /\ Free.owner = None /\ Free.procs = 0
  BY <1>2, <1>4 DEF Free, ConnType
<1>6. 1 \in 1 .. Bound + 1
  BY <1>2
<1>7. Resting \in WorkerType /\ Resting.pc = "idle"
  BY <1>4, <1>6 DEF Resting, WorkerType
<1> QED
  BY <1>2, <1>4, <1>5, <1>7, ServerAssumption

\* How often a connection is in the list of a node.
LEMMA CountIsPlaces ==
  ASSUME NEW n, NEW c
  PROVE  Count(n, c) = Cardinality(Places(processors[n], c))
  BY DEF Count, Places

\* No list is longer than its connections may bind processors.
LEMMA ListBounded ==
  ASSUME ServerInv, NEW n \in Nodes
  PROVE  Len(processors[n]) \in Nat /\ Len(processors[n]) <= Bound
<1>1. processors[n] \in Seq(Conns)
  BY DEF ServerInv, Types
<1>2. ASSUME NEW c \in Conns
      PROVE  Cardinality(Places(processors[n], c)) <= MaxBinds
  <2>1. conn[c].procs \in 0 .. MaxBinds
    BY DEF ServerInv, Types, ConnType
  <2>2. Count(n, c) <= MaxBinds
    BY <2>1, ServerBounds DEF ServerInv, ProcessorsMatch
  <2> QED
    BY <2>2, CountIsPlaces
<1>3. IsFiniteSet(Conns) /\ MaxBinds \in Nat
  BY ServerAssumption
<1>4. Len(processors[n]) <= MaxBinds * Cardinality(Conns)
  BY <1>1, <1>2, <1>3, LengthBounded
<1> QED
  BY <1>1, <1>4 DEF Bound

\* The initial state satisfies the invariant.
LEMMA ServerInit == Init => ServerInv
<1> SUFFICES ASSUME Init PROVE ServerInv
  OBVIOUS
<1> USE ServerBounds
<1>1. Types
  BY ServerAssumption DEF Init, Types
<1>2. Sockets /\ Bindings /\ Locks /\ Walks
  BY DEF Init, Sockets, Bindings, Locks, Walks, Live, Binding, Walking
<1>3. Holders
  BY DEF Init, Holders, Exists, Deleting
<1>4. ProcessorsMatch
  <2>1. ASSUME NEW n \in Nodes, NEW c \in Conns
        PROVE  Count(n, c) = 0 /\ ~Exists(c)
    <3>1. {i \in DOMAIN processors[n] : processors[n][i] = c} = {}
      BY DEF Init
    <3> QED
      BY <3>1, FS_EmptySet DEF Count, Init, Exists
  <2> QED
    BY <2>1 DEF ProcessorsMatch
<1>5. EveryThreadListed
  BY DEF Init, EveryThreadListed
<1> QED
  BY <1>1, <1>2, <1>3, <1>4, <1>5 DEF ServerInv

-----------------------------------------------------------------------------
(* The workers. *)

\* A worker's step changes no thread, no connection and no list.
LEMMA WorkerFrame ==
  ASSUME ServerInv, UNCHANGED <<threadVars, connVars, serverLock, processors>>,
         worker' \in [Workers -> WorkerType],
         nodeLock' \in [Nodes -> Threads \cup Workers \cup {None}],
         inFlight' \in [Nodes -> 0 .. MaxMads],
         Locks', Walks'
  PROVE  ServerInv'
<1>1. UNCHANGED <<thread, open, accepted, listed, entry, conn, serverLock, processors>>
  BY DEF threadVars, connVars
<1>2. Types'
  BY <1>1 DEF ServerInv, Types
<1>3. Sockets' /\ Holders' /\ Bindings' /\ EveryThreadListed'
  BY <1>1 DEF ServerInv, Sockets, Live, Holders, Exists, Deleting, Bindings, Binding, Entry,
     EveryThreadListed
<1>4. ProcessorsMatch'
  BY <1>1 DEF ServerInv, ProcessorsMatch, Count, Exists
<1> QED
  BY <1>2, <1>3, <1>4 DEF ServerInv

LEMMA ServerDeliver ==
  ASSUME ServerInv, NEW w \in Workers, NEW n \in Nodes, Deliver(w, n)
  PROVE  ServerInv'
<1> DEFINE h == [pc |-> "lock", node |-> n, i |-> 1]
<1>1. h \in WorkerType /\ h.pc = "lock"
  BY ServerBounds DEF WorkerType
<1>2. /\ worker' = worker \/ worker' = [worker EXCEPT ![w] = h]
      /\ inFlight[n] > 0 /\ inFlight' = [inFlight EXCEPT ![n] = @ - 1]
      /\ UNCHANGED <<threadVars, connVars, serverLock, processors, nodeLock>>
  BY DEF Deliver, nodeVars
<1> HIDE DEF h
<1>3. worker' \in [Workers -> WorkerType]
  BY <1>1, <1>2 DEF ServerInv, Types
<1>4. inFlight' \in [Nodes -> 0 .. MaxMads]
  BY <1>2, ServerAssumption DEF ServerInv, Types
<1>5. \A v \in Workers : worker'[v] = worker[v] \/ worker'[v].pc = "lock"
  BY <1>1, <1>2 DEF ServerInv, Types
<1>6. Locks' /\ Walks'
  BY <1>2, <1>5 DEF ServerInv, Locks, Walks, Walking, threadVars
<1> QED
  BY <1>2, <1>3, <1>4, <1>6, WorkerFrame DEF ServerInv, Types

LEMMA ServerLockNode ==
  ASSUME ServerInv, NEW w \in Workers, LockNode(w)
  PROVE  ServerInv'
<1>1. PICK n \in Nodes : n = worker[w].node
  BY DEF ServerInv, Types, WorkerType
<1>2. /\ nodeLock[n] = None /\ nodeLock' = [nodeLock EXCEPT ![n] = w]
      /\ worker' = [worker EXCEPT ![w].pc = "walk"]
      /\ UNCHANGED <<threadVars, connVars, serverLock, processors, inFlight>>
  BY <1>1 DEF LockNode
<1>3. worker' \in [Workers -> WorkerType] /\ worker'[w].node = n /\ worker'[w].pc = "walk"
  BY <1>1, <1>2 DEF ServerInv, Types, WorkerType
<1>4. \A v \in Workers : v # w => worker'[v] = worker[v]
  BY <1>2 DEF ServerInv, Types
<1>5. /\ nodeLock' \in [Nodes -> Threads \cup Workers \cup {None}] /\ nodeLock'[n] = w
      /\ \A m \in Nodes : m # n => nodeLock'[m] = nodeLock[m]
  BY <1>2 DEF ServerInv, Types
<1>6. Locks'
  <2>1. ASSUME NEW v \in Workers, worker'[v].pc \in {"walk", "client"}
        PROVE  nodeLock'[worker'[v].node] = v
    <3>1. CASE v = w
      BY <1>3, <1>5, <3>1
    <3>2. CASE v # w
      <4>1. nodeLock[worker[v].node] = v /\ worker[v].node \in Nodes
        BY <1>4, <2>1, <3>2 DEF ServerInv, Locks, Walking, Types, WorkerType
      <4>2. worker[v].node # n
        BY <1>2, <4>1, ServerBounds
      <4> QED
        BY <1>4, <1>5, <3>2, <4>1, <4>2
    <3> QED
      BY <3>1, <3>2
  <2>2. ASSUME NEW t \in Threads, thread'[t].pc = "bindServer"
        PROVE  nodeLock'[thread'[t].node] = t
    <3>1. thread' = thread
      BY <1>2 DEF threadVars
    <3>2. nodeLock[thread[t].node] = t /\ thread[t].node \in Nodes
      BY <2>2, <3>1 DEF ServerInv, Locks, Types, ThreadType
    <3>3. thread[t].node # n
      BY <1>2, <3>2, ServerBounds
    <3> QED
      BY <1>5, <3>1, <3>2, <3>3
  <2> QED
    BY <2>1, <2>2 DEF Locks, Walking
<1>7. Walks'
  BY <1>2, <1>3, <1>4 DEF ServerInv, Walks
<1> QED
  BY <1>2, <1>3, <1>5, <1>6, <1>7, WorkerFrame DEF ServerInv, Types

LEMMA ServerCall ==
  ASSUME ServerInv, NEW w \in Workers, Call(w)
  PROVE  ServerInv'
<1>1. PICK n \in Nodes : n = worker[w].node
  BY DEF ServerInv, Types, WorkerType
<1>2. /\ worker[w].pc = "walk" /\ worker[w].i <= Len(processors[n])
      /\ worker' = [worker EXCEPT ![w].i = @ + 1] \/ worker' = [worker EXCEPT ![w].pc = "client"]
      /\ UNCHANGED <<threadVars, connVars, serverLock, processors, nodeLock, inFlight>>
  BY <1>1 DEF Call, nodeVars
<1>3. Len(processors[n]) \in Nat /\ Len(processors[n]) <= Bound
  BY ListBounded
<1>4. /\ worker[w] \in WorkerType /\ worker[w].i + 1 \in 1 .. Bound + 1
      /\ worker \in [Workers -> WorkerType]
  <2>1. worker[w] \in WorkerType /\ worker \in [Workers -> WorkerType]
    BY DEF ServerInv, Types
  <2>2. worker[w].i \in 1 .. Bound + 1
    BY <2>1 DEF WorkerType
  <2> QED
    BY <1>2, <1>3, <2>1, <2>2, ServerBounds
<1>5. /\ worker' \in [Workers -> WorkerType] /\ worker'[w].node = n
      /\ worker'[w].pc = "walk" \/ (worker'[w].pc = "client" /\ worker'[w].i = worker[w].i)
      /\ \A v \in Workers : v # w => worker'[v] = worker[v]
  BY <1>1, <1>2, <1>4 DEF WorkerType
<1>6. Locks'
  <2>1. Walking(w) /\ nodeLock[n] = w
    BY <1>1, <1>2 DEF ServerInv, Locks, Walking
  <2> QED
    BY <1>2, <1>5, <2>1 DEF ServerInv, Locks, Walking, threadVars
<1>7. Walks'
  BY <1>2, <1>5 DEF ServerInv, Walks
<1> QED
  BY <1>2, <1>5, <1>6, <1>7, WorkerFrame DEF ServerInv, Types

LEMMA ServerClientAnswers ==
  ASSUME ServerInv, NEW w \in Workers, ClientAnswers(w)
  PROVE  ServerInv'
<1>1. PICK n \in Nodes : n = worker[w].node
  BY DEF ServerInv, Types, WorkerType
<1>2. /\ worker[w].pc = "client"
      /\ worker' = [worker EXCEPT ![w].pc = "walk", ![w].i = @ + 1]
      /\ UNCHANGED <<threadVars, connVars, serverLock, processors, nodeLock, inFlight>>
  BY <1>1 DEF ClientAnswers, nodeVars
<1>3. Len(processors[n]) \in Nat /\ Len(processors[n]) <= Bound
  BY ListBounded
<1>4. /\ worker[w] \in WorkerType /\ worker[w].i + 1 \in 1 .. Bound + 1
      /\ worker \in [Workers -> WorkerType]
  BY <1>1, <1>2, <1>3, ServerBounds DEF ServerInv, Types, WorkerType, Walks
<1>5. /\ worker' \in [Workers -> WorkerType] /\ worker'[w].node = n /\ worker'[w].pc = "walk"
      /\ \A v \in Workers : v # w => worker'[v] = worker[v]
  BY <1>1, <1>2, <1>4 DEF WorkerType
<1>6. Locks'
  <2>1. Walking(w) /\ nodeLock[n] = w
    BY <1>1, <1>2 DEF ServerInv, Locks, Walking
  <2> QED
    BY <1>2, <1>5, <2>1 DEF ServerInv, Locks, Walking, threadVars
<1>7. Walks'
  BY <1>2, <1>5 DEF ServerInv, Walks
<1> QED
  BY <1>2, <1>5, <1>6, <1>7, WorkerFrame DEF ServerInv, Types

LEMMA ServerUnlockNode ==
  ASSUME ServerInv, NEW w \in Workers, UnlockNode(w)
  PROVE  ServerInv'
<1>1. PICK n \in Nodes : n = worker[w].node
  BY DEF ServerInv, Types, WorkerType
<1>2. /\ worker[w].pc = "walk" /\ nodeLock' = [nodeLock EXCEPT ![n] = None]
      /\ worker' = [worker EXCEPT ![w] = Resting]
      /\ UNCHANGED <<threadVars, connVars, serverLock, processors, inFlight>>
  BY <1>1 DEF UnlockNode
<1>3. worker' \in [Workers -> WorkerType] /\ worker'[w].pc = "idle"
  BY <1>2, ServerBounds DEF ServerInv, Types
<1>4. \A v \in Workers : v # w => worker'[v] = worker[v]
  BY <1>2 DEF ServerInv, Types
<1>5. /\ nodeLock' \in [Nodes -> Threads \cup Workers \cup {None}]
      /\ \A m \in Nodes : m # n => nodeLock'[m] = nodeLock[m]
  BY <1>2 DEF ServerInv, Types
<1>6. nodeLock[n] = w
  BY <1>1, <1>2 DEF ServerInv, Locks, Walking
<1>7. Locks'
  <2>1. ASSUME NEW v \in Workers, worker'[v].pc \in {"walk", "client"}
        PROVE  nodeLock'[worker'[v].node] = v
    <3>1. v # w
      BY <1>3, <2>1
    <3>2. nodeLock[worker[v].node] = v /\ worker[v].node \in Nodes
      BY <1>4, <2>1, <3>1 DEF ServerInv, Locks, Walking, Types, WorkerType
    <3>3. worker[v].node # n
      BY <1>6, <3>1, <3>2
    <3> QED
      BY <1>4, <1>5, <3>1, <3>2, <3>3
  <2>2. ASSUME NEW t \in Threads, thread'[t].pc = "bindServer"
        PROVE  nodeLock'[thread'[t].node] = t
    <3>1. thread' = thread
      BY <1>2 DEF threadVars
    <3>2. nodeLock[thread[t].node] = t /\ thread[t].node \in Nodes
      BY <2>2, <3>1 DEF ServerInv, Locks, Types, ThreadType
    <3>3. thread[t].node # n
      BY <1>6, <3>2, ServerBounds
    <3> QED
      BY <1>5, <3>1, <3>2, <3>3
  <2> QED
    BY <2>1, <2>2 DEF Locks, Walking
<1>8. Walks'
  BY <1>2, <1>3, <1>4 DEF ServerInv, Walks
<1> QED
  BY <1>2, <1>3, <1>5, <1>7, <1>8, WorkerFrame DEF ServerInv, Types

-----------------------------------------------------------------------------
(* The threads of the clients, without the deletion of a connection. *)

\* A step of one thread leaves the others alone.
LEMMA ThreadMoves ==
  ASSUME ServerInv, NEW t \in Threads, NEW h \in ThreadType, thread' = [thread EXCEPT ![t] = h]
  PROVE  /\ thread' \in [Threads -> ThreadType] /\ thread'[t] = h
         /\ \A u \in Threads : u # t => thread'[u] = thread[u]
  BY DEF ServerInv, Types

\* A thread that goes on was in the list, or about to be put there.
LEMMA ListedMove ==
  ASSUME ServerInv, NEW t \in Threads, NEW h \in ThreadType, thread' = [thread EXCEPT ![t] = h],
         thread[t].pc # "gone", UNCHANGED <<accepted, listed>>
  PROVE  EveryThreadListed'
<1>1. thread[t] # Gone
  BY ServerBounds
<1> QED
  BY <1>1, ThreadMoves DEF ServerInv, EveryThreadListed

\* A thread that keeps its socket, and does not come back to life.
LEMMA SocketMove ==
  ASSUME ServerInv, NEW t \in Threads, NEW h \in ThreadType, thread' = [thread EXCEPT ![t] = h],
         h.sock = thread[t].sock, UNCHANGED open,
         h.pc \in {"recv", "delete", "bindNode", "bindServer"} => Live(t)
  PROVE  Sockets'
<1>1. \A u \in Threads : (Live(u)' => Live(u)) /\ thread'[u].sock = thread[u].sock
  BY ThreadMoves DEF Live
<1> QED
  BY <1>1 DEF ServerInv, Sockets, Live

\* A thread that neither deletes a connection nor begins or ends to delete one.
LEMMA HolderMove ==
  ASSUME ServerInv, NEW t \in Threads, NEW h \in ThreadType, thread' = [thread EXCEPT ![t] = h],
         UNCHANGED <<entry, conn>>,
         thread[t].pc \notin {"delete", "closeDelete"}, h.pc \notin {"delete", "closeDelete"}
  PROVE  Holders'
<1>1. ~Deleting(t)
  BY DEF Deleting, ServerInv, Types, ThreadType
<1>2. \A u \in Threads : /\ Deleting(u)' <=> Deleting(u)
                         /\ Deleting(u) => thread'[u] = thread[u]
  BY <1>1, ThreadMoves DEF Deleting, ThreadType
<1> HIDE DEF ServerInv
<1>3. Holders
  BY DEF ServerInv
<1> QED
  BY <1>2, <1>3 DEF Holders, Exists, Deleting

\* A thread that does not bind.
LEMMA BindingMove ==
  ASSUME ServerInv, NEW t \in Threads, NEW h \in ThreadType, thread' = [thread EXCEPT ![t] = h],
         UNCHANGED <<entry, conn>>, h.pc \notin {"bindNode", "bindServer"}
  PROVE  Bindings'
<1>1. \A u \in Threads : Binding(u)' => Binding(u) /\ thread'[u] = thread[u]
  BY ThreadMoves DEF Binding
<1> QED
  BY <1>1 DEF ServerInv, Bindings, Binding, Entry

\* A thread that does not enter a node.
LEMMA NodeMove ==
  ASSUME ServerInv, NEW t \in Threads, NEW h \in ThreadType, thread' = [thread EXCEPT ![t] = h],
         UNCHANGED <<processors, nodeLock, worker>>, h.pc # "bindServer"
  PROVE  Locks' /\ Walks'
<1>1. \A u \in Threads : thread'[u].pc = "bindServer" => thread'[u] = thread[u]
  BY ThreadMoves
<1> QED
  BY <1>1 DEF ServerInv, Locks, Walks, Walking

\* The lists of the nodes match while they and the connections stay the same.
LEMMA MatchFrame ==
  ASSUME ServerInv, UNCHANGED <<processors, conn>>
  PROVE  ProcessorsMatch'
  BY DEF ServerInv, ProcessorsMatch, Count, Exists

LEMMA ServerAccept ==
  ASSUME ServerInv, NEW t \in Threads, NEW s \in Socks, Accept(t, s)
  PROVE  ServerInv'
<1>1. PICK h \in ThreadType : /\ h.pc = "recv" /\ h.sock = s
                              /\ thread' = [thread EXCEPT ![t] = h]
  BY ServerBounds DEF Accept, ThreadType
<1>2. /\ accepted = None /\ thread[t].pc = "gone" /\ s \notin open /\ open' = open \cup {s}
      /\ accepted' = t
      /\ UNCHANGED <<listed, entry, conn, serverLock, processors, nodeLock, worker, inFlight>>
  BY ServerBounds DEF Accept, connVars, nodeVars, madVars
<1>3. /\ thread' \in [Threads -> ThreadType] /\ thread'[t] = h
      /\ \A u \in Threads : u # t => thread'[u] = thread[u]
  BY <1>1, ThreadMoves
<1>4. Types'
  BY <1>2, <1>3 DEF ServerInv, Types
<1>5. Sockets'
  <2>1. ASSUME NEW u \in Threads, u # t
        PROVE  /\ Live(u)' => Live(u) /\ thread'[u].sock = thread[u].sock
               /\ Live(u) => thread[u].sock \in open /\ thread[u].sock # s
    BY <1>2, <1>3, <2>1 DEF ServerInv, Sockets, Live
  <2> QED
    BY <1>1, <1>2, <1>3, <2>1 DEF ServerInv, Sockets, Live
<1>6. Holders' /\ Bindings' /\ Locks' /\ Walks' /\ ProcessorsMatch'
  BY <1>1, <1>2, HolderMove, BindingMove, NodeMove, MatchFrame
<1>7. EveryThreadListed'
  BY <1>2, <1>3, ServerBounds DEF ServerInv, EveryThreadListed
<1> QED
  BY <1>4, <1>5, <1>6, <1>7 DEF ServerInv

LEMMA ServerRegister ==
  ASSUME ServerInv, Register
  PROVE  ServerInv'
<1>1. /\ accepted # None /\ listed' = listed \cup {accepted} /\ accepted' = None
      /\ UNCHANGED <<thread, open, entry, conn, serverLock, processors, nodeLock, worker, inFlight>>
  BY DEF Register, connVars, nodeVars, madVars
<1>2. Types' /\ EveryThreadListed'
  BY <1>1 DEF ServerInv, Types, EveryThreadListed
<1>3. Sockets' /\ Holders' /\ Bindings'
  BY <1>1 DEF ServerInv, Sockets, Live, Holders, Exists, Deleting, Bindings, Binding, Entry
<1>4. Locks' /\ Walks' /\ ProcessorsMatch'
  BY <1>1, MatchFrame DEF ServerInv, Locks, Walking, Walks
<1> QED
  BY <1>2, <1>3, <1>4 DEF ServerInv

\* The number of a socket that is closed belongs to nobody.
LEMMA ServerClose ==
  ASSUME ServerInv, NEW t \in Threads, Close(t)
  PROVE  ServerInv'
<1>1. /\ thread[t] \in ThreadType /\ thread[t].pc = "recv"
      /\ open' = open \ {thread[t].sock}
      /\ UNCHANGED <<accepted, listed, entry, conn, serverLock, processors, nodeLock, worker, inFlight>>
  BY DEF Close, Serving, connVars, nodeVars, madVars, ServerInv, Types
<1>2. PICK h \in ThreadType : h.pc = "closed" /\ thread' = [thread EXCEPT ![t] = h]
  BY <1>1 DEF Close, Goto, ThreadType
<1>3. /\ thread' \in [Threads -> ThreadType] /\ thread'[t] = h
      /\ \A u \in Threads : u # t => thread'[u] = thread[u]
  BY <1>2, ThreadMoves
<1>4. Types'
  BY <1>1, <1>3 DEF ServerInv, Types
<1>5. Sockets'
  <2>1. ASSUME NEW u \in Threads, u # t
        PROVE  /\ Live(u)' => Live(u) /\ thread'[u].sock = thread[u].sock
               /\ Live(u) => thread[u].sock \in open /\ thread[u].sock # thread[t].sock
    BY <1>1, <1>3, <2>1 DEF ServerInv, Sockets, Live
  <2>2. ~Live(t)'
    BY <1>2, <1>3 DEF Live
  <2>3. \A u \in Threads : Live(u)' => /\ Live(u) /\ thread'[u].sock = thread[u].sock
                                       /\ thread[u].sock \in open'
    BY <1>1, <2>1, <2>2 DEF Live
  <2> QED
    BY <2>3 DEF ServerInv, Sockets, Live
<1>6. Holders' /\ Bindings' /\ Locks' /\ Walks' /\ ProcessorsMatch' /\ EveryThreadListed'
  BY <1>1, <1>2, HolderMove, BindingMove, NodeMove, MatchFrame, ListedMove
<1> QED
  BY <1>4, <1>5, <1>6 DEF ServerInv

LEMMA ServerEndThread ==
  ASSUME ServerInv, NEW t \in Threads, EndThread(t)
  PROVE  ServerInv'
<1>1. /\ thread[t].pc = "unlist" /\ listed' = listed \ {t} /\ serverLock' = None
      /\ UNCHANGED <<open, accepted, entry, conn, processors, nodeLock, worker, inFlight>>
  BY DEF EndThread, connVars, nodeVars, madVars
<1>2. PICK h \in ThreadType : h = Gone /\ h.pc = "gone" /\ thread' = [thread EXCEPT ![t] = h]
  BY ServerBounds DEF EndThread
<1>3. /\ thread' \in [Threads -> ThreadType] /\ thread'[t] = h
      /\ \A u \in Threads : u # t => thread'[u] = thread[u]
  BY <1>2, ThreadMoves
<1>4. Types'
  BY <1>1, <1>3 DEF ServerInv, Types
<1>5. Sockets'
  <2>1. \A u \in Threads : Live(u)' => Live(u) /\ thread'[u] = thread[u]
    BY <1>2, <1>3 DEF Live
  <2> QED
    BY <1>1, <2>1 DEF ServerInv, Sockets, Live
<1>6. Holders' /\ Bindings' /\ Locks' /\ Walks' /\ ProcessorsMatch'
  BY <1>1, <1>2, HolderMove, BindingMove, NodeMove, MatchFrame
<1>7. EveryThreadListed'
  BY <1>1, <1>2, <1>3 DEF ServerInv, EveryThreadListed
<1> QED
  BY <1>4, <1>5, <1>6, <1>7 DEF ServerInv

LEMMA ServerSendMad ==
  ASSUME ServerInv, NEW t \in Threads, SendMad(t)
  PROVE  ServerInv'
<1>1. UNCHANGED <<threadVars, connVars, serverLock, processors, nodeLock, worker>>
  BY DEF SendMad, nodeVars
<1>2. inFlight' \in [Nodes -> 0 .. MaxMads]
  <2>1. PICK n \in Nodes : inFlight[n] < MaxMads /\ inFlight' = [inFlight EXCEPT ![n] = @ + 1]
    BY DEF SendMad
  <2> QED
    BY <2>1, ServerAssumption DEF ServerInv, Types
<1>3. Locks' /\ Walks'
  BY <1>1 DEF ServerInv, Locks, Walks, Walking, threadVars
<1> QED
  BY <1>1, <1>2, <1>3, WorkerFrame DEF ServerInv, Types

\* The thread looks up its connection and remembers its node.
LEMMA ServerBindFind ==
  ASSUME ServerInv, NEW t \in Threads, BindFind(t)
  PROVE  ServerInv'
<1>1. /\ thread[t] \in ThreadType /\ thread[t].pc = "recv"
      /\ UNCHANGED <<open, accepted, listed, entry, conn, serverLock, processors, nodeLock>>
      /\ UNCHANGED <<worker, inFlight>>
  BY DEF BindFind, Serving, connVars, nodeVars, madVars, ServerInv, Types
<1>2. PICK c \in Conns : c = Entry(t) /\ conn[c].procs < MaxBinds /\ conn[c] \in ConnType
  BY <1>1 DEF BindFind, Entry, ServerInv, Types, ThreadType
<1>3. PICK h \in ThreadType :
        /\ h.pc = "bindNode" /\ h.sock = thread[t].sock /\ h.conn = c /\ h.node = conn[c].node
        /\ thread' = [thread EXCEPT ![t] = h]
  <2> DEFINE g == [thread[t] EXCEPT !.pc = "bindNode", !.conn = c, !.node = conn[c].node]
  <2>1. /\ g \in ThreadType /\ g.pc = "bindNode" /\ g.sock = thread[t].sock
        /\ g.conn = c /\ g.node = conn[c].node
    BY <1>1, <1>2 DEF ThreadType, ConnType
  <2>2. thread' = [thread EXCEPT ![t].pc = "bindNode", ![t].conn = c, ![t].node = conn[c].node]
    BY <1>2 DEF BindFind
  <2>3. thread' = [thread EXCEPT ![t] = g]
    BY <2>2 DEF ServerInv, Types
  <2> QED
    BY <2>1, <2>3
<1>4. /\ thread' \in [Threads -> ThreadType] /\ thread'[t] = h
      /\ \A u \in Threads : u # t => thread'[u] = thread[u]
  BY <1>3, ThreadMoves
<1>5. Types'
  BY <1>1, <1>4 DEF ServerInv, Types
<1>6. Live(t)
  BY <1>1 DEF Live
<1>7. Bindings'
  BY <1>1, <1>2, <1>3, <1>4 DEF ServerInv, Bindings, Binding, Entry
<1>8. Sockets' /\ Holders' /\ Locks' /\ Walks' /\ ProcessorsMatch' /\ EveryThreadListed'
  BY <1>1, <1>3, <1>6, SocketMove, HolderMove, NodeMove, MatchFrame, ListedMove
<1> QED
  BY <1>5, <1>7, <1>8 DEF ServerInv

\* The thread locks the node, which nobody has locked.
LEMMA ServerBindNode ==
  ASSUME ServerInv, NEW t \in Threads, BindNode(t)
  PROVE  ServerInv'
<1>1. /\ thread[t] \in ThreadType /\ thread[t].pc = "bindNode"
      /\ UNCHANGED <<open, accepted, listed, entry, conn, serverLock, processors>>
      /\ UNCHANGED <<worker, inFlight>>
  BY DEF BindNode, connVars, madVars, ServerInv, Types
<1>2. PICK n \in Nodes : n = thread[t].node
  BY <1>1 DEF ThreadType
<1>3. nodeLock[n] = None /\ nodeLock' = [nodeLock EXCEPT ![n] = t]
  BY <1>2 DEF BindNode
<1>4. PICK h \in ThreadType :
        /\ h.pc = "bindServer" /\ h.sock = thread[t].sock /\ h.conn = thread[t].conn /\ h.node = n
        /\ thread' = [thread EXCEPT ![t] = h]
  BY <1>1, <1>2 DEF BindNode, Goto, ThreadType
<1>5. /\ thread' \in [Threads -> ThreadType] /\ thread'[t] = h
      /\ \A u \in Threads : u # t => thread'[u] = thread[u]
  BY <1>4, ThreadMoves
<1>6. /\ nodeLock' \in [Nodes -> Threads \cup Workers \cup {None}] /\ nodeLock'[n] = t
      /\ \A m \in Nodes : m # n => nodeLock'[m] = nodeLock[m]
  BY <1>3 DEF ServerInv, Types
<1>7. Types'
  BY <1>1, <1>5, <1>6 DEF ServerInv, Types
<1>8. Bindings'
  BY <1>1, <1>2, <1>4, <1>5 DEF ServerInv, Bindings, Binding, Entry
<1>9. Locks' /\ Walks'
  <2>1. ASSUME NEW w \in Workers, Walking(w)
        PROVE  nodeLock'[worker[w].node] = w
    <3>1. nodeLock[worker[w].node] = w /\ worker[w].node \in Nodes
      BY <2>1 DEF ServerInv, Locks, Types, WorkerType
    <3>2. worker[w].node # n
      BY <1>3, <3>1, ServerBounds
    <3> QED
      BY <1>6, <3>1, <3>2
  <2>2. ASSUME NEW u \in Threads, thread'[u].pc = "bindServer"
        PROVE  nodeLock'[thread'[u].node] = u
    <3>1. CASE u = t
      BY <1>4, <1>5, <1>6, <3>1
    <3>2. CASE u # t
      <4>1. nodeLock[thread[u].node] = u /\ thread[u].node \in Nodes
        BY <1>5, <2>2, <3>2 DEF ServerInv, Locks, Types, ThreadType
      <4>2. thread[u].node # n
        BY <1>3, <4>1, ServerBounds
      <4> QED
        BY <1>5, <1>6, <3>2, <4>1, <4>2
    <3> QED
      BY <3>1, <3>2
  <2> QED
    BY <1>1, <2>1, <2>2 DEF ServerInv, Locks, Walking, Walks
<1>10. Live(t)
  BY <1>1 DEF Live
<1>11. Sockets' /\ Holders' /\ ProcessorsMatch' /\ EveryThreadListed'
  BY <1>1, <1>4, <1>10, SocketMove, HolderMove, MatchFrame, ListedMove
<1> QED
  BY <1>7, <1>8, <1>9, <1>11 DEF ServerInv

-----------------------------------------------------------------------------
(* A connection is made, taken out of the map, and deleted. *)

\* A thread takes its connection out of the map in order to delete it.
LEMMA EntryTaken ==
  ASSUME ServerInv, NEW t \in Threads, NEW c \in Conns, NEW h \in ThreadType,
         thread[t].pc \notin {"delete", "closeDelete"}, Entry(t) = c,
         entry' = [entry EXCEPT ![thread[t].sock] = None],
         h.pc \in {"delete", "closeDelete"}, h.conn = c,
         thread' = [thread EXCEPT ![t] = h], UNCHANGED conn
  PROVE  entry' \in [Socks -> Conns \cup {None}] /\ Holders' /\ Bindings'
<1> DEFINE k == thread[t].sock
<1>1. /\ thread'[t] = h /\ \A u \in Threads : u # t => thread'[u] = thread[u]
      /\ thread \in [Threads -> ThreadType] /\ thread' \in [Threads -> ThreadType]
  BY ThreadMoves DEF ServerInv, Types
<1>2. k \in Socks /\ entry[k] = c /\ c # None
  BY <1>1, ServerBounds DEF Entry, ThreadType
<1>3. /\ entry' \in [Socks -> Conns \cup {None}] /\ entry'[k] = None
      /\ \A s \in Socks : s # k => entry'[s] = entry[s]
  BY <1>2 DEF ServerInv, Types
<1> HIDE DEF k
<1>4. Holders
  BY DEF ServerInv
<1>5. \A u \in Threads : /\ Deleting(u) => u # t
                         /\ Deleting(u)' <=> Deleting(u) \/ u = t
  BY <1>1 DEF Deleting, ThreadType
<1>6. \A d \in Conns : Exists(d)' <=> Exists(d)
  BY DEF Exists
<1>7. \A s \in Socks : entry'[s] # None => entry'[s] = entry[s] /\ entry[s] \in Conns
                                           /\ Exists(entry[s])
  BY <1>3, <1>4 DEF ServerInv, Types, Holders
<1>8. Exists(c) /\ \A s \in Socks : entry'[s] # c
  BY <1>2, <1>3, <1>4 DEF Holders
<1>9. Holders'
  <2>1. \A s \in Socks : entry'[s] # None => conn'[entry'[s]].owner # None
    BY <1>7 DEF Exists
  <2>2. \A r, s \in Socks : entry'[r] # None /\ entry'[r] = entry'[s] => r = s
    BY <1>4, <1>7 DEF Holders
  <2>3. ASSUME NEW u \in Threads, Deleting(u)'
        PROVE  /\ thread'[u].conn \in Conns /\ conn'[thread'[u].conn].owner # None
               /\ \A s \in Socks : entry'[s] # thread'[u].conn
    <3>1. CASE u = t
      BY <1>1, <1>8, <3>1 DEF Exists
    <3>2. CASE u # t
      <4>1. Deleting(u) /\ thread'[u].conn = thread[u].conn
        BY <1>1, <1>5, <2>3, <3>2
      <4>2. thread[u].conn \in Conns /\ Exists(thread[u].conn)
            /\ \A s \in Socks : entry[s] # thread[u].conn
        BY <1>4, <4>1 DEF Holders
      <4> QED
        BY <1>7, <4>1, <4>2, ServerBounds DEF Exists
    <3> QED
      BY <3>1, <3>2
  <2>4. ASSUME NEW u \in Threads, NEW v \in Threads, Deleting(u)', Deleting(v)',
               thread'[u].conn = thread'[v].conn
        PROVE  u = v
    <3>1. \A w \in Threads : Deleting(w) => thread[w].conn # c
      BY <1>2, <1>4 DEF Holders
    <3> QED
      BY <1>1, <1>4, <1>5, <2>4, <3>1 DEF Holders
  <2>5. ASSUME NEW d \in Conns, conn'[d].owner # None
        PROVE  \/ \E s \in Socks : entry'[s] = d
               \/ \E u \in Threads : Deleting(u)' /\ thread'[u].conn = d
    <3>1. CASE d = c
      BY <1>1, <1>5, <3>1
    <3>2. CASE d # c
      <4>1. \/ \E s \in Socks : entry[s] = d
            \/ \E u \in Threads : Deleting(u) /\ thread[u].conn = d
        BY <1>4, <2>5 DEF Holders, Exists
      <4>2. \A s \in Socks : entry[s] = d => entry'[s] = d
        BY <1>2, <1>3, <3>2
      <4> QED
        BY <1>1, <1>5, <4>1, <4>2
    <3> QED
      BY <3>1, <3>2
  <2> QED
    BY <2>1, <2>2, <2>3, <2>4, <2>5 DEF Holders, Exists, Deleting
<1>10. Bindings'
  <2>1. ASSUME NEW u \in Threads, Binding(u)', entry'[thread'[u].sock] # None
        PROVE  Binding(u) /\ thread'[u] = thread[u] /\ Entry(u) = entry'[thread'[u].sock]
    <3>1. u # t
      BY <1>1, <2>1 DEF Binding
    <3> QED
      BY <1>1, <1>7, <2>1, <3>1 DEF Binding, Entry, ThreadType
  <2> QED
    BY <2>1 DEF ServerInv, Bindings, Binding, Entry
<1> QED
  BY <1>3, <1>9, <1>10

LEMMA ServerClosingClient ==
  ASSUME ServerInv, NEW t \in Threads, ClosingClient(t)
  PROVE  ServerInv'
<1>1. /\ thread[t] \in ThreadType /\ thread[t].pc = "closed" /\ serverLock' = t
      /\ UNCHANGED <<open, accepted, listed, conn, processors, nodeLock, worker, inFlight>>
  BY DEF ClosingClient, nodeVars, madVars, ServerInv, Types
<1>2. CASE Entry(t) = None
  <2>1. PICK h \in ThreadType : h.pc = "unlist" /\ h.sock = thread[t].sock
                                /\ thread' = [thread EXCEPT ![t] = h]
    BY <1>1, <1>2 DEF ClosingClient, Goto, ThreadType
  <2>2. UNCHANGED entry
    BY <1>2 DEF ClosingClient
  <2>3. Types'
    BY <1>1, <2>1, <2>2, ThreadMoves DEF ServerInv, Types
  <2>4. Sockets' /\ Holders' /\ Bindings' /\ Locks' /\ Walks' /\ ProcessorsMatch' /\ EveryThreadListed'
    BY <1>1, <2>1, <2>2, SocketMove, HolderMove, BindingMove, NodeMove, MatchFrame, ListedMove
  <2> QED
    BY <2>3, <2>4 DEF ServerInv
<1>3. CASE Entry(t) # None
  <2>1. PICK c \in Conns : c = Entry(t)
    <3>1. thread[t].sock \in Socks /\ entry \in [Socks -> Conns \cup {None}]
      BY <1>1 DEF ServerInv, Types, ThreadType
    <3> QED
      BY <1>3, <3>1 DEF Entry
  <2>2. /\ entry' = [entry EXCEPT ![thread[t].sock] = None]
        /\ thread' = [thread EXCEPT ![t].pc = "closeDelete", ![t].conn = c]
    BY <1>3, <2>1 DEF ClosingClient
  <2>3. PICK h \in ThreadType : /\ h.pc = "closeDelete" /\ h.sock = thread[t].sock /\ h.conn = c
                                /\ thread' = [thread EXCEPT ![t] = h]
    <3> DEFINE g == [thread[t] EXCEPT !.pc = "closeDelete", !.conn = c]
    <3>1. /\ g \in ThreadType /\ g.pc = "closeDelete" /\ g.sock = thread[t].sock /\ g.conn = c
      BY <1>1 DEF ThreadType
    <3>2. thread' = [thread EXCEPT ![t] = g]
      BY <2>2 DEF ServerInv, Types
    <3> QED
      BY <3>1, <3>2
  <2>4. entry' \in [Socks -> Conns \cup {None}] /\ Holders' /\ Bindings'
    <3>1. /\ ServerInv /\ thread[t].pc \notin {"delete", "closeDelete"} /\ Entry(t) = c
          /\ h.pc \in {"delete", "closeDelete"} /\ UNCHANGED conn
      BY <1>1, <2>1, <2>3
    <3> QED
      BY ONLY t \in Threads, c \in Conns, h \in ThreadType, <2>2, <2>3, <3>1, EntryTaken, ZenonT(60)
  <2>5. Types'
    BY <1>1, <2>3, <2>4, ThreadMoves DEF ServerInv, Types
  <2>6. Sockets' /\ Locks' /\ Walks' /\ ProcessorsMatch' /\ EveryThreadListed'
    <3>1. Sockets'
      BY <1>1, <2>3, SocketMove
    <3>2. Locks' /\ Walks'
      BY <1>1, <2>3, NodeMove
    <3>3. ProcessorsMatch' /\ EveryThreadListed'
      BY <1>1, <2>3, MatchFrame, ListedMove
    <3> QED
      BY <3>1, <3>2, <3>3
  <2> QED
    BY <2>4, <2>5, <2>6 DEF ServerInv
<1> QED
  BY <1>2, <1>3

LEMMA ServerDisconnect ==
  ASSUME ServerInv, NEW t \in Threads, Disconnect(t)
  PROVE  ServerInv'
<1>1. /\ thread[t] \in ThreadType /\ thread[t].pc = "recv" /\ Live(t)
      /\ UNCHANGED <<open, accepted, listed, conn, serverLock, processors, nodeLock, worker, inFlight>>
  BY DEF Disconnect, Serving, Live, nodeVars, madVars, ServerInv, Types
<1>2. PICK c \in Conns : c = Entry(t)
  BY <1>1 DEF Disconnect, Entry, ServerInv, Types, ThreadType
<1>3. /\ entry' = [entry EXCEPT ![thread[t].sock] = None]
      /\ thread' = [thread EXCEPT ![t].pc = "delete", ![t].conn = c]
  BY <1>2 DEF Disconnect
<1>4. PICK h \in ThreadType : /\ h.pc = "delete" /\ h.sock = thread[t].sock /\ h.conn = c
                              /\ thread' = [thread EXCEPT ![t] = h]
  <2> DEFINE g == [thread[t] EXCEPT !.pc = "delete", !.conn = c]
  <2>1. /\ g \in ThreadType /\ g.pc = "delete" /\ g.sock = thread[t].sock /\ g.conn = c
    BY <1>1 DEF ThreadType
  <2>2. thread' = [thread EXCEPT ![t] = g]
    BY <1>3 DEF ServerInv, Types
  <2> QED
    BY <2>1, <2>2
<1>5. entry' \in [Socks -> Conns \cup {None}] /\ Holders' /\ Bindings'
  <2>1. /\ ServerInv /\ thread[t].pc \notin {"delete", "closeDelete"} /\ Entry(t) = c
        /\ h.pc \in {"delete", "closeDelete"} /\ UNCHANGED conn
    BY <1>1, <1>2, <1>4
  <2> QED
    BY ONLY t \in Threads, c \in Conns, h \in ThreadType, <1>3, <1>4, <2>1, EntryTaken, ZenonT(60)
<1>6. Types'
  BY <1>1, <1>4, <1>5, ThreadMoves DEF ServerInv, Types
<1>7. Sockets' /\ Locks' /\ Walks' /\ ProcessorsMatch' /\ EveryThreadListed'
  <2>1. Sockets'
    BY <1>1, <1>4, SocketMove
  <2>2. Locks' /\ Walks'
    BY <1>1, <1>4, NodeMove
  <2>3. ProcessorsMatch' /\ EveryThreadListed'
    BY <1>1, <1>4, MatchFrame, ListedMove
  <2> QED
    BY <2>1, <2>2, <2>3
<1> QED
  BY <1>5, <1>6, <1>7 DEF ServerInv

\* The new connection takes an object that nobody holds, and has no processor yet.
LEMMA ServerConnect ==
  ASSUME ServerInv, NEW t \in Threads, Connect(t)
  PROVE  ServerInv'
<1>1. /\ thread[t] \in ThreadType /\ thread[t].pc = "recv" /\ Live(t) /\ Entry(t) = None
      /\ UNCHANGED <<thread, open, accepted, listed, serverLock, processors, nodeLock>>
      /\ UNCHANGED <<worker, inFlight>>
  BY DEF Connect, Serving, Live, threadVars, nodeVars, madVars, ServerInv, Types
<1>2. PICK k \in Socks : k = thread[t].sock /\ entry[k] = None
  BY <1>1 DEF Entry, ThreadType
<1>3. PICK c \in Conns, n \in Nodes :
        /\ ~Exists(c) /\ conn' = [conn EXCEPT ![c] = [owner |-> t, node |-> n, procs |-> 0]]
        /\ entry' = [entry EXCEPT ![k] = c]
  BY <1>2 DEF Connect
<1>4. /\ conn' \in [Conns -> ConnType] /\ conn'[c].owner = t /\ conn'[c].procs = 0
      /\ \A d \in Conns : d # c => conn'[d] = conn[d]
  BY <1>3, ServerBounds DEF ServerInv, Types, ConnType
<1>5. /\ entry' \in [Socks -> Conns \cup {None}] /\ entry'[k] = c
      /\ \A s \in Socks : s # k => entry'[s] = entry[s]
  BY <1>3 DEF ServerInv, Types
<1>6. Holders /\ entry \in [Socks -> Conns \cup {None}]
  BY DEF ServerInv, Types
<1>7. \A u \in Threads : Deleting(u)' <=> Deleting(u)
  BY <1>1 DEF Deleting
<1>8. \A s \in Socks : entry[s] # c
  BY <1>3, <1>6, ServerBounds DEF Holders
<1>9. t # None /\ c # None
  BY ServerBounds
<1>10. Holders'
  <2>1. \A s \in Socks : entry'[s] # None => conn'[entry'[s]].owner # None
    BY <1>4, <1>5, <1>6, <1>8, <1>9 DEF Holders, Exists
  <2>2. \A r, s \in Socks : entry'[r] # None /\ entry'[r] = entry'[s] => r = s
    BY <1>5, <1>6, <1>8 DEF Holders
  <2>3. ASSUME NEW u \in Threads, Deleting(u)'
        PROVE  /\ thread'[u].conn \in Conns /\ conn'[thread'[u].conn].owner # None
               /\ \A s \in Socks : entry'[s] # thread'[u].conn
    <3>1. /\ thread[u].conn \in Conns /\ Exists(thread[u].conn)
          /\ \A s \in Socks : entry[s] # thread[u].conn
      BY <1>6, <1>7, <2>3 DEF Holders
    <3>2. thread[u].conn # c
      BY <1>3, <3>1
    <3> QED
      BY <1>1, <1>4, <1>5, <3>1, <3>2 DEF Exists
  <2>4. \A u, v \in Threads : Deleting(u) /\ Deleting(v) /\ thread[u].conn = thread[v].conn => u = v
    BY <1>6 DEF Holders
  <2>5. ASSUME NEW d \in Conns, conn'[d].owner # None
        PROVE  \/ \E s \in Socks : entry'[s] = d
               \/ \E u \in Threads : Deleting(u) /\ thread[u].conn = d
    <3>1. CASE d = c
      BY <1>5, <3>1
    <3>2. CASE d # c
      <4>1. \/ \E s \in Socks : entry[s] = d
            \/ \E u \in Threads : Deleting(u) /\ thread[u].conn = d
        BY <1>4, <1>6, <2>5, <3>2 DEF Holders, Exists
      <4>2. \A s \in Socks : entry[s] = d => entry'[s] = d
        BY <1>2, <1>5, ServerBounds
      <4> QED
        BY <4>1, <4>2
    <3> QED
      BY <3>1, <3>2
  <2> QED
    BY <1>1, <1>7, <2>1, <2>2, <2>3, <2>4, <2>5 DEF Holders, Exists, Deleting
<1>11. Bindings'
  <2>1. ASSUME NEW u \in Threads, Binding(u)', entry'[thread'[u].sock] # None
        PROVE  /\ Binding(u) /\ Entry(u) # None /\ Entry(u) \in Conns
               /\ Entry(u) = entry'[thread'[u].sock]
               /\ conn'[Entry(u)] = conn[Entry(u)]
    <3>1. Binding(u) /\ Live(u) /\ u # t /\ thread[u].sock \in Socks
      BY <1>1, <2>1 DEF Binding, Live, ServerInv, Types, ThreadType
    <3>2. thread[u].sock # k
      BY <1>1, <1>2, <3>1 DEF ServerInv, Sockets
    <3>3. Entry(u) = entry'[thread'[u].sock]
      BY <1>1, <1>5, <3>1, <3>2 DEF Entry
    <3>4. Entry(u) \in Conns /\ Entry(u) # c
      BY <1>6, <1>8, <2>1, <3>1, <3>3 DEF Entry
    <3> QED
      BY <1>4, <2>1, <3>1, <3>3, <3>4
  <2> QED
    BY <1>1, <2>1 DEF ServerInv, Bindings, Binding, Entry
<1>12. ProcessorsMatch'
  <2>1. ASSUME NEW m \in Nodes, NEW d \in Conns
        PROVE  Count(m, d)' = IF conn'[d].owner # None /\ conn'[d].node = m
                              THEN conn'[d].procs ELSE 0
    <3>1. Count(m, d)' = Count(m, d)
      BY <1>1 DEF Count
    <3>2. Count(m, d) = IF Exists(d) /\ conn[d].node = m THEN conn[d].procs ELSE 0
      BY DEF ServerInv, ProcessorsMatch
    <3>3. CASE d = c
      BY <1>3, <1>4, <3>1, <3>2, <3>3
    <3>4. CASE d # c
      BY <1>4, <3>1, <3>2, <3>4 DEF Exists
    <3> QED
      BY <3>3, <3>4
  <2> QED
    BY <2>1 DEF ProcessorsMatch, Exists
<1>13. Types' /\ Sockets' /\ Locks' /\ Walks' /\ EveryThreadListed'
  BY <1>1, <1>4, <1>5 DEF ServerInv, Types, Sockets, Live, Locks, Walking, Walks, EveryThreadListed
<1> QED
  BY <1>10, <1>11, <1>12, <1>13 DEF ServerInv

\* The connection that a thread deletes: it is in nobody else's hands.
LEMMA DeletingFacts ==
  ASSUME ServerInv, NEW t \in Threads, Deleting(t), NEW c, c = thread[t].conn
  PROVE  /\ thread[t] \in ThreadType /\ thread[t].pc \in {"delete", "closeDelete"}
         /\ c \in Conns /\ conn[c] \in ConnType /\ Exists(c)
         /\ \A s \in Socks : entry[s] # c
         /\ \A u \in Threads : u # t /\ Deleting(u) => thread[u].conn # c
<1>1. thread[t] \in ThreadType /\ thread[t].pc \in {"delete", "closeDelete"}
  BY DEF ServerInv, Types, ThreadType, Deleting
<1>2. c \in Conns /\ Exists(c) /\ \A s \in Socks : entry[s] # c
  BY DEF ServerInv, Holders
<1>3. \A u \in Threads : u # t /\ Deleting(u) => thread[u].conn # c
  BY DEF ServerInv, Holders
<1> QED
  BY <1>1, <1>2, <1>3 DEF ServerInv, Types

\* One processor is taken out of the list of the node, whose lock is free.
LEMMA ServerDeleteProcessor ==
  ASSUME ServerInv, NEW t \in Threads, DeleteProcessor(t)
  PROVE  /\ ServerInv'
         /\ \A w \in Workers : Walking(w) =>
              processors'[worker[w].node] = processors[worker[w].node]
<1>1. PICK c \in Conns : c = thread[t].conn
  BY DeletingFacts DEF DeleteProcessor
<1>2. Deleting(t) /\ conn[c] \in ConnType /\ Exists(c) /\ \A s \in Socks : entry[s] # c
  BY <1>1, DeletingFacts DEF DeleteProcessor
<1>3. PICK n \in Nodes : n = conn[c].node
  BY <1>2 DEF ConnType
<1>4. /\ conn[c].procs > 0 /\ nodeLock[n] = None
      /\ processors' = [processors EXCEPT ![n] = RemoveFirst(@, c)]
      /\ conn' = [conn EXCEPT ![c].procs = @ - 1]
      /\ UNCHANGED <<thread, open, accepted, listed, entry, serverLock, nodeLock, worker, inFlight>>
  BY <1>1, <1>3 DEF DeleteProcessor, threadVars, madVars
<1>5. /\ conn' \in [Conns -> ConnType]
      /\ conn'[c].procs = conn[c].procs - 1 /\ conn'[c].owner = conn[c].owner
      /\ conn'[c].node = n
      /\ \A d \in Conns : d # c => conn'[d] = conn[d]
  <2>1. conn[c].procs - 1 \in 0 .. MaxBinds
    BY <1>2, <1>4, ServerBounds DEF ConnType
  <2> DEFINE g == [conn[c] EXCEPT !.procs = conn[c].procs - 1]
             k == conn[c].procs - 1
  <2>2. g \in ConnType /\ g.procs = k /\ g.owner = conn[c].owner /\ g.node = n
    <3>1. k \in 0 .. MaxBinds /\ g = [conn[c] EXCEPT !.procs = k]
      BY <2>1
    <3> HIDE DEF g, k
    <3> QED
      BY <1>2, <1>3, <3>1 DEF ConnType
  <2>3. conn' = [conn EXCEPT ![c] = g]
    BY <1>4
  <2> HIDE DEF g
  <2> QED
    BY <2>2, <2>3 DEF ServerInv, Types
<1>6. PICK s \in Seq(Conns) : s = processors[n]
  BY DEF ServerInv, Types
<1>7. Count(n, c) = conn[c].procs /\ conn[c].procs \in Nat
  BY <1>2, <1>3, ServerBounds DEF ServerInv, ProcessorsMatch, ConnType
<1>8. Contains(s, c)
  <2>1. Cardinality(Places(s, c)) # 0
    BY <1>4, <1>6, <1>7, CountIsPlaces
  <2>2. Places(s, c) # {}
    BY <2>1, FS_EmptySet
  <2> QED
    BY <2>2 DEF Places, Contains
<1>9. PICK i \in 1 .. Len(s) : s[i] = c /\ RemoveFirst(s, c) = RemoveAt(s, i)
  BY <1>8, RemoveFirstPlace
<1>10. PICK r \in Seq(Conns) : r = RemoveAt(s, i)
  BY RemoveAtPlaces
<1>11. /\ processors' \in [Nodes -> Seq(Conns)] /\ processors'[n] = r
       /\ \A m \in Nodes : m # n => processors'[m] = processors[m]
  BY <1>4, <1>6, <1>9, <1>10 DEF ServerInv, Types
<1>12. Types' /\ Sockets' /\ EveryThreadListed'
  BY <1>4, <1>5, <1>11 DEF ServerInv, Types, Sockets, Live, EveryThreadListed
<1>13. Holders'
  <2>1. \A d \in Conns : conn'[d].owner # None <=> Exists(d)
    BY <1>5 DEF Exists
  <2>2. \A u \in Threads : Deleting(u)' <=> Deleting(u)
    BY <1>4 DEF Deleting
  <2>3. \A x \in Socks : entry[x] # None => entry[x] \in Conns
    BY DEF ServerInv, Types
  <2>4. Holders
    BY DEF ServerInv
  <2> QED
    BY <1>4, <2>1, <2>2, <2>3, <2>4 DEF Holders, Exists, Deleting
<1>14. Bindings'
  <2>1. ASSUME NEW u \in Threads, Entry(u) # None
        PROVE  conn'[Entry(u)] = conn[Entry(u)]
    <3>1. thread[u].sock \in Socks
      BY DEF ServerInv, Types, ThreadType
    <3>2. Entry(u) \in Conns
      BY <2>1, <3>1 DEF Entry, ServerInv, Types
    <3>3. Entry(u) # c
      BY <1>2, <3>1 DEF Entry
    <3> QED
      BY <1>5, <3>2, <3>3
  <2>2. Bindings /\ thread' = thread /\ entry' = entry
    BY <1>4 DEF ServerInv
  <2> QED
    BY <2>1, <2>2, SMTT(30) DEF Bindings, Binding, Entry
<1>15. ASSUME NEW w \in Workers, Walking(w)
       PROVE  worker[w].node \in Nodes /\ worker[w].node # n
  <2>1. nodeLock[worker[w].node] = w /\ worker[w].node \in Nodes
    BY <1>15 DEF ServerInv, Locks, Types, WorkerType
  <2> QED
    BY <1>4, <2>1, ServerBounds
<1>16. Locks' /\ Walks'
  BY <1>4, <1>11, <1>15 DEF ServerInv, Locks, Walking, Walks
<1>17. ProcessorsMatch'
  <2>1. ASSUME NEW m \in Nodes, NEW d \in Conns
        PROVE  Count(m, d)' = IF conn'[d].owner # None /\ conn'[d].node = m
                              THEN conn'[d].procs ELSE 0
    <3>1. /\ Count(m, d)' = Cardinality(Places(processors'[m], d))
          /\ Count(m, d) = Cardinality(Places(processors[m], d))
      BY CountIsPlaces DEF Count, Places
    <3>2. Count(m, d) = IF Exists(d) /\ conn[d].node = m THEN conn[d].procs ELSE 0
      BY DEF ServerInv, ProcessorsMatch
    <3>3. CASE m = n
      <4>1. Cardinality(Places(r, d)) = Cardinality(Places(s, d)) - IF s[i] = d THEN 1 ELSE 0
        BY <1>10, RemoveAtCounts
      <4>2. Cardinality(Places(s, d)) \in Nat
        BY PlacesFinite
      <4>3. CASE d = c
        <5>1. Cardinality(Places(r, c)) = conn[c].procs - 1
          BY <1>6, <1>7, <1>9, <3>1, <3>3, <4>1, <4>3
        <5>2. Count(n, c)' = conn[c].procs - 1
          BY <1>11, <3>1, <3>3, <4>3, <5>1
        <5>3. conn'[c].owner # None /\ conn'[c].node = n
          BY <1>2, <1>5 DEF Exists
        <5> QED
          BY <1>5, <3>3, <4>3, <5>2, <5>3
      <4>4. CASE d # c
        <5>1. Cardinality(Places(r, d)) = Cardinality(Places(s, d))
          BY <1>9, <4>1, <4>2, <4>4
        <5>2. Count(m, d)' = Count(m, d)
          BY <1>6, <1>11, <3>1, <3>3, <5>1
        <5> QED
          BY <1>5, <3>2, <4>4, <5>2 DEF Exists
      <4> QED
        BY <4>3, <4>4
    <3>4. CASE m # n
      <4>1. Count(m, d)' = Count(m, d)
        BY <1>11, <3>1, <3>4
      <4>2. CASE d = c
        BY <1>3, <1>5, <3>2, <3>4, <4>1, <4>2
      <4>3. CASE d # c
        BY <1>5, <3>2, <4>1, <4>3 DEF Exists
      <4> QED
        BY <4>2, <4>3
    <3> QED
      BY <3>3, <3>4
  <2> QED
    BY <2>1 DEF ProcessorsMatch, Exists
<1>18. ServerInv'
  BY <1>12, <1>13, <1>14, <1>16, <1>17 DEF ServerInv
<1> QED
  BY <1>11, <1>15, <1>18

\* An object that is freed was held by the thread that frees it, by nobody else, and
\* has no processor in any list.
LEMMA ServerFreeConn ==
  ASSUME ServerInv, NEW t \in Threads, FreeConn(t)
  PROVE  ServerInv'
<1>1. PICK c \in Conns : c = thread[t].conn
  BY DeletingFacts DEF FreeConn
<1>2. /\ thread[t] \in ThreadType /\ thread[t].pc \in {"delete", "closeDelete"}
      /\ Deleting(t) /\ conn[c] \in ConnType /\ Exists(c) /\ \A s \in Socks : entry[s] # c
      /\ \A u \in Threads : u # t /\ Deleting(u) => thread[u].conn # c
  BY <1>1, DeletingFacts DEF FreeConn
<1>3. /\ conn[c].procs = 0 /\ conn' = [conn EXCEPT ![c] = Free]
      /\ serverLock' = serverLock
      /\ UNCHANGED <<open, accepted, listed, entry, processors, nodeLock, worker, inFlight>>
  BY <1>1, <1>2 DEF FreeConn, nodeVars, madVars
<1>4. PICK h \in ThreadType :
        /\ h.pc = (IF thread[t].pc = "closeDelete" THEN "unlist" ELSE "recv")
        /\ h.sock = thread[t].sock /\ thread' = [thread EXCEPT ![t] = h]
  <2> DEFINE g == [thread[t] EXCEPT !.conn = None,
                     !.pc = IF thread[t].pc = "closeDelete" THEN "unlist" ELSE "recv"]
  <2>1. /\ g \in ThreadType /\ g.sock = thread[t].sock
        /\ g.pc = (IF thread[t].pc = "closeDelete" THEN "unlist" ELSE "recv")
    BY <1>2 DEF ThreadType
  <2>2. thread' = [thread EXCEPT ![t] = g]
    BY <1>2 DEF FreeConn, ServerInv, Types, ThreadType
  <2> QED
    BY <2>1, <2>2
<1>5. /\ thread' \in [Threads -> ThreadType] /\ thread'[t] = h
      /\ \A u \in Threads : u # t => thread'[u] = thread[u]
  BY <1>4, ThreadMoves
<1>6. /\ conn' \in [Conns -> ConnType] /\ conn'[c].owner = None
      /\ \A d \in Conns : d # c => conn'[d] = conn[d]
  BY <1>3, ServerBounds DEF ServerInv, Types
<1>7. Types'
  BY <1>3, <1>5, <1>6 DEF ServerInv, Types
<1>8. Live(t) <=> thread[t].pc = "delete"
  BY <1>2 DEF Live
<1>9. Sockets' /\ Locks' /\ Walks' /\ EveryThreadListed'
  BY <1>2, <1>3, <1>4, <1>8, SocketMove, NodeMove, ListedMove
<1>10. Holders'
  <2>1. \A u \in Threads : Deleting(u)' <=> Deleting(u) /\ u # t
    BY <1>4, <1>5 DEF Deleting
  <2>2. \A s \in Socks : entry[s] # None => entry[s] \in Conns
    BY DEF ServerInv, Types
  <2>3. Holders
    BY DEF ServerInv
  <2>4. \A s \in Socks : entry[s] # None => conn'[entry[s]].owner # None
    BY <1>2, <1>6, <2>2, <2>3 DEF Holders, Exists
  <2>5. ASSUME NEW u \in Threads, Deleting(u)'
        PROVE  /\ thread'[u].conn \in Conns /\ conn'[thread'[u].conn].owner # None
               /\ \A s \in Socks : entry[s] # thread'[u].conn
    BY <1>2, <1>5, <1>6, <2>1, <2>3, <2>5 DEF Holders, Exists
  <2>6. \A u, v \in Threads :
          Deleting(u)' /\ Deleting(v)' /\ thread'[u].conn = thread'[v].conn => u = v
    BY <1>5, <2>1, <2>3 DEF Holders
  <2>7. ASSUME NEW d \in Conns, conn'[d].owner # None
        PROVE  \/ \E s \in Socks : entry[s] = d
               \/ \E u \in Threads : Deleting(u)' /\ thread'[u].conn = d
    BY <1>1, <1>5, <1>6, <2>1, <2>3, <2>7 DEF Holders, Exists
  <2>8. \A r, s \in Socks : entry[r] # None /\ entry[r] = entry[s] => r = s
    BY <2>3 DEF Holders
  <2> QED
    BY <1>3, <2>4, <2>5, <2>6, <2>7, <2>8 DEF Holders, Exists, Deleting
<1>11. Bindings'
  <2>1. ASSUME NEW u \in Threads, Binding(u)', entry[thread'[u].sock] # None
        PROVE  /\ Binding(u) /\ thread'[u] = thread[u] /\ Entry(u) = entry[thread'[u].sock]
               /\ conn'[Entry(u)] = conn[Entry(u)]
    <3>1. u # t
      BY <1>4, <1>5, <2>1 DEF Binding
    <3>2. thread'[u] = thread[u] /\ thread[u].sock \in Socks
      BY <1>5, <3>1 DEF ServerInv, Types, ThreadType
    <3>3. Entry(u) \in Conns /\ Entry(u) # c
      BY <1>2, <2>1, <3>2 DEF Entry, ServerInv, Types
    <3> QED
      BY <1>6, <2>1, <3>2, <3>3 DEF Binding, Entry
  <2> QED
    BY <1>3, <2>1 DEF ServerInv, Bindings, Binding, Entry
<1>12. ProcessorsMatch'
  <2>1. ASSUME NEW m \in Nodes, NEW d \in Conns
        PROVE  Count(m, d)' = IF conn'[d].owner # None /\ conn'[d].node = m
                              THEN conn'[d].procs ELSE 0
    <3>1. Count(m, d)' = Count(m, d)
      BY <1>3 DEF Count
    <3>2. Count(m, d) = IF Exists(d) /\ conn[d].node = m THEN conn[d].procs ELSE 0
      BY DEF ServerInv, ProcessorsMatch
    <3>3. CASE d = c
      BY <1>3, <1>6, <3>1, <3>2, <3>3
    <3>4. CASE d # c
      BY <1>6, <3>1, <3>2, <3>4 DEF Exists
    <3> QED
      BY <3>3, <3>4
  <2> QED
    BY <2>1 DEF ProcessorsMatch, Exists
<1> QED
  BY <1>7, <1>9, <1>10, <1>11, <1>12 DEF ServerInv

\* The thread gives both locks back.
LEMMA BindDoneFacts ==
  ASSUME ServerInv, NEW t \in Threads, thread[t].pc = "bindServer", BindDone(t),
         UNCHANGED <<worker, open, accepted, listed>>
  PROVE  /\ thread' \in [Threads -> ThreadType]
         /\ nodeLock' \in [Nodes -> Threads \cup Workers \cup {None}]
         /\ Locks' /\ Sockets' /\ EveryThreadListed'
         /\ \A u \in Threads : u # t => thread'[u] = thread[u]
         /\ ~Binding(t)' /\ ~Deleting(t)'
         /\ \A w \in Workers : Walking(w) => worker[w].node # thread[t].node
<1>1. thread[t] \in ThreadType
  BY DEF ServerInv, Types
<1>2. PICK n \in Nodes : n = thread[t].node
  BY <1>1 DEF ThreadType
<1>3. PICK h \in ThreadType : /\ h.pc = "recv" /\ h.sock = thread[t].sock
                              /\ thread' = [thread EXCEPT ![t] = h]
  <2> DEFINE g == [thread[t] EXCEPT !.pc = "recv", !.conn = None, !.node = Gone.node]
  <2>1. g \in ThreadType /\ g.pc = "recv" /\ g.sock = thread[t].sock
    BY <1>1, ServerBounds DEF ThreadType
  <2>2. thread' = [thread EXCEPT ![t] = g]
    BY DEF BindDone, ServerInv, Types
  <2> QED
    BY <2>1, <2>2
<1>4. nodeLock' = [nodeLock EXCEPT ![n] = None] /\ nodeLock[n] = t
  BY <1>2 DEF BindDone, ServerInv, Locks
<1>5. /\ nodeLock' \in [Nodes -> Threads \cup Workers \cup {None}]
      /\ \A m \in Nodes : m # n => nodeLock'[m] = nodeLock[m]
  BY <1>4 DEF ServerInv, Types
<1>6. /\ thread' \in [Threads -> ThreadType] /\ thread'[t] = h
      /\ \A u \in Threads : u # t => thread'[u] = thread[u]
  BY <1>3, ThreadMoves
<1>7. ASSUME NEW w \in Workers, Walking(w)
      PROVE  /\ worker[w].node \in Nodes /\ worker[w].node # n
             /\ nodeLock'[worker[w].node] = w
  <2>1. nodeLock[worker[w].node] = w /\ worker[w].node \in Nodes
    BY <1>7 DEF ServerInv, Locks, Types, WorkerType
  <2>2. w # t
    BY ServerBounds
  <2> QED
    BY <1>4, <1>5, <2>1, <2>2
<1>8. ASSUME NEW u \in Threads, thread'[u].pc = "bindServer"
      PROVE  nodeLock'[thread'[u].node] = u
  <2>1. u # t
    BY <1>3, <1>6, <1>8
  <2>2. nodeLock[thread[u].node] = u /\ thread[u].node \in Nodes
    BY <1>6, <1>8, <2>1 DEF ServerInv, Locks, Types, ThreadType
  <2> QED
    BY <1>4, <1>5, <1>6, <2>1, <2>2
<1>9. Locks'
  BY <1>7, <1>8 DEF Locks, Walking
<1>10. Live(t)
  BY DEF Live
<1>11. Sockets' /\ EveryThreadListed'
  BY <1>3, <1>10, SocketMove, ListedMove
<1>12. ~Binding(t)' /\ ~Deleting(t)'
  BY <1>3, <1>6 DEF Binding, Deleting
<1> QED
  BY <1>2, <1>5, <1>6, <1>7, <1>9, <1>11, <1>12

\* The processor is appended to the list of the node that the thread has locked.
LEMMA ServerBindServer ==
  ASSUME ServerInv, NEW t \in Threads, BindServer(t)
  PROVE  /\ ServerInv'
         /\ \A w \in Workers : Walking(w) =>
              processors'[worker[w].node] = processors[worker[w].node]
<1>1. /\ thread[t].pc = "bindServer" /\ BindDone(t) /\ thread[t] \in ThreadType
      /\ UNCHANGED <<open, accepted, listed, entry, serverLock, worker, inFlight>>
  BY DEF BindServer, madVars, ServerInv, Types
<1>2. /\ thread' \in [Threads -> ThreadType]
      /\ nodeLock' \in [Nodes -> Threads \cup Workers \cup {None}]
      /\ Locks' /\ Sockets' /\ EveryThreadListed'
      /\ \A u \in Threads : u # t => thread'[u] = thread[u]
      /\ ~Binding(t)' /\ ~Deleting(t)'
      /\ \A w \in Workers : Walking(w) => worker[w].node # thread[t].node
  BY <1>1, BindDoneFacts
<1>3. \A u \in Threads : /\ Deleting(u)' <=> Deleting(u)
                         /\ Deleting(u) => thread'[u] = thread[u]
                         /\ Binding(u)' => Binding(u) /\ thread'[u] = thread[u] /\ u # t
  BY <1>1, <1>2 DEF Deleting, Binding
<1>4. CASE Entry(t) = None
  <2>1. UNCHANGED <<processors, conn>>
    BY <1>4 DEF BindServer
  <2>2. Types' /\ Walks' /\ ProcessorsMatch'
    BY <1>1, <1>2, <2>1, MatchFrame DEF ServerInv, Types, Walks
  <2>3. Holders
    BY DEF ServerInv
  <2>4. Holders'
    BY <1>1, <1>3, <2>1, <2>3 DEF Holders, Exists, Deleting
  <2>5. Bindings'
    BY <1>1, <1>3, <2>1 DEF ServerInv, Bindings, Binding, Entry
  <2> QED
    BY <1>2, <2>1, <2>2, <2>4, <2>5 DEF ServerInv
<1>5. CASE Entry(t) # None
  <2>1. PICK k \in Socks : k = thread[t].sock
    BY <1>1 DEF ThreadType
  <2>2. PICK c \in Conns : c = Entry(t) /\ entry[k] = c /\ c # None
    BY <1>5, <2>1 DEF Entry, ServerInv, Types
  <2>3. /\ conn[c].node = thread[t].node /\ conn[c].procs < MaxBinds /\ conn[c] \in ConnType
        /\ Exists(c)
    BY <1>1, <1>5, <2>1, <2>2 DEF ServerInv, Bindings, Binding, Types, Holders
  <2>4. PICK n \in Nodes : n = conn[c].node
    BY <2>3 DEF ConnType
  <2>5. /\ processors' = [processors EXCEPT ![n] = Append(@, c)]
        /\ conn' = [conn EXCEPT ![c].procs = @ + 1]
    BY <1>5, <2>2, <2>4 DEF BindServer, NewProcessor
  <2>6. /\ conn' \in [Conns -> ConnType]
        /\ conn'[c].procs = conn[c].procs + 1 /\ conn'[c].owner = conn[c].owner
        /\ conn'[c].node = n
        /\ \A d \in Conns : d # c => conn'[d] = conn[d]
    <3>1. conn[c].procs + 1 \in 0 .. MaxBinds
      BY <2>3, ServerBounds DEF ConnType
    <3> DEFINE g == [conn[c] EXCEPT !.procs = conn[c].procs + 1]
               more == conn[c].procs + 1
    <3>2. g \in ConnType /\ g.procs = more /\ g.owner = conn[c].owner /\ g.node = n
      <4>1. more \in 0 .. MaxBinds /\ g = [conn[c] EXCEPT !.procs = more]
        BY <3>1
      <4> HIDE DEF g, more
      <4> QED
        BY <2>3, <2>4, <4>1 DEF ConnType
    <3>3. conn' = [conn EXCEPT ![c] = g]
      BY <2>5
    <3> HIDE DEF g
    <3> QED
      BY <3>2, <3>3 DEF ServerInv, Types
  <2>7. PICK s \in Seq(Conns) : s = processors[n]
    BY DEF ServerInv, Types
  <2>8. PICK r \in Seq(Conns) : r = Append(s, c)
    BY AppendProperties
  <2>9. /\ processors' \in [Nodes -> Seq(Conns)] /\ processors'[n] = r
        /\ \A m \in Nodes : m # n => processors'[m] = processors[m]
    BY <2>5, <2>7, <2>8 DEF ServerInv, Types
  <2>10. Types'
    BY <1>1, <1>2, <2>6, <2>9 DEF ServerInv, Types
  <2>11. Walks'
    BY <1>1, <1>2, <2>3, <2>4, <2>9 DEF ServerInv, Walks, Walking, Types, WorkerType
  <2>12. Holders'
    <3>1. \A d \in Conns : conn'[d].owner # None <=> Exists(d)
      BY <2>6 DEF Exists
    <3>2. \A x \in Socks : entry[x] # None => entry[x] \in Conns
      BY DEF ServerInv, Types
    <3>3. Holders
      BY DEF ServerInv
    <3> QED
      BY <1>1, <1>3, <3>1, <3>2, <3>3 DEF Holders, Exists, Deleting
  <2>13. Bindings'
    <3>1. ASSUME NEW u \in Threads, Binding(u)', entry[thread'[u].sock] # None
          PROVE  /\ Binding(u) /\ thread'[u] = thread[u] /\ Entry(u) = entry[thread'[u].sock]
                 /\ conn'[Entry(u)] = conn[Entry(u)]
      <4>1. u # t /\ Binding(u) /\ thread'[u] = thread[u] /\ thread[u].sock \in Socks
        BY <1>3, <3>1 DEF ServerInv, Types, ThreadType
      <4>2. thread[u].sock # k
        BY <1>1, <2>1, <4>1 DEF ServerInv, Sockets, Live, Binding
      <4>3. Entry(u) \in Conns /\ Entry(u) # c
        BY <2>2, <3>1, <4>1, <4>2 DEF Entry, ServerInv, Types, Holders
      <4> QED
        BY <2>6, <3>1, <4>1, <4>3 DEF Entry
    <3> QED
      BY <1>1, <3>1 DEF ServerInv, Bindings, Binding, Entry
  <2>14. ProcessorsMatch'
    <3>1. ASSUME NEW m \in Nodes, NEW d \in Conns
          PROVE  Count(m, d)' = IF conn'[d].owner # None /\ conn'[d].node = m
                                THEN conn'[d].procs ELSE 0
      <4>1. /\ Count(m, d)' = Cardinality(Places(processors'[m], d))
            /\ Count(m, d) = Cardinality(Places(processors[m], d))
        BY CountIsPlaces DEF Count, Places
      <4>2. Count(m, d) = IF Exists(d) /\ conn[d].node = m THEN conn[d].procs ELSE 0
        BY DEF ServerInv, ProcessorsMatch
      <4>3. CASE m = n
        <5>1. Cardinality(Places(r, d)) = Cardinality(Places(s, d)) + IF c = d THEN 1 ELSE 0
          BY <2>8, AppendCounts
        <5>2. Cardinality(Places(s, d)) \in Nat
          BY PlacesFinite
        <5>3. CASE d = c
          <6>1. Cardinality(Places(s, c)) = conn[c].procs
            BY <2>3, <2>4, <2>7, <4>1, <4>2, <4>3, <5>3
          <6>2. Count(n, c)' = conn[c].procs + 1
            BY <2>9, <4>1, <4>3, <5>1, <5>3, <6>1
          <6>3. conn'[c].owner # None /\ conn'[c].node = n
            BY <2>3, <2>6 DEF Exists
          <6> QED
            BY <2>6, <4>3, <5>3, <6>2, <6>3
        <5>4. CASE d # c
          <6>1. Cardinality(Places(r, d)) = Cardinality(Places(s, d))
            BY <5>1, <5>2, <5>4
          <6>2. Count(m, d)' = Count(m, d)
            BY <2>7, <2>9, <4>1, <4>3, <6>1
          <6> QED
            BY <2>6, <4>2, <5>4, <6>2 DEF Exists
        <5> QED
          BY <5>3, <5>4
      <4>4. CASE m # n
        <5>1. Count(m, d)' = Count(m, d)
          BY <2>9, <4>1, <4>4
        <5>2. CASE d = c
          BY <2>4, <2>6, <4>2, <4>4, <5>1, <5>2
        <5>3. CASE d # c
          BY <2>6, <4>2, <5>1, <5>3 DEF Exists
        <5> QED
          BY <5>2, <5>3
      <4> QED
        BY <4>3, <4>4
    <3> QED
      BY <3>1 DEF ProcessorsMatch, Exists
  <2>15. ServerInv'
    BY <1>2, <2>10, <2>11, <2>12, <2>13, <2>14 DEF ServerInv
  <2>16. \A w \in Workers : worker[w].node \in Nodes
    BY DEF ServerInv, Types, WorkerType
  <2> QED
    BY <1>2, <2>3, <2>4, <2>9, <2>15, <2>16
<1> QED
  BY <1>4, <1>5

-----------------------------------------------------------------------------
(* The theorems. *)

\* Nothing happens.
LEMMA ServerUnchanged ==
  ASSUME ServerInv, UNCHANGED vars
  PROVE  ServerInv'
<1>1. UNCHANGED <<threadVars, connVars, serverLock, processors, nodeLock, worker, inFlight>>
  BY DEF vars, nodeVars, madVars
<1>2. Locks' /\ Walks'
  BY <1>1 DEF ServerInv, Locks, Walks, Walking, threadVars
<1> QED
  BY <1>1, <1>2, WorkerFrame DEF ServerInv, Types

\* Every step keeps the invariant.
LEMMA ServerStep ==
  ASSUME ServerInv, [Next]_vars
  PROVE  ServerInv'
<1>1. ASSUME NEW t \in Threads, NEW s \in Socks, Accept(t, s) PROVE ServerInv'
  BY <1>1, ServerAccept
<1>2. ASSUME NEW t \in Threads, Close(t) PROVE ServerInv'
  BY <1>2, ServerClose
<1>3. ASSUME NEW t \in Threads, Request(t) PROVE ServerInv'
  BY <1>3, ServerConnect, ServerDisconnect, ServerBindFind, ServerSendMad, ServerUnchanged
     DEF Request, Refuse
<1>4. ASSUME NEW t \in Threads, ThreadStep(t) PROVE ServerInv'
  BY <1>4, ServerClosingClient, ServerEndThread, ServerDeleteProcessor, ServerFreeConn,
     ServerBindNode, ServerBindServer DEF ThreadStep
<1>5. ASSUME NEW w \in Workers, WorkerStep(w) PROVE ServerInv'
  BY <1>5, ServerDeliver, ServerLockNode, ServerCall, ServerClientAnswers, ServerUnlockNode
     DEF WorkerStep
<1> QED
  BY <1>1, <1>2, <1>3, <1>4, <1>5, ServerRegister, ServerUnchanged, Zenon DEF Next

\* The invariant holds in every state that the server can reach.
THEOREM ServerCorrect == Spec => []ServerInv
<1>1. ServerInv /\ [Next]_vars => ServerInv'
  BY ServerStep
<1> QED
  BY <1>1, ServerInit, PTL DEF Spec

\* The variables of GenServer, IBMSServer and IBMSClientConn have their types; in
\* particular no list of processors outgrows the connections.
THEOREM ServerTypes == Spec => []TypeOK
<1>1. ServerInv => TypeOK
  BY TypesAgree DEF ServerInv
<1> QED
  BY <1>1, ServerCorrect, PTL

\* However requests, closing clients and workers interleave, the lists of the nodes
\* hold the processors of the connections that exist, each as often as it was bound.
THEOREM ListsMatchConnections == Spec => []ProcessorsMatch
<1>1. ServerInv => ProcessorsMatch
  BY DEF ServerInv
<1> QED
  BY <1>1, ServerCorrect, PTL

\* No connection is leaked, deleted twice, or freed while it is in the map, also when
\* the number of a closed socket is used by a new client before the thread of the old
\* one has looked into the map.
THEOREM ConnectionHeldOnce == Spec => []ConnHasOneHolder
<1>1. ASSUME ServerInv PROVE ConnHasOneHolder
  <2> SUFFICES ASSUME NEW c \in Conns
               PROVE  Cardinality({s \in Socks : entry[s] = c})
                        + Cardinality({t \in Threads : Deleting(t) /\ thread[t].conn = c})
                      = IF Exists(c) THEN 1 ELSE 0
    BY DEF ConnHasOneHolder
  <2> DEFINE inMap == {s \in Socks : entry[s] = c}
             deleters == {t \in Threads : Deleting(t) /\ thread[t].conn = c}
  <2>1. Holders /\ c # None
    BY <1>1, ServerBounds DEF ServerInv
  <2>2. \A r, s \in inMap : r = s
    BY <2>1 DEF Holders
  <2>3. \A t, u \in deleters : t = u
    BY <2>1 DEF Holders
  <2>4. inMap # {} => deleters = {} /\ Exists(c)
    BY <2>1 DEF Holders
  <2>5. deleters # {} => Exists(c)
    BY <2>1 DEF Holders
  <2>6. Exists(c) => inMap # {} \/ deleters # {}
    BY <2>1 DEF Holders
  <2> HIDE DEF inMap, deleters
  <2> SUFFICES Cardinality(inMap) + Cardinality(deleters) = IF Exists(c) THEN 1 ELSE 0
    BY DEF inMap, deleters
  <2>7. Cardinality({}) = 0
    BY FS_EmptySet
  <2>8. CASE inMap # {}
    <3>1. PICK s : inMap = {s}
      BY <2>2, <2>8
    <3>2. Cardinality(inMap) = 1
      BY <3>1, FS_Singleton
    <3> QED
      BY <2>4, <2>7, <2>8, <3>2
  <2>9. CASE inMap = {} /\ deleters # {}
    <3>1. PICK t : deleters = {t}
      BY <2>3, <2>9
    <3>2. Cardinality(deleters) = 1
      BY <3>1, FS_Singleton
    <3> QED
      BY <2>5, <2>7, <2>9, <3>2
  <2>10. CASE inMap = {} /\ deleters = {}
    BY <2>6, <2>7, <2>10
  <2> QED
    BY <2>8, <2>9, <2>10
<1> QED
  BY <1>1, ServerCorrect, PTL

\* ~GenServer forgets no thread.
THEOREM ThreadsAreListed == Spec => []EveryThreadListed
<1>1. ServerInv => EveryThreadListed
  BY DEF ServerInv
<1> QED
  BY <1>1, ServerCorrect, PTL

\* Binding and deletion both change a list under the lock of its node only, so that
\* the iterator of IBMSNode::processMad stays valid.
THEOREM ListsAreStable == Spec => ListStable
<1>1. ASSUME ServerInv, [Next]_vars
      PROVE  \A w \in Workers : Walking(w) =>
               processors'[worker[w].node] = processors[worker[w].node]
  <2>1. ASSUME NEW t \in Threads, DeleteProcessor(t) \/ BindServer(t)
        PROVE  \A w \in Workers : Walking(w) =>
                 processors'[worker[w].node] = processors[worker[w].node]
    BY <1>1, <2>1, ServerDeleteProcessor, ServerBindServer
  <2>2. CASE Register
    BY <2>2 DEF Register, nodeVars
  <2>3. CASE \E t \in Threads, s \in Socks : Accept(t, s)
    BY <2>3 DEF Accept, nodeVars
  <2>4. CASE \E t \in Threads : Close(t) \/ Request(t)
    BY <2>4 DEF Close, Request, Connect, Refuse, Disconnect, BindFind, SendMad, nodeVars, vars
  <2>5. CASE \E t \in Threads : ThreadStep(t)
    <3>1. PICK t \in Threads : ThreadStep(t)
      BY <2>5
    <3>2. CASE DeleteProcessor(t) \/ BindServer(t)
      BY <2>1, <3>2
    <3>3. CASE ClosingClient(t) \/ EndThread(t) \/ FreeConn(t) \/ BindNode(t)
      BY <3>3 DEF ClosingClient, EndThread, FreeConn, BindNode, nodeVars
    <3> QED
      BY <3>1, <3>2, <3>3 DEF ThreadStep
  <2>6. CASE \E w \in Workers : WorkerStep(w)
    BY <2>6 DEF WorkerStep, Deliver, LockNode, Call, ClientAnswers, UnlockNode, nodeVars
  <2>7. CASE UNCHANGED vars
    BY <2>7 DEF vars, nodeVars
  <2> QED
    BY <1>1, <2>2, <2>3, <2>4, <2>5, <2>6, <2>7, Zenon DEF Next
<1>2. ServerInv /\ [Next]_vars =>
        [\A w \in Workers : worker[w].pc \in {"walk", "client"} =>
           processors'[worker[w].node] = processors[worker[w].node]]_vars
  BY <1>1 DEF Walking
<1> QED
  BY <1>2, ServerCorrect, PTL DEF Spec, ListStable
=============================================================================
