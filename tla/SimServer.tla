------------------------------ MODULE SimServer ------------------------------
(***************************************************************************)
(* The simulator's server (GenServer, IBMSServer, IBMSClientConn): one     *)
(* thread per accepted socket serves the requests of a client, and the     *)
(* dispatcher's workers hand MADs to the processors that clients bound at  *)
(* a node (IBMSNode::processMad), which forward them to the clients.       *)
(*                                                                         *)
(* A worker and a client thread meet at three things: the server's lock,   *)
(* the lock of a node, and the client they wait for.  What is done under a *)
(* lock without waiting for anything else is one action.                   *)
(*                                                                         *)
(* Processors here belong to one management class; which MADs the          *)
(* dispatcher delivers when is module Dispatcher's: here any MAD that is   *)
(* in flight may be delivered at any time.                                 *)
(***************************************************************************)
EXTENDS Integers, SequencesExt

CONSTANTS
  Threads,    \* client threads; an ended thread's identity is used again
  Socks,      \* socket numbers; a closed socket's number is used again
  Conns,      \* IBMSClientConn objects; a freed object's address is used again
  Nodes,      \* simulated nodes
  Workers,    \* the dispatcher's worker threads
  None,       \* no connection, no thread, no lock holder
  MaxBinds,   \* bound: processors one connection binds
  MaxMads     \* bound: MADs in flight to one node

ASSUME ServerAssumption ==
  /\ Socks # {} /\ Nodes # {} /\ IsFiniteSet(Conns)
  /\ None \notin Conns \cup Threads \cup Workers
  /\ Threads \cap Workers = {}
  /\ MaxBinds \in Nat
  /\ MaxMads \in Nat

VARIABLES
  thread,      \* what each client thread does, and its local variables
  open,        \* socket numbers in use
  accepted,    \* the thread that serverThreadMain has yet to register
  listed,      \* clientThreadsList
  entry,       \* sockToClientMap
  conn,        \* the IBMSClientConn objects
  serverLock,  \* who holds the server's lock
  processors,  \* madProccessors of each node, each by its connection
  nodeLock,    \* who holds the lock of each node
  worker,      \* what each worker does: the node, and its place in the list
  inFlight     \* MADs on their way to each node

threadVars == <<thread, open, accepted, listed>>
connVars == <<entry, conn>>
nodeVars == <<processors, nodeLock>>
madVars == <<worker, inFlight>>
vars == <<threadVars, connVars, serverLock, nodeVars, madVars>>

Gone == [pc |-> "gone", sock |-> CHOOSE s \in Socks : TRUE, conn |-> None,
         node |-> CHOOSE n \in Nodes : TRUE]
Free == [owner |-> None, node |-> Gone.node, procs |-> 0]
Resting == [pc |-> "idle", node |-> Gone.node, i |-> 1]

Init ==
  /\ thread = [t \in Threads |-> Gone]
  /\ open = {}
  /\ accepted = None
  /\ listed = {}
  /\ entry = [s \in Socks |-> None]
  /\ conn = [c \in Conns |-> Free]
  /\ serverLock = None
  /\ processors = [n \in Nodes |-> <<>>]
  /\ nodeLock = [n \in Nodes |-> None]
  /\ worker = [w \in Workers |-> Resting]
  /\ inFlight = [n \in Nodes |-> 0]

\* Thread t is in recv, and a request of its client may come.
Serving(t) == thread[t].pc = "recv"

Entry(t) == entry[thread[t].sock]

Exists(c) == conn[c].owner # None

Goto(t, pc) == thread' = [thread EXCEPT ![t].pc = pc]

-----------------------------------------------------------------------------
(* GenServer: the accepting thread and the end of a client thread *)

\* A client connects to the server's port and gets a thread.
Accept(t, s) ==
  /\ accepted = None
  /\ thread[t] = Gone
  /\ s \notin open
  /\ open' = open \cup {s}
  /\ thread' = [thread EXCEPT ![t] = [Gone EXCEPT !.pc = "recv", !.sock = s]]
  /\ accepted' = t
  /\ UNCHANGED <<listed, connVars, serverLock, nodeVars, madVars>>

\* The new thread is put into the list, when it may have ended already.
Register ==
  /\ accepted # None
  /\ serverLock = None
  /\ listed' = listed \cup {accepted}
  /\ accepted' = None
  /\ UNCHANGED <<thread, open, connVars, serverLock, nodeVars, madVars>>

\* recv returns 0: the socket is closed, and its number is free.
Close(t) ==
  /\ Serving(t)
  /\ open' = open \ {thread[t].sock}
  /\ Goto(t, "closed")
  /\ UNCHANGED <<accepted, listed, connVars, serverLock, nodeVars, madVars>>

\* IBMSServer::closingClient, with the server's lock held until the thread ends.
ClosingClient(t) ==
  /\ thread[t].pc = "closed"
  /\ serverLock = None
  /\ serverLock' = t
  /\ IF Entry(t) = None
       THEN /\ Goto(t, "unlist")
            /\ UNCHANGED entry
       ELSE /\ entry' = [entry EXCEPT ![thread[t].sock] = None]
            /\ thread' = [thread EXCEPT ![t].pc = "closeDelete", ![t].conn = Entry(t)]
  /\ UNCHANGED <<open, accepted, listed, conn, nodeVars, madVars>>

\* Mutant of EndThread: the first thread of the list leaves it.
EndThreadFirst(t) ==
  /\ thread[t].pc = "unlist"
  /\ listed' = IF listed = {} THEN {} ELSE listed \ {CHOOSE u \in listed : TRUE}
  /\ serverLock' = None
  /\ thread' = [thread EXCEPT ![t] = Gone]
  /\ UNCHANGED <<open, accepted, connVars, nodeVars, madVars>>

\* The thread leaves the list of threads and ends.
EndThread(t) ==
  /\ thread[t].pc = "unlist"
  /\ listed' = listed \ {t}
  /\ serverLock' = None
  /\ thread' = [thread EXCEPT ![t] = Gone]
  /\ UNCHANGED <<open, accepted, connVars, nodeVars, madVars>>

-----------------------------------------------------------------------------
(* IBMSServer: the requests of a client *)

\* handleConnectionMsg; the connection back to the client is made under the lock.
Connect(t) ==
  /\ Serving(t)
  /\ serverLock = None
  /\ Entry(t) = None
  /\ \E c \in Conns, n \in Nodes :
       /\ ~Exists(c)
       /\ conn' = [conn EXCEPT ![c] = [owner |-> t, node |-> n, procs |-> 0]]
       /\ entry' = [entry EXCEPT ![thread[t].sock] = c]
  /\ UNCHANGED <<threadVars, serverLock, nodeVars, madVars>>

\* A connect on a socket that has an entry, another request on one that has none, or
\* a capability message, which changes the port only: the client gets a status, and
\* nothing else happens here.
Refuse(t) ==
  /\ Serving(t)
  /\ serverLock = None
  /\ UNCHANGED vars

\* Mutant of Disconnect: the connection is deleted under the server's lock.
DisconnectLocked(t) ==
  /\ Serving(t)
  /\ serverLock = None
  /\ Entry(t) # None
  /\ serverLock' = t
  /\ entry' = [entry EXCEPT ![thread[t].sock] = None]
  /\ thread' = [thread EXCEPT ![t].pc = "lockedDelete", ![t].conn = Entry(t)]
  /\ UNCHANGED <<open, accepted, listed, conn, nodeVars, madVars>>

\* Mutant of Disconnect: the entry stays in the map.
DisconnectKeepsEntry(t) ==
  /\ Serving(t)
  /\ serverLock = None
  /\ Entry(t) # None
  /\ thread' = [thread EXCEPT ![t].pc = "delete", ![t].conn = Entry(t)]
  /\ UNCHANGED <<open, accepted, listed, connVars, serverLock, nodeVars, madVars>>

\* handleDisconnectMsg: the entry goes under the lock, the connection afterwards.
Disconnect(t) ==
  /\ Serving(t)
  /\ serverLock = None
  /\ Entry(t) # None
  /\ entry' = [entry EXCEPT ![thread[t].sock] = None]
  /\ thread' = [thread EXCEPT ![t].pc = "delete", ![t].conn = Entry(t)]
  /\ UNCHANGED <<open, accepted, listed, conn, serverLock, nodeVars, madVars>>

Deleting(t) == thread[t].pc \in {"delete", "closeDelete", "lockedDelete"}

\* ~IBMSClientConn deletes its processors one by one; the destructor of each
\* takes the lock of the node to leave its list.
DeleteProcessor(t) ==
  LET c == thread[t].conn
      n == conn[c].node
  IN  /\ Deleting(t)
      /\ conn[c].procs > 0
      /\ nodeLock[n] = None
      /\ processors' = [processors EXCEPT ![n] = RemoveFirst(@, c)]
      /\ conn' = [conn EXCEPT ![c].procs = @ - 1]
      /\ UNCHANGED <<threadVars, entry, serverLock, nodeLock, madVars>>

\* Then the object is freed.
FreeConn(t) ==
  /\ Deleting(t)
  /\ conn[thread[t].conn].procs = 0
  /\ conn' = [conn EXCEPT ![thread[t].conn] = Free]
  /\ thread' = [thread EXCEPT ![t].conn = None,
                  ![t].pc = IF @ = "closeDelete" THEN "unlist" ELSE "recv"]
  /\ serverLock' = IF thread[t].pc = "lockedDelete" THEN None ELSE serverLock
  /\ UNCHANGED <<open, accepted, listed, entry, nodeVars, madVars>>

\* handleBindMsg: finds the node of the client, and gives the lock back ...
BindFind(t) ==
  /\ Serving(t)
  /\ serverLock = None
  /\ Entry(t) # None
  /\ conn[Entry(t)].procs < MaxBinds
  /\ thread' = [thread EXCEPT ![t].pc = "bindNode", ![t].conn = Entry(t),
                              ![t].node = conn[Entry(t)].node]
  /\ UNCHANGED <<open, accepted, listed, connVars, serverLock, nodeVars, madVars>>

\* Mutant of BindNode: the node is not locked.
BindNodeUnlocked(t) ==
  /\ thread[t].pc = "bindNode"
  /\ Goto(t, "bindServer")
  /\ UNCHANGED <<open, accepted, listed, connVars, serverLock, nodeVars, madVars>>

\* ... locks the node ...
BindNode(t) ==
  /\ thread[t].pc = "bindNode"
  /\ nodeLock[thread[t].node] = None
  /\ nodeLock' = [nodeLock EXCEPT ![thread[t].node] = t]
  /\ Goto(t, "bindServer")
  /\ UNCHANGED <<open, accepted, listed, connVars, serverLock, processors, madVars>>

\* Gives both locks back.
BindDone(t) ==
  /\ thread' = [thread EXCEPT ![t].pc = "recv", ![t].conn = None,
                              ![t].node = Gone.node]
  /\ nodeLock' = [nodeLock EXCEPT ![thread[t].node] = None]

\* A new processor of connection c at its node.
NewProcessor(c) ==
  /\ processors' = [processors EXCEPT ![conn[c].node] = Append(@, c)]
  /\ conn' = [conn EXCEPT ![c].procs = @ + 1]

\* Mutant of BindServer: the client is not looked up again.
BindServerTrusts(t) ==
  /\ thread[t].pc = "bindServer"
  /\ serverLock = None
  /\ NewProcessor(thread[t].conn)
  /\ BindDone(t)
  /\ UNCHANGED <<open, accepted, listed, entry, serverLock, madVars>>

\* ... and, with the server's lock again, looks for the client once more.
BindServer(t) ==
  /\ thread[t].pc = "bindServer"
  /\ serverLock = None
  /\ IF Entry(t) = None
       THEN UNCHANGED <<processors, conn>>
       ELSE NewProcessor(Entry(t))
  /\ BindDone(t)
  /\ UNCHANGED <<open, accepted, listed, entry, serverLock, madVars>>

\* handleMadMsg: the MAD goes to the dispatcher, for any node.
SendMad(t) ==
  /\ Serving(t)
  /\ serverLock = None
  /\ Entry(t) # None
  /\ \E n \in Nodes :
       /\ inFlight[n] < MaxMads
       /\ inFlight' = [inFlight EXCEPT ![n] = @ + 1]
  /\ UNCHANGED <<threadVars, connVars, serverLock, nodeVars, worker>>

-----------------------------------------------------------------------------
(* IBMSNode::processMad, called by a worker of the dispatcher *)

\* A worker takes a MAD to its node; when no processor is registered that is all.
Deliver(w, n) ==
  /\ worker[w] = Resting
  /\ inFlight[n] > 0
  /\ inFlight' = [inFlight EXCEPT ![n] = @ - 1]
  /\ worker' = IF processors[n] = <<>> THEN worker
               ELSE [worker EXCEPT ![w] = [pc |-> "lock", node |-> n, i |-> 1]]
  /\ UNCHANGED <<threadVars, connVars, serverLock, nodeVars>>

LockNode(w) ==
  /\ worker[w].pc = "lock"
  /\ nodeLock[worker[w].node] = None
  /\ nodeLock' = [nodeLock EXCEPT ![worker[w].node] = w]
  /\ worker' = [worker EXCEPT ![w].pc = "walk"]
  /\ UNCHANGED <<threadVars, connVars, serverLock, processors, inFlight>>

\* The next processor: it ignores the MAD (it came in at another port, or the
\* derived part of the processor is destroyed already), or it sends the MAD to
\* its client and waits for the answer.
Call(w) ==
  /\ worker[w].pc = "walk"
  /\ worker[w].i <= Len(processors[worker[w].node])
  /\ worker' = [worker EXCEPT ![w].i = @ + 1] \/ worker' = [worker EXCEPT ![w].pc = "client"]
  /\ UNCHANGED <<threadVars, connVars, serverLock, nodeVars, inFlight>>

\* The client answers, or it is gone and recv fails.
ClientAnswers(w) ==
  /\ worker[w].pc = "client"
  /\ worker' = [worker EXCEPT ![w].pc = "walk", ![w].i = @ + 1]
  /\ UNCHANGED <<threadVars, connVars, serverLock, nodeVars, inFlight>>

UnlockNode(w) ==
  /\ worker[w].pc = "walk"
  /\ worker[w].i > Len(processors[worker[w].node])
  /\ nodeLock' = [nodeLock EXCEPT ![worker[w].node] = None]
  /\ worker' = [worker EXCEPT ![w] = Resting]
  /\ UNCHANGED <<threadVars, connVars, serverLock, processors, inFlight>>

-----------------------------------------------------------------------------
\* What a client asks for; it need not ask for anything.
Request(t) ==
  Connect(t) \/ Refuse(t) \/ Disconnect(t) \/ BindFind(t) \/ SendMad(t)

\* What the thread of a client goes on to do.
ThreadStep(t) ==
  \/ ClosingClient(t) \/ EndThread(t)
  \/ DeleteProcessor(t) \/ FreeConn(t)
  \/ BindNode(t) \/ BindServer(t)

WorkerStep(w) ==
  \/ \E n \in Nodes : Deliver(w, n)
  \/ LockNode(w) \/ Call(w) \/ ClientAnswers(w) \/ UnlockNode(w)

Next ==
  \/ Register
  \/ \E t \in Threads :
       \/ \E s \in Socks : Accept(t, s)
       \/ Close(t) \/ Request(t) \/ ThreadStep(t)
  \/ \E w \in Workers : WorkerStep(w)

\* Every thread goes on, and one that waits for a lock which is free again and
\* again gets it in the end.
Fairness ==
  /\ \A t \in Threads : SF_vars(ThreadStep(t))
  /\ \A w \in Workers : SF_vars(WorkerStep(w))

Spec == Init /\ [][Next]_vars

FairSpec == Spec /\ Fairness
-----------------------------------------------------------------------------
Count(n, c) == Cardinality({i \in DOMAIN processors[n] : processors[n][i] = c})

\* Types of the variables.
TypeOK ==
  /\ thread \in [Threads ->
       [pc : {"gone", "recv", "closed", "closeDelete", "unlist", "delete",
              "bindNode", "bindServer"},
        sock : Socks, conn : Conns \cup {None}, node : Nodes]]
  /\ open \subseteq Socks
  /\ accepted \in Threads \cup {None}
  /\ listed \subseteq Threads
  /\ entry \in [Socks -> Conns \cup {None}]
  /\ conn \in [Conns -> [owner : Threads \cup {None}, node : Nodes, procs : 0 .. MaxBinds]]
  /\ serverLock \in Threads \cup {None}
  /\ processors \in [Nodes -> Seq(Conns)]
  /\ nodeLock \in [Nodes -> Threads \cup Workers \cup {None}]
  /\ worker \in [Workers -> [pc : {"idle", "lock", "walk", "client"}, node : Nodes,
                             i : 1 .. MaxBinds * Cardinality(Conns) + 1]]
  /\ inFlight \in [Nodes -> 0 .. MaxMads]

\* Every processor in the list of a node belongs to a connection that exists and
\* is attached to that node, and a connection knows all its processors: so its
\* destructor leaves none behind that a worker would call through a freed object.
ProcessorsMatch ==
  \A n \in Nodes, c \in Conns :
    Count(n, c) = IF Exists(c) /\ conn[c].node = n THEN conn[c].procs ELSE 0

\* Every connection is in the map once, or it is being deleted by one thread:
\* none is leaked, none is deleted twice, and none in the map has been freed.
ConnHasOneHolder ==
  \A c \in Conns :
    Cardinality({s \in Socks : entry[s] = c})
      + Cardinality({t \in Threads : Deleting(t) /\ thread[t].conn = c})
    = IF Exists(c) THEN 1 ELSE 0

\* While a worker walks the list of a node, which it does with an iterator, the
\* list does not change.
ListStable ==
  [][\A w \in Workers : worker[w].pc \in {"walk", "client"} =>
       processors'[worker[w].node] = processors[worker[w].node]]_vars

\* A connection is not deleted under the server's lock by one thread while another
\* holds the lock of its node and waits for the server's lock: we need to delete
\* the client itself not under the lock (server.cpp:307).
NoLockCycle ==
  ~ \E t, u \in Threads :
      /\ thread[t].pc = "closeDelete"
      /\ conn[thread[t].conn].procs > 0
      /\ nodeLock[conn[thread[t].conn].node] = u
      /\ thread[u].pc = "bindServer"
      /\ serverLock = t

\* Every request is answered, also while MADs are forwarded at its node and other
\* clients bind and disconnect there, and every MAD is processed in the end: nothing
\* but the cycle above ever stops a thread.
EveryRequestAnswered ==
  /\ \A t \in Threads : ~Serving(t) ~> thread[t].pc \in {"recv", "gone"} \/ ~NoLockCycle
  /\ \A w \in Workers : worker[w].pc # "idle" ~> worker[w].pc = "idle" \/ ~NoLockCycle

\* Every thread of a client is in the list, or about to be: ~GenServer, which cancels
\* the threads in the list, forgets none.  (The list may hold ended threads too.)
EveryThreadListed == \A t \in Threads : thread[t] # Gone => t \in listed \cup {accepted}
===============================================================================
