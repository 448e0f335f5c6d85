# Verification of ibutils

TLA+ models of the ibutils sources, TLC configurations that check them on small
instances, and proofs that TLAPS checks for every value of the constants.
Paths below are relative to the repository; `dispatcher.cpp:285` without a path
is under `ibmgtsim/src/`, `ibis_gsi_mad_ctrl.c` under `ibis/src/`, `SubnMgt.cpp` and
the other files of ibdm under `ibdm/ibdm/`.

    tlc -config MCGsiBatch.cfg MCGsiBatch      # a run, in this directory
    tlapm DispatcherProofs.tla                 # the proofs of a module

`PROJECT.json` lists the components, the runs with what each is expected to show,
the mutants that show that each property can fail, the lines each definition
models, the findings, the hazards and the theorems.

## 1. The system

ibutils is a set of InfiniBand management tools:

* **ibmgtsim** simulates the management side of a fabric. It reads a topology,
  gives every node a subnet management agent (SMA), a performance agent (PMA)
  and a vendor agent (VSA), and lets programs such as OpenSM and ibis attach to
  the ports of the simulated nodes over TCP. It is the concurrent program of
  the three: threads of clients, a timer thread and workers of the dispatcher,
  and a timer thread of the SMA, with a lock per node, per queue, per port.
* **ibis** sends MADs to a fabric, real or simulated, from Tcl. Its core is the
  synchronous batch: a caller sends many MADs and waits for all the callbacks,
  which run in threads of the vendor library.
* **ibdm** is a library of algorithms over a fabric in memory: it assigns LIDs,
  computes and checks forwarding tables, looks for credit loops, covers links,
  compares topologies. It is sequential.
* **ibdiag** are Tcl scripts on top of the other two.

### Inventory

| component | state | operations | hard | what makes it correct |
|---|---|---|---|---|
| MAD dispatcher (`dispatcher.cpp:57-300`) | `madQueueByWakeup`, `madDispatchQueue`, two locks, two condition variables, `nextWakeup` | `dispatchMad` (called by client threads, agents, traps), `timerCallback`, `workerCallback` | three kinds of threads, two locks taken in nesting, timed waits, lost wake-ups | every MAD accepted is routed once, not before its time; nobody sleeps while there is work |
| MAD routing (`dispatcher.cpp:300-540`, `node.cpp:380-505`) | forwarding tables, link states, the MAD's own path | by LID, by directed route out and back | the fabric changes between two hops; tables may be wrong | a MAD is delivered where the tables lead, a response returns by the way of its request, every walk ends |
| server and clients (`server.cpp`, `tcpcomm.cpp`, `node.cpp:60-260`) | `clientThreadsList`, `sockToClientMap`, connections and their processors, the lists of processors of a node, server lock, node locks | accept, connect, bind, send, disconnect, close; the capability message; forwarding of a MAD to a client | two locks taken in two orders, objects deleted by one thread and called by another, socket numbers used again | no processor outlives its connection; no connection is lost or deleted twice; every request is answered |
| client library (`client.cpp`) | one socket and a small server | connect, bind, send, receive | the callback runs while the simulator waits for it | environment of the server |
| SMA (`sma.cpp`) | M_Key and lease of each port, PortInfo, LFT, MFT, P_Key, SL2VL, VL arbitration tables, `PortByLid` of the fabric | Get and Set of each attribute, traps, the lease timer | the timer thread shares ports with workers; checks and changes are interleaved in one handler; one LID map for all nodes | the M_Key protects the port until its lease is over and no longer; a refused Set changes nothing; a LID leads to the port that has it |
| node (`node.cpp`, `node.h`) | port counters, link states, CR-space with lock words, processors | one hop of a MAD, counters, `setLinkStatus`, CR-space read and write | the other end of a link is changed under the first node's lock | counters count; both ends of a link agree |
| PMA, VSA (`pma.cpp`, `vsa.cpp`) | the counters and CR-space of the node | Get, Set and reset of counters; read, write and lock of addresses | second writers of the node's state | as the node |
| start-up, messages, random numbers (`sim.cpp`, `msgmgr.cpp`, `randmgr.cpp`) | singletons | initialise, run, stop | the server runs before the dispatcher exists | - |
| ibis batches (`ibis_gsi_mad_ctrl.c`) | map of active batch contexts, contexts with a count, an event and a lock | `ibis_gsi_send_sync_mad_batch`, its callback, deletion of a context | callbacks early, late, after the caller has gone; a count in 16 bits; memory used again | a call returns, with success only when complete, and callbacks touch their own, live context |
| ibis class services (`ibsm.c`, `ibpm.c`, ...) | none of their own | fill a MAD, send it, copy the answer | - | layout only |
| ibdm fabric (`Fabric.cpp`) | systems, nodes, ports, cables, LIDs; tables of hops, forwarding, multicast, service levels | parse, build, connect, dump | the same table is written by three algorithms with different ideas of which LIDs exist | both ends of a cable agree |
| ibdm routing (`SubnMgt.cpp`) | LIDs, tables of hops and forwarding, ranks | assign LIDs, hops by relaxation, hops along up/down ways, plain and enhanced routing, roots and ranks | loops to a fixed point over tables that change in the loop; LMC ranges; partitioned fabrics | hops are distances, tables lead to the port, up/down ways never turn |
| ibdm checks (`TraceRoute.cpp`, `SubnMgt.cpp`, `CredLoops.cpp`) | marks of a search | verify routes, multicast groups, up/down; search for credit loops | tables that lead in circles; a search that begins anywhere | a verdict is what the tables deserve, and there always is one |
| `osm_check` (`ibdm/src/osm_check.cpp`) | options | design mode, verification mode | which check runs after which, and which one ends the program | exit code 0 means what it says |
| other ibdm algorithms (`FatTree.cpp`, `Bipartite.cc`, `RouteSys.cc`, `Congestion.cpp`, `LinkCover.cpp`, `TopoMatch.cpp`) | tables and marks on the fabric | fat-tree routes, matchings, reports, comparison of topologies | large regular inputs | - |
| parsers, wrappers, tools, ibdiag | - | - | - | generated code, or format only |

### How the parts interact

    client program -- TCP --> server thread (one per client)
                                 | dispatchMad
                                 v
         madQueueByWakeup -- timer thread --> madDispatchQueue -- workers
                                                                    |
              one hop after another over nodes (node lock per hop)  |
                                                                    v
     IBMSNode::processMad: processors of the node (agents, and client
     connections, which send the MAD to their client and wait for it)
                                 | agents answer with dispatchMad
                                 v
                         (back to madQueueByWakeup)

The module of each part treats its neighbours as an environment that may do
anything they may do: `SimServer` lets any MAD in flight arrive at any time,
which is what `Dispatcher` may do; `MadRouting` lets tables and links change between hops;
`LidMap` lets Sets arrive at every node at any time; `GsiBatch` lets the vendor layer
report each MAD once, at any time, with an answer or an error.

`osm_check` is a sequence of the algorithms of ibdm on one fabric:

    design mode        cables -> LIDs -> hops -> (roots, up/down hops) -> tables --+
                                                                                   v
    verification mode  files of a subnet manager -> hops ------------------> checks of
                                     routes -> multicast groups -> up/down or credit loops

`OsmCheck` composes the two halves in that order, so the checks judge both the tables
that the design mode makes and tables that may be wrong.

## 2. Modules

| module | models | state and actions |
|---|---|---|
| `DelayLine` | what the dispatcher promises | abstract: accepted items, delivered MADs, the clock |
| `Dispatcher` | class `IBMSDispatcher` without the routing | see below |
| `DispatcherProofs` | theorems about `Dispatcher`; it implements `DelayLine` | |
| `MadRoutingProofs`, `SimServerProofs`, `MKeyTimerProofs`, `GsiBatchProofs`, `LidMapProofs` | theorems about the modules of these names | |
| `SubnetProofs` | theorems about `OsmCheck`: LIDs, hops, routes, the verdicts on routes and on multicast groups | |
| `DataLemmas` | lemmas that know nothing of ibutils: induction over numbers and finite sets, recursive functions, closures, least and greatest numbers, division, lists from which elements are removed | |
| `MadRouting` | `routeMadToDestByLid`, `routeMadToDestByDR`, `getRemoteNodeByOutPort` | see below |
| `SimServer` | `GenServer`, `IBMSServer`, `IBMSClientConn`, the processors of `IBMSNode` | see below |
| `MKeyTimer` | the M_Key part of `IBMSSma::processMad`, `SMATimer` | see below |
| `GsiBatch` | synchronous batches of ibis | see below |
| `LidMap` | `setIBPortBaseLid` and the Sets of PortInfo that call it | see below |
| `Subnet` | `IBFabric`, `IBNode` and `IBPort` as the algorithms see them; roots and ranks | the variables of the fabric, distances |
| `SubnetDesign` | the design mode: `SubnMgtAssignLids` to `SubnMgtOsmRoute` | see below |
| `RouteCheck` | `TraceRouteByLFT`, the verifications, `CrdLoopAnalyze` | see below |
| `OsmCheck` | `main` of `osm_check`: both modes | composes the two before |
| `MC...` | instances for TLC: symmetry, cables, tables | |

**Dispatcher.** `waitQ` is the multimap sorted by wake-up time, `dispatchQ` the
list; `timer` and `worker` are program counters of the threads. `StampMad` is the
part of `dispatchMad` before the lock (the time of day and the random delay),
`InsertMad` the critical section with the signal. The timer thread holds its lock
over several turns of its loop, so the lock is not a variable of its own: it is
held exactly when `timer` is "scan" or "move". `TimerFindDue`, `TimerMove` and
`TimerWait` are the branches of the loop; the wait ends by a signal, its deadline
or spuriously, as POSIX allows. `WorkerTake`, `WorkerWait` and `WorkerRouted` are
the loop of a worker. Routing is one step here and a module of its own below.

**MadRouting.** One MAD at a time: MADs share nothing but the tables, and a worker
locks one node for one look-up only, so the hops of other MADs matter only by
what they change, which routing does not. One action per hop. Fabric, tables and
the states of the links are chosen in `Init`; then other workers rewrite the table of a
switch (`SetLftBlock`: `lftMad` at its SMA), links change by `SetLinkStatus`, and ports drop
packets at random, unless the fabric is `Calm`. `Tables` are the tables that occur. A port
without a cable, a link that is down and a table without an entry all end in
"dropped", as in the code.

**SimServer.** Each client thread has a program counter; what it does under the
server's lock without waiting for another lock or for a client is one action.
The places where it does wait under a lock, and those where it has given a lock
back and goes on with what it read, are states: `closeDelete` (the destructor
under the server's lock), `delete` (the destructor after it), `bindNode` and
`bindServer` (the two locks of a bind). A worker
walks the list of processors of a node with the node's lock, and keeps it while a
client answers. Threads, sockets and connections are small sets whose members
are used again, as system identifiers and addresses are.

**MKeyTimer.** A node is the worker that currently processes a MAD at it, since the
node's lock lets in one at a time. `portMutex` and `timerMutex` are the mutexes of
the code, including the early return of `SMATimer::unreg` that keeps the second.
The lease counter is unsigned and wraps.

**GsiBatch.** Contexts are memory: an address that is freed is zeroed and may be
the next context. Callers and callbacks have program counters; locks are the
fields they are in the code. The time limit of the wait is computed from the
count of outstanding MADs as the code does, so a limit of zero does not wait.
`late` says of a whole behaviour whether answers may be so late that a wait runs
out; properties that need answers in time begin with `~late`.

**LidMap.** A worker holds the lock of its node for a whole Set, but the table of ports
by LID belongs to the fabric, which has no lock. So an action is the stretch between
two accesses to the table: for each port of a switch, or the one port of an HCA,
`TakeLid` (the LID and, if need be, the growth of the vector), `ClearEntry` (the entry of
the old LID), `EvictOwner` (the port that had the new one); then `EnterLid`. When the
vector grows while another Set is at work on it, that Set may use freed memory: the
model marks it `torn` and stops. `marred` says what else happened that the
table is not made for; the properties name these cases.

**Subnet, SubnetDesign, RouteCheck, OsmCheck.** One thread. `stage` is the function that
runs, `work` and `search` hold its local variables. A function that loops while it
changes the fabric or keeps a search has an action for each turn: a node in
`AssignLids` and `SeedHops`, a switch of a sweep in `RelaxHops`, a node taken from the
queue in `SpreadUpDn` and `VisitMember`, a LID of a switch in `RouteLid`, a step of the
depth-first search in `StartLoopSearch`, `FollowDependency` and `CloseChannel`. A function
that only reads is one action: `CheckReach`, the verifications of routes, the up/down
report, the dependency graph. A trace has the three limits of the code: it is given up for
a loop after `MaxHops` cables (`TraceRoute.cpp:332`); with an LMC the verification
ends the program when a route has more than `ComparedSwitches` switches (`TooLong`,
`SubnMgt.cpp:991`); and the count of a route of more than `CountedHops` cables is written past
the end of a vector (`SubnMgt.cpp:947`), which ends the program or has no effect on what is modelled
(`CountPastHops`). The model lets it do so even when an earlier pair of LIDs would have ended it. Properties are stated against definitions that know
nothing of the algorithms: `Distance` is by cables, `Delivering` works backwards from the
port that has a LID, `Joined` is connectivity of the cables a group uses, `HasCycle`
takes away channels that wait for nothing until none is left or some remain.

## 3. What the runs show

Bounds are in the `.cfg` files and, for fabrics, in the `MC` modules.

| run (distinct states) | bounds | shows |
|---|---|---|
| `dispatcher` (282 k) | 3 MADs, 2 workers, delays 0 and 1, time up to 2 | no MAD lost or doubled between the queues, no worker and no timer oversleeps; `Dispatcher` implements `DelayLine`; every MAD is routed |
| `mad_routing` (2.6 M) | 2 switches, 2 HCAs. On two calm cablings, one with a cable from a switch to itself: all tables, three link states, VL15 or not. On a third, with two cables in parallel and different port numbers at their ends: paths of up to 3 hops, links that change, drops. On a fourth, with two cables in parallel: MADs by LID, tables of both switches rewritten and links changed under way | delivery is what the tables say, computed backwards from the target; on changing tables a MAD is delivered to no HCA but the one with the LID; the response to a directed route returns to its sender, in by the port the request left by |
| `sim_server` (190 k) | 2 clients, 2 connections, 2 binds each, 1 worker | processors match connections, connections have one holder, walks undisturbed, every request answered |
| `mkey_timer` (20 k) | 2 nodes, one port each, leases 0 to 2 | lease kept, flag and list agree, key protected, every lease ends |
| `gsi_batch` (784 k) | 2 callers, 2 callbacks at once, 2 batches of up to 2 MADs, answers in time | exact count, success means complete, contexts alive |
| `gsi_batch_late` (175 k) | 1 caller, 1 callback at once, one memory block for all batches; answers in time or not | every call returns; the map never leads to a wrong context |
| `lid_map` (2.6 M) | 2 switches and an HCA of two ports each, LIDs 1 and 2, a vector that grows one entry at a time | the table of ports by LID is the inverse of the LIDs of the ports, the records agree with the ports |
| `osm_check` (87 k) | design: 3 CAs, 2 leaves, 2 spines, 81 cablings, five combinations of options (LMC 0 or 1, up/down with roots given, found or none, plain or enhanced); verification: about 1800 sets of tables of a ring; a trace follows 4 cables, counts 3, and compares 3 switches | LIDs do not overlap, hops are distances, tables lead to their ports, on two ranks of switches up/down ways are legal; the verdicts on routes, groups and credit loops are right; every run ends |

Why these bounds are enough. A hazard here needs two actors and one event between
two of their steps, or two elements in a queue or list and a third that
arrives: two equal wake-up times and one between (three MADs), a walk over
a list of two while a third thread changes it, a batch whose first answer
comes while the second MAD is being counted, a memory block that the next batch
reuses. Two LIDs and three nodes are enough for a LID to be taken from its owner,
given to a third port and left behind as a stale previous LID. The cablings of
`osm_check` are all subsets of six links (16 of them with both other CAs at one leaf,
and one with two CAs on one cable), so some are partitioned, have a leaf without a
spine, two minimal ways, or a link between nodes of one rank; the tables of its ring
are every choice of direction (which makes circles of routes and of channels), every
single wrong entry, service levels per source and per destination, and all
multicast tables of one group. Three hops are enough for a path that goes over a switch twice. The limits of a trace
(257 cables, 49 counted, 15 switches compared in the code) are 4, 3 and 3 in the run: the long
way round the ring takes 4 cables, so routes are too long to be counted and, in design mode
with two LIDs at a port, too long to be compared, while a way of all four switches still arrives. With four
switches only a circle is longer than the trace follows; longer routes that arrive are left to
`VerdictCorrect`. In
every run the mutants of `PROJECT.json` show that the bounds reach the
state in which the property could fail: each mutant is a small bug in one
definition, and TLC finds the property violated under the run's own bounds.

### Violations: what the code does and what it says

Each of these runs checks one sentence of a comment against the model and finds it
violated; the findings in `PROJECT.json` quote it.

| run | what happens |
|---|---|
| `sim_server_deadlock` | closing takes server then node, binding node then server |
| `mad_routing_mixed` | `dr_slid` compared twice and `dr_dlid` never: a request is carried out whose response is refused |
| `osm_check_lmc` | with an LMC above 0 the hops of a subnet manager's LIDs are looked for at LIDs 1, 1 + 2^lmc, ..., which are not the base LIDs it gives: good tables are reported as unreachable |
| `osm_check_updn` | on three ranks of switches the tables that up/down hops make lead a packet down, up and down again |

### What the code does not promise

Some properties name an exception. It is what the code does, found while the
property was first written without it:

* `UsesLiveContext`, `OutstandingExact` and `SuccessIsComplete` need answers in time
  (`~late`). A wait that runs out lets the caller free the context a callback
  holds, since the callback gives up the map's lock (`ibis_gsi_mad_ctrl.c:850`);
  its later stores go to freed memory, or to the next batch.
* `EveryLeaseEnds` excepts a timer whose mutex `SMATimer::unreg` has kept: it returns
  from its loop without the unlock (`sma.cpp:150`), so after the first timer that is
  stopped no lease ends, and the next `reg` or `unreg` blocks with its node's lock held.
* `FlagMatchesList` excepts the stretch between `sma.cpp:1801` and `1803`: there the
  timer thread may still find the entry and clear the key of a stopped timer.
* `EveryRequestAnswered` excepts the cycle of `sim_server_deadlock`.
* `EveryThreadListed` says that no running thread is missing, not that every thread
  in the list runs: one that ends before it is registered (`tcpcomm.cpp:274`) stays.
* `ConnHasOneHolder` does not say that only its own thread takes a client's connection
  away: the number of a socket is free (`tcpcomm.cpp:198`) before its entry is looked up,
  and the cleanup may meet the next client's.
* `RoutesVerdict` says that routes are found wrong when they take more than 257 cables, or,
  with an LMC, when a route of a CA to the first LID of another has more than 15 switches, although
  packets arrive: that is what the limits of the trace and of the statistics do
  (`TraceRoute.cpp:332`, `SubnMgt.cpp:991`). It speaks of programs that come to their end:
  a route of more than 49 cables may end the program before (`CountPastHops`).
* `FollowsTables` counts a cable from a switch back to itself as an end of the way
  (`dispatcher.cpp:382`), and says nothing of a MAD that tables lead in a circle: the
  loop has no limit (`dispatcher.cpp:333`). When tables or links change under way it says only
  that the MAD is delivered to no wrong HCA: it may be lost, or end at a switch that the
  tables, as they were in between, led it to.
* That a batch succeeds if every answer came in time is no property at all: the limit
  of the wait is read after the answers may have come (`ibis_gsi_mad_ctrl.c:1006`), so
  it may be 0, or shorter than the rest needs.
* `MapInverse` and `RecordAgrees` except two Sets at once that touch one LID, and
  `MapInverse` a switch that lost its LID to another node: only one of its ports gets
  LID 0 then (`sma.cpp:1196`), the others keep the old LID, and when the switch gets a
  new one its Set clears the entry of the node that has the old one now
  (`sma.cpp:1187`). `RecordAgrees` excepts a LID that was given to a second port: the
  record of the first is not told. Two tests say that they "can not trust the Fabric
  PortByLid anymore" (`ibmgtsim/tests/osmStress.sim.tcl:74`,
  `osmLidAssignment.sim.tcl:125`).
* `HopsAreDistances` and `RoutesArrive` speak of the part of the fabric that has a way to
  the subnet manager. A fabric in parts is not reported: a switch without LIDs is taken
  for LID 0, and that sets its whole table of hops to 0 (`Fabric.cpp:337-355`), so
  it passes the check for unreachable LIDs. The same happens to a CA with two
  cables: `SubnMgtAssignLids` gives a LID to the port that is reached alone, and
  `SubnMgtCalcMinHopTables` passes the LID 0 of the other to `setHops` of its neighbour
  (`SubnMgt.cpp:192-203`). The fabrics of the runs, `HopsCorrect` and `RoutesCorrect` have CAs with one cable.
* `UpDownRoutes` speaks of fabrics of two ranks without a cable within a rank. A neighbour
  gets its label before it is known whether the step to it is allowed, even when it waits
  in the queue under another label (`SubnMgt.cpp:1674`). With two ranks all steps to
  a switch are of one kind, so the labels stay true. With three, a switch that a way
  came down to may be marked as reached from below by a step that is then refused, and
  its own way goes on up: `osm_check_updn`. The same happens with a cable within a rank,
  and `LoopVerdict` excepts such fabrics for the report, which takes a step within a
  rank for a step down.
* An entry for a LID without hops counts as use of port 255 (`SubnMgt.cpp:685`), past
  the end of a vector: `CountPastPorts` ends the program there.
* `GroupVerdict` says "no fewer" only of groups whose cables are used in both directions:
  a switch that does not list its end of a cable is skipped, with a warning.
* `LoopVerdict` speaks of the channels of CA to CA routes: the search begins at the
  channels of CAs, so with `-a` or `-M` it does not see a circle that no CA's channel
  leads to.
* Enhanced routing remembers the system of the switch itself, not the one it routes
  through (`SubnMgt.cpp:522`), so it favours a new system less than
  `SubnMgt.h:67-71` says; its tables are right all the same (`RoutesArrive`).
* The up/down report of multicast groups always returns 0, whatever it prints.

### Deadlock

The dispatcher always has a next step: when the clock is at its bound the timer and
the workers may still wake spuriously. `OsmCheck` has a step `Done` where the program has
ended. Deadlock is checked in both. The others switch the check off: batches are used
up, a MAD is at its end, the SMA stops when its timer's mutex is kept, `LidMap` when the
table is torn, the server when two clients deadlock. What must go on is stated as
liveness instead.

### Fairness

* `Dispatcher`: weak fairness of each thread's steps and of the clock; strong
  fairness of a caller that waits for the queue's lock, which the timer thread
  takes and gives back again and again: a mutex that starves one waiter for ever
  is not what pthreads on Linux do. Nobody has to send a MAD. That a worker routes its
  MAD in the end (`WorkerRouted`) supposes tables without circles: the loop over hops has no
  limit (`dispatcher.cpp:333`), and a worker that is in it for good is not in this model.
* `SimServer`: strong fairness of each thread and each worker, for the same
  reason: they compete for the server's and the node's lock. Clients have
  to answer a MAD that is forwarded to them (part of the worker's step) and
  nothing else. The client's callback is assumed not to call the library itself.
* `MKeyTimer`: weak fairness of the timer thread and of each worker.
* `GsiBatch`: weak fairness of callers and callbacks; the vendor layer reports
  every MAD in the end, which it promises by its own timeouts.
* `OsmCheck`: weak fairness of `Next`, since there is one thread and it waits for nobody.
* `MadRouting` and `LidMap` check safety only.

## 4. What is proved

TLAPS checks every theorem for all values of the constants that the assumption of the
module allows; the lemmas they rest on are proved to the last leaf, too.

| module | theorem | says |
|---|---|---|
| `DispatcherProofs` | `TypeCorrect` | `Spec => []TypeOK` |
| | `NothingLost`, `NothingTwice` | `[]NoMadLost`, `[]NoMadTwice`: each MAD is in one place |
| | `TimerInTime`, `WorkersAwake` | `[]NoOversleep`, `[]NoIdleWorker`: no wake-up is missed |
| | `DispatcherIsDelayLine` | `Spec => ImplementsDelayLine`: a MAD is routed once, not before its time, and in order |
| `GsiBatchProofs` | `MapLeadsHome` | `[]MapLeadsToContext`, whether or not answers are late |
| | `TypesInTime` | `[](~late => TypeOK)` |
| | `CountIsExact` | `[]OutstandingExact` |
| | `CallbackUsesOwnContext` | `[]UsesLiveContext` |
| | `SuccessHasEveryAnswer` | `[]SuccessIsComplete` |
| `MKeyTimerProofs` | `MKeyTypes`, `RegisteredOnce`, `FlagFollowsList` | `[]TypeOK`, `[]OneEntryPerPort`, `[]FlagMatchesList` |
| | `LeaseIsKept` | `[]LeaseKept` |
| | `SecondUnlockIsHarmless` | `[]SecondUnlockHarmless` |
| | `KeyIsProtected` | `KeyProtected`, an action property, if no node has two ports |
| `SimServerProofs` | `ServerTypes`, `ThreadsAreListed` | `[]TypeOK`, `[]EveryThreadListed` |
| | `ListsMatchConnections` | `[]ProcessorsMatch` |
| | `ConnectionHeldOnce` | `[]ConnHasOneHolder` |
| | `ListsAreStable` | `ListStable`, an action property |
| `MadRoutingProofs` | `RoutingIsTyped`, `ResponsesComeBack` | `[]TypeOK`, `[]RoundTrip` |
| | `TablesAreFollowed` | `[]FollowsTables` |
| `LidMapProofs` | `MapIsInverse`, `RecordsAgree` | `[]MapInverse`, `[]RecordAgrees` |
| `SubnetProofs` | `DesignedLidsDisjoint` | `[](opts.design => LidsDisjoint)` |
| | `FiledLidsDisjoint` | `[]LidsDisjoint`, if the files give no LID to two ports (`FilesGood`) |
| | `HopsCorrect` | `[](opts.design => HopsAreDistances)`, if a CA has one cable (`OneCable`) and there are no more than 256 nodes |
| | `RoutesCorrect` | `[](opts.design => RoutesArrive)`, if a CA has one cable |
| | `VerdictCorrect` | `[]RoutesVerdict`, for any limits of the traces, if a CA has one cable and the LIDs of the files are good (`FilesGood`, `FilesAligned`) |
| | `GroupsCorrect` | `[]GroupVerdict` |

### Assumptions

Each module names what it assumes of its constants, and TLC evaluates it in every run.
Sets are of any size unless said here; numbers are natural.

* `DispatcherAssumption`: the workers are finite in number (`NoIdleWorker` counts them).
* `BatchAssumption`: a batch has at least one MAD and fewer than 2^16, the width of
  `num_outstanding`; there is memory; callers and callbacks are different threads.
* `MKeyAssumption`: finitely many ports, at least one, each of one node; the value that a
  counter wraps to is above every lease; no node is called as a holder of a lock is.
* `ServerAssumption`: finitely many connection objects (they are counted), a
  socket number and a node; client threads and workers are different threads.
* `RoutingAssumption`: a cable has two ends and leads back to where it came from; the
  ports of HCAs that have a cable, and port 0 of each switch, have LIDs, and there is one such.
* `LidMapAssumption`: switches are not HCAs, every node has a port, and the vector grows
  by at least one entry when it grows.
* `SubnetAssumption`, `DesignAssumption`, `VerificationAssumption`: nodes have 1 to 254 ports,
  cables have two ends at two nodes, and a port has 2^LMC LIDs, at least one; files name
  numbers as LIDs. That files give no LID to two ports is not assumed but a hypothesis of
  `FiledLidsDisjoint`: osm_check does not check it.
* `HopsCorrect` and `RoutesCorrect` have a hypothesis `OneCable`: with a second cable to a CA
  the sweeps compute something else (What the code does not promise). `HopsCorrect` asks
  for at most 256 nodes too: a distance that reaches 255 is `IB_HOP_UNASSIGNED`, and hops are
  bytes. `RoutesCorrect` needs no such bound, since the entry of a LID without hops is unassigned.
* `VerdictCorrect` has `OneCable` for design mode, and for verification mode what a subnet
  manager gives: no LID for two ports, and base LIDs that are multiples of 2^LMC
  (`FilesAligned`). The LIDs that a check visits are such multiples (`MinLid` is 0 there), so
  with others it would not look at the ports at all. Tables, wirings and options are any.
* `HopsAssumption`: routes that are counted or compared are no longer than those that are
  followed (49 and 15 of 257 in the code).
* `GroupsAssumption`: multicast groups are numbers, their LIDs (`mcGroups` is a set of
  `uint16_t`); the search takes them in that order. `GroupsCorrect` has no other hypothesis.

### The arguments

**Dispatcher.** `TypeOK` is inductive only together with `MoveHasMad`: when the timer
thread is about to move a MAD there is one, which it saw in an earlier step and
which nobody else can take since it kept the lock. `NoMadLost` and `NoMadTwice` are
inductive together and with `StampedFresh` (a caller brings a MAD that is not in
the dispatcher yet): what leaves one place enters another, and was nowhere else.
The inductive invariant is `TypeOK /\ MoveHasMad /\ Conservation`, with one lemma
for each action that moves a MAD and one, `ConservationFrame`, for all others.
What an insertion into the sorted queue does to its elements is
`InsertByWakeupProperties`; it rests on `InsertAtProperties`, a lemma about the
operator of the community modules. `NoOversleep` is inductive over `TypeOK`:
the only steps that matter are the insertion, which wakes the timer, and the
wait, which computes the deadline under the same lock.

**The delay line.** The refinement maps `delivered` to the MADs that workers took.
`DelayInv` adds to the invariant above what makes a step of a worker a step `Deliver`:
the waiting queue is sorted (`WaitingSorted`), what has left it was due (`MoveIsDue`,
`DueInTime`), and for two accepted MADs of which the earlier one is due no later,
`OrderKept` says that it is never behind the other: it is in a later place, or before it in
the same queue. `InsertSplits` is the fact that
carries it: the insertion puts a MAD behind those that are due no later and before
all others, so equal times keep the order of acceptance. Insertion, move and taking
have a lemma each; all other steps only need `DelayFrame`.

**Batches.** The proof is in two layers. `MapInv` holds with late answers too: each call
under way owns a live context, alone (`ContextsOwned`), and an entry of the map is
that of a call that has not removed it. It needs a weaker type, `WideTypeOK`, since a
late callback decrements a counter in memory that was zeroed when freed, which wraps:
`TypeOK` is therefore a theorem for answers in time only. `TimelyInv`, for `~late`, says for
each caller what the count is at its place in the code (the MADs sent and not yet counted
off, `Pending`, less one between the send and the increment), for each callback that its
batch is still there and its caller waits for it, and that the arrays hold the
answers that were counted (`ResultsKept`). That a caller cannot go on while a callback
holds its context follows from the context's lock, which the caller needs to leave.

**M_Key.** `PortOK` follows one port: which of the flag, the entry in the list and the
mutex may disagree at which place of the worker and of the timer thread, and
`LeaseCounted`: the rounds left and the rounds waited add up to the lease that was
promised. A lease of 0 wraps and never ends. `KeyProtected` needs a second invariant,
`KeyGuarded`: while a worker that may write the key is at work its port's timer is off.
It holds by the lock of the node, which serves one port only if the node has one; an HCA
with several ports is excepted, as the comment at the property says.

**Server.** `ServerInv` says who owns what. `Sockets`: an open number belongs to one thread
although closed threads may name it still. `Holders`: a connection is in one entry of
the map, or one thread deletes it. `Bindings`: a thread between its look-up and its bind
finds the same connection or none, on the node that it locked. `Locks`, `Walks`: a node's
lock is with the thread between lock and unlock, so a walk is not disturbed. With
these, `ProcessorsMatch` is inductive: it counts the places of a connection in a list
by the lemmas of `DataLemmas`.

**Directed routes.** `TrailOK`: there is a sequence of positions, one after each cable, that
the request has walked, and the return path holds the port of arrival at each.
Links may change and MADs drop at every hop; what a response meets is still the same
cable from its other end. Paths have any length up to any `MaxPath`.

**Routes by LID.** `FollowsTables` compares a walk forwards with `LeadsThere`, a closure
computed backwards from the ends. `Closing` (in `DataLemmas`) says what is needed of such a
closure: it holds the ends, one more round adds nothing, and it is within every set with
these two qualities. It is an induction over the number of rounds, and a chain of growing
subsets of a finite set stops. `FollowOK` is then inductive: the MAD is at a position from
which the tables lead to an end exactly if they led there from where it began; each hop
goes to the one position that the table names, so it keeps this in both directions.
This part of the property is about `Calm` fabrics, where no packet is dropped at random and no
table or link changes: otherwise where the tables lead is not what the MAD met. Its other part is about all
fabrics (`HcaOK`): whatever changes, an HCA that keeps the MAD has its LID, since it compares
it, or is the sender and has it.

**LIDs.** The set of LIDs that a Set touches (`InHand`: the new one, those that the ports of
its node have or have just lost, those whose entries lead to the node) only shrinks
while it runs. So Sets that touched none in common when the later of them began
never do (`Apart`), and the invariant can be said LID by LID: outside all of these the table and the ports agree (`Settled`), inside
those of one Set its node's ports are changed up to the port whose turn it is
(`HcaPorts`, `SwitchPorts`), and other nodes have nothing to do with them except as
the previous owner of the new LID (`Foreign`). `RecordInv` is a separate
invariant: a record changes at the end of a Set, so until then the ports that have had their
turn disagree with it (`Agree`). TLC checked the whole invariant on the instance of
`lid_map` before it was proved.

**LIDs of osm_check.** While LIDs are given, all of them are below the next, `work.lid`, and
`PortByLid` has an entry for each (`LidsBelow`). A node that is reached gets the range
that begins there; the entry beyond the range, which the loop writes too, is not below the
next LID, so no port has it yet. For files, the last line of a LID is one about the node
that has it, since no other has (`FilesRead`). No other step touches LIDs or options.

**Hops of osm_check.** The invariant has two parts. `DesignLids` is what the proofs of hops
need of the LIDs: once given they are a function of the node (`LidsByNode`), and the nodes
that have one are those with a way to the subnet manager, since the search visits the far end of
every cable of what it has visited (`Visiting`, `Visited`). `HopsInv` says of the tables, while
they are filled and after: an entry is the length of *some* way (`TablesSound`: a column that
is not 255 is one more than the radius of a ball around the neighbour that holds the
LID's node); the seeds are there (`SeededBelow`); and a switch that did not change in
this sweep is settled, no column above the neighbour's minimum plus one (`SettledAt`).
Sound entries are never too small. That settled tables are never too large is an induction
along the shortest way from the LID's node (`HopsComplete`), and both together are equality
(`HopsExact`). `SettledAt` is what a premature end of the sweeps would break: one
change anywhere in a sweep starts another, because a later switch may change what an earlier one
relied on. `Ball` and `Distance` have lemmas of their own: balls grow, stop growing at the number of
nodes, and the distance is the first radius at which a node is in. TLC
checked `DesignLids /\ HopsInv` on the instance of `osm_check` first.

**Routes of osm_check.** What the tables need of the hops is less than that they are
distances, and under the up/down rule they are not. `LeadsOn` says it of a switch and a LID:
a port whose hops are the least of its row leads to the CA with the LID, or to a switch whose
least is smaller by exactly one. Settled tables have it (`SettledLeads`). The search of
`SubnMgtUpDnBFSFromPort` makes tables in which *every* port with hops has it (`SpreadOn`), with an
invariant in the manner of breadth first searches (`InOrder`): the hops of the switches in the queue
do not decrease, the last is at most one more than the first, and no switch has more than one
more than the first. So a switch that has hops never gets fewer, since what it would learn is
one more than the hops at the head of the queue (`LabelsKept`), and what its neighbours were told
stays true (`ColumnsKept`). It takes no property of ranks: the rule only leaves steps out, and
which ones does not matter for `RoutesArrive`. `UpDnInv` adds that LIDs below the one at hand
are done and those above have no hops yet. `RouteInv` follows the filling in: the entry of each LID
so far is a port with the least hops, whatever preference chose it (`EntryIs`, `Filled`). At
last, `StepsArrive` is an induction over the hops along the way of the entries.

**The verdict on routes.** `RoutesVerdict` compares what the program does, one trace of each LID of a
destination from one LID of each source, with a set that is worked out backwards from
the port (`Delivering`). Three facts make them agree. Which node a trace is at after k steps does not
depend on how it came there, so the switches from which it arrives over k + 1 cables are those whose
entry leads to the port, or to a switch from which it arrives over k (`ArrivesStep`); so the set
is the one worked out backwards, for every number of cables (`DeliveringArrives`). A route to a CA that
arrives at all is still under way after c steps exactly if c cables are too few for it (`UnderWay`),
which is what ends the program when switches cannot be compared (`LengthTells`). A trace begins where a LID of the source leads in
`PortByLid`, so LIDs must lead to the ports that have them, the first LID of each to be
among those the loops visit (`LidsListed`). In design mode that follows from `DesignLids` and from what a
visit lists (`LidsCabled`): a port with a cable, or one of a switch that has some. In verification
mode it follows from the lines of good files (`FilesListed`). Then one LID of each source is
enough, because all LIDs of a port lead to the same first switch (`TracesTell`). That the failures
recorded at the end are the ones of these two checks, whatever the later checks add, is an
invariant of the run (`RoutesTold`). TLC checked `LidsListed`, `LidsCabled` and `RoutesTold`
on the instance of `osm_check` first.

**The verdict on groups.** `GroupVerdict` compares a search that walks from switch to switch with
a count: a group is a tree if the ends of its cables are two less than twice its switches. The
invariant of the search (`WalkOf`) keeps that count as it goes: until a loop is seen, the ends
that lie inside the visited switches (`Inner`) are exactly `2 * n - 2` for n of them, no switch
waits twice in the queue and none that waits was visited; after that they are more, if all cables
are used both ways. A visit adds the switch with both ends of the cable it was found by, and with
more exactly when a second cable leads back into the visited ones (`InnerGrows`), which is what
the code takes for a loop (`OutsFacts`). The second half of the verdict is why the invariant
must say something after a loop was seen too, when switches may wait twice or be visited again. When
nothing waits, the visited switches are those that the cables join (`WalkEnds`): they are among
them, and no cable leaves them. `GroupsTold` says that a group that had its turn is told of as it
should be and one that waits for it is not yet; TLC checked it on the instance of `osm_check` first.

### What stays with TLC

* Liveness (`EveryMadRouted`, `EveryRequestAnswered`, `EveryLeaseEnds`, `EveryCallReturns`,
  `Terminates`): fairness is `ENABLED`, which the provers cannot expand.
* What `osm_check` makes of the up/down rule and of credit loops: `UpDownRoutes` and
  `LoopVerdict`, which compare what a search leaves behind with a closure over switches and
  directions, or over channels; and `TypeOK` of `OsmCheck`, whose last part, that the search
  for loops stays on ports with cables, needs all that the verdict on routes needs.

## 5. What is not modelled

* MADs are abstract: byte order, layout and the fields that no decision of
  the modelled code reads are left out. So are logging and statistics.
* The simulated ports' counters, packet drop rates (a drop is a nondeterministic
  choice), and time in units other than the ticks of the models.
* A message that TCP splits, and a socket error: the code treats both as if they
  did not happen; see the hazards.
* Other fields of PortInfo and the other attributes of the SMA: each handler
  copies a block between the MAD and a table of the node. What makes LIDs, keys
  and routes go wrong is in `LidMap`, `MKeyTimer` and `MadRouting`.
* `capability_mask` and the link states that the shell sets without a lock: a bit or
  a state may be lost, and no decision of the simulator promises otherwise. A Set that
  has looked at a port's state brings the port up again after `setLinkStatus` took it
  down; `MadRouting` takes link states as they come.
* PMA, VSA and CR-space: counters and words, read and written under the node's
  lock; counters at the other end of a link are written under the wrong one, and
  lose increments.
* `FatTree.cpp`, `Bipartite.cc`, `RouteSys.cc`: regular trees of three levels and
  matchings of several rounds begin at sizes where TLC sees single examples; `osm_check`
  does not call them. `Congestion.cpp`, `LinkCover.cpp`, `TopoMatch.cpp` write reports.
  `TraceDRPathRoute` is called from scripts only, and so is `TraceRouteByMinHops` but for a call at
  the end of `SubnMgtCalcMinHopTables` (`SubnMgt.cpp:383`), which prints a path and ignores the result.
* The up/down report of verification mode with an LMC above 0 is in no run: the LIDs of a
  subnet manager do not get so far (`osm_check_lmc`).
* The parsers of the files that verification mode reads, SL2VL files (service levels
  map to lanes by themselves), and the other command line tools.
* The end of the process: `exit(1)` when the server cannot connect back to a
  client, the destructors of the singletons, which nothing calls.
* Generated code (SWIG, bison, flex) and the Tcl scripts.

`PROJECT.json` names, for each hazard without a property, why it has none.

## 6. Plan

In this order; what exists is marked.

1. `DelayLine`, `Dispatcher`: the queue hand-over (done), proved down to the
   refinement.
2. `GsiBatch` (done), all its safety properties proved.
3. `MKeyTimer` (done), all its safety properties proved.
4. `SimServer` (done), all its safety properties proved.
5. `MadRouting` (done), `RoundTrip` proved, `FollowsTables` proved.
6. `LidMap` (done), both properties proved.
7. `Subnet`, `SubnetDesign`, `RouteCheck`, `OsmCheck` (done), `LidsDisjoint`,
   `HopsAreDistances`, `RoutesArrive`, `RoutesVerdict` and `GroupVerdict` proved. The verdict
   on credit loops and the up/down rule stay with TLC.

No module declares a RECURSIVE operator: walks are recursive functions, mostly by
way of `Iterate`, so every module may be proved about.
