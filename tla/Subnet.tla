-------------------------------- MODULE Subnet --------------------------------
(***************************************************************************)
(* The fabric as the algorithms of ibdm read and write it: IBFabric,       *)
(* IBNode and IBPort, with the tables of the switches.                     *)
(*                                                                         *)
(* A node is its place in the map NodeByName, which every loop over the    *)
(* nodes follows; a port is <<node, number>>.  All ports of a node exist;  *)
(* those outside DOMAIN remote have no cable.                              *)
(***************************************************************************)
EXTENDS Integers, Sequences, FiniteSets, FiniteSetsExt, SequencesExt

CONSTANTS
  NumNodes,   \* the nodes are 1 .. NumNodes, in the order of their names
  Switches,   \* the nodes of type IB_SW_NODE; the others are CAs
  NumPorts,   \* the number of physical ports of each node
  SystemOf,   \* the system each node is part of
  Wirings     \* the cablings: the port at the other end, for each port with a cable

Nodes == 1 .. NumNodes
PortsOf(n) == {n} \X (1 .. NumPorts[n])
Ports == UNION {PortsOf(n) : n \in Nodes}
NoPort == <<0, 0>>
Unassigned == 255          \* IB_HOP_UNASSIGNED and IB_LFT_UNASSIGNED

\* Cables have two ends at two nodes.
IsWiring(r) ==
  /\ DOMAIN r \subseteq Ports
  /\ \A p \in DOMAIN r : r[p] \in DOMAIN r /\ r[r[p]] = p /\ r[p][1] # p[1]

ASSUME SubnetAssumption ==
  /\ NumNodes \in Nat \ {0}
  /\ Switches \subseteq Nodes
  /\ NumPorts \in [Nodes -> 1 .. 254]
  /\ DOMAIN SystemOf = Nodes
  /\ \A r \in Wirings : IsWiring(r)

VARIABLES
  remote,      \* IBPort::p_remotePort
  baseLid,     \* IBPort::base_lid, 0 when the port has none
  portByLid,   \* IBFabric::PortByLid, a function on the LIDs up to the last that was set
  maxLid,      \* IBFabric::maxLid
  hops,        \* IBNode::MinHopsTable of each switch; column 0 has the minimum
  lft,         \* IBNode::LFT of each switch, a sequence of the entries for LIDs 1, 2 ...
  rank,        \* nodesRank, IBNode::rank
  opts,        \* the options of osm_check, IBFabric::lmc one of them
  stage        \* the function, or the loop in it, that runs

LidVars == <<baseLid, portByLid, maxLid>>
GivenVars == <<remote, opts>>
subnetVars == <<remote, baseLid, portByLid, maxLid, hops, lft, rank, opts, stage>>

Remote(p) == IF p \in DOMAIN remote THEN remote[p] ELSE NoPort

\* The ports of a node that have a cable to a switch.
ToSwitches(n) == {i \in 1 .. NumPorts[n] : Remote(<<n, i>>)[1] \in Switches}

\* The loop over the ports of a node: what Turn makes of x at each port of "is", in the
\* order of the ports.
OverPorts(n, is, Turn(_, _), x) ==
  LET after[k \in 0 .. NumPorts[n]] ==
        IF k = 0 THEN x ELSE IF k \in is THEN Turn(after[k - 1], k) ELSE after[k - 1]
  IN after[NumPorts[n]]

\* The other ends of the cables at these ports.
FarEnds(n, is) == OverPorts(n, is, LAMBDA ends, i : Append(ends, Remote(<<n, i>>)), <<>>)

\* lidStep, and the LIDs that the loops of the algorithms visit: those that fill or
\* check the tables of hops begin with LID 1, the others with minLid, which is 0 unless
\* SubnMgtAssignLids has run.
LidStep == 2 ^ opts.lmc
MinLid == IF opts.design THEN 1 ELSE 0
HopLids == {l \in 1 .. maxLid : (l - 1) % LidStep = 0}
LoopLids == {l \in DOMAIN portByLid :
               l <= maxLid /\ (l - MinLid) % LidStep = 0 /\ portByLid[l] # NoPort}
BaseOf(l) == ((l - 1) \div LidStep) * LidStep + 1

\* A port's LIDs are base_lid .. base_lid + lidStep - 1.
HasLid(p, l) == baseLid[p] <= l /\ l <= baseLid[p] + LidStep - 1

IsCaLid(l) == portByLid[l] # NoPort /\ portByLid[l][1] \notin Switches
CaLids == {l \in LoopLids : IsCaLid(l)}

\* The LID of the first port of a switch that has one: the others have it too, or none.
LidOfSwitch(s) == Max({baseLid[p] : p \in PortsOf(s)})

\* IBNode::setHops: port 0 stands for all ports, LID 0 for all LIDs.
SetHops(table, p, l, h) ==
  CASE l = 0 -> [k \in DOMAIN table |-> [i \in DOMAIN table[k] |-> h]]
    [] l # 0 /\ p = 0 -> [table EXCEPT ![l] = [i \in DOMAIN @ |-> h]]
    [] OTHER -> [table EXCEPT ![l][p] = h, ![l][0] = IF @ > h THEN h ELSE @]

NoHops(s, max) == [l \in 0 .. max |-> [i \in 0 .. NumPorts[s] |-> Unassigned]]

-----------------------------------------------------------------------------
(* Distances, in cables *)

\* What n steps of the function f make of x.
Iterate(f, x, n) ==
  LET after[k \in 0 .. n] == IF k = 0 THEN x ELSE f[after[k - 1]] IN after[n]

\* The nodes at most k cables away from S, by ways over nodes of Via.
Ball(S, Via, k) ==
  LET Wider == [ball \in SUBSET Nodes |->
                  ball \cup {remote[p][1] : p \in {q \in DOMAIN remote : q[1] \in ball \cap Via}}]
  IN Iterate(Wider, S, k)

\* The least number of cables from a node of S to n; NumNodes if there is no way.
Distance(S, Via, n) ==
  CHOOSE k \in 0 .. NumNodes :
    /\ k = NumNodes \/ n \in Ball(S, Via, k)
    /\ k = 0 \/ n \notin Ball(S, Via, k - 1)

-----------------------------------------------------------------------------
(* The roots: a file names them, or SubnMgtFindRootNodesByMinHop finds them *)

\* A switch with nearly all CA LIDs at one distance, and no more than few at another.
IsRoot(s) ==
  LET cas == Cardinality(Nodes \ Switches)
      bar == [h \in 0 .. Unassigned |->
                Cardinality({l \in CaLids : hops[s][baseLid[portByLid[l]]][0] = h})]
      over(percent) == {h \in DOMAIN bar : 100 * bar[h] > percent * cas}
  IN Cardinality(over(90)) = 1 /\ Cardinality(over(5)) = 1

Roots == IF opts.roots # {} THEN opts.roots ELSE {s \in Switches : IsRoot(s)}

\* SubnRankFabricNodesByRootNodes; operator [] of the map makes the rank of others 0.
RankFrom(roots) ==
  [n \in Nodes |->
     IF n \in Ball(roots, Nodes, NumNodes) THEN Distance(roots, Nodes, n) ELSE 0]

\* No cable joins two switches of one rank.
Levelled == \A s \in Switches : \A i \in ToSwitches(s) : rank[Remote(<<s, i>>)[1]] # rank[s]
===============================================================================
