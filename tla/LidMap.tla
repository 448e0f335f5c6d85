-------------------------------- MODULE LidMap --------------------------------
(***************************************************************************)
(* How the subnet management agents give LIDs to ports: the part of a Set  *)
(* of PortInfo that changes the LID in the node's record, the LIDs of its  *)
(* ports in the fabric, and the fabric's table of ports by LID.            *)
(*                                                                         *)
(* A worker holds the lock of its node for the whole Set.  The fabric has  *)
(* no lock: Sets at other nodes go on between any two accesses to it.      *)
(***************************************************************************)
EXTENDS Integers, FiniteSets

CONSTANTS
  Switches,   \* nodes that have one LID, that of port 0, for all their ports
  Hcas,       \* nodes that have a LID at each port
  NumPorts,   \* the number of physical ports of each node
  MaxLid,     \* bound: LIDs are 1 .. MaxLid
  Growth      \* entries that the table gets when a LID is past its end, 20 in the code

Nodes == Switches \cup Hcas
PortsOf(n) == {n} \X (1 .. NumPorts[n])
Ports == UNION {PortsOf(n) : n \in Nodes}
NoPort == <<"none", 0>>

\* The ports whose PortInfo has a LID.
Records == (Switches \X {0}) \cup {p \in Ports : p[1] \in Hcas}

ASSUME LidMapAssumption ==
  /\ Switches \cap Hcas = {} /\ "none" \notin Nodes
  /\ NumPorts \in [Nodes -> Nat \ {0}]
  /\ MaxLid \in Nat /\ Growth \in Nat \ {0}

VARIABLES
  recordLid,   \* base_lid in IBMSNode::nodePortsInfo
  baseLid,     \* IBPort::base_lid
  portByLid,   \* IBFabric::PortByLid, a function on the LIDs it has entries for
  set,         \* the Set in progress at each node: where it is and its local variables
  marred       \* what happened that the table is not made for

vars == <<recordLid, baseLid, portByLid, set, marred>>

NoSet == [pc |-> "idle", record |-> NoPort, lid |-> 0, port |-> 0, prev |-> 0]

\* A simulation starts without LIDs, and with an entry for LID 0.
Init ==
  /\ recordLid = [r \in Records |-> 0]
  /\ baseLid = [p \in Ports |-> 0]
  /\ portByLid = [l \in {0} |-> NoPort]
  /\ set = [n \in Nodes |-> NoSet]
  /\ marred = {}

\* Where the Set at node n is; after an access to freed memory no step is modelled.
At(n, pc) == set[n].pc = pc /\ "torn" \notin marred

\* The port whose turn it is in the loop.
Turn(n) == <<n, set[n].port>>

\* Mutant of LastPort: the loop ends before the last port of a switch.
LastButOne(n) == IF n \in Switches THEN NumPorts[n] - 1 ELSE set[n].record[2]

\* The last port that comes.
LastPort(n) == IF n \in Switches THEN NumPorts[n] ELSE set[n].record[2]

-----------------------------------------------------------------------------
(* What happens around a Set: it touches the LID it gives and those of the node's ports *)

LidsOf(n) ==
  {baseLid[p] : p \in PortsOf(n)} \cup {l \in DOMAIN portByLid : portByLid[l][1] = n}

Touched(n) == ({set[n].lid, set[n].prev} \cup LidsOf(n)) \ {0}

\* Two Sets at once touch one LID; a switch is about to lose its LID; a LID is given to
\* a port while another has it.
Marks(n, r, l) ==
  LET others == {m \in Nodes \ {n} : set[m].pc # "idle"}
  IN {w \in {"raced", "robbed", "shared"} :
        \/ w = "raced" /\ \E m \in others : Touched(m) \cap (LidsOf(n) \cup {l}) # {}
        \/ w = "robbed" /\ \E p \in Ports : p[1] \in Switches \ {n} /\ baseLid[p] = l
        \/ w = "shared" /\ \E q \in Records \ {r} : recordLid[q] = l}

-----------------------------------------------------------------------------
(* setPortInfoSwBasePort, setPortInfoHca and setIBPortBaseLid *)

\* A valid LID, other than that in the record, is set.  Sets that are refused before do
\* not get here; refusals after leave the LID as it is.
SetLid(n, r, l) ==
  /\ At(n, "idle") /\ r[1] = n /\ recordLid[r] # l
  /\ set' = [set EXCEPT ![n] = [pc |-> "take", record |-> r, lid |-> l, prev |-> 0,
                                port |-> IF n \in Switches THEN 1 ELSE r[2]]]
  /\ marred' = marred \cup Marks(n, r, l)
  /\ UNCHANGED <<recordLid, baseLid, portByLid>>

InTable(n) == set[n].pc \in {"clear", "evict", "enter"}

\* The port gets its LID, and the table entries up to it.  Growth moves the table: an
\* access of another Set to the old memory may come to harm, and then nothing is sure.
TakeLid(n) ==
  /\ At(n, "take")
  /\ LET p == Turn(n)
         l == set[n].lid
     IN /\ set' = [set EXCEPT ![n].pc = "clear", ![n].prev = baseLid[p]]
        /\ baseLid' = [baseLid EXCEPT ![p] = l]
        /\ IF l \in DOMAIN portByLid THEN UNCHANGED <<portByLid, marred>>
           ELSE /\ portByLid' = [k \in 0 .. l + Growth - 1 |->
                                   IF k \in DOMAIN portByLid THEN portByLid[k] ELSE NoPort]
                /\ \/ UNCHANGED marred
                   \/ /\ \E m \in Nodes \ {n} : InTable(m)
                      /\ marred' = marred \cup {"torn"}
  /\ UNCHANGED recordLid

\* Mutant of ClearEntry: the entry of the old LID stays.
KeepEntry(n) ==
  /\ At(n, "clear")
  /\ set' = [set EXCEPT ![n].pc = "evict"]
  /\ UNCHANGED <<recordLid, baseLid, portByLid, marred>>

\* The entry of the old LID is cleared, whoever it leads to.
ClearEntry(n) ==
  /\ At(n, "clear")
  /\ portByLid' = IF set[n].prev \in DOMAIN portByLid
                  THEN [portByLid EXCEPT ![set[n].prev] = NoPort] ELSE portByLid
  /\ set' = [set EXCEPT ![n].pc = "evict"]
  /\ UNCHANGED <<recordLid, baseLid, marred>>

\* The port that the table has for the new LID loses it, unless it is of the same switch;
\* of another switch one port does.
EvictOwner(n) ==
  /\ At(n, "evict")
  /\ LET owner == portByLid[set[n].lid]
         evicted == /\ owner \notin {NoPort, Turn(n)}
                    /\ n \in Hcas \/ owner[1] # n
     IN baseLid' = IF evicted THEN [baseLid EXCEPT ![owner] = 0] ELSE baseLid
  /\ set' = IF Turn(n)[2] < LastPort(n)
            THEN [set EXCEPT ![n].pc = "take", ![n].port = @ + 1]
            ELSE [set EXCEPT ![n].pc = "enter"]
  /\ UNCHANGED <<recordLid, portByLid, marred>>

\* The table leads to the last of the ports, and the record gets the LID.
EnterLid(n) ==
  /\ At(n, "enter")
  /\ portByLid' = [portByLid EXCEPT ![set[n].lid] = Turn(n)]
  /\ recordLid' = [recordLid EXCEPT ![set[n].record] = set[n].lid]
  /\ set' = [set EXCEPT ![n] = NoSet]
  /\ UNCHANGED <<baseLid, marred>>

Next ==
  \E n \in Nodes :
    \/ \E r \in Records, l \in 1 .. MaxLid : SetLid(n, r, l)
    \/ TakeLid(n) \/ ClearEntry(n) \/ EvictOwner(n) \/ EnterLid(n)

Spec == Init /\ [][Next]_vars

-----------------------------------------------------------------------------
(* Properties *)

Quiet == \A n \in Nodes : At(n, "idle")

\* The table of ports by LID is the inverse of the LIDs of the ports (sma.cpp:1108, keep
\* the map of port by lid consistent), with a switch in it by one port, although LIDs are
\* given to a port that others had and Sets at several nodes run at once: unless two of
\* these touched one LID, or a switch lost its LID to another node.
MapInverse ==
  Quiet /\ marred \cap {"raced", "robbed"} = {} =>
    /\ \A l \in 1 .. MaxLid, n \in Nodes :
         (\E p \in PortsOf(n) : baseLid[p] = l) <=>
           (l \in DOMAIN portByLid /\ portByLid[l] \in PortsOf(n) /\ baseLid[portByLid[l]] = l)
    /\ \A l \in DOMAIN portByLid, p \in Ports :
         p[1] \in Hcas /\ l # 0 => (portByLid[l] = p <=> baseLid[p] = l)
    /\ \A s \in Switches : Cardinality({baseLid[p] : p \in PortsOf(s)}) = 1

\* The LID that a node answers with is the LID that the fabric has for it, and MADs for
\* the LID are led to, after Sets that succeeded and Sets that were refused half-way, as
\* long as no LID was given to a port while another had it.
RecordAgrees ==
  Quiet /\ marred \cap {"raced", "shared"} = {} =>
    \A r \in Records, p \in Ports :
      r = p \/ (r[2] = 0 /\ p[1] = r[1]) => recordLid[r] = baseLid[p]
===============================================================================
