----------------------------- MODULE SubnetDesign -----------------------------
(***************************************************************************)
(* The design mode of osm_check: give every port its LIDs, work out how    *)
(* many hops every port of every switch is from every LID, if so asked     *)
(* again under the rule that no way goes down and then up, and fill in the *)
(* forwarding tables.  One thread does it all; an action is one turn of    *)
(* the loop that the code is in.                                           *)
(***************************************************************************)
EXTENDS Subnet

\* The options: "sm" is the port of the subnet manager, "roots" the nodes that a file
\* names, {} without a file.
CONSTANT DesignOptions

\* A port has 1 << lmc LIDs, one at least.
ASSUME DesignAssumption ==
  \A o \in DesignOptions : o.design /\ o.lmc \in Nat /\ 2 ^ o.lmc \in Nat \ {0}

VARIABLE work   \* the local variables of the function that runs

designVars == <<subnetVars, work>>

WorkAt(s) ==
  [queue |-> <<>>, visited |-> {}, lid |-> 1, at |-> s, changed |-> FALSE,
   down |-> [t \in Switches |-> FALSE],
   subs |-> [i \in 1 .. NumPorts[s] |-> 0], nodes |-> {}, systems |-> {}]

NoWork == WorkAt(Min(Switches))

NextSwitches(s) == {t \in Switches : t > s}

DesignInit ==
  /\ remote \in Wirings
  /\ opts \in {o \in DesignOptions : o.sm \in DOMAIN remote}
  /\ baseLid = [p \in Ports |-> 0]
  /\ portByLid = <<>>
  /\ maxLid = 0
  /\ hops = [s \in Switches |-> <<>>]
  /\ lft = [s \in Switches |-> <<>>]
  /\ rank = [n \in Nodes |-> 0]
  /\ stage = "lids"
  /\ work = [NoWork EXCEPT !.queue = <<opts.sm>>]

-----------------------------------------------------------------------------
(* SubnMgtAssignLids: breadth first from the port of the SM *)

\* The other ends of the node's cables that lead to nodes not yet visited.
Unvisited(n, visited) ==
  FarEnds(n, {i \in 1 .. NumPorts[n] :
                Remote(<<n, i>>) # NoPort /\ Remote(<<n, i>>)[1] \notin visited})

\* Mutant of AssignLids: the next node starts at the next LID, whatever the LMC.
AssignLidsOneByOne ==
  /\ stage = "lids" /\ work.queue # <<>>
  /\ LET p == Head(work.queue)
         n == p[1]
         given == IF n \in Switches THEN PortsOf(n) ELSE {p}
         l == work.lid
     IN IF n \in work.visited
        THEN /\ work' = [work EXCEPT !.queue = Tail(@)]
             /\ UNCHANGED <<baseLid, portByLid>>
        ELSE /\ baseLid' = [q \in Ports |-> IF q \in given THEN l ELSE baseLid[q]]
             /\ portByLid' = [k \in 1 .. l + LidStep |-> IF k < l THEN portByLid[k] ELSE p]
             /\ work' = [work EXCEPT
                  !.visited = @ \cup {n}, !.lid = l + 1,
                  !.queue = Tail(@) \o Unvisited(n, work.visited \cup {n})]
  /\ UNCHANGED <<GivenVars, maxLid, hops, lft, stage, rank>>

\* All ports of a switch get the LID, of a CA the port that was reached.  The loop
\* over the LIDs of the port goes on to the first LID of the next.
AssignLids ==
  /\ stage = "lids" /\ work.queue # <<>>
  /\ LET p == Head(work.queue)
         n == p[1]
         given == IF n \in Switches THEN PortsOf(n) ELSE {p}
         listed == IF n \in Switches THEN <<n, NumPorts[n]>> ELSE p
         l == work.lid
     IN IF n \in work.visited
        THEN /\ work' = [work EXCEPT !.queue = Tail(@)]
             /\ UNCHANGED <<baseLid, portByLid>>
        ELSE /\ baseLid' = [q \in Ports |-> IF q \in given THEN l ELSE baseLid[q]]
             /\ portByLid' = [k \in 1 .. l + LidStep |-> IF k < l THEN portByLid[k] ELSE listed]
             /\ work' = [work EXCEPT
                  !.visited = @ \cup {n}, !.lid = l + LidStep,
                  !.queue = Tail(@) \o Unvisited(n, work.visited \cup {n})]
  /\ UNCHANGED <<GivenVars, maxLid, hops, lft, stage, rank>>

\* Mutant of LastLid: one node too few.
LastLidTooLow == work.lid - 2 * LidStep

\* maxLid becomes the base LID of the last node.  The tables of hops get their size.
LastLid == work.lid - LidStep

EndLids ==
  /\ stage = "lids" /\ work.queue = <<>>
  /\ maxLid' = LastLid
  /\ hops' = [s \in Switches |-> NoHops(s, maxLid')]
  /\ stage' = "seed"
  /\ work' = [NoWork EXCEPT !.at = 1]
  /\ UNCHANGED <<GivenVars, baseLid, portByLid, lft, rank>>

-----------------------------------------------------------------------------
(* SubnMgtCalcMinHopTables *)

\* A switch is 0 hops from itself, the other end of a CA's cable is 1 hop from the CA.
SeedHops ==
  /\ stage = "seed"
  /\ LET n == work.at
         Neighbour(h, i) ==
           [h EXCEPT ![Remote(<<n, i>>)[1]] =
              SetHops(@, Remote(<<n, i>>)[2], baseLid[<<n, i>>], 1)]
     IN /\ hops' = IF n \in Switches
                   THEN [hops EXCEPT ![n] = SetHops(@, 0, LidOfSwitch(n), 0)]
                   ELSE OverPorts(n, ToSwitches(n), Neighbour, hops)
        /\ IF n < NumNodes
           THEN work' = [work EXCEPT !.at = n + 1] /\ stage' = stage
           ELSE work' = NoWork /\ stage' = "relax"
  /\ UNCHANGED <<GivenVars, LidVars, lft, rank>>

\* What a switch learns from the neighbour behind port i about LID l, if it is less.
Offers(s, l, i) ==
  LET q == Remote(<<s, i>>) IN
  {h \in {hops[t][l][0] + 1 : t \in {q[1]} \cap Switches} : h < hops[s][l][i]}

\* Mutant of Relaxed: the minimum of the row is not kept.
RelaxedNoMin(s) ==
  [l \in DOMAIN hops[s] |->
     [i \in 0 .. NumPorts[s] |->
        Min((IF l \notin HopLids \/ i = 0 THEN {} ELSE Offers(s, l, i)) \cup {hops[s][l][i]})]]

Relaxed(s) ==
  [l \in DOMAIN hops[s] |->
     [i \in 0 .. NumPorts[s] |->
        LET offers == IF l \notin HopLids THEN {}
                      ELSE IF i # 0 THEN Offers(s, l, i)
                      ELSE UNION {Offers(s, l, j) : j \in 1 .. NumPorts[s]}
        IN Min(offers \cup {hops[s][l][i]})]]

\* One switch of a sweep over them all; sweeps go on until one changes nothing.
RelaxHops ==
  /\ stage = "relax"
  /\ LET s == work.at
         changed == work.changed \/ Relaxed(s) # hops[s]
     IN /\ hops' = [hops EXCEPT ![s] = Relaxed(s)]
        /\ IF NextSwitches(s) # {}
           THEN work' = [work EXCEPT !.at = Min(NextSwitches(s)), !.changed = changed]
                /\ stage' = stage
           ELSE work' = NoWork /\ stage' = IF changed THEN "relax" ELSE "reach"
  /\ UNCHANGED <<GivenVars, LidVars, lft, rank>>

\* A switch that is still without hops to some LID ends the run.
CheckReach ==
  /\ stage = "reach"
  /\ stage' = IF \E l \in HopLids, s \in Switches :
                     portByLid[l] # NoPort /\ hops[s][l][0] = Unassigned THEN "failed"
              ELSE IF ~opts.design THEN "check"
              ELSE IF opts.updn THEN "roots" ELSE "route"
  /\ UNCHANGED <<GivenVars, LidVars, hops, lft, rank, work>>

-----------------------------------------------------------------------------
(* SubnMgtCalcUpDnMinHopTbls *)

\* Without roots the hops stay as they are.  With roots SubnMgtCalcUpDnMinHopTbls
\* first resets the tables of the switches that have LIDs.
FindRoots ==
  /\ stage = "roots"
  /\ IF Roots = {}
     THEN stage' = "route" /\ UNCHANGED <<hops, rank>>
     ELSE /\ stage' = "updn"
          /\ rank' = RankFrom(Roots)
          /\ hops' = [s \in Switches |->
                        IF LidOfSwitch(s) # 0 THEN SetHops(hops[s], 0, 0, Unassigned)
                        ELSE hops[s]]
  /\ UNCHANGED <<GivenVars, LidVars, lft, work>>

-----------------------------------------------------------------------------
(* SubnMgtUpDnBFSFromPort: hops to one LID, breadth first from its port *)

\* The first switch, which knows the LID by its own port or by that of the CA's cable.
StartUpDn ==
  /\ stage = "updn" /\ work.lid <= maxLid /\ work.queue = <<>> /\ work.visited = {}
  /\ LET p == portByLid[work.lid]
         first == IF p[1] \in Switches THEN p ELSE Remote(p)
         h == IF p[1] \in Switches THEN 0 ELSE 1
     IN IF first[1] \notin Switches
        THEN stage' = "failed" /\ UNCHANGED <<hops, work>>
        ELSE /\ hops' = [hops EXCEPT ![first[1]] = SetHops(@, first[2], work.lid, h)]
             /\ work' = [work EXCEPT !.queue = <<first[1]>>, !.visited = {first[1]},
                                     !.down = [@ EXCEPT ![first[1]] = FALSE]]
             /\ UNCHANGED stage
  /\ UNCHANGED <<GivenVars, LidVars, lft, rank>>

\* The step from s to t leads down; SubnMgtUpDnIsLegelStep is true of the others: down
\* to s and then not down.
Down(s, t) == rank[s] < rank[t]

\* Mutant of Forbidden: any way may be taken.
Allowed(s, t) == FALSE

Forbidden(s, t) == work.down[s] /\ ~Down(s, t)

\* The neighbours get their label even if the step is not taken.  Those that learn of
\* a shorter way are visited next.
SpreadUpDn ==
  /\ stage = "updn" /\ work.queue # <<>>
  /\ LET s == Head(work.queue)
         l == work.lid
         h == hops[s][l][0] + 1
         ports == ToSwitches(s)
         Neighbour(i) == Remote(<<s, i>>)
         taken == {i \in ports :
                     LET q == Neighbour(i) IN
                     ~Forbidden(s, q[1]) /\ h <= hops[q[1]][l][q[2]]}
         Learn(table, i) ==
           [table EXCEPT ![Neighbour(i)[1]] = SetHops(@, Neighbour(i)[2], l, h)]
         shorter == {i \in taken :
                       /\ h < hops[Neighbour(i)[1]][l][0]
                       /\ \A j \in taken : j < i => Neighbour(j)[1] # Neighbour(i)[1]}
         labelled == {Neighbour(i)[1] : i \in ports}
     IN /\ hops' = OverPorts(s, taken, Learn, hops)
        /\ work' = [work EXCEPT
             !.queue = OverPorts(s, shorter, LAMBDA q, i : Append(q, Neighbour(i)[1]), Tail(@)),
             !.visited = @ \cup labelled,
             !.down = [t \in Switches |-> IF t \in labelled THEN Down(s, t) ELSE @[t]]]
  /\ UNCHANGED <<GivenVars, LidVars, lft, stage, rank>>

\* The next LID, and after the last the tables.
EndUpDn ==
  /\ stage = "updn" /\ work.queue = <<>>
  /\ IF work.lid > maxLid
     THEN work' = NoWork /\ stage' = "route"
     ELSE /\ work.visited # {}
          /\ work' = [work EXCEPT !.lid = @ + LidStep, !.visited = {}]
          /\ stage' = stage
  /\ UNCHANGED <<GivenVars, LidVars, hops, lft, rank>>

-----------------------------------------------------------------------------
(* SubnMgtOsmRoute and SubnMgtOsmEnhancedRoute *)

\* Mutant of MinHopPorts: every port with some way to base LID l.
AllHopPorts(s, l) ==
  {i \in 1 .. NumPorts[s] :
     hops[s][l][i] # Unassigned /\ (opts.enhanced => <<s, i>> \in DOMAIN remote)}

\* The ports with the least hops to base LID l.  Enhanced routing asks for a cable.
MinHopPorts(s, l) ==
  {i \in 1 .. NumPorts[s] :
     hops[s][l][i] = hops[s][l][0] /\ (opts.enhanced => <<s, i>> \in DOMAIN remote)}

\* Of these the one with the fewest LIDs so far, the first of several.
LeastUsed(is) ==
  CHOOSE i \in is : \A j \in is :
    work.subs[i] < work.subs[j] \/ (work.subs[i] = work.subs[j] /\ i <= j)

\* Enhanced routing first asks for a system, then for a node, that no other LID of the
\* same port is routed through.
Preferred(s, is) ==
  LET RemNode(i) == Remote(<<s, i>>)[1]
      newSystem == {i \in is : SystemOf[RemNode(i)] \notin work.systems}
      newNode == {i \in is : RemNode(i) \notin work.nodes}
  IN CASE ~opts.enhanced -> is
       [] opts.enhanced /\ newSystem # {} -> newSystem
       [] opts.enhanced /\ newSystem = {} /\ newNode # {} -> newNode
       [] OTHER -> is

\* The entry of the table at the switch for a LID: port 0 for the switch itself.
EntryFor(s, b) ==
  IF LidOfSwitch(s) = b THEN 0
  ELSE IF hops[s][b][0] = Unassigned THEN Unassigned
  ELSE LeastUsed(Preferred(s, MinHopPorts(s, b)))

NoRoute(s, b) ==
  LidOfSwitch(s) # b /\ hops[s][b][0] # Unassigned /\ MinHopPorts(s, b) = {}

\* The LIDs of CAs count as use of the port.  What is inserted in the systems gone
\* through is the system of the switch itself.
Note(s, b, entry) ==
  LET caPort == IF IsCaLid(b) THEN {entry} \cap (1 .. NumPorts[s]) ELSE {}
      out == entry \notin {0, Unassigned}
  IN [work EXCEPT
       !.subs = [i \in DOMAIN @ |-> IF i \in caPort THEN @[i] + 1 ELSE @[i]],
       !.nodes = IF out THEN @ \cup {Remote(<<s, entry>>)[1]} ELSE @,
       !.systems = IF out /\ opts.enhanced THEN @ \cup {SystemOf[s]} ELSE @]

\* Turns go over the LIDs of a base LID, over the base LIDs and over the switches.
AfterLid(w) ==
  CASE w.lid < maxLid + LidStep - 1 /\ w.lid % LidStep # 0 -> [w EXCEPT !.lid = @ + 1]
    [] w.lid < maxLid + LidStep - 1 /\ w.lid % LidStep = 0 ->
         [w EXCEPT !.lid = @ + 1, !.nodes = {}, !.systems = {}]
    [] OTHER -> IF NextSwitches(w.at) = {} THEN NoWork ELSE WorkAt(Min(NextSwitches(w.at)))

RouteLid ==
  /\ stage = "route"
  /\ LET s == work.at
         b == BaseOf(work.lid)
         entry == EntryFor(s, b)
         last == work.lid = maxLid + LidStep - 1 /\ NextSwitches(s) = {}
     IN IF NoRoute(s, b) THEN stage' = "failed" /\ UNCHANGED <<lft, work>>
        ELSE /\ lft' = [lft EXCEPT ![s] = Append(@, entry)]
             /\ work' = AfterLid(Note(s, b, entry))
             /\ stage' = IF last THEN "check" ELSE stage
  /\ UNCHANGED <<GivenVars, LidVars, hops, rank>>

\* An unassigned entry for the LID of a CA counts element 254 of a vector that has an
\* element for each port: the program may go on, as in RouteLid, or end here.
CountPastPorts ==
  /\ stage = "route"
  /\ LET b == BaseOf(work.lid) IN
     ~NoRoute(work.at, b) /\ EntryFor(work.at, b) = Unassigned /\ IsCaLid(b)
  /\ stage' = "crashed"
  /\ UNCHANGED <<GivenVars, LidVars, hops, lft, rank, work>>

DesignNext ==
  \/ AssignLids \/ EndLids
  \/ SeedHops \/ RelaxHops \/ CheckReach
  \/ FindRoots \/ StartUpDn \/ SpreadUpDn \/ EndUpDn
  \/ RouteLid \/ CountPastPorts

-----------------------------------------------------------------------------
(* Properties *)

\* The run works on the nodes that have a way to the subnet manager: the others have
\* no LID.
Member(n) == \E p \in PortsOf(n) : baseLid[p] # 0
MemberSwitches == {s \in Switches : Member(s)}

AssignedLids == 1 .. maxLid + LidStep - 1

\* Every port with LIDs has its own range of them, shared only by the ports of one
\* switch, and PortByLid finds the node from each LID of the range, although
\* SubnMgtAssignLids writes one entry too many for every node.
LidsDisjoint ==
  stage = "reach" =>
    \A p, q \in Ports : baseLid[p] # 0 =>
      /\ baseLid[q] # 0 /\ HasLid(q, baseLid[p]) => p = q \/ (p[1] = q[1] /\ p[1] \in Switches)
      /\ \A l \in DOMAIN portByLid : HasLid(p, l) => portByLid[l][1] = p[1]

\* When the sweeps of SubnMgtCalcMinHopTables end, every column of the table of a switch
\* has the length of the shortest way over switches that begins at that port, and the
\* first the shortest of all.
HopsAreDistances ==
  stage \in {"reach", "roots"} =>
    \A s \in MemberSwitches, l \in HopLids :
      LET to == portByLid[l][1]
          far(t) == LET d == Distance({t}, Switches, to) IN IF d = NumNodes THEN Unassigned ELSE d
      IN /\ hops[s][l][0] = far(s)
         /\ to # s => \A i \in ToSwitches(s) :
              LET d == far(Remote(<<s, i>>)[1]) IN
              hops[s][l][i] = IF d = Unassigned THEN d ELSE d + 1

\* Where the table leads packets for LID l from switch s in so many cables.
Led(s, l, cables) ==
  LET Step == [p \in Ports \cup {NoPort, <<s, 0>>} |->
                 IF p[1] \in Switches THEN Remote(<<p[1], lft[p[1]][l]>>) ELSE NoPort]
  IN Iterate(Step, <<s, 0>>, cables)

\* The tables that SubnMgtOsmRoute and SubnMgtOsmEnhancedRoute fill in lead from every
\* switch to the port of every LID, by exactly as many cables as its table of hops says.
RoutesArrive ==
  stage = "check" /\ opts.design =>
    \A s \in MemberSwitches, l \in AssignedLids :
      LET h == hops[s][BaseOf(l)][0] IN
      CASE h = 0 -> LidOfSwitch(s) = BaseOf(l) /\ lft[s][l] = 0
        [] h = Unassigned -> lft[s][l] = Unassigned
        [] OTHER -> Led(s, l, h) # NoPort /\ HasLid(Led(s, l, h), l)

\* The switches with a way to port p that goes up first and then down, if at all.
LegalTo(p) ==
  LET first == IF p[1] \in Switches THEN p[1] ELSE Remote(p)[1]
      Next(v) == {<<t, Down(v[1], t)>> : t \in
                    {u \in {Remote(<<v[1], i>>)[1] : i \in ToSwitches(v[1])} :
                       v[2] => Down(v[1], u)}}
      Further == [vs \in SUBSET (Switches \X BOOLEAN) |-> vs \cup UNION {Next(v) : v \in vs}]
  IN {v[1] : v \in Iterate(Further, {<<first, FALSE>>}, 2 * NumNodes)}

\* Up/down hops were asked for and roots are known, and no cable stays within a rank, so
\* that each step of a way is up or down.
UpDownDesign ==
  stage = "check" /\ opts.design /\ opts.updn /\ Levelled /\ \E n \in Nodes : rank[n] # 0

\* The ways of the tables never turn up after they went down.
UpThenDown ==
  \A s, t, u \in MemberSwitches, l \in AssignedLids :
    LET Leads(a, b) == lft[a][l] \in 1 .. NumPorts[a] /\ Remote(<<a, lft[a][l]>>)[1] = b
    IN Leads(s, t) /\ Leads(t, u) /\ ~Down(t, s) => ~Down(u, t)

\* On a fabric of two ranks, roots and the switches next to them, the tables made of
\* up/down hops have an entry at a switch exactly when some way goes up first and then
\* down, and the ways of the entries never turn up after they went down.
UpDownRoutes ==
  UpDownDesign /\ (\A s \in Switches : rank[s] <= 1) =>
    /\ \A s \in MemberSwitches, l \in HopLids :
         lft[s][l] = Unassigned <=> s \notin LegalTo(portByLid[l])
    /\ UpThenDown

\* Whatever the number of ranks, the tables follow the Up/Down rule (doc/ibdmsh.pod:493,
\* osm_check.cpp:79).
UpDownRuleKept == UpDownDesign => UpThenDown
===============================================================================
