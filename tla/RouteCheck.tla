------------------------------ MODULE RouteCheck ------------------------------
(***************************************************************************)
(* What osm_check says of the tables of a fabric: do the routes arrive, is *)
(* every multicast group a tree, do the routes keep to up/down, or else    *)
(* can the channels wait for each other in a circle.  One thread; a check  *)
(* that only reads is an action, a search that keeps state has an action   *)
(* for each turn of its loop.                                              *)
(***************************************************************************)
EXTENDS Subnet

CONSTANTS
  Groups,            \* IBFabric::mcGroups
  MaxHops,           \* the longest route that TraceRouteByLFT follows, in the code 257 cables
  CountedHops,       \* the last index of maxHopsHist, in the code 49
  ComparedSwitches   \* the longest route that is compared with those of other LIDs, in the code 15

\* A group is its multicast LID.
ASSUME GroupsAssumption == Groups \subseteq Nat

ASSUME HopsAssumption ==
  MaxHops \in Nat /\ CountedHops \in 0 .. MaxHops /\ ComparedSwitches \in 0 .. MaxHops

VARIABLES
  mft,         \* IBNode::MFT: the ports of a group at each switch
  psl,         \* IBNode::PSL of each node: the service level towards the LIDs of each node
  failures,    \* what the checks found wrong, and with which group; the exit code is 0 if nothing
  search       \* the local variables of the search that runs

CheckGiven == <<GivenVars, LidVars, hops, lft, rank, mft, psl>>
checkVars == <<subnetVars, mft, psl, failures, search>>

NoSearch ==
  [groups |-> Groups, queue |-> <<>>, visited |-> {}, loops |-> FALSE,
   deps |-> <<>>, open |-> {}, closed |-> {}, stack |-> <<>>]

\* A check that fails for good ends the run with exit code 1.
Exit(what) == stage' = "exit" /\ failures' = failures \cup {<<what, 0>>}

-----------------------------------------------------------------------------
(* TraceRouteByLFT *)

Arrived == 0
Lost == -1

Entry(n, l) ==
  IF n \in Switches /\ l \in DOMAIN lft[n] THEN lft[n][l] ELSE Unassigned

\* Mutant of NextNode: port 0 is taken for the target of any LID.
NextNodeTrusting(n, l) ==
  LET e == Entry(n, l)
      q == Remote(<<n, e>>) IN
  CASE e = Unassigned -> Lost
    [] e = 0 -> Arrived
    [] e \notin {0, Unassigned} /\ q = NoPort -> Lost
    [] OTHER -> IF HasLid(q, l) THEN Arrived ELSE q[1]

\* Where switch n sends LID l: to its target, to nowhere, or to another node.
NextNode(n, l) ==
  LET e == Entry(n, l)
      q == Remote(<<n, e>>)
      own == LidOfSwitch(n) IN
  CASE e = Unassigned -> Lost
    [] e = 0 -> IF own # 0 /\ own <= l /\ l < own + LidStep THEN Arrived ELSE Lost
    [] e \notin {0, Unassigned} /\ q = NoPort -> Lost
    [] OTHER -> IF HasLid(q, l) THEN Arrived ELSE q[1]

\* The nodes that a walk from switch n visits.
Trace(n, l) ==
  LET Step == [m \in Nodes \cup {Arrived, Lost} |-> IF m \in Nodes THEN NextNode(m, l) ELSE m]
  IN [k \in 0 .. MaxHops + 1 |-> Iterate(Step, n, k)]

\* The walk arrives over at most h cables: a switch that has the LID takes no other.
Within(n, l, h) ==
  LET at == Trace(n, l) IN at[h + 1] = Arrived /\ (at[h] \in Nodes => Entry(at[h], l) = 0)

\* The switch that a trace from the port of LID l begins at.
StartOf(l) == LET p == portByLid[l] IN IF p[1] \in Switches THEN p[1] ELSE Remote(p)[1]

\* A longer walk is given up for a loop.
Routed(src, dst) == StartOf(src) \in Switches /\ Within(StartOf(src), dst, MaxHops)

\* The first LID of the port that has LID l.
Base(l) == baseLid[portByLid[l]]

\* The routes that are verified: LID src + i is always paired with dst + i.
RoutesOf(lids) ==
  {<<Base(r[1]) + i, Base(r[2]) + i>> :
     r \in {x \in lids \X lids : x[1] # x[2]}, i \in 0 .. LidStep - 1}

AllRouted(lids) == \A r \in RoutesOf(lids) : Routed(r[1], r[2])

\* With more than one LID at a port the switches of a route are compared with those of
\* the route between the first LIDs, and too many of these end the program.
TooLong ==
  LidStep > 1 /\ \E i, j \in CaLids : i # j /\ Trace(StartOf(Base(i)), Base(j))[ComparedSwitches] \in Nodes

VerifyAllCaToCaRoutes ==
  /\ stage = "check"
  /\ IF ~AllRouted(CaLids) \/ TooLong THEN Exit("ca routes")
     ELSE stage' = (IF opts.allPaths THEN "verifyAll" ELSE "groups") /\ UNCHANGED failures
  /\ UNCHANGED <<CheckGiven, search>>

\* The count of a route of more hops is written past the histogram; the program may go on.
CountPastHops ==
  /\ stage = "check"
  /\ \E r \in RoutesOf(CaLids) : Routed(r[1], r[2]) /\ ~Within(StartOf(r[1]), r[2], CountedHops)
  /\ stage' = "crashed"
  /\ UNCHANGED <<CheckGiven, failures, search>>

VerifyAllRoutes ==
  /\ stage = "verifyAll"
  /\ IF AllRouted(LoopLids) THEN stage' = "groups" /\ UNCHANGED failures
     ELSE Exit("all routes")
  /\ UNCHANGED <<CheckGiven, search>>

-----------------------------------------------------------------------------
(* SubnMgtCheckMCGrp: breadth first over the switches of a group *)

Cabled(s, g) == {i \in mft[s][g] : <<s, i>> \in DOMAIN remote}
ServesCa(s, g) == \E i \in Cabled(s, g) : Remote(<<s, i>>)[1] \notin Switches
Serving(g) == {s \in Switches : ServesCa(s, g)}
Group == Min(search.groups)

\* From the first switch with a CA of the group.
StartGroup ==
  /\ stage = "groups" /\ search.groups # {} /\ search.visited = {} /\ search.queue = <<>>
  /\ search' = IF Serving(Group) = {} THEN [search EXCEPT !.groups = @ \ {Group}]
               ELSE [search EXCEPT !.queue = <<<<Min(Serving(Group)), 0>>>>]
  /\ UNCHANGED <<CheckGiven, stage, failures>>

\* Mutant of Onward: the port that the search came by is followed too.
OnwardAndBack(s, in) == {i \in Cabled(s, Group) : Remote(<<s, i>>)[1] \in Switches}

\* The ports of the group that lead on from switch s to a switch.
Onward(s, in) == {i \in Cabled(s, Group) \ {in} : Remote(<<s, i>>)[1] \in Switches}

\* A neighbour that was visited already is a loop; one that does not list the port at
\* its end of the cable is left alone.
VisitMember ==
  /\ stage = "groups" /\ search.queue # <<>>
  /\ LET s == Head(search.queue)[1]
         in == Head(search.queue)[2]
         visited == search.visited \cup {s}
         outs == Onward(s, in)
         loops == {i \in outs : Remote(<<s, i>>)[1] \in visited}
         onward == {i \in outs \ loops :
                      Remote(<<s, i>>)[2] \in mft[Remote(<<s, i>>)[1]][Group]}
     IN search' = [search EXCEPT
          !.queue = Tail(@) \o FarEnds(s, onward),
          !.visited = visited, !.loops = @ \/ loops # {}]
  /\ UNCHANGED <<CheckGiven, stage, failures>>

\* The switches with CAs of the group were all visited, and the visited are of the group.
EndGroup ==
  /\ stage = "groups" /\ search.queue = <<>> /\ search.visited # {}
  /\ LET good == /\ ~search.loops
                 /\ Serving(Group) \subseteq search.visited
                 /\ \A s \in search.visited : mft[s][Group] # {}
     IN failures' = failures \cup IF good THEN {} ELSE {<<"group", Group>>}
  /\ search' = [search EXCEPT !.groups = @ \ {Group}, !.visited = {}, !.loops = FALSE]
  /\ UNCHANGED <<CheckGiven, stage>>

\* Any group that failed ends the run.  With roots the up/down rule is checked, without
\* them the channels are searched for loops.
EndGroups ==
  /\ stage = "groups" /\ search.groups = {}
  /\ IF failures # {} THEN stage' = "exit" /\ UNCHANGED rank
     ELSE IF opts.updn /\ Roots # {} THEN stage' = "report" /\ rank' = RankFrom(Roots)
     ELSE stage' = "graph" /\ UNCHANGED rank
  /\ search' = NoSearch
  /\ UNCHANGED <<GivenVars, LidVars, hops, lft, mft, psl, failures>>

-----------------------------------------------------------------------------
(* SubnReportNonUpDownCa2CaPaths *)

\* A route between switches turns up after it went down or along its level.
TurnsUp(src, dst) ==
  LET at == Trace(StartOf(src), dst)
      up(k) == rank[at[k + 1]] < rank[at[k]]
      steps == {k \in 0 .. MaxHops : at[k] \in Switches /\ at[k + 1] \in Switches}
  IN \E j, k \in steps : j < k /\ ~up(j) /\ up(k)

\* A switch that no way leads to from the roots has no rank.
Ranked(src, dst) == Range(Trace(StartOf(src), dst)) \cap Switches \subseteq Ball(Roots, Nodes, NumNodes)

\* The report on multicast groups that comes after it always returns 0.
ReportNonUpDown ==
  /\ stage = "report"
  /\ IF \E i, j \in CaLids :
          i # j /\ (TurnsUp(Base(i), Base(j)) \/ ~Ranked(Base(i), Base(j)))
     THEN Exit("updown")
     ELSE stage' = "exit" /\ UNCHANGED failures
  /\ UNCHANGED <<CheckGiven, search>>

-----------------------------------------------------------------------------
(* CrdLoopAnalyze: a channel is a port that sends and a virtual lane *)

\* The port a route leaves its source by, and then one port for each switch on its way.
PortsOnRoute(src, dst) ==
  LET p == portByLid[src]
      at == Trace(StartOf(src), dst)
      sent == {k \in 0 .. MaxHops : at[k] \in Switches /\ Entry(at[k], dst) # 0}
      out == [k \in 1 .. Cardinality(sent) |-> <<at[k - 1], Entry(at[k - 1], dst)>>]
  IN CASE p[1] \in Switches -> out
       [] p[1] \notin Switches /\ HasLid(Remote(p), dst) -> <<p>>
       [] OTHER -> <<p>> \o out

\* CrdLoopConnectUcastDepend: each port waits for the next, on the lane of the route.
UcastDeps ==
  LET lids == IF opts.allPaths THEN LoopLids ELSE CaLids
      pairs == {r \in lids \X lids : r[1] # r[2]}
      deps(src, dst) ==
        LET way == PortsOnRoute(src, dst)
            lane == psl[portByLid[src][1]][portByLid[dst][1]]
        IN {<<<<way[k], lane>>, <<way[k + 1], lane>>>> : k \in 1 .. Len(way) - 1}
  IN UNION {deps(Base(r[1]), Base(r[2]) + i) : r \in pairs, i \in 0 .. LidStep - 1}

\* CrdLoopConnectMcastDepend: at a switch of a group every port that brings in packets
\* of another switch waits for every other port of the group; groups use lane 0.
McastPairs(s) ==
  UNION {{x \in mft[s][g] \X mft[s][g] : x[1] # x[2]} : g \in Groups}

McastDeps ==
  UNION {{<<<<Remote(<<s, x[1]>>), 0>>, <<<<s, x[2]>>, 0>>>> :
            x \in {y \in McastPairs(s) : Remote(<<s, y[1]>>)[1] \in Switches}} : s \in Switches}

McastFault == \E s \in Switches : \E x \in McastPairs(s) : <<s, x[1]>> \notin DOMAIN remote

BuildGraph ==
  /\ stage = "graph"
  /\ IF opts.mcast /\ McastFault
     THEN Exit("graph") /\ UNCHANGED search
     ELSE /\ stage' = "loops"
          /\ search' = [search EXCEPT !.deps = UcastDeps \cup IF opts.mcast THEN McastDeps ELSE {}]
          /\ UNCHANGED failures
  /\ UNCHANGED CheckGiven

\* The channels of CAs that the search has not come to, in the order it looks at them.
NumSls == Max(UNION {Range(psl[n]) : n \in Nodes}) + 1

Untouched ==
  {u \in CaLids \X (0 .. NumSls - 1) : <<portByLid[u[1]], u[2]>> \notin search.closed}

Visit(ch) ==
  [search EXCEPT !.open = @ \cup {ch}, !.stack = Append(@, [ch |-> ch, tried |-> 0])]

StartLoopSearch ==
  /\ stage = "loops" /\ search.stack = <<>>
  /\ IF Untouched = {} THEN stage' = "exit" /\ UNCHANGED search
     ELSE LET l == Min({u[1] : u \in Untouched})
              v == Min({u[2] : u \in {x \in Untouched : x[1] = l}})
          IN search' = Visit(<<portByLid[l], v>>) /\ stage' = stage
  /\ UNCHANGED <<CheckGiven, failures>>

Top == search.stack[Len(search.stack)]

\* The dependencies of the channel on top that it has not yet followed.
Pending(frame) ==
  {d[2] : d \in {x \in search.deps : x[1] = frame.ch /\ x[2][1][2] > frame.tried}}

\* Mutant of OnStack: a channel that was seen before is taken for a loop.
SeenBefore(ch) == ch \in search.open \cup search.closed

OnStack(ch) == ch \in search.open

\* CrdLoopDFS: a channel that is still open is a loop; a closed one leads to none.
FollowDependency ==
  /\ stage = "loops" /\ search.stack # <<>> /\ Pending(Top) # {}
  /\ LET ch == CHOOSE c \in Pending(Top) : \A d \in Pending(Top) : c[1][2] <= d[1][2]
         tried == [search EXCEPT !.stack[Len(search.stack)].tried = ch[1][2]]
     IN IF OnStack(ch) THEN Exit("loop") /\ UNCHANGED search
        ELSE /\ search' = IF ch \in search.closed THEN tried
                          ELSE [tried EXCEPT !.open = @ \cup {ch},
                                             !.stack = Append(@, [ch |-> ch, tried |-> 0])]
             /\ UNCHANGED <<stage, failures>>
  /\ UNCHANGED CheckGiven

\* Mutant of CloseChannel: the flag goes back to what it was.
ReopenChannel ==
  /\ stage = "loops" /\ search.stack # <<>> /\ Pending(Top) = {}
  /\ search' = [search EXCEPT !.stack = SubSeq(@, 1, Len(@) - 1), !.open = @ \ {Top.ch}]
  /\ UNCHANGED <<CheckGiven, stage, failures>>

CloseChannel ==
  /\ stage = "loops" /\ search.stack # <<>> /\ Pending(Top) = {}
  /\ search' = [search EXCEPT !.stack = SubSeq(@, 1, Len(@) - 1),
                              !.open = @ \ {Top.ch}, !.closed = @ \cup {Top.ch}]
  /\ UNCHANGED <<CheckGiven, stage, failures>>

CheckNext ==
  \/ VerifyAllCaToCaRoutes \/ CountPastHops \/ VerifyAllRoutes
  \/ StartGroup \/ VisitMember \/ EndGroup \/ EndGroups
  \/ ReportNonUpDown
  \/ BuildGraph \/ StartLoopSearch \/ FollowDependency \/ CloseChannel

-----------------------------------------------------------------------------
(* Properties: what the checks say against what the tables do *)

\* The nodes that the steps of f lead to from S.
Closure(S, f(_)) ==
  Iterate([ball \in SUBSET Nodes |-> ball \cup UNION {f(n) : n \in ball}], S, NumNodes)

Found(whats) == \E f \in failures : f[1] \in whats

OutPort(n, l) == <<n, Entry(n, l)>>

\* The switches from which packets for LID l get to a port that has it over at most h cables.
Delivering(l, h) ==
  LET home == {s \in Switches : Entry(s, l) = 0 /\ \E p \in PortsOf(s) : baseLid[p] # 0 /\ HasLid(p, l)}
      Before == [near \in SUBSET Switches |->
                   near \cup {s \in Switches :
                     LET q == Remote(OutPort(s, l)) IN q[1] \in near \/ (q # NoPort /\ HasLid(q, l))}]
  IN Iterate(Before, home, h)

Sources == {p \in DOMAIN remote : baseLid[p] # 0 /\ (p[1] \in Switches => opts.allPaths)}
SwitchOf(p) == IF p[1] \in Switches THEN p[1] ELSE Remote(p)[1]

\* SubnMgtVerifyAllCaToCaRoutes and SubnMgtVerifyAllRoutes find fault exactly when the
\* tables do not bring the packets of some port to some LID of another node over as many
\* cables as a trace follows, although they trace only one of the LIDs of the source with
\* each LID of the destination; or when ports have more than one LID and the route of a CA
\* to the first LID of another has more switches than they can compare.
RoutesVerdict ==
  stage = "exit" =>
    (~Found({"ca routes", "all routes"}) <=>
       /\ \A p, q \in Sources, i \in 0 .. LidStep - 1 :
            p[1] # q[1] => SwitchOf(p) \in Delivering(baseLid[q] + i, MaxHops)
       /\ LidStep > 1 =>
            \A p, q \in Sources :
              p[1] # q[1] /\ p[1] \notin Switches /\ q[1] \notin Switches =>
                SwitchOf(p) \in Delivering(baseLid[q], ComparedSwitches))

RoutesGood == stage = "exit" /\ ~Found({"ca routes", "all routes"})

\* The cables between switches that group g uses in both directions, or in one.
BothWays(g) ==
  {p \in DOMAIN remote : /\ p[1] \in Switches /\ remote[p][1] \in Switches
                         /\ p[2] \in mft[p[1]][g] /\ remote[p][2] \in mft[remote[p][1]][g]}
OneWay(g) ==
  {p \in DOMAIN remote : /\ p[1] \in Switches /\ remote[p][1] \in Switches
                         /\ p[2] \in mft[p[1]][g] /\ remote[p][2] \notin mft[remote[p][1]][g]}

Joined(n, g) == Closure({n}, LAMBDA m : {remote[p][1] : p \in {q \in BothWays(g) : q[1] = m}})

\* SubnMgtCheckMCGrp accepts a group only if the cables of the group join all switches
\* with a CA of the group and join them without a loop: there is one cable less than
\* switches.  If all cables are used both ways it accepts no fewer.
GroupVerdict ==
  RoutesGood =>
    \A g \in Groups :
      LET joined == Joined(Min(Serving(g)), g)
          tree == /\ Serving(g) \subseteq joined
                  /\ Cardinality({p \in BothWays(g) : p[1] \in joined}) = 2 * Cardinality(joined) - 2
      IN IF Serving(g) = {} THEN <<"group", g>> \notin failures
         ELSE /\ <<"group", g>> \notin failures => tree
              /\ tree /\ OneWay(g) = {} => <<"group", g>> \notin failures

GroupsGood == RoutesGood /\ ~Found({"group"})

\* The channels on which CAs send to each other, and what each waits for.
Waits ==
  LET cas == {p \in Sources : p[1] \notin Switches}
      sl(p, q) == psl[p[1]][q[1]]
      waits(q, l, v) ==
        LET from == {p \in cas : p # q /\ sl(p, q) = v /\ ~HasLid(Remote(p), l)}
            on == Closure({SwitchOf(p) : p \in from},
                          LAMBDA n : {Remote(OutPort(n, l))[1]} \cap Switches)
            into == from \cup {OutPort(n, l) : n \in on}
        IN {<<<<p, v>>, <<OutPort(Remote(p)[1], l), v>>>> : p \in {r \in into : Remote(r)[1] \in on}}
  IN UNION {waits(q, baseLid[q] + i, v) : q \in cas, i \in 0 .. LidStep - 1, v \in 0 .. NumSls - 1}

\* What is left when channels that wait for nothing that is left are taken away.
HasCycle(deps) ==
  LET Waiting == [left \in SUBSET deps |-> {d \in left : \E e \in left : e[1] = d[2]}]
  IN Iterate(Waiting, deps, Cardinality(deps)) # {}

\* Exit code 0 means that the channels of CA to CA routes cannot wait for each other in
\* a circle, be it that CrdLoopAnalyze searched them all or, on a fabric in levels,
\* that SubnReportNonUpDownCa2CaPaths saw no route turn up.  CrdLoopAnalyze reports a loop
\* only if there is one.
LoopVerdict ==
  GroupsGood =>
    /\ failures = {} /\ (rank # [n \in Nodes |-> 0] => Levelled) => ~HasCycle(Waits)
    /\ Found({"loop"}) => HasCycle(IF opts.allPaths \/ opts.mcast THEN search.deps ELSE Waits)
===============================================================================
