----------------------------- MODULE SubnetProofs -----------------------------
(***************************************************************************)
(* Proofs about osm_check: on any fabric and with any LMC, about the LIDs  *)
(* that SubnMgtAssignLids gives, the tables of hops that                   *)
(* SubnMgtCalcMinHopTables and SubnMgtUpDnBFSFromPort work out, and the    *)
(* forwarding tables made from them; about the LIDs that the files of a    *)
(* subnet manager give, if no two ports are given one LID; and about what  *)
(* SubnMgtVerifyAllCaToCaRoutes and SubnMgtVerifyAllRoutes find.           *)
(***************************************************************************)
EXTENDS OsmCheck, DataLemmas, TLAPS

\* What LidsDisjoint says, in every state.
LidsApart ==
  \A p, q \in Ports : baseLid[p] # 0 =>
    /\ baseLid[q] # 0 /\ HasLid(q, baseLid[p]) => p = q \/ (p[1] = q[1] /\ p[1] \in Switches)
    /\ \A l \in DOMAIN portByLid : HasLid(p, l) => portByLid[l][1] = p[1]

\* The fields of the local variables.
WorkRecord ==
  work = [queue |-> work.queue, visited |-> work.visited, lid |-> work.lid, at |-> work.at,
          changed |-> work.changed, down |-> work.down, subs |-> work.subs,
          nodes |-> work.nodes, systems |-> work.systems]

\* While LIDs are given, those given so far are below the next one, and PortByLid
\* has an entry for each of them.
LidsBelow ==
  /\ WorkRecord
  /\ work.lid \in Nat /\ 1 .. work.lid - 1 \subseteq DOMAIN portByLid
  /\ \A p \in Ports : baseLid[p] # 0 => baseLid[p] + LidStep <= work.lid

LidsInv ==
  /\ LidStep \in Nat \ {0} /\ baseLid \in [Ports -> Nat]
  /\ LidsApart /\ (stage = "lids" => LidsBelow)

\* Local variables that are left alone keep their values.
LEMMA FieldsKept ==
  ASSUME WorkRecord
  PROVE  /\ \A q : work' = [work EXCEPT !.queue = q] =>
              WorkRecord' /\ work'.lid = work.lid /\ work'.visited = work.visited /\ work'.queue = q
         /\ \A v, l, q : work' = [work EXCEPT !.visited = v, !.lid = l, !.queue = q] =>
              WorkRecord' /\ work'.lid = l /\ work'.visited = v /\ work'.queue = q
<1>1. ASSUME NEW q, work' = [work EXCEPT !.queue = q]
      PROVE  WorkRecord' /\ work'.lid = work.lid /\ work'.visited = work.visited /\ work'.queue = q
  BY <1>1, SMT DEF WorkRecord
<1>2. ASSUME NEW v, NEW l, NEW q, work' = [work EXCEPT !.visited = v, !.lid = l, !.queue = q]
      PROVE  WorkRecord' /\ work'.lid = l /\ work'.visited = v /\ work'.queue = q
  <2>1. PICK x : x = [work EXCEPT !.visited = v]
    OBVIOUS
  <2>2. x = [queue |-> work.queue, visited |-> v, lid |-> work.lid, at |-> work.at,
             changed |-> work.changed, down |-> work.down, subs |-> work.subs,
             nodes |-> work.nodes, systems |-> work.systems]
    BY <2>1, SMT DEF WorkRecord
  <2>3. PICK y : y = [x EXCEPT !.lid = l]
    OBVIOUS
  <2>4. y = [queue |-> work.queue, visited |-> v, lid |-> l, at |-> work.at,
             changed |-> work.changed, down |-> work.down, subs |-> work.subs,
             nodes |-> work.nodes, systems |-> work.systems]
    BY <2>2, <2>3, SMT
  <2>5. work' = [y EXCEPT !.queue = q]
    BY <1>2, <2>1, <2>3, Zenon
  <2>6. work' = [queue |-> q, visited |-> v, lid |-> l, at |-> work.at,
                 changed |-> work.changed, down |-> work.down, subs |-> work.subs,
                 nodes |-> work.nodes, systems |-> work.systems]
    BY <2>4, <2>5, SMT
  <2> QED
    BY <2>6, SMT DEF WorkRecord
<1> QED
  BY <1>1, <1>2, Zenon

\* A node that is visited gets LIDs above those of all others.
LEMMA LidsAssign ==
  ASSUME LidsInv, AssignLids
  PROVE  LidsInv'
<1>0. WorkRecord
  BY DEF AssignLids, LidsInv, LidsBelow
<1>1. CASE Head(work.queue)[1] \in work.visited
  <2>1. UNCHANGED <<opts, baseLid, portByLid, stage>>
    BY <1>1, SMT DEF AssignLids, GivenVars
  <2>2. work' = [work EXCEPT !.queue = Tail(@)]
    BY <1>1, SMT DEF AssignLids
  <2>3. WorkRecord' /\ work'.lid = work.lid
    BY <1>0, <2>2, FieldsKept, Zenon
  <2> QED
    BY <2>1, <2>3 DEF LidsInv, LidsApart, LidsBelow, HasLid, LidStep
<1>2. CASE Head(work.queue)[1] \notin work.visited
  <2> DEFINE first == Head(work.queue)
             n == first[1]
  <2>1. PICK given, listed, l, step :
          /\ l = work.lid /\ step = LidStep
          /\ given = (IF n \in Switches THEN PortsOf(n) ELSE {first})
          /\ listed = (IF n \in Switches THEN <<n, NumPorts[n]>> ELSE first)
    OBVIOUS
  <2>2. /\ baseLid' = [q \in Ports |-> IF q \in given THEN l ELSE baseLid[q]]
        /\ portByLid' = [k \in 1 .. l + step |-> IF k < l THEN portByLid[k] ELSE listed]
    BY <1>2, <2>1, SMT DEF AssignLids
  <2>3. PICK visited, queue :
          work' = [work EXCEPT !.visited = visited, !.lid = l + step, !.queue = queue]
    <3>1. work' = [work EXCEPT !.visited = @ \cup {n}, !.lid = work.lid + LidStep,
                               !.queue = Tail(@) \o Unvisited(n, work.visited \cup {n})]
      BY <1>2, SMT DEF AssignLids
    <3>2. l + step = work.lid + LidStep
      BY <2>1
    <3> QED
      BY <3>1, <3>2
  <2>17. WorkRecord' /\ work'.lid = l + step
    BY <1>0, <2>3, FieldsKept, Zenon
  <2>4. opts' = opts /\ stage' = stage /\ stage = "lids" /\ LidStep' = step
    BY <2>1, SMT DEF AssignLids, GivenVars, LidStep
  <2>5. \A p, q \in given : p = q \/ (p[1] = q[1] /\ p[1] \in Switches)
    BY <2>1 DEF PortsOf
  <2>6. \A p \in given : p[1] = listed[1]
    BY <2>1 DEF PortsOf
  <2>7. l \in Nat /\ step \in Nat \ {0} /\ baseLid \in [Ports -> Nat]
    BY <2>1, <2>4 DEF LidsInv, LidsBelow
  <2>8. \A p \in Ports : baseLid[p] # 0 => baseLid[p] + step <= l
    BY <2>1, <2>4 DEF LidsInv, LidsBelow
  <2>9. \A p, q \in Ports : baseLid[p] # 0 =>
          /\ baseLid[q] # 0 /\ baseLid[q] <= baseLid[p] /\ baseLid[p] <= baseLid[q] + step - 1 =>
               p = q \/ (p[1] = q[1] /\ p[1] \in Switches)
          /\ \A k \in DOMAIN portByLid :
               baseLid[p] <= k /\ k <= baseLid[p] + step - 1 => portByLid[k][1] = p[1]
    BY <2>1 DEF LidsInv, LidsApart, HasLid
  <2>10. 1 .. l - 1 \subseteq DOMAIN portByLid
    BY <2>1, <2>4 DEF LidsInv, LidsBelow
  <2>11. baseLid' \in [Ports -> Nat]
    BY <2>2, <2>7
  <2>12. ASSUME NEW p \in Ports, baseLid'[p] # 0
         PROVE  baseLid'[p] + step <= l + step
    BY <2>2, <2>7, <2>8, <2>12
  <2>13. ASSUME NEW p \in Ports, NEW q \in Ports, baseLid'[p] # 0, baseLid'[q] # 0,
                baseLid'[q] <= baseLid'[p], baseLid'[p] <= baseLid'[q] + step - 1
         PROVE  p = q \/ (p[1] = q[1] /\ p[1] \in Switches)
    <3>1. CASE p \in given /\ q \in given
      BY <2>5, <3>1
    <3>2. CASE p \notin given /\ q \notin given
      BY <2>2, <2>9, <2>13, <3>2
    <3>3. CASE ~(p \in given <=> q \in given)
      BY <2>2, <2>7, <2>8, <2>13, <3>3
    <3> QED
      BY <3>1, <3>2, <3>3
  <2>14. ASSUME NEW p \in Ports, baseLid'[p] # 0, NEW k \in DOMAIN portByLid',
                baseLid'[p] <= k, k <= baseLid'[p] + step - 1
         PROVE  portByLid'[k][1] = p[1]
    <3>1. k \in Nat /\ k \in 1 .. l + step
      BY <2>2, <2>7, <2>14
    <3>2. CASE p \in given
      <4>1. ~(k < l)
        BY <2>2, <2>7, <2>14, <3>1, <3>2
      <4>2. portByLid'[k] = listed
        BY <2>2, <3>1, <4>1
      <4> QED
        BY <2>6, <3>2, <4>2
    <3>3. CASE p \notin given
      <4>1. baseLid'[p] = baseLid[p]
        BY <2>2, <3>3
      <4>2. k < l /\ k \in DOMAIN portByLid
        BY <2>7, <2>8, <2>10, <2>14, <3>1, <4>1
      <4>3. portByLid'[k] = portByLid[k]
        BY <2>2, <3>1, <4>2
      <4> QED
        BY <2>9, <2>14, <4>1, <4>2, <4>3
    <3> QED
      BY <3>2, <3>3
  <2>15. LidsApart'
    BY <2>4, <2>13, <2>14 DEF LidsApart, HasLid
  <2>16. LidsBelow'
    <3>1. work'.lid \in Nat
      BY <2>17, <2>7
    <3>2. DOMAIN portByLid' = 1 .. l + step
      BY <2>2
    <3>3. 1 .. work'.lid - 1 \subseteq DOMAIN portByLid'
      BY <2>17, <2>7, <3>2
    <3> QED
      BY <2>4, <2>12, <2>17, <3>1, <3>3 DEF LidsBelow
  <2> QED
    BY <2>4, <2>7, <2>11, <2>15, <2>16 DEF LidsInv
<1> QED
  BY <1>1, <1>2

\* A walk over a multicast group changes nothing but itself.
LEMMA GroupSteps ==
  /\ StartGroup => stage = "groups" /\ UNCHANGED <<CheckGiven, stage, failures>>
  /\ VisitMember => stage = "groups" /\ UNCHANGED <<CheckGiven, stage, failures>>
<1>1. StartGroup => stage = "groups" /\ UNCHANGED <<CheckGiven, stage, failures>>
  BY SMT DEF StartGroup
<1>2. VisitMember => stage = "groups" /\ UNCHANGED <<CheckGiven, stage, failures>>
  BY Zenon DEF VisitMember
<1> QED
  BY <1>1, <1>2

\* What a step that has nothing to do with the LIDs leaves alone.
LidsFrozen ==
  stage # "lids" /\ stage' # "lids" /\ UNCHANGED <<remote, opts, baseLid, portByLid, maxLid>>

\* The steps of design mode after EndLids, and those of the checks, give no LIDs.
LEMMA OthersKeepLids ==
  /\ DesignNext => AssignLids \/ EndLids \/ LidsFrozen
  /\ CheckNext => LidsFrozen
<1>1. ASSUME DesignNext, ~AssignLids, ~EndLids
      PROVE  LidsFrozen
  <2>1. CASE SeedHops
    <3>1. SeedHops => stage = "seed" /\ UNCHANGED <<GivenVars, LidVars>>
      BY ZenonT(60) DEF SeedHops
    <3>2. SeedHops => stage' = "relax" \/ stage' = stage
      BY ZenonT(60) DEF SeedHops
    <3> QED
      BY <2>1, <3>1, <3>2 DEF GivenVars, LidVars, LidsFrozen
  <2>2. CASE RelaxHops
    BY <2>2 DEF RelaxHops, GivenVars, LidVars, LidsFrozen
  <2>3. CASE CheckReach
    BY <2>3 DEF CheckReach, GivenVars, LidVars, LidsFrozen
  <2>4. CASE FindRoots
    BY <2>4, SMTT(30) DEF FindRoots, GivenVars, LidVars, LidsFrozen
  <2>5. CASE StartUpDn
    <3>1. StartUpDn => stage = "updn" /\ UNCHANGED <<GivenVars, LidVars>>
      BY ZenonT(60) DEF StartUpDn
    <3>2. StartUpDn => stage' = "failed" \/ stage' = stage
      BY ZenonT(60) DEF StartUpDn
    <3> QED
      BY <2>5, <3>1, <3>2 DEF GivenVars, LidVars, LidsFrozen
  <2>6. CASE SpreadUpDn \/ EndUpDn
    BY <2>6 DEF SpreadUpDn, EndUpDn, GivenVars, LidVars, LidsFrozen
  <2>7. CASE RouteLid \/ CountPastPorts
    BY <2>7 DEF RouteLid, CountPastPorts, GivenVars, LidVars, LidsFrozen
  <2> QED
    BY <1>1, <2>1, <2>2, <2>3, <2>4, <2>5, <2>6, <2>7 DEF DesignNext
<1>2. ASSUME CheckNext
      PROVE  LidsFrozen
  <2>1. CASE VerifyAllCaToCaRoutes \/ CountPastHops \/ VerifyAllRoutes
    BY <2>1 DEF VerifyAllCaToCaRoutes, CountPastHops, VerifyAllRoutes, CheckGiven, GivenVars, LidVars, Exit, LidsFrozen
  <2>2. CASE StartGroup \/ VisitMember
    BY <2>2, GroupSteps DEF CheckGiven, GivenVars, LidVars, LidsFrozen
  <2>3. CASE EndGroup \/ EndGroups
    BY <2>3 DEF EndGroup, EndGroups, CheckGiven, GivenVars, LidVars, LidsFrozen
  <2>4. CASE ReportNonUpDown
    <3>1. ReportNonUpDown => stage = "report" /\ stage' = "exit" /\ UNCHANGED CheckGiven
      BY SMT DEF ReportNonUpDown, Exit
    <3> QED
      BY <2>4, <3>1 DEF CheckGiven, GivenVars, LidVars, LidsFrozen
  <2>5. CASE BuildGraph
    BY <2>5 DEF BuildGraph, CheckGiven, GivenVars, LidVars, Exit, LidsFrozen
  <2>6. CASE StartLoopSearch \/ FollowDependency \/ CloseChannel
    BY <2>6 DEF StartLoopSearch, FollowDependency, CloseChannel, CheckGiven, GivenVars, LidVars,
                Exit, LidsFrozen
  <2> QED
    BY <1>2, <2>1, <2>2, <2>3, <2>4, <2>5, <2>6 DEF CheckNext
<1> QED
  BY <1>1, <1>2

\* The options never change.
LEMMA OptionsKept == [Next \/ Done]_vars => opts' = opts
<1>1. AssignLids => opts' = opts
  BY SMT DEF AssignLids, GivenVars
<1>2. EndLids => opts' = opts
  BY SMT DEF EndLids, GivenVars
<1> QED
  BY <1>1, <1>2, OthersKeepLids DEF Next, Design, Check, Done, vars, subnetVars, LidsFrozen

\* Nothing else gives LIDs.
LEMMA LidsStep == LidsInv /\ [Next \/ Done]_vars => LidsInv'
<1> SUFFICES ASSUME LidsInv, [Next \/ Done]_vars
             PROVE  LidsInv'
  OBVIOUS
<1>1. CASE AssignLids
  BY <1>1, LidsAssign
<1>2. ASSUME UNCHANGED <<opts, baseLid, portByLid>>, stage' # "lids"
      PROVE  LidsInv'
  BY <1>2 DEF LidsInv, LidsApart, HasLid, LidStep
<1>3. CASE UNCHANGED vars
  BY <1>3 DEF vars, subnetVars, LidsInv, LidsApart, LidsBelow, WorkRecord, HasLid, LidStep
<1>4. EndLids => UNCHANGED <<opts, baseLid, portByLid>> /\ stage' # "lids"
  BY SMT DEF EndLids, GivenVars
<1> QED
  BY <1>1, <1>2, <1>3, <1>4, OthersKeepLids DEF Next, Design, Check, Done, LidsFrozen

\* A run in design mode begins without LIDs.
LEMMA DesignBegins == DesignMode => LidsInv
<1> SUFFICES ASSUME DesignMode PROVE LidsInv
  OBVIOUS
<1>1. LidStep \in Nat \ {0}
  BY DesignAssumption, SMT DEF DesignMode, DesignInit, LidStep
<1>2. baseLid = [p \in Ports |-> 0]
  BY DEF DesignMode, DesignInit
<1>3. WorkRecord /\ work.lid = 1
  <2>1. work = [NoWork EXCEPT !.queue = <<opts.sm>>]
    BY SMT DEF DesignMode, DesignInit
  <2>2. NoWork.lid = 1
    BY SMT DEF NoWork, WorkAt
  <2>3. NoWork = [queue |-> NoWork.queue, visited |-> NoWork.visited, lid |-> NoWork.lid,
                  at |-> NoWork.at, changed |-> NoWork.changed, down |-> NoWork.down,
                  subs |-> NoWork.subs, nodes |-> NoWork.nodes, systems |-> NoWork.systems]
    BY SMT DEF NoWork, WorkAt
  <2> QED
    BY <2>1, <2>2, <2>3, SMT DEF WorkRecord
<1> QED
  BY <1>1, <1>2, <1>3 DEF LidsInv, LidsApart, LidsBelow

\* No two ports are given one LID by the files, other than the ports of one switch.
FilesGood ==
  \A v \in Verifications : \A p, q \in DOMAIN v.remote :
    /\ v.lid[p[1]] # 0 /\ v.lid[q[1]] # 0
    /\ v.lid[q[1]] <= v.lid[p[1]] /\ v.lid[p[1]] <= v.lid[q[1]] + 2 ^ v.opts.lmc - 1
    => p = q \/ (p[1] = q[1] /\ p[1] \in Switches)

\* The greatest of equal numbers.
LEMMA MaxOfOne ==
  ASSUME NEW x \in Int
  PROVE  Max({x}) = x
  BY DEF Max

\* The last line with a LID is one about the node that has it.
LEMMA FilesRead ==
  ASSUME FilesGood, VerificationMode
  PROVE  LidsInv
<1>1. PICK v \in Verifications :
        /\ opts = v.opts
        /\ baseLid = [p \in Ports |-> IF p \in DOMAIN v.remote THEN v.lid[p[1]] ELSE 0]
  BY SMT DEF VerificationMode
<1>2. stage = "seed" /\ portByLid = [l \in 1 .. maxLid |-> LastWithLid(l)]
  BY SMT DEF VerificationMode
<1>3. PICK step : step = LidStep
  OBVIOUS
<1>4. step = 2 ^ v.opts.lmc /\ step \in Nat \ {0}
  BY <1>1, <1>3, VerificationAssumption DEF LidStep
<1>5. DOMAIN v.remote \subseteq Ports /\ v.lid \in [Nodes -> Nat]
  BY VerificationAssumption DEF IsWiring
<1>6. \A p \in Ports : p[1] \in Nodes /\ p = <<p[1], p[2]>>
  BY DEF Ports, PortsOf
<1>7. baseLid \in [Ports -> Nat]
  BY <1>1, <1>5, <1>6
<1>8. ASSUME NEW p \in Ports, NEW q \in Ports, baseLid[p] # 0, baseLid[q] # 0,
             baseLid[q] <= baseLid[p], baseLid[p] <= baseLid[q] + step - 1
      PROVE  p = q \/ (p[1] = q[1] /\ p[1] \in Switches)
  <2>1. /\ p \in DOMAIN v.remote /\ baseLid[p] = v.lid[p[1]]
        /\ q \in DOMAIN v.remote /\ baseLid[q] = v.lid[q[1]]
    BY <1>1, <1>8
  <2> QED
    BY <1>4, <1>8, <2>1 DEF FilesGood
<1>9. ASSUME NEW p \in Ports, baseLid[p] # 0, NEW l \in 1 .. maxLid, HasLid(p, l)
      PROVE  LastWithLid(l)[1] = p[1]
  <2> DEFINE with == {q \in Ports : baseLid[q] # 0 /\ HasLid(q, l)}
  <2>1. p \in with
    BY <1>9
  <2>2. ASSUME NEW q \in with
        PROVE  q[1] = p[1]
    <3>1. CASE baseLid[q] <= baseLid[p]
      <4>1. baseLid[p] <= baseLid[q] + step - 1
        BY <1>3, <1>4, <1>7, <1>9, <3>1 DEF HasLid
      <4> QED
        BY <1>8, <1>9, <3>1, <4>1
    <3>2. CASE baseLid[p] <= baseLid[q]
      <4>1. baseLid[q] <= baseLid[p] + step - 1
        BY <1>3, <1>4, <1>7, <1>9, <3>2 DEF HasLid
      <4> QED
        BY <1>8, <1>9, <3>2, <4>1
    <3> QED
      BY <1>7, <3>1, <3>2
  <2>3. {q[1] : q \in with} = {p[1]}
    BY <2>1, <2>2
  <2>4. Max({p[1]}) = p[1]
    BY <1>6, MaxOfOne, SubnetAssumption DEF Nodes
  <2> QED
    BY <2>1, <2>3, <2>4 DEF LastWithLid
<1>10. LidsApart
  BY <1>2, <1>3, <1>8, <1>9 DEF LidsApart, HasLid
<1> QED
  BY <1>2, <1>3, <1>4, <1>7, <1>10 DEF LidsInv

\* SubnMgtAssignLids gives every port of the fabric its own LIDs, and PortByLid leads from
\* each of them to the port's node, although a loop of it goes one LID too far: for any
\* cabling, any port of the subnet manager and any LMC.
THEOREM DesignedLidsDisjoint == Spec => [](opts.design => LidsDisjoint)
<1>1. Init => (opts.design => LidsInv)
  <2>1. VerificationMode => ~opts.design
    BY VerificationAssumption, SMT DEF VerificationMode
  <2> QED
    BY <2>1, DesignBegins DEF Init
<1>2. (opts.design => LidsInv) /\ [Next \/ Done]_vars => (opts.design => LidsInv)'
  <2> SUFFICES ASSUME opts.design => LidsInv, [Next \/ Done]_vars, opts'.design
               PROVE  LidsInv'
    OBVIOUS
  <2>1. opts' = opts
    BY OptionsKept
  <2> QED
    BY <2>1, LidsStep
<1>3. LidsInv => LidsDisjoint
  BY DEF LidsInv, LidsApart, LidsDisjoint
<1> QED
  BY <1>1, <1>2, <1>3, PTL DEF Spec

\* The same of the LIDs that the files of a subnet manager give, if these give no LID to
\* two ports: the lines of the file go over each other for the ports of one switch only.
THEOREM FiledLidsDisjoint ==
  ASSUME FilesGood
  PROVE  Spec => []LidsDisjoint
<1>1. Init => LidsInv
  BY DesignBegins, FilesRead DEF Init
<1>2. LidsInv => LidsDisjoint
  BY DEF LidsInv, LidsApart, LidsDisjoint
<1> QED
  BY <1>1, <1>2, LidsStep, PTL DEF Spec

-----------------------------------------------------------------------------
(* Balls and distances *)

\* One more cable from S over nodes of Via.
Further(Via, ball) ==
  ball \cup {remote[p][1] : p \in {q \in DOMAIN remote : q[1] \in ball \cap Via}}

\* A ball is widened cable by cable.
LEMMA BallIsIterated ==
  ASSUME IsWiring(remote), NEW S \in SUBSET Nodes, NEW Via
  PROVE  /\ Ball(S, Via, 0) = S
         /\ \A k \in Nat, m \in Nat : m = k + 1 =>
              Ball(S, Via, k) \in SUBSET Nodes /\ Ball(S, Via, m) = Further(Via, Ball(S, Via, k))
<1> PICK f : f = [ball \in SUBSET Nodes |-> Further(Via, ball)]
  OBVIOUS
<1>1. \A ball \in SUBSET Nodes : f[ball] = Further(Via, ball) /\ f[ball] \in SUBSET Nodes
  BY DEF IsWiring, Ports, PortsOf, Further
<1>2. \A k : Ball(S, Via, k) = Iterated(S, f, k)[k]
  BY Zenon DEF Ball, Iterate, Iterated, Further
<1>3. ASSUME NEW k \in Nat, NEW m \in Nat, m = k + 1
      PROVE  Ball(S, Via, m) = f[Ball(S, Via, k)]
  <2> PICK g : g = Iterated(S, f, m)
    OBVIOUS
  <2>1. k \in 0 .. m - 1 /\ k \in 0 .. m /\ k \in 0 .. k /\ k <= m
    BY <1>3
  <2>2. g[k + 1] = f[g[k]]
    <3>1. g = Iterated(S, f, m)
      OBVIOUS
    <3>2. \A j \in 0 .. m - 1 : g[j + 1] = f[g[j]]
      BY ONLY m \in Nat, <3>1, Iteration
    <3> QED
      BY <2>1, <3>2
  <2>3. g[k] = Iterated(S, f, k)[k]
    BY <2>1, IterationExtends
  <2>4. g[m] = Ball(S, Via, m)
    BY <1>2
  <2> QED
    BY <1>2, <1>3, <2>2, <2>3, <2>4
<1>4. Ball(S, Via, 0) = S
  <2> PICK z \in Nat : z = 0
    OBVIOUS
  <2> PICK g : g = Iterated(S, f, z)
    OBVIOUS
  <2>1. g = Iterated(S, f, z)
    OBVIOUS
  <2>2. g[0] = S
    BY ONLY z \in Nat, <2>1, Iteration
  <2> QED
    BY <1>2, <2>2
<1>5. \A k \in Nat : Ball(S, Via, k) \in SUBSET Nodes
  <2> DEFINE T == {k \in Nat : Ball(S, Via, k) \in SUBSET Nodes}
  <2>1. 0 \in T
    BY <1>4
  <2>2. ASSUME NEW k \in Nat, k \in T
        PROVE  k + 1 \in T
    <3> PICK m \in Nat : m = k + 1
      OBVIOUS
    <3>1. Ball(S, Via, m) = f[Ball(S, Via, k)]
      BY <1>3
    <3> QED
      BY <1>1, <2>2, <3>1
  <2> HIDE DEF T
  <2>3. \A k \in Nat : k \in T
    BY <2>1, <2>2, SetInduction
  <2> QED
    BY <2>3 DEF T
<1> QED
  BY <1>1, <1>3, <1>4, <1>5

\* A cable leads from a node of the ball to n.
Reached(S, Via, k, n) ==
  \E p \in DOMAIN remote : p[1] \in Ball(S, Via, k) /\ p[1] \in Via /\ n = remote[p][1]

\* The ball of one cable more has what it had and what a cable leads to.
LEMMA BallStep ==
  ASSUME IsWiring(remote), NEW S \in SUBSET Nodes, NEW Via
  PROVE  /\ Ball(S, Via, 0) = S
         /\ \A k \in Nat : Ball(S, Via, k) \in SUBSET Nodes
         /\ \A k \in Nat, m \in Nat : m = k + 1 =>
              \A n : n \in Ball(S, Via, m) <=> n \in Ball(S, Via, k) \/ Reached(S, Via, k, n)
<1>1. \A k \in Nat, m \in Nat : m = k + 1 =>
        Ball(S, Via, k) \in SUBSET Nodes /\ Ball(S, Via, m) = Further(Via, Ball(S, Via, k))
  BY ONLY IsWiring(remote), S \in SUBSET Nodes, BallIsIterated, Zenon
<1>2. Ball(S, Via, 0) = S
  BY BallIsIterated
<1>3. ASSUME NEW k \in Nat
      PROVE  Ball(S, Via, k) \in SUBSET Nodes
  <2>1. k + 1 \in Nat
    OBVIOUS
  <2> QED
    BY <1>1, <2>1
<1>4. ASSUME NEW k \in Nat, NEW m \in Nat, m = k + 1, NEW n
      PROVE  n \in Ball(S, Via, m) <=> n \in Ball(S, Via, k) \/ Reached(S, Via, k, n)
  BY <1>1, <1>4 DEF Further, Reached
<1> QED
  BY <1>2, <1>3, <1>4

\* More cables reach more.
LEMMA BallGrows ==
  ASSUME IsWiring(remote), NEW S \in SUBSET Nodes, NEW Via,
         NEW k \in Nat, NEW m \in Nat, k <= m
  PROVE  Ball(S, Via, k) \subseteq Ball(S, Via, m)
<1> DEFINE T == {d \in Nat : \A j \in Nat : j = k + d => Ball(S, Via, k) \subseteq Ball(S, Via, j)}
<1>1. 0 \in T
  OBVIOUS
<1>2. ASSUME NEW d \in Nat, d \in T
      PROVE  d + 1 \in T
  <2> PICK j \in Nat : j = k + d
    OBVIOUS
  <2> PICK i \in Nat : i = j + 1
    OBVIOUS
  <2>1. Ball(S, Via, k) \subseteq Ball(S, Via, j)
    BY <1>2
  <2>2. Ball(S, Via, j) \subseteq Ball(S, Via, i)
    BY BallStep, Zenon
  <2>3. \A e \in Nat : e = k + (d + 1) => e = i
    OBVIOUS
  <2> QED
    BY <2>1, <2>2, <2>3
<1>3. \A d \in Nat : d \in T
  <2> HIDE DEF T
  <2> QED
    BY <1>1, <1>2, SetInduction
<1>4. m - k \in T /\ m = k + (m - k)
  BY <1>3
<1> QED
  BY <1>4

\* The nodes within j cables of a neighbour of s.
Beyond(s, Via, j) ==
  {n \in Nodes : \E q \in DOMAIN remote : q[1] = s /\ n \in Ball({remote[q][1]}, Via, j)}

\* The ways from s end there or go on over a cable of s.
LEMMA BallFirst ==
  ASSUME IsWiring(remote), NEW s \in Nodes, NEW Via, s \in Via
  PROVE  \A j \in Nat, i \in Nat : i = j + 1 =>
           \A n : n \in Ball({s}, Via, i) <=> n = s \/ n \in Beyond(s, Via, j)
<1> DEFINE T == {j \in Nat : \A i \in Nat : i = j + 1 =>
                   \A n : n \in Ball({s}, Via, i) <=> n = s \/ n \in Beyond(s, Via, j)}
<1>0. \A q \in DOMAIN remote : remote[q] \in DOMAIN remote /\ remote[q][1] \in Nodes
  BY DEF IsWiring, Ports, PortsOf
<1>1. \A v \in Nodes :
        /\ Ball({v}, Via, 0) = {v}
        /\ \A k \in Nat : Ball({v}, Via, k) \in SUBSET Nodes
        /\ \A k \in Nat, m \in Nat : m = k + 1 =>
              \A n : n \in Ball({v}, Via, m) <=> n \in Ball({v}, Via, k) \/ Reached({v}, Via, k, n)
  <2> SUFFICES ASSUME NEW v \in Nodes, NEW S, S = {v}
               PROVE  /\ Ball(S, Via, 0) = S
                      /\ \A k \in Nat : Ball(S, Via, k) \in SUBSET Nodes
                      /\ \A k \in Nat, m \in Nat : m = k + 1 =>
                            \A n : n \in Ball(S, Via, m) <=> n \in Ball(S, Via, k) \/ Reached(S, Via, k, n)
    BY Zenon
  <2>1. S \in SUBSET Nodes
    OBVIOUS
  <2> QED
    BY ONLY IsWiring(remote), <2>1, BallStep, Zenon
<1>2. 0 \in T
  <2> PICK z \in Nat : z = 0
    OBVIOUS
  <2> SUFFICES ASSUME NEW i \in Nat, i = z + 1, NEW n
               PROVE  n \in Ball({s}, Via, i) <=> n = s \/ n \in Beyond(s, Via, z)
    OBVIOUS
  <2>1. n \in Ball({s}, Via, i) <=> n \in Ball({s}, Via, z) \/ Reached({s}, Via, z, n)
    BY <1>1, Zenon
  <2>2. Ball({s}, Via, z) = {s} /\ \A q \in DOMAIN remote : Ball({remote[q][1]}, Via, z) = {remote[q][1]}
    BY <1>0, <1>1
  <2> QED
    BY <1>0, <2>1, <2>2 DEF Beyond, Reached
<1>3. ASSUME NEW j \in Nat, j \in T
      PROVE  j + 1 \in T
  <2>0. PICK k \in Nat, m \in Nat : k = j + 1 /\ m = k + 1
    OBVIOUS
  <2>1. \A n : n \in Ball({s}, Via, k) <=> n = s \/ n \in Beyond(s, Via, j)
    BY <1>3, <2>0
  <2>2. \A n : n \in Ball({s}, Via, m) <=> n \in Ball({s}, Via, k) \/ Reached({s}, Via, k, n)
    BY <1>1, <2>0, Zenon
  <2>3. \A v \in Nodes : \A n :
          n \in Ball({v}, Via, k) <=> n \in Ball({v}, Via, j) \/ Reached({v}, Via, j, n)
    BY <1>1, <2>0, Zenon
  <2>4. ASSUME NEW q \in DOMAIN remote, q[1] = s
        PROVE  remote[q][1] \in Beyond(s, Via, j)
    <3> PICK S : S = {remote[q][1]}
      OBVIOUS
    <3>1. S \in SUBSET Nodes
      BY <1>0
    <3>2. 0 <= j /\ 0 \in Nat
      OBVIOUS
    <3>3. Ball(S, Via, 0) \subseteq Ball(S, Via, j)
      BY ONLY IsWiring(remote), j \in Nat, <3>1, <3>2, BallGrows
    <3>4. Ball(S, Via, 0) = S
      BY <1>0, <1>1
    <3> QED
      BY <1>0, <2>4, <3>3, <3>4 DEF Beyond
  <2>5. \A n : n \in Beyond(s, Via, k) <=>
           \/ n \in Beyond(s, Via, j)
           \/ \E p \in DOMAIN remote : p[1] \in Beyond(s, Via, j) /\ p[1] \in Via /\ n = remote[p][1]
    <3>1. \A p \in DOMAIN remote : remote[p][1] \in Nodes /\ p[1] \in Nodes
      BY <1>0 DEF IsWiring, Ports, PortsOf
    <3>2. \A n : n \in Beyond(s, Via, k) <=>
             n \in Nodes /\ \E q \in DOMAIN remote : q[1] = s /\
               (n \in Ball({remote[q][1]}, Via, j) \/ Reached({remote[q][1]}, Via, j, n))
      BY <2>3, <3>1 DEF Beyond
    <3> QED
      BY <3>1, <3>2 DEF Beyond, Reached
  <2>6. \A n : n \in Ball({s}, Via, m) <=> n = s \/ n \in Beyond(s, Via, k)
    BY ONLY s \in Via, <2>1, <2>2, <2>4, <2>5, Zenon DEF Reached
  <2>7. \A i \in Nat : i = (j + 1) + 1 => i = m
    BY <2>0
  <2>8. k = j + 1
    BY <2>0
  <2> QED
    BY <2>6, <2>7, <2>8
<1>4. \A j \in Nat : j \in T
  <2> HIDE DEF T
  <2> QED
    BY <1>2, <1>3, SetInduction
<1> QED
  BY <1>4

\* There are NumNodes nodes, and the switches are some of them.
LEMMA NodesFinite ==
  /\ NumNodes \in Nat /\ NumNodes # 0
  /\ IsFiniteSet(Nodes) /\ Cardinality(Nodes) = NumNodes
  /\ Switches \subseteq Nodes
<1>1. NumNodes \in Nat /\ NumNodes # 0 /\ Switches \subseteq Nodes
  BY SubnetAssumption, Zenon
<1> PICK a \in Int, b \in Nat : a = 1 /\ b = NumNodes
  BY <1>1
<1>2. /\ IsFiniteSet(a .. b)
      /\ Cardinality(a .. b) = IF a > b THEN 0 ELSE b - a + 1
  BY ONLY b \in Nat, FS_Interval
<1>3. Cardinality(a .. b) = b
  <2> PICK c : c = Cardinality(a .. b)
    OBVIOUS
  <2>1. c = IF a > b THEN 0 ELSE b - a + 1
    BY <1>2
  <2>2. a = 1 /\ b # 0
    BY <1>1
  <2>3. c = b
    BY ONLY <2>1, <2>2, b \in Nat
  <2> QED
    BY <2>3
<1>4. Nodes = a .. b
  BY DEF Nodes
<1> QED
  BY <1>1, <1>2, <1>3, <1>4

\* After as many cables as there are other nodes nothing new is reached.
LEMMA BallStops ==
  ASSUME IsWiring(remote), NEW t \in Nodes, NEW Via, NEW M \in Nat, NumNodes = M + 1
  PROVE  \A k \in Nat : Ball({t}, Via, k) \subseteq Ball({t}, Via, M)
<1> PICK S : S = {t}
  OBVIOUS
<1> DEFINE U == Nodes \ S
           L == [k \in 0 .. M + 1 |-> Ball(S, Via, k) \ S]
<1>0. S \in SUBSET Nodes /\ 0 \in Nat
  OBVIOUS
<1>1. /\ Ball(S, Via, 0) = S
      /\ \A k \in Nat, m \in Nat : m = k + 1 =>
           Ball(S, Via, k) \in SUBSET Nodes /\ Ball(S, Via, m) = Further(Via, Ball(S, Via, k))
  BY ONLY IsWiring(remote), <1>0, BallIsIterated, Zenon
<1>2. \A k \in Nat, m \in Nat : k <= m => Ball(S, Via, k) \subseteq Ball(S, Via, m)
  BY ONLY IsWiring(remote), <1>0, BallGrows, Zenon
<1>3. \A k \in Nat : S \subseteq Ball(S, Via, k) /\ Ball(S, Via, k) \in SUBSET Nodes
  <2>1. \A k \in Nat : k + 1 \in Nat /\ 0 <= k
    OBVIOUS
  <2> QED
    BY <1>0, <1>1, <1>2, <2>1
<1>4. IsFiniteSet(U) /\ Cardinality(U) <= M
  <2>1. IsFiniteSet(Nodes) /\ Cardinality(Nodes) = NumNodes
    BY NodesFinite
  <2>2. U = Nodes \ {t}
    OBVIOUS
  <2>3. IsFiniteSet(U) /\ Cardinality(U) = Cardinality(Nodes) - 1
    BY <2>1, <2>2, FS_RemoveElement
  <2> QED
    BY <2>1, <2>3
<1>5. L \in [0 .. M + 1 -> SUBSET U]
  <2>1. \A k \in 0 .. M + 1 : Ball(S, Via, k) \ S \in SUBSET U
    BY <1>3
  <2> HIDE DEF U
  <2> QED
    BY <2>1
<1>6. \A k \in 0 .. M : L[k] \subseteq L[k + 1]
  <2>1. \A k \in 0 .. M : k \in Nat /\ k + 1 \in Nat /\ k <= k + 1 /\ k \in 0 .. M + 1 /\ k + 1 \in 0 .. M + 1
    OBVIOUS
  <2> QED
    BY <1>2, <2>1
<1>7. \A k \in 0 .. M - 1 : L[k + 1] = L[k] => L[k + 2] = L[k + 1]
  <2> SUFFICES ASSUME NEW k \in 0 .. M - 1, L[k + 1] = L[k]
               PROVE  L[k + 2] = L[k + 1]
    OBVIOUS
  <2>1. /\ k \in Nat /\ k + 1 \in Nat /\ k + 2 \in Nat /\ k + 2 = (k + 1) + 1
        /\ k \in 0 .. M + 1 /\ k + 1 \in 0 .. M + 1 /\ k + 2 \in 0 .. M + 1
    OBVIOUS
  <2>2. Ball(S, Via, k + 1) \ S = Ball(S, Via, k) \ S
    BY <2>1
  <2>3. Ball(S, Via, k + 1) = Ball(S, Via, k)
    BY <1>3, <2>1, <2>2
  <2>4. /\ Ball(S, Via, k + 1) = Further(Via, Ball(S, Via, k))
        /\ Ball(S, Via, k + 2) = Further(Via, Ball(S, Via, k + 1))
    BY ONLY <1>1, <2>1
  <2>5. Ball(S, Via, k + 2) = Ball(S, Via, k + 1)
    BY <2>3, <2>4
  <2> QED
    BY <2>1, <2>5
<1>8. L[M + 1] = L[M]
  <2> HIDE DEF L, U
  <2> QED
    BY <1>4, <1>5, <1>6, <1>7, ChainStops
<1> PICK m \in Nat : m = M + 1
  OBVIOUS
<1>9. Ball(S, Via, m) = Ball(S, Via, M)
  <2>1. M \in 0 .. M + 1 /\ M + 1 \in 0 .. M + 1 /\ M + 1 = m
    OBVIOUS
  <2>2. Ball(S, Via, m) \ S = Ball(S, Via, M) \ S
    BY <1>8, <2>1
  <2> QED
    BY <1>3, <2>2
<1>10. Further(Via, Ball(S, Via, M)) = Ball(S, Via, M)
  BY <1>1, <1>9
<1>11. \A k \in Nat : Ball(S, Via, k) \subseteq Ball(S, Via, M)
  <2> DEFINE T == {k \in Nat : \A j \in Nat : j = M + k => Ball(S, Via, j) = Ball(S, Via, M)}
  <2>1. 0 \in T
    OBVIOUS
  <2>2. ASSUME NEW k \in Nat, k \in T
        PROVE  k + 1 \in T
    <3> PICK j \in Nat, i \in Nat : j = M + k /\ i = j + 1
      OBVIOUS
    <3>1. Ball(S, Via, j) = Ball(S, Via, M)
      BY <2>2
    <3>2. Ball(S, Via, i) = Further(Via, Ball(S, Via, j))
      BY <1>1
    <3>3. Ball(S, Via, i) = Ball(S, Via, M)
      BY <1>10, <3>1, <3>2
    <3>4. \A e \in Nat : e = M + (k + 1) => e = i
      OBVIOUS
    <3> QED
      BY <3>3, <3>4
  <2>3. \A k \in Nat : k \in T
    <3> HIDE DEF T
    <3> QED
      BY <2>1, <2>2, SetInduction
  <2> SUFFICES ASSUME NEW k \in Nat
               PROVE  Ball(S, Via, k) \subseteq Ball(S, Via, M)
    OBVIOUS
  <2> PICK j \in Nat : j = M + k
    OBVIOUS
  <2>4. Ball(S, Via, j) = Ball(S, Via, M)
    BY <2>3
  <2>5. k <= j
    OBVIOUS
  <2>6. Ball(S, Via, k) \subseteq Ball(S, Via, j)
    BY <1>2, <2>5
  <2> QED
    BY <2>4, <2>6
<1> QED
  BY <1>11

\* What the distance says of the balls.
LEMMA DistanceFacts ==
  ASSUME IsWiring(remote), NEW t \in Nodes, NEW Via, NEW n, NEW d, d = Distance({t}, Via, n)
  PROVE  /\ d \in 0 .. NumNodes
         /\ \A k \in Nat : n \in Ball({t}, Via, k) => d <= k /\ d < NumNodes
         /\ d < NumNodes => n \in Ball({t}, Via, d)
<1> DEFINE B(k) == Ball({t}, Via, k)
           Best(k) == (k = NumNodes \/ n \in B(k)) /\ (k = 0 \/ n \notin B(k - 1))
           I == {k \in 0 .. NumNodes : k = NumNodes \/ n \in B(k)}
<1>0. NumNodes \in Nat \ {0}
  BY SubnetAssumption
<1>1. d = CHOOSE k \in 0 .. NumNodes : Best(k)
  BY DEF Distance
<1> HIDE DEF B
<1>2. PICK x \in I : \A y \in I : x <= y
  <2>1. I \in SUBSET Nat /\ NumNodes \in I
    BY <1>0
  <2> HIDE DEF I
  <2> QED
    BY <2>1, LeastNumber
<1>3. x \in 0 .. NumNodes /\ Best(x)
  <2>1. x \in 0 .. NumNodes /\ (x = NumNodes \/ n \in B(x))
    OBVIOUS
  <2>2. ASSUME x # 0
        PROVE  n \notin B(x - 1)
    <3>1. x - 1 \in 0 .. NumNodes /\ ~(x <= x - 1)
      BY <1>0, <2>1, <2>2
    <3> QED
      BY <1>2, <3>1
  <2> QED
    BY <2>1, <2>2
<1>4. d \in 0 .. NumNodes /\ Best(d)
  <2> HIDE DEF Best
  <2> QED
    BY <1>1, <1>3
<1>5. PICK M \in Nat : NumNodes = M + 1
  <2>1. NumNodes - 1 \in Nat /\ NumNodes = (NumNodes - 1) + 1
    BY <1>0
  <2> QED
    BY <2>1
<1>6. \A k \in Nat : B(k) \subseteq B(M)
  BY <1>5, BallStops DEF B
<1>7. \A k, m \in Nat : k <= m => B(k) \subseteq B(m)
  <2> PICK S : S = {t}
    OBVIOUS
  <2>1. S \in SUBSET Nodes
    OBVIOUS
  <2>2. \A k, m \in Nat : k <= m => Ball(S, Via, k) \subseteq Ball(S, Via, m)
    BY ONLY IsWiring(remote), <2>1, BallGrows, Zenon
  <2> QED
    BY <2>2 DEF B
<1>8. ASSUME NEW k \in Nat, n \in B(k)
      PROVE  d <= k /\ d < NumNodes
  <2>1. d <= k
    <3> SUFFICES ASSUME d > k PROVE FALSE
      BY <1>0, <1>4
    <3> PICK e \in Nat : e = d - 1
      BY <1>0, <1>4
    <3>1. k <= e /\ d # 0
      BY <1>0, <1>4
    <3>2. n \notin B(e)
      BY <1>4, <3>1
    <3> QED
      BY <1>7, <1>8, <3>1, <3>2
  <2>2. d <= M
    <3> SUFFICES ASSUME d > M PROVE FALSE
      BY <1>0, <1>4
    <3>1. d # 0 /\ d - 1 = M
      BY <1>0, <1>4, <1>5
    <3>2. n \notin B(M)
      BY <1>4, <3>1
    <3> QED
      BY <1>6, <1>8, <3>2
  <2> QED
    BY <1>4, <1>5, <2>1, <2>2
<1>9. d < NumNodes => n \in B(d)
  BY <1>0, <1>4
<1> QED
  BY <1>4, <1>8, <1>9 DEF B

-----------------------------------------------------------------------------
(* The ends of the cables of a node *)

\* What the loop of FarEnds makes of the ports up to k.
EndsUpTo(n, is, a) ==
  a = [k \in 0 .. NumPorts[n] |->
         IF k = 0 THEN <<>>
         ELSE IF k \in is THEN Append(a[k - 1], Remote(<<n, k>>)) ELSE a[k - 1]]

\* There is such a function.
LEMMA EndsExist ==
  ASSUME NEW n, NumPorts[n] \in Nat, NEW is, NEW P, \A i \in is : Remote(<<n, i>>) \in P
  PROVE  \E a : EndsUpTo(n, is, a)
<1>1. PICK N \in Nat : N = NumPorts[n]
  OBVIOUS
<1>2. PICK T : T = Seq(P)
  OBVIOUS
<1>3. PICK x : x \in T /\ x = <<>>
  <2>1. <<>> \in Seq(P)
    OBVIOUS
  <2> QED
    BY <1>2, <2>1
<1>4. PICK f : f = [kv \in (1 .. N) \X T |->
                     IF kv[1] \in is THEN Append(kv[2], Remote(<<n, kv[1]>>)) ELSE kv[2]]
  OBVIOUS
<1>5. ASSUME NEW kv \in (1 .. N) \X T
      PROVE  (IF kv[1] \in is THEN Append(kv[2], Remote(<<n, kv[1]>>)) ELSE kv[2]) \in T
  <2>1. kv[2] \in Seq(P)
    BY <1>2
  <2> QED
    BY <1>2, <2>1
<1>6. f \in [(1 .. N) \X T -> T]
  BY ONLY <1>4, <1>5
<1>7. PICK g \in [0 .. N -> T] : g[0] = x /\ \A k \in 1 .. N : g[k] = f[<<k, g[k - 1]>>]
  <2>1. \E g : Unrolls(g, x, f, N, T)
    BY ONLY N \in Nat, <1>3, <1>6, Recursion, ZenonT(30)
  <2> QED
    BY ONLY <2>1 DEF Unrolls
<1>8. ASSUME NEW k \in 0 .. N
      PROVE  g[k] = IF k = 0 THEN <<>>
                    ELSE IF k \in is THEN Append(g[k - 1], Remote(<<n, k>>)) ELSE g[k - 1]
  <2>1. CASE k = 0
    BY <1>3, <1>7, <2>1
  <2>2. CASE k # 0
    <3>1. PICK kv : kv = <<k, g[k - 1]>>
      OBVIOUS
    <3>2. k \in 1 .. N /\ k - 1 \in 0 .. N
      BY ONLY k \in 0 .. N, N \in Nat, <2>2
    <3>3. kv \in (1 .. N) \X T /\ kv[1] = k /\ kv[2] = g[k - 1]
      BY ONLY <1>7, <3>1, <3>2
    <3>4. g[k] = f[kv]
      BY ONLY <1>7, <3>1, <3>2
    <3>5. f[kv] = IF kv[1] \in is THEN Append(kv[2], Remote(<<n, kv[1]>>)) ELSE kv[2]
      BY ONLY <1>4, <3>3
    <3> QED
      BY ONLY <2>2, <3>3, <3>4, <3>5
  <2> QED
    BY <2>1, <2>2
<1>9. g = [k \in 0 .. N |-> g[k]]
  BY <1>7
<1>10. EndsUpTo(n, is, g)
  BY ONLY <1>1, <1>8, <1>9 DEF EndsUpTo
<1> QED
  BY <1>10

\* The far ends of cabled ports are ports with cables.
LEMMA FarEndsFacts ==
  ASSUME IsWiring(remote), NEW n \in Nodes, NEW is \in SUBSET (1 .. NumPorts[n]),
         \A i \in is : <<n, i>> \in DOMAIN remote
  PROVE  /\ FarEnds(n, is) \in Seq(DOMAIN remote)
         /\ \A i \in is : \E k \in 1 .. Len(FarEnds(n, is)) : FarEnds(n, is)[k] = remote[<<n, i>>]
<1>1. NumPorts[n] \in Nat
  BY SubnetAssumption
<1>2. \A i \in is : Remote(<<n, i>>) = remote[<<n, i>>] /\ Remote(<<n, i>>) \in DOMAIN remote
  BY DEF Remote, IsWiring
<1>3. PICK N \in Nat : N = NumPorts[n]
  BY <1>1
<1>4. PICK T : T = Seq(DOMAIN remote)
  OBVIOUS
<1>5. PICK a : a = CHOOSE b : EndsUpTo(n, is, b)
  OBVIOUS
<1>6. EndsUpTo(n, is, a)
  <2>1. \E b : EndsUpTo(n, is, b)
    BY <1>1, <1>2, EndsExist
  <2> QED
    BY ONLY <1>5, <2>1
<1>7. FarEnds(n, is) = a[N]
  BY <1>3, <1>5, Zenon DEF FarEnds, OverPorts, EndsUpTo
<1>8. /\ a[0] = <<>>
      /\ \A k \in 1 .. N : a[k] = IF k \in is THEN Append(a[k - 1], Remote(<<n, k>>)) ELSE a[k - 1]
  <2>1. \A k \in 1 .. N : k \in 0 .. N /\ k # 0
    OBVIOUS
  <2>2. 0 \in 0 .. N
    OBVIOUS
  <2>3. \A k \in 0 .. N : a[k] = IF k = 0 THEN <<>>
                               ELSE IF k \in is THEN Append(a[k - 1], Remote(<<n, k>>)) ELSE a[k - 1]
    BY ONLY <1>3, <1>6, Zenon DEF EndsUpTo
  <2> QED
    BY ONLY <2>1, <2>2, <2>3
<1> DEFINE S == {k \in 0 .. N :
                   /\ a[k] \in T
                   /\ \A i \in is : i <= k => \E j \in 1 .. Len(a[k]) : a[k][j] = remote[<<n, i>>]}
<1>9. 0 \in S
  <2>1. a[0] \in T
    BY ONLY <1>4, <1>8
  <2>2. \A i \in is : ~(i <= 0)
    OBVIOUS
  <2>3. 0 \in 0 .. N
    BY ONLY N \in Nat
  <2> QED
    BY ONLY <2>1, <2>2, <2>3
<1>10. ASSUME NEW k \in 0 .. N - 1, k \in S
       PROVE  k + 1 \in S
  <2>0. PICK m : m = k + 1
    OBVIOUS
  <2>1. m \in 1 .. N /\ m - 1 = k /\ m \in 0 .. N
    BY ONLY <2>0, k \in 0 .. N - 1, N \in Nat
  <2>2. CASE m \in is
    <3>1. a[m] = Append(a[k], remote[<<n, m>>]) /\ remote[<<n, m>>] \in DOMAIN remote
      BY ONLY <1>2, <1>8, <2>1, <2>2
    <3>2. a[k] \in Seq(DOMAIN remote)
      BY ONLY <1>4, <1>10
    <3>3. /\ a[m] \in T /\ Len(a[m]) = Len(a[k]) + 1 /\ Len(a[k]) \in Nat
          /\ a[m][Len(a[k]) + 1] = remote[<<n, m>>]
          /\ \A j \in 1 .. Len(a[k]) : a[m][j] = a[k][j]
      <4>1. PICK s \in Seq(DOMAIN remote), e \in DOMAIN remote : s = a[k] /\ e = remote[<<n, m>>]
        BY ONLY <3>1, <3>2
      <4>2. /\ Append(s, e) \in Seq(DOMAIN remote) /\ Len(Append(s, e)) = Len(s) + 1
            /\ Len(s) \in Nat /\ Append(s, e)[Len(s) + 1] = e
            /\ \A j \in 1 .. Len(s) : Append(s, e)[j] = s[j]
        BY ONLY s \in Seq(DOMAIN remote), e \in DOMAIN remote, AppendProperties
      <4>3. a[m] = Append(s, e)
        BY ONLY <3>1, <4>1
      <4> QED
        BY ONLY <1>4, <4>1, <4>2, <4>3
    <3>4. ASSUME NEW i \in is, i <= m
          PROVE  \E j \in 1 .. Len(a[m]) : a[m][j] = remote[<<n, i>>]
      <4>1. CASE i = m
        BY ONLY <3>3, <4>1
      <4>2. CASE i # m
        <5>1. i <= k
          BY <2>1, <3>4, <4>2
        <5>2. PICK j \in 1 .. Len(a[k]) : a[k][j] = remote[<<n, i>>]
          BY ONLY i \in is, <1>10, <5>1
        <5>3. j \in 1 .. Len(a[m]) /\ a[m][j] = remote[<<n, i>>]
          BY ONLY <3>3, <5>2
        <5> QED
          BY <5>3
      <4> QED
        BY <4>1, <4>2
    <3> QED
      BY ONLY <2>0, <2>1, <3>3, <3>4
  <2>3. CASE m \notin is
    <3>1. a[m] = a[k]
      BY ONLY <1>8, <2>1, <2>3
    <3>2. \A i \in is : i <= m => i <= k
      BY <2>1, <2>3
    <3> QED
      BY ONLY <1>10, <2>0, <2>1, <3>1, <3>2
  <2> QED
    BY <2>2, <2>3
<1>11. N \in S
  <2> HIDE DEF S
  <2>1. \A k \in 0 .. N : k \in S
    BY ONLY N \in Nat, <1>9, <1>10, BoundedInduction
  <2> QED
    BY <2>1
<1>12. /\ a[N] \in T
       /\ \A i \in is : i <= N => \E j \in 1 .. Len(a[N]) : a[N][j] = remote[<<n, i>>]
  BY ONLY <1>11
<1>13. \A i \in is : i <= N
  BY <1>3
<1> QED
  BY ONLY <1>4, <1>7, <1>12, <1>13

-----------------------------------------------------------------------------
(* The visits of SubnMgtAssignLids *)

\* The ports of a switch have one LID, a CA has its LID at a port with a cable.
LidsByNode ==
  /\ \A n \in Switches : \A p, q \in PortsOf(n) : baseLid[p] = baseLid[q]
  /\ \A p \in Ports : baseLid[p] # 0 =>
       (baseLid[p] - 1) % LidStep = 0 /\ (p[1] \notin Switches => p \in DOMAIN remote)

\* A port of the queue is one of node n.
Awaits(queue, n) == \E k \in 1 .. Len(queue) : queue[k][1] = n

\* PortByLid leads to a port with the LID.
ListedAt(l) == portByLid[l] \in Ports /\ baseLid[portByLid[l]] = l

\* The nodes that were visited have LIDs, and their neighbours were visited or will be.
Visiting ==
  /\ work.queue \in Seq(DOMAIN remote) /\ work.visited \subseteq Nodes
  /\ work.queue # <<>> \/ work.visited # {}
  /\ \A n \in Nodes : n \in work.visited <=> Member(n)
  /\ \A q \in DOMAIN remote :
       q[1] \in work.visited => remote[q][1] \in work.visited \/ Awaits(work.queue, remote[q][1])
  /\ work.lid \in Nat \ {0} /\ (work.lid - 1) % LidStep = 0
  /\ \A l \in 1 .. work.lid - 1 : (l - 1) % LidStep = 0 => ListedAt(l)

\* In the end the LIDs that the tables of hops are about are those of the nodes with a
\* way to the subnet manager.
Visited ==
  /\ maxLid \in Nat \ {0} /\ (maxLid - 1) % LidStep = 0 /\ HopLids \subseteq DOMAIN portByLid
  /\ \A p \in Ports : baseLid[p] # 0 => baseLid[p] \in HopLids
  /\ \A l \in HopLids : ListedAt(l)
  /\ \A q \in DOMAIN remote : Member(q[1]) => Member(remote[q][1])

DesignLids ==
  /\ LidsInv /\ remote \in Wirings /\ LidsByNode
  /\ IF stage = "lids" THEN Visiting ELSE Visited

\* Ports and nodes.
LEMMA PortFacts ==
  /\ \A p \in Ports : p[1] \in Nodes /\ p \in PortsOf(p[1]) /\ p = <<p[1], p[2]>>
                      /\ p[2] \in 1 .. NumPorts[p[1]]
  /\ \A n \in Nodes : \A p \in PortsOf(n) : p \in Ports /\ p[1] = n
  /\ \A n \in Nodes : PortsOf(n) # {} /\ NumPorts[n] \in Nat \ {0}
<1>1. ASSUME NEW p \in Ports
      PROVE  /\ p[1] \in Nodes /\ p \in PortsOf(p[1]) /\ p = <<p[1], p[2]>>
             /\ p[2] \in 1 .. NumPorts[p[1]]
  <2>1. PICK n \in Nodes : p \in {n} \X (1 .. NumPorts[n])
    BY DEF Ports, PortsOf
  <2> QED
    BY <2>1 DEF PortsOf
<1>2. \A n \in Nodes : \A p \in PortsOf(n) : p \in Ports /\ p[1] = n
  BY DEF Ports, PortsOf
<1>3. ASSUME NEW n \in Nodes
      PROVE  PortsOf(n) # {} /\ NumPorts[n] \in Nat \ {0}
  <2>1. NumPorts[n] \in 1 .. 254
    BY SubnetAssumption
  <2>2. <<n, 1>> \in PortsOf(n)
    BY <2>1 DEF PortsOf
  <2> QED
    BY <2>1, <2>2
<1> QED
  BY <1>1, <1>2, <1>3

\* Both ends of a cable are ports with a cable.
LEMMA CableFacts ==
  ASSUME remote \in Wirings
  PROVE  /\ IsWiring(remote)
         /\ \A p \in DOMAIN remote :
              /\ p \in Ports /\ p[1] \in Nodes
              /\ remote[p] \in DOMAIN remote /\ remote[remote[p]] = p
              /\ Remote(p) = remote[p] /\ remote[p] # NoPort /\ remote[p][1] # p[1]
<1>1. IsWiring(remote)
  BY SubnetAssumption
<1>2. \A p \in DOMAIN remote : p \in Ports /\ remote[p] \in DOMAIN remote /\ remote[remote[p]] = p /\ remote[p][1] # p[1]
  BY <1>1 DEF IsWiring
<1>3. \A p \in Ports : p # NoPort /\ p[1] \in Nodes
  BY SubnetAssumption DEF Ports, PortsOf, NoPort, Nodes
<1> QED
  BY <1>1, <1>2, <1>3 DEF Remote

\* The queue loses its head and gets the ports that the node leads to.
LEMMA QueueFacts ==
  ASSUME NEW P, NEW s \in Seq(P), s # <<>>, NEW u \in Seq(P), NEW q, q = Tail(s) \o u
  PROVE  /\ q \in Seq(P) /\ Head(s) \in P
         /\ \A n : Awaits(s, n) => Head(s)[1] = n \/ Awaits(q, n)
         /\ \A n : Awaits(u, n) => Awaits(q, n)
<1> PICK t : t = Tail(s)
  OBVIOUS
<1>1. /\ t \in Seq(P) /\ Len(t) = Len(s) - 1 /\ Len(s) \in Nat /\ Len(s) > 0
      /\ \A k \in 1 .. Len(s) - 1 : t[k] = s[k + 1]
      /\ Head(s) = s[1] /\ s[1] \in P
  OBVIOUS
<1>2. /\ q \in Seq(P) /\ Len(q) = Len(t) + Len(u) /\ Len(u) \in Nat
      /\ \A k \in 1 .. Len(t) + Len(u) : q[k] = IF k <= Len(t) THEN t[k] ELSE u[k - Len(t)]
  BY <1>1, ConcatProperties
<1>3. ASSUME NEW n, NEW k \in 1 .. Len(s), s[k][1] = n
      PROVE  Head(s)[1] = n \/ Awaits(q, n)
  <2>1. CASE k = 1
    BY <1>1, <1>3, <2>1
  <2>2. CASE k # 1
    <3> PICK j : j = k - 1
      OBVIOUS
    <3>1. j \in 1 .. Len(s) - 1 /\ j \in 1 .. Len(q) /\ j <= Len(t) /\ j + 1 = k
      BY <1>1, <1>2, <2>2
    <3>2. q[j] = s[k]
      BY <1>1, <1>2, <3>1
    <3> QED
      BY <1>3, <3>1, <3>2 DEF Awaits
  <2> QED
    BY <2>1, <2>2
<1>4. ASSUME NEW n, NEW k \in 1 .. Len(u), u[k][1] = n
      PROVE  Awaits(q, n)
  <2> PICK j : j = k + Len(t)
    OBVIOUS
  <2>1. j \in 1 .. Len(q) /\ ~(j <= Len(t)) /\ j - Len(t) = k
    BY <1>1, <1>2
  <2>2. q[j] = u[k]
    BY <1>1, <1>2, <2>1
  <2> QED
    BY <1>4, <2>1, <2>2 DEF Awaits
<1> QED
  BY <1>1, <1>2, <1>3, <1>4 DEF Awaits

\* Unvisited finds the neighbours that were not visited.
LEMMA UnvisitedFacts ==
  ASSUME remote \in Wirings, NEW n \in Nodes, NEW visited
  PROVE  /\ Unvisited(n, visited) \in Seq(DOMAIN remote)
         /\ \A q \in DOMAIN remote : q[1] = n =>
              remote[q][1] \in visited \/ Awaits(Unvisited(n, visited), remote[q][1])
<1> DEFINE is == {i \in 1 .. NumPorts[n] :
                    Remote(<<n, i>>) # NoPort /\ Remote(<<n, i>>)[1] \notin visited}
<1>1. is \in SUBSET (1 .. NumPorts[n]) /\ \A i \in is : <<n, i>> \in DOMAIN remote
  BY DEF Remote
<1>2. Unvisited(n, visited) = FarEnds(n, is)
  BY DEF Unvisited
<1>3. ASSUME NEW q \in DOMAIN remote, q[1] = n, remote[q][1] \notin visited
      PROVE  \E i \in is : <<n, i>> = q
  <2>1. q = <<n, q[2]>> /\ q[2] \in 1 .. NumPorts[n]
    BY <1>3, PortFacts, CableFacts
  <2>2. Remote(<<n, q[2]>>) = remote[q] /\ remote[q] # NoPort
    BY <2>1, CableFacts
  <2>3. q[2] \in is
    BY <1>3, <2>1, <2>2
  <2> QED
    BY <2>1, <2>3
<1> HIDE DEF is
<1>4. /\ FarEnds(n, is) \in Seq(DOMAIN remote)
      /\ \A i \in is : \E k \in 1 .. Len(FarEnds(n, is)) : FarEnds(n, is)[k] = remote[<<n, i>>]
  <2>1. IsWiring(remote)
    BY CableFacts
  <2> QED
    BY <1>1, <2>1, FarEndsFacts
<1> QED
  BY <1>2, <1>3, <1>4 DEF Awaits

\* A visit keeps what is known of the nodes that were visited.
LEMMA VisitStep ==
  ASSUME DesignLids, AssignLids
  PROVE  DesignLids'
<1>0. stage = "lids" /\ stage' = "lids" /\ remote' = remote /\ opts' = opts /\ work.queue # <<>>
  BY SMT DEF AssignLids, GivenVars
<1>1. LidsInv' /\ WorkRecord
  BY <1>0, LidsAssign DEF DesignLids, LidsInv, LidsBelow
<1>2. LidStep \in Nat \ {0} /\ LidStep' = LidStep /\ baseLid \in [Ports -> Nat]
  BY <1>0 DEF DesignLids, LidsInv, LidStep
<1>3. LidsByNode /\ Visiting /\ remote \in Wirings
  BY <1>0 DEF DesignLids
<1> PICK s : s = work.queue
  OBVIOUS
<1> PICK first : first = Head(s)
  OBVIOUS
<1> PICK n : n = first[1]
  OBVIOUS
<1> PICK visited : visited = work.visited
  OBVIOUS
<1> PICK l : l = work.lid
  OBVIOUS
<1> PICK step : step = LidStep
  OBVIOUS
<1>4. /\ s \in Seq(DOMAIN remote) /\ s # <<>> /\ visited \subseteq Nodes
      /\ \A m \in Nodes : m \in visited <=> Member(m)
      /\ \A q \in DOMAIN remote :
           q[1] \in visited => remote[q][1] \in visited \/ Awaits(s, remote[q][1])
      /\ l \in Nat \ {0} /\ (l - 1) % step = 0 /\ step \in Nat \ {0}
      /\ \A k \in 1 .. l - 1 : (k - 1) % step = 0 => ListedAt(k)
  BY <1>0, <1>2, <1>3 DEF Visiting
<1>5. first \in DOMAIN remote /\ first \in Ports /\ n \in Nodes
  <2>1. first \in DOMAIN remote
    BY ONLY <1>4, first = Head(s)
  <2> QED
    BY <1>3, <2>1, CableFacts
<1>6. CASE n \in visited
  <2>1. work' = [work EXCEPT !.queue = Tail(s)] /\ UNCHANGED <<baseLid, portByLid>>
    BY <1>6, SMT DEF AssignLids
  <2>2. WorkRecord' /\ work'.lid = l /\ work'.visited = visited /\ work'.queue = Tail(s)
    BY <1>1, <2>1, FieldsKept, Zenon
  <2>3. PICK u : u = <<>>
    OBVIOUS
  <2>4. PICK t : t = Tail(s) \o u
    OBVIOUS
  <2>5. u \in Seq(DOMAIN remote) /\ t = Tail(s)
    BY ONLY <1>4, <2>3, <2>4
  <2>6. t \in Seq(DOMAIN remote) /\ \A m : Awaits(s, m) => Head(s)[1] = m \/ Awaits(t, m)
    BY ONLY <1>4, <2>4, <2>5, QueueFacts
  <2>7. Visiting'
    <3>1. \A m \in Nodes : Member(m)' <=> Member(m)
      BY <2>1 DEF Member
    <3>2. \A q \in DOMAIN remote :
            q[1] \in visited => remote[q][1] \in visited \/ Awaits(t, remote[q][1])
      BY <1>4, <1>6, <2>6
    <3> QED
      BY <1>0, <1>2, <1>4, <1>6, <2>1, <2>2, <2>5, <2>6, <3>1, <3>2 DEF Visiting, Awaits, ListedAt
  <2>8. LidsByNode'
    BY <1>0, <1>2, <1>3, <2>1 DEF LidsByNode
  <2> QED
    BY <1>0, <1>1, <1>3, <2>7, <2>8 DEF DesignLids
<1>7. CASE n \notin visited
  <2>1. PICK given : given = IF n \in Switches THEN PortsOf(n) ELSE {first}
    OBVIOUS
  <2>2. PICK seen, u, t : seen = visited \cup {n} /\ u = Unvisited(n, seen) /\ t = Tail(s) \o u
    OBVIOUS
  <2>3. baseLid' = [q \in Ports |-> IF q \in given THEN l ELSE baseLid[q]]
    BY <1>7, <2>1, SMT DEF AssignLids
  <2>4. work' = [work EXCEPT !.visited = seen, !.lid = l + step, !.queue = t]
    <3>1. work' = [work EXCEPT !.visited = work.visited \cup {n}, !.lid = work.lid + LidStep,
                               !.queue = Tail(s) \o Unvisited(n, work.visited \cup {n})]
      BY <1>7, SMT DEF AssignLids
    <3> QED
      BY <2>2, <3>1
  <2>5. WorkRecord' /\ work'.lid = l + step /\ work'.visited = seen /\ work'.queue = t
    BY <1>1, <2>4, FieldsKept, Zenon
  <2>6. /\ t \in Seq(DOMAIN remote)
        /\ \A m : Awaits(s, m) => n = m \/ Awaits(t, m)
        /\ \A m : Awaits(u, m) => Awaits(t, m)
        /\ \A q \in DOMAIN remote : q[1] = n => remote[q][1] \in seen \/ Awaits(u, remote[q][1])
    <3>1. /\ u \in Seq(DOMAIN remote)
          /\ \A q \in DOMAIN remote : q[1] = n => remote[q][1] \in seen \/ Awaits(u, remote[q][1])
      BY <1>3, <1>5, <2>2, UnvisitedFacts
    <3>2. /\ t \in Seq(DOMAIN remote)
          /\ \A m : Awaits(s, m) => Head(s)[1] = m \/ Awaits(t, m)
          /\ \A m : Awaits(u, m) => Awaits(t, m)
      BY ONLY <1>4, <2>2, <3>1, QueueFacts
    <3> QED
      BY <3>1, <3>2
  <2>7. /\ given \subseteq PortsOf(n) /\ first \in given
        /\ n \in Switches => given = PortsOf(n)
        /\ n \notin Switches => given = {first}
    BY <1>5, <2>1, PortFacts
  <2>8. \A p \in Ports : /\ p \in given => p[1] = n /\ baseLid'[p] = l
                         /\ p \notin given => baseLid'[p] = baseLid[p]
    BY <1>5, <2>3, <2>7, PortFacts
  <2>9. \A p \in Ports : p[1] = n => baseLid[p] = 0
    BY <1>4, <1>5, <1>7, PortFacts DEF Member
  <2>10. \A m \in Nodes : m \in seen <=> Member(m)'
    <3> SUFFICES ASSUME NEW m \in Nodes
                 PROVE  m \in seen <=> Member(m)'
      OBVIOUS
    <3>1. CASE m = n
      BY <1>4, <1>5, <2>2, <2>7, <2>8, <3>1 DEF Member
    <3>2. CASE m # n
      <4>1. \A p \in PortsOf(m) : baseLid'[p] = baseLid[p]
        BY <2>8, <3>2, PortFacts
      <4> QED
        BY <1>4, <2>2, <3>2, <4>1 DEF Member
    <3> QED
      BY <3>1, <3>2
  <2>11. \A q \in DOMAIN remote :
           q[1] \in seen => remote[q][1] \in seen \/ Awaits(t, remote[q][1])
    BY <1>4, <2>2, <2>6
  <2>12. l + step \in Nat \ {0} /\ ((l + step) - 1) % step = 0
    <3> PICK a \in Nat : a = l - 1
      BY <1>4
    <3>1. a % step = 0
      BY <1>4
    <3>2. (a + step) % step = 0
      BY ONLY a \in Nat, <1>4, <3>1, NextMultiple
    <3>3. l \in Nat \ {0} /\ step \in Nat \ {0}
      BY <1>4
    <3>4. l + step \in Nat \ {0} /\ (l + step) - 1 = a + step
      BY ONLY <3>3, a = l - 1
    <3> QED
      BY ONLY <3>2, <3>4
  <2>13. PICK listed :
           /\ listed = IF n \in Switches THEN <<n, NumPorts[n]>> ELSE first
           /\ portByLid' = [k \in 1 .. l + step |-> IF k < l THEN portByLid[k] ELSE listed]
    <3>1. portByLid' = [k \in 1 .. l + step |->
                          IF k < l THEN portByLid[k]
                          ELSE IF n \in Switches THEN <<n, NumPorts[n]>> ELSE first]
      BY <1>7, SMT DEF AssignLids
    <3> QED
      BY <3>1
  <2>14. listed \in given /\ listed \in Ports
    <3>1. n \in Switches => listed \in PortsOf(n)
      <4>1. NumPorts[n] \in 1 .. NumPorts[n]
        BY ONLY <1>5, PortFacts
      <4> QED
        BY <2>13, <4>1 DEF PortsOf
    <3> QED
      BY <1>5, <2>7, <2>13, <3>1, PortFacts
  <2>15. ASSUME NEW k \in 1 .. (l + step) - 1, (k - 1) % step = 0
         PROVE  ListedAt(k)'
    <3>0. k \in Nat \ {0} /\ k < l + step /\ l \in Nat \ {0} /\ step \in Nat \ {0}
      <4>1. l \in Nat \ {0} /\ step \in Nat \ {0}
        BY <1>4
      <4> QED
        BY ONLY <4>1, k \in 1 .. (l + step) - 1
    <3>1. CASE k < l
      <4>0. k \in 1 .. l - 1
        BY ONLY <3>0, <3>1
      <4>1. ListedAt(k)
        BY ONLY <1>4, <2>15, <4>0
      <4>2. PICK p \in Ports : p = portByLid[k] /\ baseLid[p] = k
        BY <4>1 DEF ListedAt
      <4>3. p \notin given
        BY <1>4, <2>8, <2>9, <4>2, <3>0
      <4>4. portByLid'[k] = p
        BY ONLY <3>0, <3>1, <4>2, <2>13
      <4> QED
        BY <2>8, <4>2, <4>3, <4>4 DEF ListedAt
    <3>2. CASE ~(k < l)
      <4>0. k - 1 \in Nat /\ l - 1 \in Nat
        BY ONLY <3>0
      <4>1. PICK a \in Nat, b \in Nat : a = k - 1 /\ b = l - 1
        BY ONLY <4>0
      <4>2. b <= a /\ a < b + step
        BY ONLY <3>0, <3>2, <4>1
      <4>3. a % step = 0 /\ b % step = 0
        BY ONLY <1>4, <2>15, <4>1
      <4>4. a = b
        BY ONLY a \in Nat, b \in Nat, <3>0, <4>2, <4>3, OneMultiple
      <4>5. k = l
        BY ONLY <3>0, <4>1, <4>4
      <4>6. portByLid'[k] = listed
        BY ONLY <3>0, <4>5, <2>13
      <4> QED
        BY <2>8, <2>14, <4>5, <4>6 DEF ListedAt
    <3> QED
      BY <3>1, <3>2
  <2>16. Visiting'
    <3>1. seen \subseteq Nodes /\ seen # {}
      BY <1>4, <1>5, <2>2
    <3> QED
      BY <1>0, <1>2, <2>5, <2>6, <2>10, <2>11, <2>12, <2>15, <3>1 DEF Visiting
  <2>17. LidsByNode'
    <3>1. ASSUME NEW m \in Switches, NEW p \in PortsOf(m), NEW q \in PortsOf(m)
          PROVE  baseLid'[p] = baseLid'[q]
      <4>1. m \in Nodes /\ p \in Ports /\ q \in Ports /\ p[1] = m /\ q[1] = m
        BY PortFacts, SubnetAssumption
      <4>2. CASE m = n
        BY <2>7, <2>8, <4>1, <4>2
      <4>3. CASE m # n
        BY <1>3, <2>8, <4>1, <4>3 DEF LidsByNode
      <4> QED
        BY <4>2, <4>3
    <3>2. ASSUME NEW p \in Ports, baseLid'[p] # 0
          PROVE  (baseLid'[p] - 1) % step = 0 /\ (p[1] \notin Switches => p \in DOMAIN remote)
      <4>1. CASE p \in given
        BY <1>4, <1>5, <2>7, <2>8, <4>1
      <4>2. CASE p \notin given
        BY <1>3, <2>8, <3>2, <4>2 DEF LidsByNode
      <4> QED
        BY <4>1, <4>2
    <3> QED
      BY <1>0, <1>2, <3>1, <3>2 DEF LidsByNode
  <2> QED
    BY <1>0, <1>1, <1>3, <2>16, <2>17 DEF DesignLids
<1> QED
  BY <1>6, <1>7

\* When the queue is empty, the LIDs are those of the nodes that were visited.
LEMMA VisitsEnd ==
  ASSUME DesignLids, EndLids
  PROVE  DesignLids'
<1>0. /\ stage = "lids" /\ stage' = "seed" /\ remote' = remote /\ opts' = opts
      /\ baseLid' = baseLid /\ portByLid' = portByLid
      /\ work.queue = <<>> /\ maxLid' = work.lid - LidStep
  BY SMT DEF EndLids, GivenVars, LastLid
<1>1. LidsByNode /\ Visiting /\ remote \in Wirings /\ LidsInv /\ LidsBelow
  BY <1>0 DEF DesignLids, LidsInv
<1>2. LidsInv' /\ LidsByNode' /\ (remote \in Wirings)'
  BY <1>0, <1>1 DEF LidsInv, LidsApart, HasLid, LidStep, LidsByNode
<1> PICK l : l = work.lid
  OBVIOUS
<1> PICK step : step = LidStep
  OBVIOUS
<1>3. /\ l \in Nat \ {0} /\ step \in Nat \ {0} /\ maxLid' = l - step /\ LidStep' = step
      /\ 1 .. l - 1 \subseteq DOMAIN portByLid
      /\ baseLid \in [Ports -> Nat]
      /\ \A p \in Ports : baseLid[p] # 0 => baseLid[p] + step <= l
      /\ \A k \in 1 .. l - 1 : (k - 1) % step = 0 => ListedAt(k)
      /\ (l - 1) % step = 0
      /\ \A p \in Ports : baseLid[p] # 0 => (baseLid[p] - 1) % step = 0
  BY <1>0, <1>1 DEF LidsBelow, LidsInv, LidsByNode, Visiting, LidStep
<1>4. PICK v \in Nodes : Member(v)
  <2>1. \E v : v \in work.visited
    BY <1>0, <1>1 DEF Visiting
  <2> QED
    BY <1>1, <2>1 DEF Visiting
<1>5. PICK p0 \in Ports : baseLid[p0] # 0
  BY <1>4, PortFacts DEF Member
<1>6. l - step \in Nat
  BY <1>3, <1>5
<1> PICK M \in Nat : M = l - step
  BY <1>6
<1>7. HopLids' = {k \in 1 .. M : (k - 1) % step = 0}
  BY <1>3 DEF HopLids
<1>8. ASSUME NEW k \in HopLids'
      PROVE  k \in 1 .. l - 1 /\ (k - 1) % step = 0
  BY <1>3, <1>7
<1>9. ASSUME NEW p \in Ports, baseLid[p] # 0
      PROVE  baseLid[p] \in HopLids'
  <2>1. baseLid[p] \in Nat /\ baseLid[p] + step <= l
    BY <1>3, <1>9
  <2>2. baseLid[p] \in 1 .. M
    BY <1>3, <1>9, <2>1
  <2>3. (baseLid[p] - 1) % step = 0
    BY <1>3, <1>9
  <2> QED
    BY ONLY <1>7, <2>2, <2>3
<1>10. ASSUME NEW q \in DOMAIN remote, Member(q[1])
       PROVE  Member(remote[q][1])
  <2>1. q[1] \in Nodes /\ remote[q][1] \in Nodes
    BY <1>1, CableFacts
  <2>2. ~Awaits(work.queue, remote[q][1])
    BY <1>0 DEF Awaits
  <2> QED
    BY <1>1, <1>10, <2>1, <2>2 DEF Visiting
<1>11. Visited'
  <2>1. maxLid' \in Nat \ {0} /\ (maxLid' - 1) % LidStep' = 0
    <3>1. baseLid[p0] \in HopLids'
      BY <1>5, <1>9
    <3>2. M \in Nat \ {0}
      BY ONLY <1>7, <3>1, M \in Nat
    <3>3. PICK a \in Nat : a = M - 1
      BY <3>2
    <3>4. (a + step) % step = 0
      <4>1. a + step = l - 1
        BY <1>3, <3>3
      <4> QED
        BY <1>3, <4>1
    <3>5. a % step = 0
      BY ONLY a \in Nat, <1>3, <3>4, PreviousMultiple
    <3> QED
      BY <1>3, <3>2, <3>3, <3>5
  <2>2. HopLids' \subseteq DOMAIN portByLid'
    BY <1>0, <1>3, <1>8
  <2>3. \A k \in HopLids' : ListedAt(k)'
    <3>1. \A k \in HopLids' : ListedAt(k)
      BY <1>3, <1>8
    <3> QED
      BY <1>0, <3>1 DEF ListedAt
  <2>4. \A p \in Ports : baseLid'[p] # 0 => baseLid'[p] \in HopLids'
    BY <1>0, <1>9
  <2>5. \A q \in DOMAIN remote :
          (\E p \in PortsOf(q[1]) : baseLid[p] # 0) => \E p \in PortsOf(remote[q][1]) : baseLid[p] # 0
    BY <1>10 DEF Member
  <2> QED
    BY <1>0, <2>1, <2>2, <2>3, <2>4, <2>5, Zenon DEF Visited, Member
<1> QED
  BY <1>0, <1>2, <1>11 DEF DesignLids

\* A run in design mode begins at a port with a cable.
LEMMA VisitsBegin ==
  ASSUME DesignMode
  PROVE  DesignLids
<1>1. /\ remote \in Wirings /\ opts.sm \in DOMAIN remote /\ stage = "lids"
      /\ baseLid = [p \in Ports |-> 0]
  BY SMT DEF DesignMode, DesignInit
<1>2. LidsInv
  BY DesignBegins
<1>3. /\ work.queue = <<opts.sm>> /\ work.visited = {} /\ work.lid = 1
  <2>1. work = [NoWork EXCEPT !.queue = <<opts.sm>>]
    BY SMT DEF DesignMode, DesignInit
  <2>2. NoWork.lid = 1 /\ NoWork.visited = {}
    BY SMT DEF NoWork, WorkAt
  <2>3. NoWork = [queue |-> NoWork.queue, visited |-> NoWork.visited, lid |-> NoWork.lid,
                  at |-> NoWork.at, changed |-> NoWork.changed, down |-> NoWork.down,
                  subs |-> NoWork.subs, nodes |-> NoWork.nodes, systems |-> NoWork.systems]
    BY SMT DEF NoWork, WorkAt
  <2>4. work = [queue |-> <<opts.sm>>, visited |-> NoWork.visited, lid |-> NoWork.lid,
                at |-> NoWork.at, changed |-> NoWork.changed, down |-> NoWork.down,
                subs |-> NoWork.subs, nodes |-> NoWork.nodes, systems |-> NoWork.systems]
    BY <2>1, <2>3, SMT
  <2> QED
    BY <2>2, <2>4, SMT
<1>4. LidsByNode
  <2>1. \A n \in Switches : n \in Nodes
    BY SubnetAssumption
  <2> QED
    BY <1>1, <2>1, PortFacts DEF LidsByNode
<1>5. Visiting
  <2>1. \A n \in Nodes : ~Member(n)
    BY <1>1, PortFacts DEF Member
  <2>2. <<opts.sm>> \in Seq(DOMAIN remote)
    BY <1>1
  <2>3. 0 % LidStep = 0 /\ 1 - 1 = 0
    BY <1>2 DEF LidsInv
  <2> QED
    BY <1>3, <2>1, <2>2, <2>3 DEF Visiting
<1> QED
  BY <1>1, <1>2, <1>4, <1>5 DEF DesignLids

\* LIDs and cables stay as they are from then on.
LEMMA VisitedKept ==
  ASSUME DesignLids, LidsFrozen \/ UNCHANGED vars
  PROVE  DesignLids'
<1>0. UNCHANGED <<remote, opts, baseLid, portByLid, maxLid>>
  BY DEF LidsFrozen, vars, subnetVars
<1>1. LidsByNode' /\ (Visited => Visited') /\ (remote \in Wirings)'
  BY <1>0 DEF DesignLids, LidsByNode, Visited, ListedAt, HopLids, LidStep, Member
<1>2. CASE LidsFrozen
  <2>1. LidsInv'
    BY <1>0, <1>2 DEF LidsFrozen, DesignLids, LidsInv, LidsApart, HasLid, LidStep
  <2> QED
    BY <1>1, <1>2, <2>1 DEF DesignLids, LidsFrozen
<1>3. CASE UNCHANGED vars
  <2>1. LidsInv'
    BY <1>3, LidsStep DEF DesignLids
  <2>2. work' = work /\ stage' = stage
    BY <1>3 DEF vars, subnetVars
  <2>3. Visiting => Visiting'
    BY <1>0, <2>2 DEF Visiting, Awaits, ListedAt, Member, LidStep
  <2> QED
    BY <1>1, <2>1, <2>2, <2>3 DEF DesignLids
<1> QED
  BY <1>2, <1>3

\* Every step keeps what is known of the visits and of the LIDs they give.
LEMMA DesignLidsStep == DesignLids /\ [Next \/ Done]_vars => DesignLids'
BY VisitStep, VisitsEnd, VisitedKept, OthersKeepLids DEF Next, Design, Check, Done

-----------------------------------------------------------------------------
(* What tables of hops say *)

\* The node that has the LID.
Home(l) == portByLid[l][1]

\* The cable at port i of switch s leads to the port with LID l.
AtCa(s, i, l) == <<s, i>> \in DOMAIN remote /\ baseLid[remote[<<s, i>>]] = l

\* What a row of the table of switch s says of LID l is true: the first column is the
\* least, and there is a way as long as a column says: one cable to the CA that has
\* the LID, or on from the next switch.
RowSound(s, l, row) ==
  /\ \A i \in 1 .. NumPorts[s] : row[0] <= row[i]
  /\ row[0] # Unassigned => Home(l) \in Ball({s}, Switches, row[0])
  /\ Home(l) # s => \A i \in ToSwitches(s), t \in Switches :
       t = Remote(<<s, i>>)[1] /\ row[i] # Unassigned =>
         row[i] >= 1 /\ Home(l) \in Ball({t}, Switches, row[i] - 1)
  /\ Home(l) # s => \A i \in 1 .. NumPorts[s] :
       i \notin ToSwitches(s) /\ row[i] # Unassigned => row[i] = 1 /\ AtCa(s, i, l)

TablesTyped(H) ==
  /\ H = [s \in Switches |-> H[s]]
  /\ \A s \in Switches : H[s] \in [0 .. maxLid -> [0 .. NumPorts[s] -> 0 .. Unassigned]]

TablesSound(H) == \A s \in MemberSwitches, l \in HopLids : RowSound(s, l, H[s][l])

\* The nodes below m have put their LIDs into their own table, or their neighbour's.
SeededBelow(H, m) ==
  /\ \A s \in MemberSwitches, l \in HopLids : Home(l) = s /\ s < m => H[s][l][0] = 0
  /\ \A q \in DOMAIN remote :
       q[1] \notin Switches /\ q[1] < m /\ baseLid[q] # 0 /\ remote[q][1] \in Switches =>
         H[remote[q][1]][baseLid[q]][0] <= 1

\* Distances stay as they are when the cables do.
LEMMA BallFrozen ==
  ASSUME remote' = remote, NEW S, NEW Via, NEW k
  PROVE  Ball(S, Via, k)' = Ball(S, Via, k)
BY Zenon DEF Ball

\* A row stays true as long as the cables and the LIDs stay as they are.
LEMMA RowFrozen ==
  ASSUME UNCHANGED <<remote, baseLid, portByLid>>, NEW s, NEW l, NEW row, RowSound(s, l, row)
  PROVE  RowSound(s, l, row)'
<1>1. PICK h, T : h = Home(l) /\ T = ToSwitches(s)
  OBVIOUS
<1>2. Home(l)' = h /\ ToSwitches(s)' = T
  BY <1>1 DEF Home, ToSwitches, Remote
<1>3. \A i : Remote(<<s, i>>)' = Remote(<<s, i>>)
  BY DEF Remote
<1>4. row[0] # Unassigned => h \in Ball({s}, Switches, row[0])'
  BY <1>1, BallFrozen, Zenon DEF RowSound
<1>5. ASSUME h # s, NEW i \in T, NEW t \in Switches, t = Remote(<<s, i>>)[1], row[i] # Unassigned
      PROVE  row[i] >= 1 /\ h \in Ball({t}, Switches, row[i] - 1)'
  <2>1. row[i] >= 1 /\ h \in Ball({t}, Switches, row[i] - 1)
    BY <1>1, <1>5, Zenon DEF RowSound
  <2>2. Ball({t}, Switches, row[i] - 1)' = Ball({t}, Switches, row[i] - 1)
    BY BallFrozen
  <2> QED
    BY <2>1, <2>2, Zenon
<1>6. \A i \in 1 .. NumPorts[s] : row[0] <= row[i]
  BY Zenon DEF RowSound
<1>7. ASSUME h # s, NEW i \in 1 .. NumPorts[s], i \notin T, row[i] # Unassigned
      PROVE  row[i] = 1 /\ AtCa(s, i, l)'
  <2>1. row[i] = 1 /\ AtCa(s, i, l)
    BY <1>1, <1>7, Zenon DEF RowSound
  <2>2. AtCa(s, i, l)' = AtCa(s, i, l)
    BY DEF AtCa
  <2> QED
    BY <2>1, <2>2
<1> QED
  BY <1>2, <1>3, <1>4, <1>5, <1>6, <1>7, Zenon DEF RowSound

\* The same of all tables.
LEMMA TablesFrozen ==
  ASSUME UNCHANGED <<remote, opts, baseLid, portByLid, maxLid>>, NEW H, H = hops'
  PROVE  /\ TablesTyped(H) => TablesTyped(hops)'
         /\ TablesSound(H) => TablesSound(hops)'
<1>1. TablesTyped(H) => TablesTyped(hops)'
  BY DEF TablesTyped
<1>2. TablesSound(H) => TablesSound(hops)'
  <2>1. MemberSwitches' = MemberSwitches /\ HopLids' = HopLids
    BY DEF MemberSwitches, Member, HopLids, LidStep
  <2> SUFFICES ASSUME TablesSound(H), NEW s \in MemberSwitches, NEW l \in HopLids
               PROVE  RowSound(s, l, H[s][l])'
    BY <2>1, Zenon DEF TablesSound
  <2>2. RowSound(s, l, H[s][l])
    BY Zenon DEF TablesSound
  <2> PICK row : row = H[s][l]
    OBVIOUS
  <2> QED
    BY <2>2, RowFrozen, Zenon
<1> QED
  BY <1>1, <1>2

\* The same of the seeds.
LEMMA SeededFrozen ==
  ASSUME UNCHANGED <<remote, opts, baseLid, portByLid, maxLid>>, NEW H, H = hops', NEW m
  PROVE  SeededBelow(H, m) => SeededBelow(hops, m)'
<1>3. SeededBelow(H, m) => SeededBelow(hops, m)'
  BY SMT DEF SeededBelow, Home, MemberSwitches, Member, HopLids, LidStep
<1> QED
  BY <1>3

\* Nothing lies beyond a node that no way leads over.
LEMMA BallStays ==
  ASSUME IsWiring(remote), NEW t \in Nodes, NEW Via, t \notin Via
  PROVE  \A k \in Nat : Ball({t}, Via, k) = {t}
<1> PICK S : S = {t}
  OBVIOUS
<1>0. S \in SUBSET Nodes
  OBVIOUS
<1>1. /\ Ball(S, Via, 0) = S
      /\ \A k \in Nat, m \in Nat : m = k + 1 =>
           \A n : n \in Ball(S, Via, m) <=> n \in Ball(S, Via, k) \/ Reached(S, Via, k, n)
  BY ONLY <1>0, IsWiring(remote), BallStep, Zenon
<1> DEFINE T == {k \in Nat : Ball(S, Via, k) = S}
<1>2. 0 \in T
  BY <1>1
<1>3. ASSUME NEW k \in Nat, k \in T
      PROVE  k + 1 \in T
  <2> PICK m \in Nat : m = k + 1
    OBVIOUS
  <2>1. Ball(S, Via, k) = S
    BY <1>3
  <2>2. \A n : ~Reached(S, Via, k, n)
    BY <2>1 DEF Reached
  <2>3. \A n : n \in Ball(S, Via, m) <=> n \in S
    BY <1>1, <2>1, <2>2
  <2>4. Ball(S, Via, m) \in SUBSET Nodes
    BY ONLY <1>0, IsWiring(remote), BallStep, m \in Nat, Zenon
  <2>5. Ball(S, Via, m) = S
    BY <2>3, <2>4
  <2> QED
    BY <2>5
<1>4. \A k \in Nat : k \in T
  <2> HIDE DEF T
  <2> QED
    BY <1>2, <1>3, SetInduction
<1> QED
  BY <1>4

\* The node with a LID of the tables, and the port, if it is a CA.
LEMMA HomeFacts ==
  ASSUME DesignLids, stage # "lids", NEW l \in HopLids
  PROVE  /\ l \in Nat \ {0} /\ l \in 0 .. maxLid /\ maxLid \in Nat
         /\ Home(l) \in Nodes /\ Member(Home(l))
         /\ \E p \in Ports : baseLid[p] = l
         /\ \A p \in Ports : baseLid[p] = l => p[1] = Home(l)
<1>1. Visited /\ LidsInv /\ LidsApart
  BY DEF DesignLids, LidsInv
<1>2. l \in Nat \ {0} /\ l \in 0 .. maxLid /\ maxLid \in Nat /\ l \in DOMAIN portByLid
  BY <1>1 DEF Visited, HopLids
<1>3. PICK p \in Ports : baseLid[p] = l
  BY <1>1 DEF Visited, ListedAt
<1>4. ASSUME NEW q \in Ports, baseLid[q] = l
      PROVE  q[1] = Home(l)
  <2>1. HasLid(q, l)
    BY <1>1, <1>2, <1>4 DEF HasLid, LidsInv
  <2>2. baseLid[q] # 0
    BY <1>2, <1>4
  <2>3. portByLid[l][1] = q[1]
    BY ONLY <1>1, <1>2, <2>1, <2>2, q \in Ports DEF LidsApart
  <2> QED
    BY <2>3 DEF Home
<1>5. p[1] = Home(l)
  BY <1>3, <1>4
<1>6. Home(l) \in Nodes /\ p \in PortsOf(Home(l))
  BY <1>5, PortFacts
<1>7. Member(Home(l))
  BY <1>2, <1>3, <1>6 DEF Member
<1> QED
  BY <1>2, <1>3, <1>4, <1>6, <1>7

\* The switches next to a switch of the subnet are switches of the subnet.
LEMMA NeighbourFacts ==
  ASSUME DesignLids, stage # "lids", NEW s \in MemberSwitches, NEW i \in ToSwitches(s)
  PROVE  /\ s \in Switches /\ s \in Nodes /\ i \in 1 .. NumPorts[s] /\ <<s, i>> \in DOMAIN remote
         /\ Remote(<<s, i>>) = remote[<<s, i>>] /\ Remote(<<s, i>>)[1] \in MemberSwitches
<1>1. s \in Switches /\ Member(s) /\ s \in Nodes
  BY SubnetAssumption DEF MemberSwitches
<1>2. i \in 1 .. NumPorts[s] /\ Remote(<<s, i>>)[1] \in Switches
  BY DEF ToSwitches
<1>3. NoPort[1] \notin Switches
  BY SubnetAssumption DEF NoPort, Nodes
<1>4. <<s, i>> \in DOMAIN remote /\ Remote(<<s, i>>) = remote[<<s, i>>]
  BY <1>2, <1>3 DEF Remote
<1>5. PICK q : q = <<s, i>>
  OBVIOUS
<1>6. q \in DOMAIN remote /\ q[1] = s
  BY <1>4, <1>5
<1>7. Member(remote[q][1])
  BY ONLY <1>1, <1>6, DesignLids, stage # "lids" DEF DesignLids, Visited
<1> QED
  BY <1>1, <1>2, <1>4, <1>5, <1>7 DEF MemberSwitches

\* A CA has one cable.
OneCable ==
  \A r \in Wirings : \A p, q \in DOMAIN r : p[1] = q[1] /\ p[1] \notin Switches => p = q

\* What the switches next to s know is no news for s.
SettledAt(H, s) ==
  \A l \in HopLids, i \in ToSwitches(s), t \in MemberSwitches :
    t = Remote(<<s, i>>)[1] => H[s][l][i] <= H[t][l][0] + 1

\* Entries are numbers.
LEMMA EntriesAreNumbers == \A h : h \in 0 .. Unassigned <=> h \in Nat /\ h <= Unassigned
BY DEF Unassigned

\* The hops in the table of a switch of the subnet are numbers.
LEMMA EntryFacts ==
  ASSUME DesignLids, stage # "lids", NEW H, TablesTyped(H), NEW s \in MemberSwitches,
         NEW l \in HopLids, NEW i \in 0 .. NumPorts[s]
  PROVE  H[s][l][i] \in Nat /\ H[s][l][i] <= Unassigned /\ H[s][l][0] \in Nat /\ H[s][l][0] <= Unassigned
<1>1. l \in 0 .. maxLid
  BY HomeFacts
<1>2. s \in Switches /\ s \in Nodes
  BY SubnetAssumption DEF MemberSwitches
<1>3. NumPorts[s] \in Nat
  BY <1>2, SubnetAssumption
<1>4. H[s] \in [0 .. maxLid -> [0 .. NumPorts[s] -> 0 .. Unassigned]]
  BY <1>2 DEF TablesTyped
<1>5. H[s][l] \in [0 .. NumPorts[s] -> 0 .. Unassigned]
  BY <1>1, <1>4
<1>6. H[s][l][i] \in 0 .. Unassigned /\ H[s][l][0] \in 0 .. Unassigned
  BY <1>3, <1>5
<1> QED
  BY ONLY <1>6, EntriesAreNumbers

\* When all is settled no table has more hops to a LID than there are cables.
LEMMA HopsComplete ==
  ASSUME DesignLids, stage # "lids", OneCable, NEW H, TablesTyped(H), TablesSound(H),
         \A s \in MemberSwitches : SettledAt(H, s), SeededBelow(H, NumNodes + 1)
  PROVE  \A k \in Nat : \A s \in MemberSwitches, l \in HopLids :
           Home(l) \in Ball({s}, Switches, k) => H[s][l][0] <= k
<1> DEFINE T == {k \in Nat : \A s \in MemberSwitches, l \in HopLids :
                   Home(l) \in Ball({s}, Switches, k) => H[s][l][0] <= k}
<1>0. /\ \A s \in MemberSwitches : s \in Switches /\ s \in Nodes /\ s < NumNodes + 1
      /\ IsWiring(remote) /\ remote \in Wirings
  BY SubnetAssumption, CableFacts DEF MemberSwitches, DesignLids, Nodes
<1>1. 0 \in T
  <2> SUFFICES ASSUME NEW s \in MemberSwitches, NEW l \in HopLids, Home(l) \in Ball({s}, Switches, 0)
               PROVE  H[s][l][0] <= 0
    OBVIOUS
  <2>1. Ball({s}, Switches, 0) = {s}
    BY <1>0, BallIsIterated
  <2>2. Home(l) = s /\ s < NumNodes + 1
    BY <1>0, <2>1
  <2>3. H[s][l][0] = 0
    BY <2>2, Zenon DEF SeededBelow
  <2> QED
    BY <2>3
<1>2. ASSUME NEW k \in Nat, k \in T
      PROVE  k + 1 \in T
  <2> PICK m \in Nat : m = k + 1
    OBVIOUS
  <2> SUFFICES ASSUME NEW s \in MemberSwitches, NEW l \in HopLids, Home(l) \in Ball({s}, Switches, m)
               PROVE  H[s][l][0] <= m
    OBVIOUS
  <2>0. H[s][l][0] \in Nat
    BY <1>0, EntryFacts, SubnetAssumption
  <2>1. CASE Home(l) = s
    <3>1. H[s][l][0] = 0
      BY <1>0, <2>1, Zenon DEF SeededBelow
    <3> QED
      BY <3>1
  <2>2. CASE Home(l) # s
    <3>1. Home(l) \in Beyond(s, Switches, k)
      BY <1>0, <2>2, BallFirst
    <3>2. PICK q \in DOMAIN remote : q[1] = s /\ Home(l) \in Ball({remote[q][1]}, Switches, k)
      BY <3>1 DEF Beyond
    <3>3. /\ q = <<s, q[2]>> /\ q[2] \in 1 .. NumPorts[s] /\ Remote(q) = remote[q]
          /\ remote[q] \in DOMAIN remote /\ remote[remote[q]] = q /\ remote[q][1] \in Nodes
      BY <1>0, <3>2, CableFacts, PortFacts
    <3>4. CASE remote[q][1] \in Switches
      <4> PICK i, t : i = q[2] /\ t = remote[q][1]
        OBVIOUS
      <4>1. i \in ToSwitches(s) /\ t = Remote(<<s, i>>)[1]
        BY <3>3, <3>4 DEF ToSwitches
      <4>2. t \in MemberSwitches
        BY <4>1, NeighbourFacts
      <4>3. H[t][l][0] <= k
        BY <1>2, <3>2, <4>2
      <4>4. H[s][l][i] <= H[t][l][0] + 1
        BY <4>1, <4>2 DEF SettledAt
      <4>5. H[s][l][0] <= H[s][l][i]
        <5>1. RowSound(s, l, H[s][l])
          BY Zenon DEF TablesSound
        <5> QED
          BY <3>3, <5>1, Zenon DEF RowSound
      <4>6. H[s][l][i] \in Nat /\ H[t][l][0] \in Nat
        <5>1. i \in 0 .. NumPorts[s] /\ 0 \in 0 .. NumPorts[t]
          BY <1>0, <3>3, <4>2, SubnetAssumption
        <5> QED
          BY <4>2, <5>1, EntryFacts
      <4> QED
        BY <2>0, <4>3, <4>4, <4>5, <4>6
    <3>5. CASE remote[q][1] \notin Switches
      <4> PICK c \in Nodes : c = remote[q][1]
        BY <3>3
      <4>1. Home(l) = c
        <5>1. Ball({c}, Switches, k) = {c}
          BY <1>0, <3>5, BallStays
        <5> QED
          BY <3>2, <5>1
      <4>2. PICK p \in Ports : baseLid[p] = l /\ p[1] = c
        BY <4>1, HomeFacts
      <4>3. p \in DOMAIN remote /\ l # 0
        BY <3>5, <4>2, HomeFacts DEF DesignLids, LidsByNode
      <4>4. p = remote[q]
        BY <1>0, <3>3, <3>5, <4>2, <4>3 DEF OneCable
      <4>5. remote[p][1] = s /\ p[1] \notin Switches /\ p[1] < NumNodes + 1 /\ baseLid[p] = l
        <5>1. p[1] \notin Switches /\ remote[p] = q
          BY <3>3, <3>5, <4>2, <4>4
        <5>2. c < NumNodes + 1
          BY SubnetAssumption DEF Nodes
        <5> QED
          BY <3>2, <4>2, <5>1, <5>2
      <4>6. H[s][l][0] <= 1
        BY <1>0, <4>3, <4>5, Zenon DEF SeededBelow
      <4> QED
        BY <2>0, <4>6
    <3> QED
      BY <3>4, <3>5
  <2> QED
    BY <2>1, <2>2
<1>3. \A k \in Nat : k \in T
  <2> HIDE DEF T
  <2> QED
    BY <1>1, <1>2, SetInduction
<1> QED
  BY <1>3

\* Then the tables have the distances.
LEMMA HopsExact ==
  ASSUME DesignLids, stage # "lids", OneCable, NumNodes <= Unassigned + 1,
         TablesTyped(hops), TablesSound(hops),
         \A s \in MemberSwitches : SettledAt(hops, s), SeededBelow(hops, NumNodes + 1)
  PROVE  HopsAreDistances
<1> DEFINE Far(t, to) == LET d == Distance({t}, Switches, to) IN IF d = NumNodes THEN Unassigned ELSE d
<1>0. /\ \A s \in MemberSwitches : s \in Switches /\ s \in Nodes /\ 0 \in 0 .. NumPorts[s]
      /\ IsWiring(remote)
  <2>1. \A s \in MemberSwitches : s \in Switches /\ s \in Nodes
    BY SubnetAssumption DEF MemberSwitches
  <2>2. \A s \in Nodes : 0 \in 0 .. NumPorts[s]
    BY SubnetAssumption
  <2> QED
    BY <2>1, <2>2, CableFacts DEF DesignLids
<1>1. \A k \in Nat : \A s \in MemberSwitches, l \in HopLids :
        Home(l) \in Ball({s}, Switches, k) => hops[s][l][0] <= k
  BY HopsComplete
<1>2. ASSUME NEW s \in MemberSwitches, NEW l \in HopLids
      PROVE  hops[s][l][0] = Far(s, Home(l))
  <2>1. PICK d : d = Distance({s}, Switches, Home(l))
    OBVIOUS
  <2>2. /\ d \in 0 .. NumNodes
        /\ \A k \in Nat : Home(l) \in Ball({s}, Switches, k) => d <= k /\ d < NumNodes
        /\ d < NumNodes => Home(l) \in Ball({s}, Switches, d)
    BY <1>0, <2>1, DistanceFacts
  <2>3. PICK h : h = hops[s][l][0]
    OBVIOUS
  <2>4. h \in Nat /\ h <= Unassigned
    BY <1>0, <2>3, EntryFacts
  <2>5. h # Unassigned => d <= h /\ d < NumNodes
    <3>1. RowSound(s, l, hops[s][l])
      BY Zenon DEF TablesSound
    <3>2. h # Unassigned => Home(l) \in Ball({s}, Switches, h)
      BY <2>3, <3>1, Zenon DEF RowSound
    <3> QED
      BY <2>2, <2>4, <3>2
  <2>6. d < NumNodes => h <= d
    BY <1>1, <2>2, <2>3
  <2>7. h = IF d = NumNodes THEN Unassigned ELSE d
    BY <2>2, <2>4, <2>5, <2>6, SubnetAssumption DEF Unassigned
  <2> QED
    BY <2>1, <2>3, <2>7
<1>3. ASSUME NEW s \in MemberSwitches, NEW l \in HopLids, Home(l) # s, NEW i \in ToSwitches(s),
             NEW d, d = Far(Remote(<<s, i>>)[1], Home(l))
      PROVE  hops[s][l][i] = IF d = Unassigned THEN d ELSE d + 1
  <2> PICK t : t = Remote(<<s, i>>)[1]
    OBVIOUS
  <2>1. t \in MemberSwitches /\ i \in 1 .. NumPorts[s]
    BY NeighbourFacts
  <2>2. d = hops[t][l][0] /\ d \in Nat /\ d <= Unassigned
    <3>1. d = hops[t][l][0]
      BY <1>2, <1>3, <2>1
    <3> QED
      BY <1>0, <2>1, <3>1, EntryFacts
  <2>3. PICK h : h = hops[s][l][i]
    OBVIOUS
  <2>4. h \in Nat /\ h <= Unassigned
    <3>1. i \in 0 .. NumPorts[s]
      BY <2>1
    <3> QED
      BY <2>3, <3>1, EntryFacts
  <2>5. h <= d + 1
    BY <2>1, <2>2, <2>3 DEF SettledAt
  <2>6. h # Unassigned => h >= 1 /\ d <= h - 1
    <3> SUFFICES ASSUME h # Unassigned
                 PROVE  h >= 1 /\ d <= h - 1
      OBVIOUS
    <3>1. RowSound(s, l, hops[s][l])
      BY Zenon DEF TablesSound
    <3>2. h >= 1 /\ Home(l) \in Ball({t}, Switches, h - 1)
      <4>1. t \in Switches
        BY <1>0, <2>1
      <4> QED
        BY <1>3, <2>3, <3>1, <4>1, Zenon DEF RowSound
    <3>3. h - 1 \in Nat
      BY <2>4, <3>2
    <3>4. PICK k \in Nat : k = h - 1
      BY <3>3
    <3>5. hops[t][l][0] <= k
      BY <1>1, <2>1, <3>2, <3>4
    <3> QED
      BY <2>2, <3>2, <3>4, <3>5
  <2> QED
    BY <2>2, <2>3, <2>4, <2>5, <2>6 DEF Unassigned
<1> HIDE DEF Far
<1>4. \A s \in MemberSwitches, l \in HopLids :
        /\ hops[s][l][0] = Far(s, Home(l))
        /\ Home(l) # s => \A i \in ToSwitches(s) :
             hops[s][l][i] = IF Far(Remote(<<s, i>>)[1], Home(l)) = Unassigned
                             THEN Far(Remote(<<s, i>>)[1], Home(l))
                             ELSE Far(Remote(<<s, i>>)[1], Home(l)) + 1
  BY <1>2, <1>3
<1> QED
  BY <1>4, Zenon DEF HopsAreDistances, Home, Far

-----------------------------------------------------------------------------
(* The sweeps of SubnMgtCalcMinHopTables *)

\* A row after a sweep: an entry is the old one, or what the switch behind a port knows
\* and one more, and no more than either.
RowRelaxed(s, l, old, new) ==
  /\ \A i \in 1 .. NumPorts[s] :
       /\ new[i] <= old[i]
       /\ new[i] = old[i] \/ \E t \in Switches : t = Remote(<<s, i>>)[1] /\ new[i] = hops[t][l][0] + 1
       /\ \A t \in Switches : t = Remote(<<s, i>>)[1] => new[i] <= hops[t][l][0] + 1
       /\ old[0] <= old[i] => new[0] <= new[i]
  /\ new[0] <= old[0]
  /\ new[0] = old[0] \/ \E i \in 1 .. NumPorts[s], t \in Switches :
                          t = Remote(<<s, i>>)[1] /\ new[0] = hops[t][l][0] + 1

\* An offer is less than the entry of its port.
LEMMA OffersFacts ==
  ASSUME NEW s, NEW l, NEW i, NEW o
  PROVE  o \in Offers(s, l, i) <=>
           \E t \in Switches : t = Remote(<<s, i>>)[1] /\ o = hops[t][l][0] + 1 /\ o < hops[s][l][i]
BY DEF Offers

\* Relaxed makes such rows.
LEMMA RelaxedFacts ==
  ASSUME TablesTyped(hops), NEW s \in Switches, NEW l \in 0 .. maxLid
  PROVE  /\ DOMAIN Relaxed(s) = 0 .. maxLid
         /\ Relaxed(s)[l] \in [0 .. NumPorts[s] -> 0 .. Unassigned]
         /\ l \notin HopLids => Relaxed(s)[l] = hops[s][l]
         /\ l \in HopLids => RowRelaxed(s, l, hops[s][l], Relaxed(s)[l])
<1>1. PICK N \in Nat : N = NumPorts[s]
  BY SubnetAssumption
<1>2. /\ hops[s] \in [0 .. maxLid -> [0 .. N -> 0 .. Unassigned]]
      /\ \A t \in Switches : hops[t][l] \in [0 .. NumPorts[t] -> 0 .. Unassigned]
  BY <1>1 DEF TablesTyped
<1>3. \A t \in Switches : hops[t][l][0] \in Nat
  <2>1. \A t \in Switches : 0 \in 0 .. NumPorts[t]
    BY SubnetAssumption
  <2>2. \A t \in Switches : hops[t][l][0] \in 0 .. Unassigned
    BY ONLY <1>2, <2>1
  <2> QED
    BY ONLY <2>2, EntriesAreNumbers
<1>4. PICK old : old = hops[s][l]
  OBVIOUS
<1>5. PICK F : F = [i \in 1 .. N |-> Offers(s, l, i)]
  OBVIOUS
<1>6. PICK new : new = Relaxed(s)[l]
  OBVIOUS
<1>7. DOMAIN Relaxed(s) = 0 .. maxLid
  BY <1>2 DEF Relaxed
<1>8. new = [i \in 0 .. N |->
               LET offers == IF l \notin HopLids THEN {}
                             ELSE IF i # 0 THEN Offers(s, l, i)
                             ELSE UNION {Offers(s, l, j) : j \in 1 .. N}
               IN Min(offers \cup {hops[s][l][i]})]
  <2>1. l \in DOMAIN hops[s]
    BY <1>2
  <2> QED
    BY <1>1, <1>6, <2>1, Zenon DEF Relaxed
<1>9. old \in [0 .. N -> 0 .. Unassigned] /\ \A i \in 0 .. N : old[i] \in Nat /\ old[i] <= Unassigned
  <2>1. old \in [0 .. N -> 0 .. Unassigned]
    BY <1>2, <1>4
  <2>2. \A i \in 0 .. N : old[i] \in 0 .. Unassigned
    BY ONLY <2>1
  <2> QED
    BY ONLY <2>1, <2>2, EntriesAreNumbers
<1>10. \A i \in 1 .. N : \A o : o \in F[i] <=>
         \E t \in Switches : t = Remote(<<s, i>>)[1] /\ o = hops[t][l][0] + 1 /\ o < old[i]
  BY <1>4, <1>5, OffersFacts
<1>11. \A i \in 1 .. N : F[i] \in SUBSET Nat
  <2>1. \A t \in Switches : hops[t][l][0] + 1 \in Nat
    BY <1>3
  <2>2. ASSUME NEW i \in 1 .. N, NEW o \in F[i]
        PROVE  o \in Nat
    <3>1. PICK t \in Switches : o = hops[t][l][0] + 1
      BY ONLY i \in 1 .. N, o \in F[i], <1>10, Zenon
    <3> QED
      BY ONLY <2>1, <3>1
  <2> QED
    BY ONLY <2>2
<1>12. CASE l \notin HopLids
  <2>1. \A i \in 0 .. N : new[i] = Min({} \cup {old[i]})
    BY <1>4, <1>8, <1>12
  <2>2. ASSUME NEW i \in 0 .. N
        PROVE  new[i] = old[i]
    <3>1. PICK S : S = {} \cup {old[i]}
      OBVIOUS
    <3>2. S \in SUBSET Nat /\ S # {} /\ S = {old[i]}
      BY <1>9, <3>1
    <3>3. Min(S) \in S
      BY ONLY <3>2, MinFacts
    <3> QED
      BY <2>1, <3>1, <3>2, <3>3
  <2>3. new = old
    BY <1>8, <1>9, <2>2
  <2> QED
    BY <1>1, <1>4, <1>6, <1>7, <1>9, <1>12, <2>3
<1>13. CASE l \in HopLids
  <2>1. ASSUME NEW i \in 1 .. N
        PROVE  /\ new[i] \in Nat /\ new[i] <= old[i]
               /\ new[i] = old[i] \/ new[i] \in F[i]
               /\ \A o \in F[i] : new[i] <= o
    <3>1. PICK S : S = F[i] \cup {old[i]}
      OBVIOUS
    <3>2. i \in 0 .. N /\ i # 0
      OBVIOUS
    <3>3. new[i] = Min(S)
      BY <1>4, <1>5, <1>8, <1>13, <3>1, <3>2
    <3>4. S \in SUBSET Nat /\ S # {}
      BY <1>9, <1>11, <3>1
    <3>5. Min(S) \in S /\ \A y \in S : Min(S) <= y
      BY ONLY <3>4, MinFacts
    <3> QED
      BY <3>1, <3>3, <3>4, <3>5
  <2>2. /\ new[0] \in Nat /\ new[0] <= old[0]
        /\ new[0] = old[0] \/ \E i \in 1 .. N : new[0] \in F[i]
        /\ \A i \in 1 .. N : \A o \in F[i] : new[0] <= o
    <3>0. PICK U : U = UNION {F[i] : i \in 1 .. N}
      OBVIOUS
    <3>1. PICK S : S = U \cup {old[0]}
      OBVIOUS
    <3>2. 0 \in 0 .. N
      OBVIOUS
    <3>3. new[0] = Min(S)
      <4>1. {F[i] : i \in 1 .. N} = {Offers(s, l, j) : j \in 1 .. N}
        BY <1>5
      <4> QED
        BY <1>4, <1>8, <1>13, <3>0, <3>1, <3>2, <4>1, Zenon
    <3>4. S \in SUBSET Nat /\ S # {}
      BY <1>9, <1>11, <3>0, <3>1, <3>2
    <3>5. Min(S) \in S /\ \A y \in S : Min(S) <= y
      BY ONLY <3>4, MinFacts
    <3>6. \A o : o \in S <=> o = old[0] \/ \E i \in 1 .. N : o \in F[i]
      BY <3>0, <3>1
    <3> QED
      BY <3>3, <3>4, <3>5, <3>6
  <2>3. RowRelaxed(s, l, old, new)
    <3>1. ASSUME NEW i \in 1 .. N
          PROVE  /\ new[i] <= old[i]
                 /\ new[i] = old[i] \/ \E t \in Switches : t = Remote(<<s, i>>)[1] /\ new[i] = hops[t][l][0] + 1
                 /\ \A t \in Switches : t = Remote(<<s, i>>)[1] => new[i] <= hops[t][l][0] + 1
                 /\ old[0] <= old[i] => new[0] <= new[i]
      <4>1. new[i] = old[i] \/ \E t \in Switches : t = Remote(<<s, i>>)[1] /\ new[i] = hops[t][l][0] + 1
        BY <1>10, <2>1
      <4>2. ASSUME NEW t \in Switches, t = Remote(<<s, i>>)[1]
            PROVE  new[i] <= hops[t][l][0] + 1
        <5> PICK o \in Nat : o = hops[t][l][0] + 1
          BY <1>3
        <5>0. i \in 0 .. N
          OBVIOUS
        <5>1. CASE o < old[i]
          <6>1. o \in F[i]
            BY <1>10, <4>2, <5>1
          <6> QED
            BY <2>1, <6>1
        <5>2. CASE ~(o < old[i])
          BY <1>9, <2>1, <5>0, <5>2
        <5> QED
          BY <5>1, <5>2
      <4>3. ASSUME old[0] <= old[i]
            PROVE  new[0] <= new[i]
        <5>0. i \in 0 .. N /\ 0 \in 0 .. N
          OBVIOUS
        <5>1. CASE new[i] = old[i]
          BY <1>9, <2>2, <4>3, <5>0, <5>1
        <5>2. CASE new[i] \in F[i]
          BY <2>2, <5>2
        <5> QED
          BY <2>1, <5>1, <5>2
      <4> QED
        BY <2>1, <4>1, <4>2, <4>3
    <3>2. new[0] = old[0] \/ \E i \in 1 .. N, t \in Switches :
                               t = Remote(<<s, i>>)[1] /\ new[0] = hops[t][l][0] + 1
      BY <1>10, <2>2
    <3> QED
      BY <1>1, <2>2, <3>1, <3>2 DEF RowRelaxed
  <2>4. \A i \in 0 .. N : new[i] \in 0 .. Unassigned
    <3>1. ASSUME NEW i \in 0 .. N
          PROVE  new[i] \in 0 .. Unassigned
      <4>1. CASE i = 0
        <5>1. 0 \in 0 .. N
          OBVIOUS
        <5>2. new[0] \in Nat /\ new[0] <= Unassigned
          BY <1>9, <2>2, <5>1 DEF Unassigned
        <5> QED
          BY ONLY <4>1, <5>2, EntriesAreNumbers
      <4>2. CASE i # 0
        <5>1. i \in 1 .. N
          BY <4>2
        <5>2. new[i] \in Nat /\ new[i] <= Unassigned
          BY <1>9, <2>1, <5>1 DEF Unassigned
        <5> QED
          BY ONLY <5>2, EntriesAreNumbers
      <4> QED
        BY <4>1, <4>2
    <3> QED
      BY <3>1
  <2>5. new \in [0 .. N -> 0 .. Unassigned]
    <3>1. new = [i \in 0 .. N |-> new[i]]
      BY <1>8
    <3> QED
      BY <2>4, <3>1
  <2> QED
    BY <1>1, <1>4, <1>6, <1>7, <1>13, <2>3, <2>5
<1> QED
  BY <1>12, <1>13

\* Tables whose least hops do not grow keep what the nodes have put into them.
LEMMA SeedsKept ==
  ASSUME DesignLids, stage # "lids", NEW H, NEW G, TablesTyped(H), TablesTyped(G), NEW m,
         \A s \in MemberSwitches, l \in HopLids : G[s][l][0] <= H[s][l][0],
         SeededBelow(H, m)
  PROVE  SeededBelow(G, m)
<1>1. \A s \in MemberSwitches, l \in HopLids : H[s][l][0] \in Nat /\ G[s][l][0] \in Nat
  <2>1. \A s \in MemberSwitches : 0 \in 0 .. NumPorts[s]
    <3>1. \A s \in MemberSwitches : s \in Nodes
      BY SubnetAssumption DEF MemberSwitches
    <3>2. \A s \in Nodes : 0 \in 0 .. NumPorts[s]
      BY SubnetAssumption
    <3> QED
      BY <3>1, <3>2
  <2> QED
    BY <2>1, EntryFacts
<1>2. ASSUME NEW s \in MemberSwitches, NEW l \in HopLids, Home(l) = s, s < m
      PROVE  G[s][l][0] = 0
  <2>1. H[s][l][0] = 0
    BY <1>2, Zenon DEF SeededBelow
  <2> QED
    BY <1>1, <2>1
<1>3. ASSUME NEW q \in DOMAIN remote, q[1] \notin Switches, q[1] < m, baseLid[q] # 0,
             remote[q][1] \in Switches
      PROVE  G[remote[q][1]][baseLid[q]][0] <= 1
  <2>1. H[remote[q][1]][baseLid[q]][0] <= 1
    BY <1>3, Zenon DEF SeededBelow
  <2>2. q \in Ports /\ q[1] \in Nodes /\ q \in PortsOf(q[1])
    BY CableFacts, PortFacts DEF DesignLids
  <2>3. Visited
    BY DEF DesignLids
  <2>4. baseLid[q] \in HopLids /\ remote[q][1] \in MemberSwitches
    <3>1. Member(q[1])
      BY <1>3, <2>2 DEF Member
    <3> QED
      BY <1>3, <2>2, <2>3, <3>1 DEF Visited, MemberSwitches
  <2> PICK t, l : t = remote[q][1] /\ l = baseLid[q]
    OBVIOUS
  <2> QED
    BY <1>1, <2>1, <2>4
<1> QED
  BY <1>2, <1>3, Zenon DEF SeededBelow

\* A switch learns nothing that is not true.
LEMMA RelaxedSound ==
  ASSUME DesignLids, stage # "lids", TablesTyped(hops), TablesSound(hops),
         NEW s \in MemberSwitches, NEW l \in HopLids
  PROVE  RowSound(s, l, Relaxed(s)[l])
<1>1. PICK old, new : old = hops[s][l] /\ new = Relaxed(s)[l]
  OBVIOUS
<1>2. s \in Switches /\ s \in Nodes /\ l \in 0 .. maxLid /\ IsWiring(remote)
  BY SubnetAssumption, HomeFacts, CableFacts DEF MemberSwitches, DesignLids
<1>3. RowSound(s, l, old)
  BY <1>1, Zenon DEF TablesSound
<1>4. RowRelaxed(s, l, old, new)
  BY <1>1, <1>2, RelaxedFacts
<1>5. ASSUME NEW i \in 1 .. NumPorts[s], NEW t \in Switches, t = Remote(<<s, i>>)[1],
             hops[t][l][0] + 1 # Unassigned, hops[t][l][0] + 1 <= Unassigned
      PROVE  /\ hops[t][l][0] \in Nat /\ Home(l) \in Ball({t}, Switches, hops[t][l][0])
             /\ Home(l) \in Ball({s}, Switches, hops[t][l][0] + 1)
  <2>1. i \in ToSwitches(s)
    BY <1>5 DEF ToSwitches
  <2>2. /\ t \in MemberSwitches /\ <<s, i>> \in DOMAIN remote
        /\ remote[<<s, i>>][1] = t
    BY <1>5, <2>1, NeighbourFacts
  <2>3. 0 \in 0 .. NumPorts[t]
    BY SubnetAssumption
  <2>4. PICK k : k = hops[t][l][0]
    OBVIOUS
  <2>5. k \in Nat
    BY <2>2, <2>3, <2>4, EntryFacts
  <2>6. RowSound(t, l, hops[t][l])
    BY <2>2, Zenon DEF TablesSound
  <2>7. k # Unassigned
    BY <1>5, <2>4, <2>5 DEF Unassigned
  <2>8. Home(l) \in Ball({t}, Switches, k)
    BY <2>4, <2>6, <2>7, Zenon DEF RowSound
  <2>9. PICK m \in Nat : m = k + 1
    BY <2>5
  <2>10. Home(l) \in Beyond(s, Switches, k)
    <3>1. PICK q : q = <<s, i>>
      OBVIOUS
    <3>2. q \in DOMAIN remote /\ q[1] = s /\ remote[q][1] = t
      BY <2>2, <3>1
    <3> QED
      BY <2>8, <3>2, HomeFacts DEF Beyond
  <2>11. Home(l) \in Ball({s}, Switches, m)
    BY <1>2, <2>5, <2>9, <2>10, BallFirst
  <2> QED
    BY <2>4, <2>5, <2>8, <2>9, <2>11
<1>6. new \in [0 .. NumPorts[s] -> 0 .. Unassigned]
  BY <1>1, <1>2, RelaxedFacts
<1>7. \A i \in 0 .. NumPorts[s] : new[i] \in Nat /\ new[i] <= Unassigned
  <2>1. \A i \in 0 .. NumPorts[s] : new[i] \in 0 .. Unassigned
    BY ONLY <1>6
  <2> QED
    BY ONLY <2>1, EntriesAreNumbers
<1>8. \A i \in 1 .. NumPorts[s] : new[0] <= new[i]
  BY <1>3, <1>4, Zenon DEF RowSound, RowRelaxed
<1>9. ASSUME new[0] # Unassigned
      PROVE  Home(l) \in Ball({s}, Switches, new[0])
  <2>1. CASE new[0] = old[0]
    BY <1>3, <1>9, <2>1, Zenon DEF RowSound
  <2>2. CASE new[0] # old[0]
    <3>1. PICK i \in 1 .. NumPorts[s], t \in Switches :
            t = Remote(<<s, i>>)[1] /\ new[0] = hops[t][l][0] + 1
      BY <1>4, <2>2, Zenon DEF RowRelaxed
    <3>2. new[0] <= Unassigned
      <4>1. 0 \in 0 .. NumPorts[s]
        BY <1>2, SubnetAssumption
      <4> QED
        BY <1>7, <4>1
    <3> QED
      BY <1>5, <1>9, <3>1, <3>2
  <2> QED
    BY <2>1, <2>2
<1>10. ASSUME Home(l) # s, NEW i \in ToSwitches(s), NEW t \in Switches,
              t = Remote(<<s, i>>)[1], new[i] # Unassigned
       PROVE  new[i] >= 1 /\ Home(l) \in Ball({t}, Switches, new[i] - 1)
  <2>0. i \in 1 .. NumPorts[s] /\ i \in 0 .. NumPorts[s]
    BY DEF ToSwitches
  <2>1. CASE new[i] = old[i]
    BY <1>3, <1>10, <2>1, Zenon DEF RowSound
  <2>2. CASE new[i] # old[i]
    <3>1. new[i] = hops[t][l][0] + 1
      BY <1>4, <1>10, <2>0, <2>2, Zenon DEF RowRelaxed
    <3>2. hops[t][l][0] \in Nat /\ Home(l) \in Ball({t}, Switches, hops[t][l][0])
      BY <1>5, <1>7, <1>10, <2>0, <3>1
    <3>3. PICK k \in Nat : k = hops[t][l][0]
      BY <3>2
    <3>4. new[i] >= 1 /\ new[i] - 1 = k
      BY <3>1, <3>3
    <3> QED
      BY <3>2, <3>3, <3>4
  <2> QED
    BY <2>1, <2>2
<1>11. ASSUME Home(l) # s, NEW i \in 1 .. NumPorts[s], i \notin ToSwitches(s), new[i] # Unassigned
       PROVE  new[i] = 1 /\ AtCa(s, i, l)
  <2>1. new[i] = old[i]
    <3>1. \A t \in Switches : t # Remote(<<s, i>>)[1]
      BY <1>11 DEF ToSwitches
    <3> QED
      BY <1>4, <3>1, Zenon DEF RowRelaxed
  <2> QED
    BY <1>3, <1>11, <2>1, Zenon DEF RowSound
<1> QED
  BY <1>1, <1>8, <1>9, <1>10, <1>11, Zenon DEF RowSound

\* The tables of hops from EndLids on, until the up/down rule is applied.
HopStages == {"seed", "relax", "reach", "roots"}

\* Each node in turn seeds the tables.  In a sweep that changed nothing so far the
\* switches gone by are settled, in the end all are.
HopsInv ==
  stage \in HopStages /\ Switches # {} =>
    /\ WorkRecord /\ TablesTyped(hops) /\ TablesSound(hops)
    /\ stage = "seed" => work.at \in Nodes /\ SeededBelow(hops, work.at)
    /\ stage # "seed" => SeededBelow(hops, NumNodes + 1)
    /\ stage = "relax" =>
         /\ work.at \in Switches
         /\ ~work.changed => \A s \in MemberSwitches : s < work.at => SettledAt(hops, s)
    /\ stage \in {"reach", "roots"} => \A s \in MemberSwitches : SettledAt(hops, s)

\* The place in a loop is set.
LEMMA PlaceSet ==
  ASSUME WorkRecord
  PROVE  /\ \A a : work' = [work EXCEPT !.at = a] => WorkRecord' /\ work'.at = a
         /\ \A a, c : work' = [work EXCEPT !.at = a, !.changed = c] =>
              WorkRecord' /\ work'.at = a /\ work'.changed = c
<1>1. ASSUME NEW a, work' = [work EXCEPT !.at = a]
      PROVE  WorkRecord' /\ work'.at = a
  BY <1>1, SMT DEF WorkRecord
<1>2. ASSUME NEW a, NEW c, work' = [work EXCEPT !.at = a, !.changed = c]
      PROVE  WorkRecord' /\ work'.at = a /\ work'.changed = c
  <2>1. PICK x : x = [work EXCEPT !.at = a]
    OBVIOUS
  <2>2. x = [queue |-> work.queue, visited |-> work.visited, lid |-> work.lid, at |-> a,
             changed |-> work.changed, down |-> work.down, subs |-> work.subs,
             nodes |-> work.nodes, systems |-> work.systems]
    BY <2>1, SMT DEF WorkRecord
  <2>3. work' = [x EXCEPT !.changed = c]
    BY <1>2, <2>1, Zenon
  <2>4. work' = [queue |-> work.queue, visited |-> work.visited, lid |-> work.lid, at |-> a,
                 changed |-> c, down |-> work.down, subs |-> work.subs,
                 nodes |-> work.nodes, systems |-> work.systems]
    BY <2>2, <2>3, SMT
  <2> QED
    BY <2>4, SMT DEF WorkRecord
<1> QED
  BY <1>1, <1>2, Zenon

\* A loop over the switches begins with the first.
LEMMA PlaceReset ==
  ASSUME work' = NoWork, Switches # {}
  PROVE  WorkRecord' /\ work'.at \in Switches /\ work'.changed = FALSE /\ \A s \in Switches : ~(s < work'.at)
<1>1. WorkRecord' /\ work'.at = Min(Switches) /\ work'.changed = FALSE
  BY SMT DEF WorkRecord, NoWork, WorkAt
<1>2. Switches \in SUBSET Nat
  BY SubnetAssumption DEF Nodes
<1>3. Min(Switches) \in Switches /\ \A y \in Switches : Min(Switches) <= y
  BY ONLY <1>2, Switches # {}, MinFacts
<1>4. \A y \in Switches : y \in Nat /\ Min(Switches) \in Nat
  BY ONLY <1>2, <1>3
<1>5. \A y \in Switches : ~(y < Min(Switches))
  BY ONLY <1>3, <1>4
<1> QED
  BY ONLY <1>1, <1>3, <1>5

\* A switch stays settled when nothing changes.
LEMMA SettledFrozen ==
  ASSUME UNCHANGED <<remote, opts, baseLid, portByLid, maxLid>>, NEW H, H = hops', NEW s
  PROVE  SettledAt(H, s) => SettledAt(hops, s)'
BY SMT DEF SettledAt, ToSwitches, Remote, MemberSwitches, Member, HopLids, LidStep

\* A sweep over one switch keeps the tables true.
LEMMA RelaxEffect ==
  ASSUME DesignLids, stage # "lids", TablesTyped(hops), TablesSound(hops), NEW s \in Switches,
         NEW H, H = [hops EXCEPT ![s] = Relaxed(s)]
  PROVE  /\ TablesTyped(H) /\ TablesSound(H)
         /\ \A t \in MemberSwitches, l \in HopLids : H[t][l][0] <= hops[t][l][0]
         /\ H = hops <=> Relaxed(s) = hops[s]
         /\ Relaxed(s) = hops[s] /\ s \in MemberSwitches => SettledAt(hops, s)
<1>1. hops = [t \in Switches |-> hops[t]]
  BY DEF TablesTyped
<1>2. H = [t \in Switches |-> H[t]] /\ H[s] = Relaxed(s) /\ \A t \in Switches : t # s => H[t] = hops[t]
  BY <1>1
<1>3. Relaxed(s) \in [0 .. maxLid -> [0 .. NumPorts[s] -> 0 .. Unassigned]]
  <2>1. /\ DOMAIN Relaxed(s) = 0 .. maxLid
        /\ \A l \in 0 .. maxLid : Relaxed(s)[l] \in [0 .. NumPorts[s] -> 0 .. Unassigned]
    <3>1. maxLid \in Nat /\ 0 \in 0 .. maxLid
      BY DEF DesignLids, Visited
    <3> QED
      BY <3>1, RelaxedFacts
  <2>2. Relaxed(s) = [l \in DOMAIN Relaxed(s) |-> Relaxed(s)[l]]
    BY Zenon DEF Relaxed
  <2> QED
    BY <2>1, <2>2
<1>4. TablesTyped(H)
  <2>1. \A t \in Switches : hops[t] \in [0 .. maxLid -> [0 .. NumPorts[t] -> 0 .. Unassigned]]
    BY DEF TablesTyped
  <2>2. \A t \in Switches : H[t] \in [0 .. maxLid -> [0 .. NumPorts[t] -> 0 .. Unassigned]]
    BY <1>2, <1>3, <2>1
  <2> QED
    BY <1>2, <2>2 DEF TablesTyped
<1>5. \A t \in MemberSwitches : t \in Switches
  BY DEF MemberSwitches
<1>6. TablesSound(H)
  <2> SUFFICES ASSUME NEW t \in MemberSwitches, NEW l \in HopLids
               PROVE  RowSound(t, l, H[t][l])
    BY Zenon DEF TablesSound
  <2>1. CASE t = s
    BY <1>2, <2>1, RelaxedSound
  <2>2. CASE t # s
    <3>1. RowSound(t, l, hops[t][l])
      BY Zenon DEF TablesSound
    <3> QED
      BY <1>2, <1>5, <2>2, <3>1
  <2> QED
    BY <2>1, <2>2
<1>7. ASSUME NEW t \in MemberSwitches, NEW l \in HopLids
      PROVE  H[t][l][0] <= hops[t][l][0]
  <2>1. l \in 0 .. maxLid
    BY HomeFacts
  <2>2. CASE t = s
    <3>1. RowRelaxed(s, l, hops[s][l], Relaxed(s)[l])
      BY <2>1, RelaxedFacts
    <3> QED
      BY <1>2, <2>2, <3>1, Zenon DEF RowRelaxed
  <2>3. CASE t # s
    <3>1. 0 \in 0 .. NumPorts[t]
      BY <1>5, SubnetAssumption
    <3>2. hops[t][l][0] \in Nat
      BY <3>1, EntryFacts
    <3> QED
      BY <1>2, <1>5, <2>3, <3>2
  <2> QED
    BY <2>2, <2>3
<1>8. H = hops <=> Relaxed(s) = hops[s]
  BY <1>1, <1>2
<1>9. ASSUME Relaxed(s) = hops[s], s \in MemberSwitches
      PROVE  SettledAt(hops, s)
  <2> SUFFICES ASSUME NEW l \in HopLids, NEW i \in ToSwitches(s), NEW t \in MemberSwitches,
                      t = Remote(<<s, i>>)[1]
               PROVE  hops[s][l][i] <= hops[t][l][0] + 1
    BY DEF SettledAt
  <2>1. RowRelaxed(s, l, hops[s][l], Relaxed(s)[l])
    BY HomeFacts, RelaxedFacts
  <2>2. i \in 1 .. NumPorts[s] /\ t \in Switches
    BY <1>5 DEF ToSwitches
  <2> QED
    BY <1>9, <2>1, <2>2, Zenon DEF RowRelaxed
<1> QED
  BY <1>4, <1>6, <1>7, <1>8, <1>9

\* The sweeps keep the invariant.
LEMMA RelaxKeeps ==
  ASSUME DesignLids, HopsInv, RelaxHops, Switches # {}
  PROVE  HopsInv'
<1>0. /\ stage = "relax" /\ UNCHANGED <<remote, opts, baseLid, portByLid, maxLid>>
      /\ hops' = [hops EXCEPT ![work.at] = Relaxed(work.at)]
  BY SMT DEF RelaxHops, GivenVars, LidVars
<1> PICK s, H : s = work.at /\ H = hops'
  OBVIOUS
<1> PICK c : c = (work.changed \/ Relaxed(s) # hops[s])
  OBVIOUS
<1>1. s = work.at /\ c = (work.changed \/ Relaxed(s) # hops[s]) /\ H = hops'
  OBVIOUS
<1>2. /\ NextSwitches(s) # {} => /\ work' = [work EXCEPT !.at = Min(NextSwitches(s)), !.changed = c]
                                 /\ stage' = "relax"
      /\ NextSwitches(s) = {} => /\ work' = NoWork /\ stage' = IF c THEN "relax" ELSE "reach"
  BY <1>1, ZenonT(60) DEF RelaxHops
<1>3. /\ WorkRecord /\ TablesTyped(hops) /\ TablesSound(hops) /\ SeededBelow(hops, NumNodes + 1)
      /\ s \in Switches
      /\ ~work.changed => \A t \in MemberSwitches : t < s => SettledAt(hops, t)
  BY <1>0, <1>1, Zenon DEF HopsInv, HopStages
<1>4. /\ TablesTyped(H) /\ TablesSound(H)
      /\ \A t \in MemberSwitches, l \in HopLids : H[t][l][0] <= hops[t][l][0]
      /\ H = hops <=> Relaxed(s) = hops[s]
      /\ Relaxed(s) = hops[s] /\ s \in MemberSwitches => SettledAt(hops, s)
  <2>1. stage # "lids" /\ H = [hops EXCEPT ![s] = Relaxed(s)]
    BY <1>0, <1>1
  <2> QED
    BY ONLY DesignLids, <1>3, <2>1, RelaxEffect, Zenon
<1>5. SeededBelow(H, NumNodes + 1)
  BY <1>0, <1>3, <1>4, SeedsKept
<1>6. TablesTyped(hops)' /\ TablesSound(hops)' /\ SeededBelow(hops, NumNodes + 1)'
  BY <1>0, <1>1, <1>4, <1>5, TablesFrozen, SeededFrozen
<1>7. MemberSwitches' = MemberSwitches
  BY <1>0 DEF MemberSwitches, Member
<1>8. \A t \in MemberSwitches : t \in Switches /\ t \in Nat
  BY SubnetAssumption DEF MemberSwitches, Nodes
<1>9. ASSUME ~c, NEW t \in MemberSwitches, t < s \/ t = s
      PROVE  SettledAt(hops, t)'
  <2>1. SettledAt(hops, t)
    BY <1>1, <1>3, <1>4, <1>9
  <2>2. H = hops
    BY <1>1, <1>4, <1>9
  <2> QED
    BY <1>0, <1>1, <2>1, <2>2, SettledFrozen
<1>10. CASE NextSwitches(s) # {}
  <2>1. PICK n : n = Min(NextSwitches(s))
    OBVIOUS
  <2>2. WorkRecord' /\ work'.at = n /\ work'.changed = c /\ stage' = "relax"
    BY <1>2, <1>3, <1>10, <2>1, PlaceSet, Zenon
  <2>3. n \in NextSwitches(s) /\ \A t \in NextSwitches(s) : n <= t
    <3>1. NextSwitches(s) \in SUBSET Nat
      <4>1. Switches \in SUBSET Nat
        BY SubnetAssumption DEF Nodes
      <4> QED
        BY ONLY <4>1 DEF NextSwitches
    <3> QED
      BY ONLY <1>10, <2>1, <3>1, MinFacts
  <2>4. n \in Switches
    BY <2>3 DEF NextSwitches
  <2>5. \A t \in MemberSwitches : t < n => t < s \/ t = s
    <3> SUFFICES ASSUME NEW t \in MemberSwitches, t < n, ~(t < s), t # s
                 PROVE  FALSE
      OBVIOUS
    <3>1. t \in Nat /\ s \in Nat /\ n \in Nat /\ t \in Switches
      BY <1>3, <1>8, <2>4, SubnetAssumption DEF Nodes
    <3>2. t \in NextSwitches(s)
      BY <3>1 DEF NextSwitches
    <3> QED
      BY <2>3, <3>1, <3>2
  <2>6. ~work'.changed => \A t \in MemberSwitches : t < work'.at => SettledAt(hops, t)'
    BY <1>9, <2>2, <2>5
  <2> QED
    BY <1>6, <1>7, <2>2, <2>4, <2>6, Zenon DEF HopsInv
<1>11. CASE NextSwitches(s) = {}
  <2>1. WorkRecord' /\ work'.at \in Switches /\ work'.changed = FALSE /\ \A t \in Switches : ~(t < work'.at)
    BY <1>2, <1>11, PlaceReset
  <2>2. CASE c
    <3>1. stage' = "relax"
      BY <1>2, <1>11, <2>2
    <3>2. \A t \in MemberSwitches : ~(t < work'.at)
      BY <1>8, <2>1
    <3> QED
      BY <1>6, <1>7, <2>1, <3>1, <3>2, Zenon DEF HopsInv
  <2>3. CASE ~c
    <3>1. stage' = "reach"
      BY <1>2, <1>11, <2>3
    <3>2. \A t \in MemberSwitches : t < s \/ t = s
      <4> SUFFICES ASSUME NEW t \in MemberSwitches, ~(t < s), t # s
                   PROVE  FALSE
        OBVIOUS
      <4>1. t \in Nat /\ s \in Nat /\ t \in Switches
        BY <1>3, <1>8, SubnetAssumption DEF Nodes
      <4> QED
        BY <1>11, <4>1 DEF NextSwitches
    <3>3. \A t \in MemberSwitches : SettledAt(hops, t)'
      BY <1>9, <2>3, <3>2
    <3> QED
      BY <1>6, <1>7, <2>1, <3>1, <3>3, Zenon DEF HopsInv
  <2> QED
    BY <2>2, <2>3
<1> QED
  BY <1>10, <1>11

-----------------------------------------------------------------------------
(* The seeds of SubnMgtCalcMinHopTables *)

\* The tables of hops for LIDs up to M of switches with N ports.
HopTables(M, N) == [0 .. M -> [0 .. N -> 0 .. Unassigned]]

\* What setHops makes of a table.
HopsAreSet(M, N, table, p, l, h, g) ==
  /\ g \in HopTables(M, N)
  /\ l # 0 => \A k \in 0 .. M : k # l => g[k] = table[k]
  /\ l # 0 /\ p = 0 => \A i \in 0 .. N : g[l][i] = h
  /\ l # 0 /\ p # 0 =>
       /\ g[l][p] = h /\ g[l][0] = IF table[l][0] > h THEN h ELSE table[l][0]
       /\ \A i \in 1 .. N : i # p => g[l][i] = table[l][i]

\* setHops does that.
LEMMA SetHopsFacts ==
  ASSUME NEW N \in Nat, NEW M \in Nat,
         NEW table, table \in HopTables(M, N),
         NEW p \in 0 .. N, NEW l \in 0 .. M, NEW h \in 0 .. Unassigned,
         NEW g, g = SetHops(table, p, l, h)
  PROVE  HopsAreSet(M, N, table, p, l, h, g)
<1> DEFINE T == 0 .. Unassigned
<1>0. /\ 0 \in 0 .. N 
      /\ table \in [0 .. M -> [0 .. N -> T]] /\ h \in T
      /\ HopTables(M, N) = [0 .. M -> [0 .. N -> T]]
  BY DEF HopTables
<1> HIDE DEF T
<1>1. CASE l = 0
  <2>1. g = [k \in DOMAIN table |-> [i \in DOMAIN table[k] |-> h]]
    BY <1>1, SMT DEF SetHops
  <2>2. g = [k \in 0 .. M |-> [i \in 0 .. N |-> h]]
    BY <1>0, <2>1
  <2>3. g \in [0 .. M -> [0 .. N -> T]]
    BY ONLY <1>0, <2>2
  <2> QED
    BY <1>0, <1>1, <2>3 DEF HopsAreSet
<1>2. CASE l # 0 /\ p = 0
  <2>1. g = [table EXCEPT ![l] = [i \in DOMAIN table[l] |-> h]]
    BY <1>2, SMT DEF SetHops
  <2>2. g = [table EXCEPT ![l] = [i \in 0 .. N |-> h]]
    BY <1>0, <2>1
  <2>3. /\ g \in [0 .. M -> [0 .. N -> T]] /\ \A k \in 0 .. M : k # l => g[k] = table[k]
        /\ \A i \in 0 .. N : g[l][i] = h
    BY ONLY <1>0, <2>2, l \in 0 .. M
  <2> QED
    BY <1>0, <1>2, <2>3 DEF HopsAreSet
<1>3. CASE l # 0 /\ p # 0
  <2>1. g = [table EXCEPT ![l][p] = h, ![l][0] = IF @ > h THEN h ELSE @]
    BY <1>3, SMT DEF SetHops
  <2>2. PICK e : e = IF table[l][0] > h THEN h ELSE table[l][0]
    OBVIOUS
  <2>3. table[l] \in [0 .. N -> T] /\ e \in T
    BY ONLY <1>0, <2>2, l \in 0 .. M
  <2>4. PICK row : row = [[table[l] EXCEPT ![p] = h] EXCEPT ![0] = e]
    OBVIOUS
  <2>5. /\ row \in [0 .. N -> T] /\ row[p] = h /\ row[0] = e
        /\ \A i \in 0 .. N : i # p /\ i # 0 => row[i] = table[l][i]
    BY ONLY <1>0, <1>3, <2>3, <2>4, p \in 0 .. N
  <2>6. g = [table EXCEPT ![l] = row]
    BY <1>0, <1>3, <2>1, <2>2, <2>3, <2>4
  <2>7. /\ g \in [0 .. M -> [0 .. N -> T]] /\ \A k \in 0 .. M : k # l => g[k] = table[k]
        /\ g[l] = row
    BY ONLY <1>0, <2>5, <2>6, l \in 0 .. M
  <2>8. \A i \in 1 .. N : i \in 0 .. N /\ i # 0
    OBVIOUS
  <2>9. g[l][p] = h /\ g[l][0] = e /\ \A i \in 1 .. N : i # p => g[l][i] = table[l][i]
    BY ONLY <2>5, <2>7, <2>8
  <2> QED
    BY <1>0, <1>3, <2>2, <2>7, <2>9 DEF HopsAreSet
<1> QED
  BY <1>1, <1>2, <1>3

\* The LID of a switch is that of each of its ports.
LEMMA SwitchLid ==
  ASSUME DesignLids, stage # "lids", NEW n \in Switches, NEW b, b = LidOfSwitch(n)
  PROVE  /\ \A p \in PortsOf(n) : baseLid[p] = b
         /\ IF Member(n) THEN b \in HopLids ELSE b = 0
<1>1. n \in Nodes /\ PortsOf(n) # {} /\ \A p \in PortsOf(n) : p \in Ports
  BY SubnetAssumption, PortFacts
<1>2. PICK p0 : p0 \in PortsOf(n)
  BY <1>1
<1>3. \A p \in PortsOf(n) : baseLid[p] = baseLid[p0]
  BY <1>2 DEF DesignLids, LidsByNode
<1>4. {baseLid[p] : p \in PortsOf(n)} = {baseLid[p0]}
  BY <1>2, <1>3
<1>5. baseLid[p0] \in Nat
  BY <1>1, <1>2 DEF DesignLids, LidsInv
<1>6. Max({baseLid[p0]}) = baseLid[p0]
  BY <1>5, MaxOfOne
<1>7. b = baseLid[p0]
  BY <1>4, <1>6 DEF LidOfSwitch
<1>8. Member(n) => b \in HopLids
  <2> SUFFICES ASSUME Member(n)
               PROVE  b \in HopLids
    OBVIOUS
  <2>1. b # 0
    BY <1>3, <1>7 DEF Member
  <2> QED
    BY <1>1, <1>2, <1>7, <2>1 DEF DesignLids, Visited
<1>9. ~Member(n) => b = 0
  BY <1>2, <1>7 DEF Member
<1> QED
  BY <1>3, <1>7, <1>8, <1>9

\* A table that is put in the place of another.
PutTable(H, G, s, g) == H = [G EXCEPT ![s] = g]

\* The other tables are as before.
LEMMA TablesTypedPut ==
  ASSUME NEW G, TablesTyped(G), NEW s \in Switches,
         NEW g, g \in HopTables(maxLid, NumPorts[s]),
         NEW H, PutTable(H, G, s, g)
  PROVE  TablesTyped(H) /\ H[s] = g /\ \A t \in Switches : t # s => H[t] = G[t]
<1>1. G = [t \in Switches |-> G[t]]
  BY DEF TablesTyped
<1>2. H = [t \in Switches |-> H[t]] /\ H[s] = g /\ \A t \in Switches : t # s => H[t] = G[t]
  BY <1>1 DEF PutTable
<1>3. \A t \in Switches : G[t] \in [0 .. maxLid -> [0 .. NumPorts[t] -> 0 .. Unassigned]]
  BY DEF TablesTyped
<1>4. \A t \in Switches : H[t] \in [0 .. maxLid -> [0 .. NumPorts[t] -> 0 .. Unassigned]]
  BY <1>2, <1>3 DEF HopTables
<1> QED
  BY <1>2, <1>4 DEF TablesTyped

\* Only rows that were set are new.
LEMMA TablesSoundPut ==
  ASSUME TablesSound(hops), NEW H,
         \A s \in MemberSwitches, l \in HopLids : H[s][l] = hops[s][l] \/ RowSound(s, l, H[s][l])
  PROVE  TablesSound(H)
<1> SUFFICES ASSUME NEW s \in MemberSwitches, NEW l \in HopLids
             PROVE  RowSound(s, l, H[s][l])
  BY Zenon DEF TablesSound
<1>1. RowSound(s, l, hops[s][l])
  BY Zenon DEF TablesSound
<1> QED
  BY <1>1

\* A switch sets its own LID to 0.
LEMMA SeedSwitch ==
  ASSUME DesignLids, stage # "lids", TablesTyped(hops), TablesSound(hops),
         NEW n \in Switches, SeededBelow(hops, n), NEW m, m = n + 1,
         NEW H, H = [hops EXCEPT ![n] = SetHops(hops[n], 0, LidOfSwitch(n), 0)]
  PROVE  TablesTyped(H) /\ TablesSound(H) /\ SeededBelow(H, m)
<1>0. /\ n \in Nodes /\ n \in Nat /\ NumPorts[n] \in Nat /\ maxLid \in Nat
      /\ hops[n] \in HopTables(maxLid, NumPorts[n])
      /\ 0 \in 0 .. NumPorts[n] /\ 0 \in 0 .. Unassigned
  <2>1. n \in Nodes /\ n \in Nat
    BY SubnetAssumption DEF Nodes
  <2>2. NumPorts[n] \in Nat /\ 0 \in 0 .. NumPorts[n]
    BY <2>1, SubnetAssumption
  <2>3. maxLid \in Nat /\ 0 \in 0 .. Unassigned
    BY DEF DesignLids, Visited, Unassigned
  <2> QED
    BY <2>1, <2>2, <2>3 DEF TablesTyped, HopTables
<1>1. PICK b : b = LidOfSwitch(n)
  OBVIOUS
<1>2. /\ \A p \in PortsOf(n) : baseLid[p] = b
      /\ IF Member(n) THEN b \in HopLids ELSE b = 0
  BY <1>1, SwitchLid
<1>3. b \in 0 .. maxLid
  BY <1>0, <1>2, HomeFacts
<1>4. PICK g : g = SetHops(hops[n], 0, b, 0)
  OBVIOUS
<1>5. /\ g \in HopTables(maxLid, NumPorts[n])
      /\ b # 0 => \A k \in 0 .. maxLid : k # b => g[k] = hops[n][k]
      /\ b # 0 => \A i \in 0 .. NumPorts[n] : g[b][i] = 0
  <2> PICK M \in Nat, N \in Nat : M = maxLid /\ N = NumPorts[n]
    BY <1>0
  <2> PICK table \in HopTables(M, N) : table = hops[n]
    BY <1>0
  <2> PICK z : z = 0
    OBVIOUS
  <2>1. z \in 0 .. N /\ z \in 0 .. Unassigned /\ b \in 0 .. M /\ g = SetHops(table, z, b, z)
    BY <1>0, <1>3, <1>4
  <2>2. HopsAreSet(M, N, table, z, b, z, g)
    BY ONLY <2>1, M \in Nat, N \in Nat, table \in HopTables(M, N), SetHopsFacts, Zenon
  <2> QED
    BY <2>2 DEF HopsAreSet
<1>6. TablesTyped(H) /\ H[n] = g /\ \A t \in Switches : t # n => H[t] = hops[t]
  <2>1. PutTable(H, hops, n, g)
    BY <1>1, <1>4 DEF PutTable
  <2>2. g \in HopTables(maxLid, NumPorts[n])
    BY <1>5
  <2> QED
    BY ONLY <2>1, <2>2, TablesTyped(hops), n \in Switches, TablesTypedPut
<1>7. \A s \in MemberSwitches : s \in Switches /\ Member(s)
  BY DEF MemberSwitches
<1>8. ASSUME n \in MemberSwitches
      PROVE  b \in HopLids /\ b # 0 /\ Home(b) = n /\ RowSound(n, b, g[b])
  <2>1. b \in HopLids /\ b # 0
    BY <1>2, <1>7, <1>8, HomeFacts
  <2>2. Home(b) = n
    <3>1. PICK p \in PortsOf(n) : baseLid[p] = b
      BY <1>0, <1>2, PortFacts
    <3>2. p \in Ports /\ p[1] = n
      BY <1>0, PortFacts
    <3> QED
      BY <2>1, <3>1, <3>2, HomeFacts
  <2>3. /\ \A i \in 1 .. NumPorts[n] : g[b][i] = 0
        /\ g[b][0] = 0
    BY <1>0, <1>5, <2>1
  <2>4. n \in Ball({n}, Switches, 0)
    <3>1. Ball({n}, Switches, 0) = {n}
      BY <1>0, CableFacts, BallIsIterated DEF DesignLids
    <3> QED
      BY <3>1
  <2>5. RowSound(n, b, g[b])
    <3>1. \A i \in 1 .. NumPorts[n] : g[b][0] <= g[b][i]
      BY <2>3
    <3> QED
      BY <2>2, <2>3, <2>4, <3>1, Zenon DEF RowSound
  <2> QED
    BY <2>1, <2>2, <2>5
<1>9. ASSUME NEW s \in MemberSwitches, NEW l \in HopLids
      PROVE  /\ H[s][l] = hops[s][l] \/ (s = n /\ l = b)
             /\ H[s][l][0] <= hops[s][l][0]
  <2>1. l \in 0 .. maxLid /\ s \in Switches
    BY <1>7, HomeFacts
  <2>2. hops[s][l][0] \in Nat
    <3>1. 0 \in 0 .. NumPorts[s]
      BY <2>1, SubnetAssumption
    <3> QED
      BY <3>1, EntryFacts
  <2>3. CASE s = n /\ l = b
    <3>1. H[s][l][0] = 0
      BY <1>0, <1>5, <1>6, <1>8, <2>3
    <3> QED
      BY <2>2, <2>3, <3>1
  <2>4. CASE ~(s = n /\ l = b)
    <3>1. H[s][l] = hops[s][l]
      BY <1>5, <1>6, <1>8, <2>1, <2>4
    <3> QED
      BY <2>2, <3>1
  <2> QED
    BY <2>3, <2>4
<1>10. TablesSound(H)
  <2>1. \A s \in MemberSwitches, l \in HopLids : H[s][l] = hops[s][l] \/ RowSound(s, l, H[s][l])
    BY <1>6, <1>8, <1>9
  <2> QED
    BY <2>1, TablesSoundPut
<1>11. SeededBelow(H, n)
  BY <1>6, <1>9, SeedsKept
<1>12. SeededBelow(H, m)
  <2>1. ASSUME NEW s \in MemberSwitches, NEW l \in HopLids, Home(l) = s, s < m
        PROVE  H[s][l][0] = 0
    <3>1. CASE s = n
      <4>1. PICK p \in Ports : baseLid[p] = l
        BY HomeFacts
      <4>2. p[1] = n
        BY <2>1, <3>1, <4>1, HomeFacts
      <4>3. l = b
        BY <1>2, <4>1, <4>2, PortFacts
      <4> QED
        BY <1>0, <1>5, <1>6, <1>8, <3>1, <4>3
    <3>2. CASE s # n
      <4>1. s < n
        <5>1. s \in Nat
          <6>1. s \in Nodes
            BY <1>7, SubnetAssumption
          <6> QED
            BY <6>1 DEF Nodes
        <5> QED
          BY <1>0, <2>1, <3>2, <5>1
      <4> QED
        BY <1>11, <2>1, <4>1, Zenon DEF SeededBelow
    <3> QED
      BY <3>1, <3>2
  <2>2. ASSUME NEW q \in DOMAIN remote, q[1] \notin Switches, q[1] < m, baseLid[q] # 0,
               remote[q][1] \in Switches
        PROVE  H[remote[q][1]][baseLid[q]][0] <= 1
    <3>1. q[1] # n /\ q[1] \in Nat
      <4>1. q[1] \in Nodes
        BY CableFacts DEF DesignLids
      <4> QED
        BY <2>2, <4>1 DEF Nodes
    <3>2. q[1] < n
      BY <1>0, <2>2, <3>1
    <3> QED
      BY <1>11, <2>2, <3>2, Zenon DEF SeededBelow
  <2> QED
    BY <2>1, <2>2, Zenon DEF SeededBelow
<1> QED
  BY <1>6, <1>10, <1>12

\* The table of the switch at the other end of a CA's cable gets the LID.
Neighboured(n, k, x) ==
  [x EXCEPT ![Remote(<<n, k>>)[1]] = SetHops(@, Remote(<<n, k>>)[2], baseLid[<<n, k>>], 1)]

\* What the loop of SubnMgtCalcMinHopTables makes of the tables at the ports up to k.
SeedsUpTo(n, a) ==
  a = [k \in 0 .. NumPorts[n] |->
         IF k = 0 THEN hops
         ELSE IF k \in ToSwitches(n)
              THEN [a[k - 1] EXCEPT ![Remote(<<n, k>>)[1]] =
                      SetHops(@, Remote(<<n, k>>)[2], baseLid[<<n, k>>], 1)]
              ELSE a[k - 1]]

\* SeedHops does it for a CA.
LEMMA SeedsTaken ==
  ASSUME SeedHops, work.at \notin Switches
  PROVE  hops' = (CHOOSE b : SeedsUpTo(work.at, b))[NumPorts[work.at]]
BY Zenon DEF SeedHops, OverPorts, SeedsUpTo

\* The loop does nothing, or sets the one table behind the CA's only cable to a switch.
LEMMA SeedsOnce ==
  ASSUME NEW n, NEW N \in Nat, N = NumPorts[n], ToSwitches(n) \subseteq 1 .. N,
         NEW H, H = (CHOOSE b : SeedsUpTo(n, b))[NumPorts[n]],
         NEW i, ToSwitches(n) \subseteq {i}
  PROVE  H = IF i \in ToSwitches(n) THEN Neighboured(n, i, hops) ELSE hops
<1>1. PICK T : T = ToSwitches(n)
  OBVIOUS
<1>2. PICK x, y : x = hops /\ y = Neighboured(n, i, hops)
  OBVIOUS
<1>3. PICK g : g = [k \in 0 .. N |-> IF i \in T /\ i <= k THEN y ELSE x]
  OBVIOUS
<1>4. T \subseteq {i} /\ T \subseteq 1 .. N
  BY <1>1
<1>5. ASSUME NEW k \in 0 .. N
      PROVE  g[k] = IF k = 0 THEN x ELSE IF k \in T THEN Neighboured(n, k, g[k - 1]) ELSE g[k - 1]
  <2>1. CASE k = 0
    BY <1>3, <1>4, <2>1
  <2>2. CASE k # 0 /\ k \in T
    <3>1. k = i /\ k - 1 \in 0 .. N /\ ~(i <= k - 1) /\ i <= k
      BY <1>4, <2>2
    <3>2. g[k - 1] = x /\ g[k] = y
      BY <1>3, <2>2, <3>1
    <3> QED
      BY <1>2, <2>2, <3>1, <3>2
  <2>3. CASE k # 0 /\ k \notin T
    <3>1. k - 1 \in 0 .. N /\ (i \in T => (i <= k <=> i <= k - 1))
      BY <1>4, <2>3
    <3> QED
      BY <1>3, <2>3, <3>1
  <2> QED
    BY <2>1, <2>2, <2>3
<1>6. SeedsUpTo(n, g)
  <2>1. g = [k \in 0 .. N |-> g[k]]
    BY <1>3
  <2>2. g = [k \in 0 .. N |->
               IF k = 0 THEN x ELSE IF k \in T THEN Neighboured(n, k, g[k - 1]) ELSE g[k - 1]]
    BY ONLY <1>5, <2>1
  <2> QED
    BY <1>1, <1>2, <2>2, Zenon DEF SeedsUpTo, Neighboured
<1>7. PICK a : a = CHOOSE b : SeedsUpTo(n, b)
  OBVIOUS
<1>8. SeedsUpTo(n, a)
  BY ONLY <1>6, <1>7
<1>9. /\ a[0] = x
      /\ \A k \in 1 .. N : a[k] = IF k \in T THEN Neighboured(n, k, a[k - 1]) ELSE a[k - 1]
  <2>1. \A k \in 0 .. N : a[k] = IF k = 0 THEN x
                               ELSE IF k \in T THEN Neighboured(n, k, a[k - 1]) ELSE a[k - 1]
    BY <1>1, <1>2, <1>8, Zenon DEF SeedsUpTo, Neighboured
  <2>2. 0 \in 0 .. N /\ \A k \in 1 .. N : k \in 0 .. N /\ k # 0
    OBVIOUS
  <2> QED
    BY ONLY <2>1, <2>2
<1> DEFINE S == {k \in 0 .. N : a[k] = IF i \in T /\ i <= k THEN y ELSE x}
<1>10. 0 \in S
  BY <1>4, <1>9
<1>11. ASSUME NEW k \in 0 .. N - 1, k \in S
       PROVE  k + 1 \in S
  <2>0. PICK m : m = k + 1
    OBVIOUS
  <2>1. m \in 1 .. N /\ m - 1 = k /\ m \in 0 .. N
    BY ONLY <2>0, k \in 0 .. N - 1, N \in Nat
  <2>2. CASE m \in T
    <3>1. m = i /\ ~(i <= k) /\ i <= m
      BY <1>4, <2>1, <2>2
    <3>2. a[k] = x
      BY <1>11, <3>1
    <3>3. a[m] = Neighboured(n, i, x)
      BY <1>9, <2>1, <2>2, <3>1, <3>2
    <3>4. a[m] = y
      BY <1>2, <3>3
    <3> QED
      BY <2>0, <2>1, <2>2, <3>1, <3>4
  <2>3. CASE m \notin T
    <3>1. a[m] = a[k]
      BY <1>9, <2>1, <2>3
    <3>2. i \in T => (i <= m <=> i <= k)
      BY <1>4, <2>1, <2>3
    <3> QED
      BY <1>11, <2>0, <2>1, <3>1, <3>2
  <2> QED
    BY <2>2, <2>3
<1>12. N \in S
  <2> HIDE DEF S
  <2>1. \A k \in 0 .. N : k \in S
    BY ONLY N \in Nat, <1>10, <1>11, BoundedInduction
  <2> QED
    BY <2>1
<1>13. H = a[N]
  BY <1>7
<1>14. i \in T => i <= N
  BY <1>4
<1> QED
  BY <1>1, <1>2, <1>12, <1>13, <1>14

\* A CA without a cable to a switch adds nothing.
LEMMA SeedNone ==
  ASSUME DesignLids, stage # "lids", NEW n \in Nodes, n \notin Switches, NEW m, m = n + 1,
         NEW H, SeededBelow(H, n),
         \A q \in DOMAIN remote : q[1] = n /\ baseLid[q] # 0 /\ remote[q][1] \in Switches =>
           H[remote[q][1]][baseLid[q]][0] <= 1
  PROVE  SeededBelow(H, m)
<1>1. n \in Nat /\ \A s \in MemberSwitches : s \in Switches /\ s \in Nat
  BY SubnetAssumption DEF MemberSwitches, Nodes
<1>2. ASSUME NEW s \in MemberSwitches, NEW l \in HopLids, Home(l) = s, s < m
      PROVE  H[s][l][0] = 0
  <2>1. s < n
    <3>1. s # n /\ s \in Nat
      BY <1>1
    <3> QED
      BY <1>1, <1>2, <3>1
  <2> QED
    BY <1>2, <2>1, Zenon DEF SeededBelow
<1>3. ASSUME NEW q \in DOMAIN remote, q[1] \notin Switches, q[1] < m, baseLid[q] # 0,
             remote[q][1] \in Switches
      PROVE  H[remote[q][1]][baseLid[q]][0] <= 1
  <2>1. q[1] \in Nat
    <3>1. q[1] \in Nodes
      BY CableFacts DEF DesignLids
    <3> QED
      BY <3>1 DEF Nodes
  <2>2. q[1] < n \/ q[1] = n
    BY <1>1, <1>3, <2>1
  <2>3. CASE q[1] < n
    BY <1>3, <2>3, Zenon DEF SeededBelow
  <2>4. CASE q[1] = n
    BY <1>3, <2>4
  <2> QED
    BY <2>2, <2>3, <2>4
<1> QED
  BY <1>2, <1>3, Zenon DEF SeededBelow

\* A CA sets its LID to 1 at the switch behind its cable.
LEMMA SeedCa ==
  ASSUME DesignLids, stage # "lids", OneCable, TablesTyped(hops), TablesSound(hops),
         NEW n \in Nodes, n \notin Switches, SeededBelow(hops, n), NEW m, m = n + 1,
         NEW H, H = (CHOOSE b : SeedsUpTo(n, b))[NumPorts[n]]
  PROVE  TablesTyped(H) /\ TablesSound(H) /\ SeededBelow(H, m)
<1>0. IsWiring(remote) /\ remote \in Wirings
  BY CableFacts DEF DesignLids
<1>1. PICK N \in Nat : N = NumPorts[n]
  BY SubnetAssumption
<1>2. ToSwitches(n) \subseteq 1 .. N
  BY <1>1 DEF ToSwitches
<1>3. \A k \in ToSwitches(n) : <<n, k>> \in DOMAIN remote
  <2>1. NoPort[1] \notin Switches
    BY SubnetAssumption DEF NoPort, Nodes
  <2> QED
    BY <2>1 DEF ToSwitches, Remote
<1>4. \A p, q \in DOMAIN remote : p[1] = n /\ q[1] = n => p = q
  BY <1>0 DEF OneCable
<1>5. \A q \in DOMAIN remote : q[1] = n /\ remote[q][1] \in Switches =>
        q = <<n, q[2]>> /\ q[2] \in ToSwitches(n)
  BY CableFacts, PortFacts DEF DesignLids, ToSwitches
<1>6. CASE ToSwitches(n) = {}
  <2>1. PICK i : i = 0
    OBVIOUS
  <2>2. H = hops
    BY <1>1, <1>2, <1>6, SeedsOnce
  <2>3. SeededBelow(H, n)
    BY <2>2
  <2>4. \A q \in DOMAIN remote : q[1] = n /\ baseLid[q] # 0 /\ remote[q][1] \in Switches =>
          H[remote[q][1]][baseLid[q]][0] <= 1
    BY <1>5, <1>6
  <2> QED
    BY <2>2, <2>3, <2>4, SeedNone
<1>7. CASE ToSwitches(n) # {}
  <2>1. PICK i : i \in ToSwitches(n)
    BY <1>7
  <2>2. PICK p : p = <<n, i>>
    OBVIOUS
  <2>3. p \in DOMAIN remote /\ p[1] = n /\ p \in Ports
    BY <1>0, <1>3, <2>1, <2>2, CableFacts
  <2>4. ToSwitches(n) \subseteq {i}
    BY <1>3, <1>4, <2>1
  <2>5. PICK t, j, b : t = remote[p][1] /\ j = remote[p][2] /\ b = baseLid[p]
    OBVIOUS
  <2>6. /\ t \in Switches /\ t \in Nodes /\ j \in 1 .. NumPorts[t] /\ <<t, j>> \in DOMAIN remote
        /\ remote[<<t, j>>] = p /\ Remote(p) = remote[p] /\ remote[p] = <<t, j>>
    <3>1. Remote(p) = remote[p] /\ remote[p] \in DOMAIN remote /\ remote[remote[p]] = p
      BY <1>0, <2>3, CableFacts
    <3>2. t \in Switches
      BY <2>1, <2>2, <2>5, <3>1 DEF ToSwitches
    <3>3. remote[p] \in Ports
      BY <1>0, <3>1, CableFacts
    <3>4. remote[p] = <<t, j>> /\ t \in Nodes /\ j \in 1 .. NumPorts[t]
      BY <2>5, <3>3, PortFacts
    <3> QED
      BY <3>1, <3>2, <3>4
  <2>7. PICK g : g = SetHops(hops[t], j, b, 1)
    OBVIOUS
  <2>8. PutTable(H, hops, t, g)
    <3>1. H = Neighboured(n, i, hops)
      BY ONLY N \in Nat, <1>1, <1>2, <2>1, <2>4, H = (CHOOSE a : SeedsUpTo(n, a))[NumPorts[n]],
              SeedsOnce
    <3>2. Neighboured(n, i, hops) = [hops EXCEPT ![t] = SetHops(hops[t], j, b, 1)]
      BY <2>2, <2>5, <2>6 DEF Neighboured
    <3> QED
      BY <2>7, <3>1, <3>2 DEF PutTable
  <2>9. /\ (IF b = 0 THEN ~Member(n) /\ t \notin MemberSwitches ELSE b \in HopLids /\ t \in MemberSwitches)
        /\ b \in 0 .. maxLid /\ maxLid \in Nat
    <3>1. Visited /\ LidsByNode
      BY DEF DesignLids
    <3>2. maxLid \in Nat
      BY <3>1 DEF Visited
    <3>3. CASE b = 0
      <4>1. ~Member(n)
        <5> SUFFICES ASSUME NEW q \in PortsOf(n), baseLid[q] # 0
                     PROVE  FALSE
          BY DEF Member
        <5>1. q \in Ports /\ q[1] = n
          BY PortFacts
        <5>2. q \in DOMAIN remote
          BY <3>1, <5>1 DEF LidsByNode
        <5>3. q = p
          BY <1>4, <2>3, <5>1, <5>2
        <5> QED
          BY <2>5, <3>3, <5>3
      <4>2. ~Member(t)
        <5>1. PICK r : r = <<t, j>>
          OBVIOUS
        <5>2. r \in DOMAIN remote /\ r[1] = t /\ remote[r][1] = n
          BY <2>3, <2>6, <5>1
        <5> QED
          BY <3>1, <4>1, <5>2 DEF Visited
      <4> QED
        BY <3>2, <3>3, <4>1, <4>2 DEF MemberSwitches
    <3>4. CASE b # 0
      <4>1. b \in HopLids
        BY <2>3, <2>5, <3>1, <3>4 DEF Visited
      <4>2. Member(n)
        BY <2>3, <2>5, <3>4, PortFacts DEF Member
      <4>3. Member(t)
        BY <2>3, <2>5, <3>1, <4>2 DEF Visited
      <4> QED
        BY <2>6, <3>2, <3>4, <4>1, <4>3, HomeFacts DEF MemberSwitches
    <3> QED
      BY <3>3, <3>4
  <2>10. PICK K \in Nat, M \in Nat : K = NumPorts[t] /\ M = maxLid
    BY <2>6, <2>9, SubnetAssumption
  <2>11. HopsAreSet(M, K, hops[t], j, b, 1, g)
    <3>1. PICK table : table = hops[t]
      OBVIOUS
    <3>2. table \in HopTables(M, K)
      BY <2>6, <2>10, <3>1 DEF TablesTyped, HopTables
    <3>3. PICK h : h = 1
      OBVIOUS
    <3>4. j \in 0 .. K /\ b \in 0 .. M /\ h \in 0 .. Unassigned /\ g = SetHops(table, j, b, h)
      BY <2>6, <2>7, <2>9, <2>10, <3>1, <3>3 DEF Unassigned
    <3>5. HopsAreSet(M, K, table, j, b, h, g)
      BY ONLY K \in Nat, M \in Nat, <3>2, <3>4, SetHopsFacts, Zenon
    <3> QED
      BY <3>1, <3>3, <3>5
  <2>12. TablesTyped(H) /\ H[t] = g /\ \A s \in Switches : s # t => H[s] = hops[s]
    <3>1. g \in HopTables(maxLid, NumPorts[t])
      BY <2>10, <2>11 DEF HopsAreSet
    <3> QED
      BY ONLY <2>6, <2>8, <3>1, TablesTyped(hops), TablesTypedPut
  <2>13. \A s \in MemberSwitches : s \in Switches /\ Member(s)
    BY DEF MemberSwitches
  <2>14. CASE b = 0
    <3>1. \A s \in MemberSwitches : H[s] = hops[s]
      BY <2>9, <2>12, <2>13, <2>14
    <3>2. TablesSound(H)
      BY <3>1, TablesSoundPut
    <3>3. \A s \in MemberSwitches, l \in HopLids : H[s][l][0] <= hops[s][l][0]
      <4>1. \A s \in MemberSwitches : 0 \in 0 .. NumPorts[s]
        <5>1. \A s \in MemberSwitches : s \in Nodes
          BY <2>13, SubnetAssumption
        <5>2. \A s \in Nodes : 0 \in 0 .. NumPorts[s]
          BY SubnetAssumption
        <5> QED
          BY <5>1, <5>2
      <4>2. \A s \in MemberSwitches, l \in HopLids : hops[s][l][0] \in Nat
        BY <4>1, EntryFacts
      <4> QED
        BY <3>1, <4>2
    <3>4. SeededBelow(H, n)
      BY <2>12, <3>3, SeedsKept
    <3>5. \A q \in DOMAIN remote : q[1] = n => baseLid[q] = 0
      BY <1>4, <2>3, <2>5, <2>14
    <3>6. SeededBelow(H, m)
      BY <3>4, <3>5, SeedNone
    <3> QED
      BY <2>12, <3>2, <3>6
  <2>15. CASE b # 0
    <3>1. b \in HopLids /\ t \in MemberSwitches /\ b \in 0 .. M
      BY <2>9, <2>10, <2>15
    <3>2. /\ \A k \in 0 .. M : k # b => g[k] = hops[t][k]
          /\ g[b][j] = 1 /\ g[b][0] = IF hops[t][b][0] > 1 THEN 1 ELSE hops[t][b][0]
          /\ \A k \in 1 .. K : k # j => g[b][k] = hops[t][b][k]
      <4>1. j # 0
        BY <2>6
      <4> QED
        BY <2>11, <2>15, <4>1, Zenon DEF HopsAreSet
    <3>3. Home(b) = n
      BY <2>3, <2>5, <3>1, HomeFacts
    <3>4. \A k \in 0 .. K : hops[t][b][k] \in Nat /\ hops[t][b][0] \in Nat
      BY <2>10, <3>1, EntryFacts
    <3>5. 0 \in 0 .. K /\ \A k \in 1 .. K : k \in 0 .. K
      BY <2>10
    <3>6. RowSound(t, b, hops[t][b])
      BY <3>1, Zenon DEF TablesSound
    <3>7. g[b][0] \in Nat /\ g[b][0] <= hops[t][b][0] /\ g[b][0] <= 1
      BY <3>2, <3>4, <3>5
    <3>8. RowSound(t, b, g[b])
      <4>1. ASSUME NEW k \in 1 .. NumPorts[t]
            PROVE  g[b][0] <= g[b][k]
        <5>1. CASE k = j
          BY <3>2, <3>7, <5>1
        <5>2. CASE k # j
          <6>1. k \in 1 .. K /\ k \in 0 .. K
            BY <2>10
          <6>2. g[b][k] = hops[t][b][k]
            BY <3>2, <5>2, <6>1
          <6>3. hops[t][b][0] <= hops[t][b][k]
            BY <3>6, Zenon DEF RowSound
          <6> QED
            BY <3>4, <3>7, <6>1, <6>2, <6>3
        <5> QED
          BY <5>1, <5>2
      <4>2. ASSUME g[b][0] # Unassigned
            PROVE  Home(b) \in Ball({t}, Switches, g[b][0])
        <5>1. CASE g[b][0] = hops[t][b][0]
          BY <3>6, <4>2, <5>1, Zenon DEF RowSound
        <5>2. CASE g[b][0] # hops[t][b][0]
          <6>1. g[b][0] = 1
            BY <3>2, <5>2
          <6>2. Home(b) \in Beyond(t, Switches, 0)
            <7>1. PICK r : r = <<t, j>>
              OBVIOUS
            <7>2. r \in DOMAIN remote /\ r[1] = t /\ remote[r][1] = n
              BY <2>3, <2>6, <7>1
            <7>3. n \in Ball({n}, Switches, 0)
              <8>1. Ball({n}, Switches, 0) = {n}
                BY <1>0, BallIsIterated
              <8> QED
                BY <8>1
            <7> QED
              BY <3>3, <7>2, <7>3 DEF Beyond
          <6>3. PICK z \in Nat, o \in Nat : z = 0 /\ o = z + 1 /\ o = 1
            OBVIOUS
          <6>4. Home(b) \in Ball({t}, Switches, o)
            BY <1>0, <2>6, <6>2, <6>3, BallFirst
          <6> QED
            BY <6>1, <6>3, <6>4
        <5> QED
          BY <5>1, <5>2
      <4>3. ASSUME NEW k \in ToSwitches(t)
            PROVE  g[b][k] = hops[t][b][k]
        <5>1. k \in 1 .. K
          BY <2>10 DEF ToSwitches
        <5>2. k # j
          <6>1. Remote(<<t, j>>) = p
            BY <2>6 DEF Remote
          <6> QED
            BY <2>3, <6>1 DEF ToSwitches
        <5> QED
          BY <3>2, <5>1, <5>2
      <4>4. ASSUME Home(b) # t, NEW k \in ToSwitches(t), NEW u \in Switches,
                   u = Remote(<<t, k>>)[1], g[b][k] # Unassigned
            PROVE  g[b][k] >= 1 /\ Home(b) \in Ball({u}, Switches, g[b][k] - 1)
        <5>1. g[b][k] = hops[t][b][k]
          BY <4>3
        <5> QED
          BY <3>6, <4>4, <5>1, Zenon DEF RowSound
      <4>5. ASSUME Home(b) # t, NEW k \in 1 .. NumPorts[t], k \notin ToSwitches(t), g[b][k] # Unassigned
            PROVE  g[b][k] = 1 /\ AtCa(t, k, b)
        <5>1. CASE k = j
          BY <2>5, <2>6, <3>2, <5>1 DEF AtCa
        <5>2. CASE k # j
          <6>1. g[b][k] = hops[t][b][k]
            BY <2>10, <3>2, <5>2
          <6> QED
            BY <3>6, <4>5, <6>1, Zenon DEF RowSound
        <5> QED
          BY <5>1, <5>2
      <4> QED
        BY <4>1, <4>2, <4>4, <4>5, Zenon DEF RowSound
    <3>9. ASSUME NEW s \in MemberSwitches, NEW l \in HopLids
          PROVE  /\ H[s][l] = hops[s][l] \/ RowSound(s, l, H[s][l])
                 /\ H[s][l][0] <= hops[s][l][0]
      <4>1. l \in 0 .. M /\ s \in Switches
        BY <2>10, <2>13, HomeFacts
      <4>2. CASE s = t /\ l = b
        BY <2>12, <3>7, <3>8, <4>2
      <4>3. CASE ~(s = t /\ l = b)
        <5>1. H[s][l] = hops[s][l]
          BY <2>12, <3>2, <4>1, <4>3
        <5>2. hops[s][l][0] \in Nat
          <6>1. 0 \in 0 .. NumPorts[s]
            BY <4>1, SubnetAssumption
          <6> QED
            BY <6>1, EntryFacts
        <5> QED
          BY <5>1, <5>2
      <4> QED
        BY <4>2, <4>3
    <3>10. TablesSound(H)
      BY <3>9, TablesSoundPut
    <3>11. SeededBelow(H, n)
      BY <2>12, <3>9, SeedsKept
    <3>12. \A q \in DOMAIN remote : q[1] = n => H[remote[q][1]][baseLid[q]][0] <= 1
      BY <1>4, <2>3, <2>5, <2>12, <3>7
    <3>13. SeededBelow(H, m)
      BY <3>11, <3>12, SeedNone
    <3> QED
      BY <2>12, <3>10, <3>13
  <2> QED
    BY <2>14, <2>15
<1> QED
  BY <1>6, <1>7

\* The nodes seed the tables in turn.
LEMMA SeedKeeps ==
  ASSUME DesignLids, OneCable, HopsInv, SeedHops, Switches # {}
  PROVE  HopsInv'
<1>0. stage = "seed" /\ UNCHANGED <<remote, opts, baseLid, portByLid, maxLid>>
  <2>1. SeedHops => stage = "seed" /\ UNCHANGED <<GivenVars, LidVars>>
    BY ZenonT(60) DEF SeedHops
  <2> QED
    BY <2>1 DEF GivenVars, LidVars
<1> PICK n, H : n = work.at /\ H = hops'
  OBVIOUS
<1> PICK m : m = n + 1
  OBVIOUS
<1>1. /\ n < NumNodes => work' = [work EXCEPT !.at = m] /\ stage' = "seed"
      /\ ~(n < NumNodes) => work' = NoWork /\ stage' = "relax"
  <2>1. SeedHops => IF work.at < NumNodes
                    THEN work' = [work EXCEPT !.at = work.at + 1] /\ stage' = stage
                    ELSE work' = NoWork /\ stage' = "relax"
    BY ZenonT(60) DEF SeedHops
  <2> QED
    BY <1>0, <2>1
<1>2. /\ WorkRecord /\ TablesTyped(hops) /\ TablesSound(hops) /\ n \in Nodes /\ SeededBelow(hops, n)
  BY <1>0, Zenon DEF HopsInv, HopStages
<1>3. TablesTyped(H) /\ TablesSound(H) /\ SeededBelow(H, m)
  <2>1. stage # "lids" /\ m = n + 1
    BY <1>0
  <2>2. CASE n \in Switches
    <3>1. SeedHops /\ work.at \in Switches =>
            hops' = [hops EXCEPT ![work.at] = SetHops(@, 0, LidOfSwitch(work.at), 0)]
      BY ZenonT(60) DEF SeedHops
    <3>2. H = [hops EXCEPT ![n] = SetHops(hops[n], 0, LidOfSwitch(n), 0)]
      BY <2>2, <3>1
    <3> QED
      BY ONLY DesignLids, <1>2, <2>1, <2>2, <3>2, SeedSwitch, Zenon
  <2>3. CASE n \notin Switches
    <3>1. H = (CHOOSE b : SeedsUpTo(n, b))[NumPorts[n]]
      BY <2>3, SeedsTaken
    <3> QED
      BY ONLY DesignLids, OneCable, <1>2, <2>1, <2>3, <3>1, SeedCa, Zenon
  <2> QED
    BY <2>2, <2>3
<1>4. TablesTyped(hops)' /\ TablesSound(hops)' /\ SeededBelow(hops, m)'
  BY <1>0, <1>3, TablesFrozen, SeededFrozen
<1>5. n \in Nat /\ NumNodes \in Nat /\ n <= NumNodes /\ n >= 1
  BY <1>2, SubnetAssumption DEF Nodes
<1>6. CASE n < NumNodes
  <2>1. WorkRecord' /\ work'.at = m
    BY <1>1, <1>2, <1>6, PlaceSet, Zenon
  <2>2. m \in Nodes /\ stage' = "seed"
    BY <1>1, <1>5, <1>6 DEF Nodes
  <2> QED
    BY <1>4, <2>1, <2>2, Zenon DEF HopsInv
<1>7. CASE ~(n < NumNodes)
  <2>1. WorkRecord' /\ work'.at \in Switches /\ \A s \in Switches : ~(s < work'.at)
    BY <1>1, <1>7, PlaceReset
  <2>2. m = NumNodes + 1 /\ stage' = "relax"
    BY <1>1, <1>5, <1>7
  <2>3. \A s \in MemberSwitches' : s \in Switches
    BY DEF MemberSwitches
  <2>4. SeededBelow(hops, NumNodes + 1)'
    BY <1>4, <2>2
  <2> QED
    BY <1>4, <2>1, <2>2, <2>3, <2>4, Zenon DEF HopsInv
<1> QED
  BY <1>6, <1>7

\* The tables have no hops at first.
LEMMA HopsBegin ==
  ASSUME DesignLids', EndLids
  PROVE  HopsInv'
<1>0. /\ stage' = "seed" /\ hops' = [s \in Switches |-> NoHops(s, maxLid')]
      /\ work' = [NoWork EXCEPT !.at = 1]
  BY SMT DEF EndLids
<1>1. WorkRecord' /\ work'.at = 1
  <2>1. NoWork = [queue |-> NoWork.queue, visited |-> NoWork.visited, lid |-> NoWork.lid,
                  at |-> NoWork.at, changed |-> NoWork.changed, down |-> NoWork.down,
                  subs |-> NoWork.subs, nodes |-> NoWork.nodes, systems |-> NoWork.systems]
    BY SMT DEF NoWork, WorkAt
  <2>2. work' = [queue |-> NoWork.queue, visited |-> NoWork.visited, lid |-> NoWork.lid, at |-> 1,
                 changed |-> NoWork.changed, down |-> NoWork.down, subs |-> NoWork.subs,
                 nodes |-> NoWork.nodes, systems |-> NoWork.systems]
    BY <1>0, <2>1, SMT
  <2> QED
    BY <2>2, SMT DEF WorkRecord
<1>2. PICK M, H : M = maxLid' /\ H = hops'
  OBVIOUS
<1>3. H = [s \in Switches |-> [l \in 0 .. M |-> [i \in 0 .. NumPorts[s] |-> Unassigned]]]
  BY <1>0, <1>2, Zenon DEF NoHops
<1>4. Unassigned \in 0 .. Unassigned
  BY DEF Unassigned
<1>5. \A s \in Switches : H[s] \in [0 .. M -> [0 .. NumPorts[s] -> 0 .. Unassigned]]
  BY <1>3, <1>4
<1>6. TablesTyped(hops)'
  BY <1>2, <1>3, <1>5 DEF TablesTyped
<1>7. TablesSound(hops)'
  <2>1. HopLids' \subseteq 0 .. M /\ MemberSwitches' \subseteq Switches
    BY <1>2 DEF HopLids, MemberSwitches
  <2> SUFFICES ASSUME NEW s \in MemberSwitches', NEW l \in HopLids'
               PROVE  RowSound(s, l, H[s][l])'
    BY <1>2, Zenon DEF TablesSound
  <2> PICK row : row = H[s][l]
    OBVIOUS
  <2>2. s \in Switches /\ l \in 0 .. M
    BY <2>1
  <2>3. NumPorts[s] \in Nat
    BY <2>2, SubnetAssumption
  <2>4. row = [i \in 0 .. NumPorts[s] |-> Unassigned]
    BY <1>3, <2>2
  <2>5. row[0] = Unassigned /\ \A i \in 1 .. NumPorts[s] : row[i] = Unassigned
    BY <2>3, <2>4
  <2>6. \A i \in ToSwitches(s)' : i \in 1 .. NumPorts[s]
    BY DEF ToSwitches
  <2>7. \A i \in 1 .. NumPorts[s] : row[0] <= row[i]
    BY <2>5 DEF Unassigned
  <2>8. RowSound(s, l, row)'
    BY <2>5, <2>6, <2>7, Zenon DEF RowSound
  <2> QED
    BY <2>8
<1>8. SeededBelow(hops, 1)'
  <2>1. \A n \in Nodes : ~(n < 1)
    BY DEF Nodes
  <2>2. (\A q \in DOMAIN remote : q[1] \in Nodes)'
    <3>1. remote' \in Wirings
      BY DEF DesignLids
    <3>2. IsWiring(remote')
      BY <3>1, SubnetAssumption
    <3>3. DOMAIN remote' \subseteq Ports
      BY <3>2 DEF IsWiring
    <3> QED
      BY <3>3, PortFacts
  <2>3. MemberSwitches' \subseteq Nodes
    BY SubnetAssumption DEF MemberSwitches
  <2> QED
    BY <2>1, <2>2, <2>3, Zenon DEF SeededBelow
<1>9. 1 \in Nodes
  BY SubnetAssumption DEF Nodes
<1> QED
  BY <1>0, <1>1, <1>6, <1>7, <1>8, <1>9, Zenon DEF HopsInv

\* The other steps leave the tables alone, or are not followed by a loop over them.
LEMMA OthersKeepHops ==
  ASSUME [Next \/ Done]_vars, ~AssignLids, ~EndLids, ~SeedHops, ~RelaxHops
  PROVE  \/ stage' \notin HopStages
         \/ UNCHANGED vars
         \/ /\ stage = "reach" /\ stage' \in {"roots", "reach"}
            /\ UNCHANGED <<remote, opts, baseLid, portByLid, maxLid, hops, work>>
<1>1. CASE CheckReach
  <2>1. stage = "reach" /\ UNCHANGED <<GivenVars, LidVars, hops, work>>
    BY <1>1, Zenon DEF CheckReach
  <2>2. stage' \in {"failed", "check", "roots", "route"}
    BY <1>1, SMT DEF CheckReach
  <2> QED
    BY <2>1, <2>2 DEF HopStages, GivenVars, LidVars
<1>2. CASE FindRoots
  <2>1. stage' = "route" \/ stage' = "updn"
    BY <1>2, ZenonT(60) DEF FindRoots
  <2> QED
    BY <2>1 DEF HopStages
<1>3. CASE StartUpDn
  <2>1. StartUpDn => stage = "updn"
    BY ZenonT(60) DEF StartUpDn
  <2>2. StartUpDn => stage' = "failed" \/ stage' = stage
    BY ZenonT(60) DEF StartUpDn
  <2> QED
    BY <1>3, <2>1, <2>2 DEF HopStages
<1>4. CASE SpreadUpDn \/ EndUpDn
  <2>1. SpreadUpDn => stage = "updn" /\ stage' = stage
    BY ZenonT(60) DEF SpreadUpDn
  <2>2. EndUpDn => stage = "updn" /\ (stage' = stage \/ stage' = "route")
    BY ZenonT(60) DEF EndUpDn
  <2> QED
    BY <1>4, <2>1, <2>2 DEF HopStages
<1>5. CASE RouteLid \/ CountPastPorts
  <2>1. RouteLid => stage = "route"
    BY ZenonT(60) DEF RouteLid
  <2>2. RouteLid => stage' = "failed" \/ stage' = "check" \/ stage' = stage
    BY ZenonT(60) DEF RouteLid
  <2>3. CountPastPorts => stage' = "crashed"
    BY ZenonT(60) DEF CountPastPorts
  <2> QED
    BY <1>5, <2>1, <2>2, <2>3 DEF HopStages
<1>6. CASE CheckNext
  <2>1. CASE VerifyAllCaToCaRoutes \/ CountPastHops \/ VerifyAllRoutes
    BY <2>1 DEF VerifyAllCaToCaRoutes, CountPastHops, VerifyAllRoutes, Exit, HopStages
  <2>2. CASE StartGroup \/ VisitMember
    BY <2>2, GroupSteps DEF HopStages
  <2>3. CASE EndGroup \/ EndGroups
    BY <2>3 DEF EndGroup, EndGroups, HopStages
  <2>4. CASE ReportNonUpDown
    <3>1. ReportNonUpDown => stage' = "exit"
      BY SMT DEF ReportNonUpDown, Exit
    <3> QED
      BY <2>4, <3>1 DEF HopStages
  <2>5. CASE BuildGraph
    BY <2>5 DEF BuildGraph, Exit, HopStages
  <2>6. CASE StartLoopSearch \/ FollowDependency \/ CloseChannel
    BY <2>6 DEF StartLoopSearch, FollowDependency, CloseChannel, Exit, HopStages
  <2> QED
    BY <1>6, <2>1, <2>2, <2>3, <2>4, <2>5, <2>6 DEF CheckNext
<1> QED
  BY <1>1, <1>2, <1>3, <1>4, <1>5, <1>6 DEF Next, Design, Check, DesignNext, Done

\* Every step keeps the invariant of the tables of hops.
LEMMA HopsStep ==
  ASSUME DesignLids, OneCable, HopsInv, [Next \/ Done]_vars
  PROVE  HopsInv'
<1>0. CASE Switches = {}
  BY <1>0 DEF HopsInv
<1>1. CASE Switches # {} /\ AssignLids
  <2>1. stage' = "lids"
    BY <1>1, SMT DEF AssignLids
  <2> QED
    BY <2>1 DEF HopsInv, HopStages
<1>2. CASE Switches # {} /\ EndLids
  BY <1>2, VisitsEnd, HopsBegin
<1>3. CASE Switches # {} /\ SeedHops
  BY <1>3, SeedKeeps
<1>4. CASE Switches # {} /\ RelaxHops
  BY <1>4, RelaxKeeps
<1>5. ASSUME Switches # {}, UNCHANGED <<remote, opts, baseLid, portByLid, maxLid, hops, work>>,
             stage' = stage \/ (stage = "reach" /\ stage' = "roots")
      PROVE  HopsInv'
  <2> SUFFICES ASSUME stage' \in HopStages
               PROVE  HopsInv'
    BY DEF HopsInv
  <2>0. stage \in HopStages
    BY <1>5 DEF HopStages
  <2>1. /\ WorkRecord /\ TablesTyped(hops) /\ TablesSound(hops)
        /\ stage = "seed" => work.at \in Nodes /\ SeededBelow(hops, work.at)
        /\ stage # "seed" => SeededBelow(hops, NumNodes + 1)
        /\ stage = "relax" =>
             /\ work.at \in Switches
             /\ ~work.changed => \A s \in MemberSwitches : s < work.at => SettledAt(hops, s)
        /\ stage \in {"reach", "roots"} => \A s \in MemberSwitches : SettledAt(hops, s)
    BY <1>5, <2>0, Zenon DEF HopsInv
  <2>2. PICK H, w : H = hops' /\ w = work'
    OBVIOUS
  <2>3. H = hops /\ w = work
    BY <1>5, <2>2
  <2>4. WorkRecord' /\ TablesTyped(hops)' /\ TablesSound(hops)'
    BY <1>5, <2>1, <2>2, <2>3, TablesFrozen DEF WorkRecord
  <2>5. /\ \A k : SeededBelow(hops, k) => SeededBelow(hops, k)'
        /\ \A s : SettledAt(hops, s) => SettledAt(hops, s)'
        /\ MemberSwitches' = MemberSwitches
    BY <1>5, <2>2, <2>3, SeededFrozen, SettledFrozen DEF MemberSwitches, Member
  <2>6. PICK a : a = work.at /\ a = work'.at
    BY <1>5
  <2>7. stage' = "seed" => a \in Nodes /\ SeededBelow(hops, a)'
    BY <1>5, <2>1, <2>5, <2>6
  <2>8. stage' # "seed" => SeededBelow(hops, NumNodes + 1)'
    BY <1>5, <2>1, <2>5
  <2>9. stage' = "relax" =>
          /\ a \in Switches
          /\ ~work'.changed => \A s \in MemberSwitches : s < a => SettledAt(hops, s)'
    BY <1>5, <2>1, <2>5, <2>6
  <2>10. stage' \in {"reach", "roots"} => \A s \in MemberSwitches : SettledAt(hops, s)'
    BY <1>5, <2>1, <2>5
  <2> QED
    BY <2>4, <2>5, <2>6, <2>7, <2>8, <2>9, <2>10, Zenon DEF HopsInv
<1> QED
  BY <1>0, <1>1, <1>2, <1>3, <1>4, <1>5, OthersKeepHops DEF HopsInv, vars, subnetVars

\* When the sweeps of SubnMgtCalcMinHopTables end, the tables of hops have the distances.
THEOREM HopsCorrect ==
  ASSUME OneCable, NumNodes <= Unassigned + 1
  PROVE  Spec => [](opts.design => HopsAreDistances)
<1> DEFINE Inv == opts.design => DesignLids /\ HopsInv
<1>1. Init => Inv
  <2>1. VerificationMode => ~opts.design
    BY VerificationAssumption, SMT DEF VerificationMode
  <2>2. DesignMode => stage = "lids"
    BY SMT DEF DesignMode, DesignInit
  <2>3. DesignMode => HopsInv
    BY <2>2 DEF HopsInv, HopStages
  <2> QED
    BY <2>1, <2>3, VisitsBegin DEF Init
<1>2. Inv /\ [Next \/ Done]_vars => Inv'
  <2> SUFFICES ASSUME Inv, [Next \/ Done]_vars, opts'.design
               PROVE  DesignLids' /\ HopsInv'
    OBVIOUS
  <2>1. opts' = opts
    BY OptionsKept
  <2>2. DesignLids /\ HopsInv
    BY <2>1
  <2> QED
    BY <2>2, DesignLidsStep, HopsStep
<1>3. Inv => (opts.design => HopsAreDistances)
  <2> SUFFICES ASSUME DesignLids, HopsInv, stage \in {"reach", "roots"}
               PROVE  HopsAreDistances
    BY DEF HopsAreDistances
  <2>1. CASE Switches = {}
    BY <2>1 DEF HopsAreDistances, MemberSwitches
  <2>2. CASE Switches # {}
    <3>1. /\ TablesTyped(hops) /\ TablesSound(hops) /\ SeededBelow(hops, NumNodes + 1)
          /\ \A s \in MemberSwitches : SettledAt(hops, s)
      BY <2>2, Zenon DEF HopsInv, HopStages
    <3>2. stage # "lids"
      OBVIOUS
    <3> QED
      BY ONLY DesignLids, OneCable, NumNodes <= Unassigned + 1, <3>1, <3>2, HopsExact, Zenon
  <2> QED
    BY <2>1, <2>2
<1> QED
  BY <1>1, <1>2, <1>3, PTL DEF Spec

-----------------------------------------------------------------------------
(* Hops that lead to all LIDs *)

\* The hops at port i of switch s are one more than those of the next switch, or lead to
\* the CA with the LID.
HopTrue(H, s, l, i) ==
  IF i \in ToSwitches(s) THEN H[s][l][i] = H[Remote(<<s, i>>)[1]][l][0] + 1
  ELSE H[s][l][i] = 1 /\ AtCa(s, i, l)

\* Ports with the least hops lead one cable closer to the LID.
LeadsOn(H, s, l) ==
  /\ Home(l) = s <=> H[s][l][0] = 0
  /\ Home(l) # s => \A i \in 1 .. NumPorts[s] :
       H[s][l][i] = H[s][l][0] /\ H[s][l][i] # Unassigned => HopTrue(H, s, l, i)

LeadsBelow(H, m) == \A s \in MemberSwitches, l \in HopLids : l < m => LeadsOn(H, s, l)

\* When all is settled, ports with the least hops lead closer.
LEMMA SettledLeads ==
  ASSUME DesignLids, stage # "lids", OneCable, NEW H, TablesTyped(H), TablesSound(H),
         \A s \in MemberSwitches : SettledAt(H, s), SeededBelow(H, NumNodes + 1),
         NEW s \in MemberSwitches, NEW l \in HopLids
  PROVE  LeadsOn(H, s, l)
<1>1. \A k \in Nat : \A t \in MemberSwitches : Home(l) \in Ball({t}, Switches, k) => H[t][l][0] <= k
  BY HopsComplete
<1>2. s \in Switches /\ s \in Nodes /\ s < NumNodes + 1 /\ 0 \in 0 .. NumPorts[s]
  <2>1. s \in Switches /\ s \in Nodes
    BY SubnetAssumption DEF MemberSwitches
  <2>2. NumPorts[s] \in Nat
    BY <2>1, SubnetAssumption
  <2> QED
    BY <2>1, <2>2, SubnetAssumption DEF Nodes
<1>3. RowSound(s, l, H[s][l])
  BY Zenon DEF TablesSound
<1>4. Home(l) = s => H[s][l][0] = 0
  BY <1>2, Zenon DEF SeededBelow
<1>5. H[s][l][0] = 0 => Home(l) = s
  <2>1. Ball({s}, Switches, 0) = {s}
    BY <1>2, CableFacts, BallIsIterated DEF DesignLids
  <2>2. 0 # Unassigned
    BY DEF Unassigned
  <2> PICK z : z = 0
    OBVIOUS
  <2>3. H[s][l][0] = z /\ z # Unassigned => Home(l) \in Ball({s}, Switches, z)
    BY <1>3, Zenon DEF RowSound
  <2> QED
    BY <2>1, <2>2, <2>3
<1>6. ASSUME Home(l) # s, NEW i \in 1 .. NumPorts[s], H[s][l][i] = H[s][l][0],
             H[s][l][i] # Unassigned
      PROVE  HopTrue(H, s, l, i)
  <2>1. CASE i \in ToSwitches(s)
    <3>1. PICK t : t = Remote(<<s, i>>)[1]
      OBVIOUS
    <3>2. t \in MemberSwitches /\ t \in Switches /\ 0 \in 0 .. NumPorts[t]
      <4>1. t \in MemberSwitches
        BY <2>1, <3>1, NeighbourFacts
      <4>2. t \in Switches /\ t \in Nodes
        BY <4>1, SubnetAssumption DEF MemberSwitches
      <4>3. NumPorts[t] \in Nat
        BY <4>2, SubnetAssumption
      <4> QED
        BY <4>1, <4>2, <4>3
    <3>3. PICK d, h : d = H[s][l][i] /\ h = H[t][l][0]
      OBVIOUS
    <3>4. d \in Nat /\ h \in Nat
      <4>1. i \in 0 .. NumPorts[s]
        BY <1>2
      <4> QED
        BY <3>2, <3>3, <4>1, EntryFacts
    <3>5. d >= 1 /\ Home(l) \in Ball({t}, Switches, d - 1)
      BY <1>3, <1>6, <2>1, <3>1, <3>2, <3>3, Zenon DEF RowSound
    <3>6. d - 1 \in Nat
      BY <3>4, <3>5
    <3>7. h <= d - 1
      BY <1>1, <3>2, <3>3, <3>5, <3>6
    <3>8. d <= h + 1
      BY <2>1, <3>1, <3>2, <3>3, Zenon DEF SettledAt
    <3>9. d = h + 1
      BY ONLY <3>4, <3>7, <3>8
    <3> QED
      BY <2>1, <3>1, <3>3, <3>9 DEF HopTrue
  <2>2. CASE i \notin ToSwitches(s)
    <3>1. H[s][l][i] = 1 /\ AtCa(s, i, l)
      BY <1>3, <1>6, <2>2, Zenon DEF RowSound
    <3> QED
      BY <2>2, <3>1 DEF HopTrue
  <2> QED
    BY <2>1, <2>2
<1> QED
  BY <1>4, <1>5, <1>6, Zenon DEF LeadsOn

\* This stays so when nothing changes.
LEMMA LeadsFrozen ==
  ASSUME UNCHANGED <<remote, opts, baseLid, portByLid, maxLid>>, NEW H, H = hops'
  PROVE  /\ \A s, l : LeadsOn(H, s, l) => LeadsOn(hops, s, l)'
         /\ \A m : LeadsBelow(H, m) => LeadsBelow(hops, m)'
<1>1. ASSUME NEW s, NEW l
      PROVE  LeadsOn(H, s, l)' = LeadsOn(H, s, l)
  BY SMT DEF LeadsOn, HopTrue, ToSwitches, Remote, AtCa, Home
<1>2. MemberSwitches' = MemberSwitches /\ HopLids' = HopLids
  BY DEF MemberSwitches, Member, HopLids, LidStep
<1> QED
  BY <1>1, <1>2, Zenon DEF LeadsBelow

-----------------------------------------------------------------------------
(* The searches of SubnMgtUpDnBFSFromPort *)

\* No switch knows a way to the LID.
NoHopsYet(H, l) == \A s \in MemberSwitches : \A i \in 0 .. NumPorts[s] : H[s][l][i] = Unassigned

\* All ports with hops lead one cable closer to the LID, not only the least.
SpreadOn(H, s, l) ==
  /\ Home(l) = s <=> H[s][l][0] = 0
  /\ Home(l) # s => \A i \in 1 .. NumPorts[s] : H[s][l][i] # Unassigned => HopTrue(H, s, l, i)

\* The search from a LID visits the switches in the order of their hops, and has
\* found none that is further away than the neighbours of those that wait.
InOrder(H, l, queue) ==
  /\ \A k \in 1 .. Len(queue) : H[queue[k]][l][0] # Unassigned
  /\ \A j, k \in 1 .. Len(queue) : j < k => H[queue[j]][l][0] <= H[queue[k]][l][0]
  /\ \A s \in MemberSwitches, k \in 1 .. Len(queue) :
       H[s][l][0] # Unassigned => H[s][l][0] <= H[queue[k]][l][0] + 1

Spreading(H, l, queue) ==
  /\ queue \in Seq(MemberSwitches) /\ InOrder(H, l, queue)
  /\ \A s \in MemberSwitches : SpreadOn(H, s, l)

\* The tables for other LIDs are as before.
OthersKept(H, G, l) == \A s \in Switches, k \in 0 .. maxLid : k # l => H[s][k] = G[s][k]

\* The queue is set.
LEMMA QueueSet ==
  ASSUME WorkRecord, NEW q, NEW v, NEW d,
         work' = [work EXCEPT !.queue = q, !.visited = v, !.down = d]
  PROVE  WorkRecord' /\ work'.queue = q /\ work'.visited = v /\ work'.lid = work.lid
<1>1. PICK x : x = [work EXCEPT !.queue = q]
  OBVIOUS
<1>2. x = [queue |-> q, visited |-> work.visited, lid |-> work.lid, at |-> work.at,
           changed |-> work.changed, down |-> work.down, subs |-> work.subs,
           nodes |-> work.nodes, systems |-> work.systems]
  BY <1>1, SMT DEF WorkRecord
<1>3. PICK y : y = [x EXCEPT !.visited = v]
  OBVIOUS
<1>4. y = [queue |-> q, visited |-> v, lid |-> work.lid, at |-> work.at,
           changed |-> work.changed, down |-> work.down, subs |-> work.subs,
           nodes |-> work.nodes, systems |-> work.systems]
  BY <1>2, <1>3, SMT
<1>5. work' = [y EXCEPT !.down = d]
  BY <1>1, <1>3, Zenon
<1>6. work' = [queue |-> q, visited |-> v, lid |-> work.lid, at |-> work.at,
               changed |-> work.changed, down |-> d, subs |-> work.subs,
               nodes |-> work.nodes, systems |-> work.systems]
  BY ONLY <1>4, <1>5, SMT
<1> QED
  BY ONLY <1>6, SMT DEF WorkRecord

\* The port that PortByLid has for a LID of the tables.
LEMMA ListedFacts ==
  ASSUME DesignLids, stage # "lids", NEW l \in HopLids, NEW p, p = portByLid[l]
  PROVE  /\ p \in Ports /\ baseLid[p] = l /\ p[1] = Home(l) /\ l # 0
         /\ p[1] \notin Switches => p \in DOMAIN remote /\ Member(remote[p][1])
<1>1. p \in Ports /\ baseLid[p] = l
  BY DEF DesignLids, Visited, ListedAt
<1>2. l # 0 /\ p[1] = Home(l)
  BY <1>1, HomeFacts
<1>3. ASSUME p[1] \notin Switches
      PROVE  p \in DOMAIN remote /\ Member(remote[p][1])
  <2>1. p \in DOMAIN remote
    BY <1>1, <1>2, <1>3 DEF DesignLids, LidsByNode
  <2>2. Member(p[1])
    BY ONLY <1>2, DesignLids, stage # "lids", l \in HopLids, HomeFacts
  <2> QED
    BY <2>1, <2>2 DEF DesignLids, Visited
<1> QED
  BY <1>1, <1>2, <1>3

\* Where the search for a LID begins, and with how many hops.
FirstPort(l) == IF portByLid[l][1] \in Switches THEN portByLid[l] ELSE Remote(portByLid[l])
FirstHops(l) == IF portByLid[l][1] \in Switches THEN 0 ELSE 1

Started(H, f, l, h) == H = [hops EXCEPT ![f[1]] = SetHops(@, f[2], l, h)]

\* StartUpDn gives the first switch its hops, and so begins to spread.
LEMMA SpreadStarts ==
  ASSUME DesignLids, stage # "lids", TablesTyped(hops), NEW l \in HopLids, NoHopsYet(hops, l),
         NEW f, f = FirstPort(l), f[1] \in Switches, NEW h, h = FirstHops(l),
         NEW H, Started(H, f, l, h)
  PROVE  TablesTyped(H) /\ Spreading(H, l, <<f[1]>>) /\ OthersKept(H, hops, l)
<1> PICK p : p = portByLid[l]
  OBVIOUS
<1> f = (IF p[1] \in Switches THEN p ELSE Remote(p))
  BY DEF FirstPort
<1> h = (IF p[1] \in Switches THEN 0 ELSE 1)
  BY DEF FirstHops
<1> H = [hops EXCEPT ![f[1]] = SetHops(@, f[2], l, h)]
  BY Zenon DEF Started
<1>1. /\ p \in Ports /\ baseLid[p] = l /\ p[1] = Home(l) /\ l # 0 /\ l \in 0 .. maxLid
      /\ p[1] \notin Switches => p \in DOMAIN remote /\ Member(remote[p][1])
      /\ IsWiring(remote) /\ maxLid \in Nat
  <2>1. l \in 0 .. maxLid /\ maxLid \in Nat /\ IsWiring(remote)
    BY HomeFacts, CableFacts DEF DesignLids
  <2> QED
    BY <2>1, ListedFacts
<1>0. remote \in Wirings
  BY DEF DesignLids
<1> PICK t, j : t = f[1] /\ j = f[2]
  OBVIOUS
<1>2. t \in MemberSwitches /\ t \in Switches /\ t \in Nodes /\ j \in 1 .. NumPorts[t] /\ f = <<t, j>>
  <2>1. CASE p[1] \in Switches
    <3>1. Member(p[1])
      BY <1>1, HomeFacts
    <3> QED
      BY <1>1, <2>1, <3>1, PortFacts DEF MemberSwitches
  <2>2. CASE p[1] \notin Switches
    <3>1. f = remote[p] /\ Member(f[1])
      BY <1>1, <2>2 DEF Remote
    <3>2. f \in Ports
      BY <1>0, <1>1, <2>2, <3>1, CableFacts
    <3> QED
      BY <3>1, <3>2, PortFacts DEF MemberSwitches
  <2> QED
    BY <2>1, <2>2
<1>3. p[1] \notin Switches => Home(l) # t /\ j \notin ToSwitches(t) /\ AtCa(t, j, l)
  <2> SUFFICES ASSUME p[1] \notin Switches
               PROVE  Home(l) # t /\ j \notin ToSwitches(t) /\ AtCa(t, j, l)
    OBVIOUS
  <2>0. f = remote[p]
    BY <1>1 DEF Remote
  <2>1. f = remote[p] /\ f \in DOMAIN remote /\ remote[f] = p
    BY <1>0, <1>1, <2>0, CableFacts
  <2>2. Remote(<<t, j>>) = p /\ <<t, j>> \in DOMAIN remote /\ remote[<<t, j>>] = p
    BY <1>2, <2>1 DEF Remote
  <2> QED
    BY <1>1, <1>2, <2>2 DEF ToSwitches, AtCa
<1>4. PICK N \in Nat, M \in Nat : N = NumPorts[t] /\ M = maxLid
  <2>1. NumPorts[t] \in Nat /\ maxLid \in Nat
    BY ONLY <1>1, <1>2, PortFacts
  <2> QED
    BY ONLY <2>1
<1>5. PICK g : g = SetHops(hops[t], j, l, h)
  OBVIOUS
<1>6. HopsAreSet(M, N, hops[t], j, l, h, g) /\ h \in Nat /\ h <= 1
  <2>1. PICK table : table = hops[t]
    BY Zenon
  <2>2. table \in HopTables(M, N)
    BY <1>2, <1>4, <2>1 DEF TablesTyped, HopTables
  <2>3. j \in 0 .. N /\ l \in 0 .. M /\ h \in 0 .. Unassigned /\ g = SetHops(table, j, l, h)
    BY <1>1, <1>2, <1>4, <1>5, <2>1 DEF Unassigned
  <2>4. HopsAreSet(M, N, table, j, l, h, g)
    BY ONLY N \in Nat, M \in Nat, <2>2, <2>3, SetHopsFacts, Zenon
  <2>5. h \in Nat /\ h <= 1
    OBVIOUS
  <2> QED
    BY <2>1, <2>4, <2>5
<1>7. TablesTyped(H) /\ H[t] = g /\ \A s \in Switches : s # t => H[s] = hops[s]
  <2>1. g \in HopTables(maxLid, NumPorts[t])
    BY <1>4, <1>6 DEF HopsAreSet
  <2>2. PutTable(H, hops, t, g)
    <3>1. H = [hops EXCEPT ![f[1]] = SetHops(hops[f[1]], f[2], l, h)]
      BY Zenon
    <3> QED
      BY ONLY <1>5, <3>1, t = f[1], j = f[2] DEF PutTable
  <2> QED
    BY ONLY <1>2, <2>1, <2>2, TablesTyped(hops), TablesTypedPut
<1>8. /\ \A k \in 0 .. M : k # l => g[k] = hops[t][k]
      /\ g[l][j] = h /\ g[l][0] = IF hops[t][l][0] > h THEN h ELSE hops[t][l][0]
      /\ \A i \in 1 .. N : i # j => g[l][i] = hops[t][l][i]
  <2>1. j # 0
    BY <1>2
  <2> QED
    BY <1>1, <1>6, <2>1, Zenon DEF HopsAreSet
<1>9. \A s \in MemberSwitches : s \in Switches /\ \A i \in 1 .. NumPorts[s] : i \in 0 .. NumPorts[s]
  <2>1. \A s \in MemberSwitches : s \in Switches /\ s \in Nodes
    BY SubnetAssumption DEF MemberSwitches
  <2>2. \A s \in Nodes : NumPorts[s] \in Nat
    BY SubnetAssumption
  <2> QED
    BY <2>1, <2>2
<1>10. \A s \in MemberSwitches : 0 \in 0 .. NumPorts[s]
  <2>1. \A s \in Nodes : NumPorts[s] \in Nat
    BY SubnetAssumption
  <2>2. \A s \in MemberSwitches : s \in Nodes
    BY SubnetAssumption DEF MemberSwitches
  <2> QED
    BY <2>1, <2>2
<1>11. /\ g[l][0] = h
       /\ \A i \in 1 .. N : i # j => g[l][i] = Unassigned
       /\ \A s \in MemberSwitches : s # t => \A i \in 0 .. NumPorts[s] : H[s][l][i] = Unassigned
  <2>1. hops[t][l][0] = Unassigned /\ \A i \in 1 .. N : hops[t][l][i] = Unassigned
    <3>1. \A i \in 0 .. NumPorts[t] : hops[t][l][i] = Unassigned
      BY <1>2, Zenon DEF NoHopsYet
    <3>2. 0 \in 0 .. N /\ \A i \in 1 .. N : i \in 0 .. N
      BY ONLY N \in Nat
    <3>3. \A i \in 0 .. N : hops[t][l][i] = Unassigned
      BY ONLY <1>4, <3>1
    <3> QED
      BY ONLY <3>2, <3>3, Zenon
  <2>2. Unassigned > h
    <3>1. h \in Nat /\ h <= 1
      BY <1>6, Zenon
    <3> QED
      BY ONLY <3>1 DEF Unassigned
  <2> QED
    <3>1. g[l][0] = h
      BY <1>8, <2>1, <2>2
    <3>2. \A i \in 1 .. N : i # j => g[l][i] = Unassigned
      BY <1>8, <2>1
    <3>3. \A s \in MemberSwitches : s # t => H[s] = hops[s]
      BY ONLY <1>7, <1>9
    <3>4. \A s \in MemberSwitches : \A i \in 0 .. NumPorts[s] : hops[s][l][i] = Unassigned
      BY Zenon DEF NoHopsYet
    <3> QED
      BY ONLY <3>1, <3>2, <3>3, <3>4
<1>12. OthersKept(H, hops, l)
  BY <1>4, <1>7, <1>8 DEF OthersKept
<1>13. ASSUME NEW s \in MemberSwitches
       PROVE  SpreadOn(H, s, l)
  <2>1. CASE s = t
    <3>1. Home(l) = t <=> h = 0
      BY <1>1, <1>2, <1>3
    <3>2. ASSUME Home(l) # t, NEW i \in 1 .. NumPorts[t], H[t][l][i] # Unassigned
          PROVE  HopTrue(H, t, l, i)
      <4>1. i = j
        BY <1>4, <1>7, <1>11, <3>2
      <4>2. p[1] \notin Switches /\ h = 1
        BY <1>1, <1>2, <3>2
      <4>3. H[t][l][i] = 1
        BY <1>7, <1>8, <4>1, <4>2
      <4> QED
        BY ONLY <1>3, <4>1, <4>2, <4>3, Zenon DEF HopTrue
    <3> QED
      BY <1>7, <1>11, <2>1, <3>1, <3>2, Zenon DEF SpreadOn
  <2>2. CASE s # t
    <3>1. Home(l) # s
      BY <1>1, <1>2, <1>9, <2>2
    <3>2. H[s][l][0] = Unassigned /\ \A i \in 1 .. NumPorts[s] : H[s][l][i] = Unassigned
      BY <1>9, <1>10, <1>11, <2>2
    <3>3. Unassigned # 0
      BY DEF Unassigned
    <3> QED
      BY <3>1, <3>2, <3>3, Zenon DEF SpreadOn
  <2> QED
    BY <2>1, <2>2
<1>14. PICK q : q = <<t>>
  OBVIOUS
<1>15. q \in Seq(MemberSwitches) /\ Len(q) = 1 /\ q[1] = t
  BY <1>2, <1>14
<1>16. InOrder(H, l, q)
  <2>1. \A k \in 1 .. Len(q) : k = 1 /\ q[k] = t
    BY ONLY <1>15
  <2>2. H[t][l][0] = h /\ h # Unassigned /\ h <= h + 1 /\ h <= h
    BY ONLY <1>6, <1>7, <1>11 DEF Unassigned
  <2>3. \A s \in MemberSwitches : H[s][l][0] # Unassigned => s = t
    BY <1>10, <1>11
  <2> QED
    BY <2>1, <2>2, <2>3 DEF InOrder
<1> QED
  BY <1>7, <1>12, <1>13, <1>14, <1>15, <1>16 DEF Spreading

\* The neighbour behind port i of s gets the hops h to LID l.
Learned(s, l, h, x, i) ==
  [x EXCEPT ![Remote(<<s, i>>)[1]] = SetHops(@, Remote(<<s, i>>)[2], l, h)]

\* What the loop of SubnMgtUpDnBFSFromPort makes of the tables at the ports up to k.
LearnsUpTo(s, is, l, h, a) ==
  a = [k \in 0 .. NumPorts[s] |->
         IF k = 0 THEN hops
         ELSE IF k \in is
              THEN [a[k - 1] EXCEPT ![Remote(<<s, k>>)[1]] =
                      SetHops(@, Remote(<<s, k>>)[2], l, h)]
              ELSE a[k - 1]]

\* The neighbours behind the ports up to k have h hops, if they had more.
Learnt(G, s, is, l, h, k) ==
  /\ TablesTyped(G) /\ OthersKept(G, hops, l)
  /\ \A t \in Switches : \A j \in 1 .. NumPorts[t] :
       G[t][l][j] = hops[t][l][j] \/ (G[t][l][j] = h /\ \E i \in is : Remote(<<s, i>>) = <<t, j>>)
  /\ \A t \in Switches :
       G[t][l][0] = hops[t][l][0] \/ (G[t][l][0] = h /\ h < hops[t][l][0])
  /\ \A i \in is : i <= k => G[Remote(<<s, i>>)[1]][l][0] <= h

\* One neighbour.
LEMMA LearnOne ==
  ASSUME DesignLids, stage # "lids", NEW s \in MemberSwitches, NEW l \in HopLids,
         NEW h \in 0 .. Unassigned, NEW i \in ToSwitches(s), NEW t, NEW j, Remote(<<s, i>>) = <<t, j>>,
         NEW G, TablesTyped(G), NEW H, H = Learned(s, l, h, G, i)
  PROVE  /\ t \in MemberSwitches /\ t \in Switches /\ j \in 1 .. NumPorts[t]
         /\ TablesTyped(H) /\ OthersKept(H, G, l)
         /\ \A u \in Switches : u # t => H[u] = G[u]
         /\ H[t][l][j] = h /\ H[t][l][0] = IF G[t][l][0] > h THEN h ELSE G[t][l][0]
         /\ \A k \in 1 .. NumPorts[t] : k # j => H[t][l][k] = G[t][l][k]
<1>1. l # 0 /\ l \in 0 .. maxLid /\ maxLid \in Nat /\ remote \in Wirings
  BY HomeFacts DEF DesignLids
<1>2. t \in MemberSwitches /\ t \in Switches /\ t \in Nodes /\ j \in 1 .. NumPorts[t]
  <2>1. PICK q : q = <<s, i>>
    OBVIOUS
  <2>2. q \in DOMAIN remote /\ Remote(q) = remote[q] /\ Remote(q)[1] \in MemberSwitches
    BY <2>1, NeighbourFacts
  <2>3. remote[q] \in DOMAIN remote
    BY ONLY <1>1, <2>2, CableFacts
  <2>4. remote[q] \in Ports
    BY ONLY <1>1, <2>3, CableFacts
  <2>5. remote[q] = <<t, j>>
    BY <2>1, <2>2
  <2>6. t \in Nodes /\ j \in 1 .. NumPorts[t]
    BY <2>4, <2>5, PortFacts
  <2>7. t \in MemberSwitches
    BY <2>2, <2>5
  <2> QED
    BY <2>6, <2>7 DEF MemberSwitches
<1>3. PICK N \in Nat, M \in Nat : N = NumPorts[t] /\ M = maxLid
  BY <1>1, <1>2, SubnetAssumption
<1>4. PICK g, table : table = G[t] /\ g = SetHops(table, j, l, h)
  OBVIOUS
<1>5. HopsAreSet(M, N, table, j, l, h, g)
  <2>1. table \in HopTables(M, N)
    BY <1>2, <1>3, <1>4 DEF TablesTyped, HopTables
  <2>2. j \in 0 .. N /\ l \in 0 .. M /\ h \in 0 .. Unassigned
    BY <1>1, <1>2, <1>3
  <2>3. g = SetHops(table, j, l, h)
    BY <1>4
  <2> QED
    BY ONLY N \in Nat, M \in Nat, <2>1, <2>2, <2>3, SetHopsFacts, Zenon
<1>6. TablesTyped(H) /\ H[t] = g /\ \A u \in Switches : u # t => H[u] = G[u]
  <2>1. g \in HopTables(maxLid, NumPorts[t])
    BY <1>3, <1>5 DEF HopsAreSet
  <2>2. PutTable(H, G, t, g)
    <3>1. PICK x : x = Remote(<<s, i>>)
      OBVIOUS
    <3>2. x = <<t, j>> /\ x[1] = t /\ x[2] = j
      BY <3>1
    <3>3. H = [G EXCEPT ![x[1]] = SetHops(@, x[2], l, h)]
      BY ONLY <3>1, H = Learned(s, l, h, G, i), Zenon DEF Learned
    <3>4. H = [G EXCEPT ![t] = g]
      BY ONLY <1>4, <3>2, <3>3
    <3> QED
      BY <3>4, Zenon DEF PutTable
  <2> QED
    BY ONLY <1>2, <2>1, <2>2, TablesTyped(G), TablesTypedPut
<1>7. /\ \A k \in 0 .. M : k # l => g[k] = table[k]
      /\ g[l][j] = h /\ g[l][0] = IF table[l][0] > h THEN h ELSE table[l][0]
      /\ \A k \in 1 .. N : k # j => g[l][k] = table[l][k]
  <2>1. j # 0
    BY <1>2
  <2> QED
    BY <1>1, <1>5, <2>1, Zenon DEF HopsAreSet
<1>8. OthersKept(H, G, l)
  BY <1>3, <1>4, <1>6, <1>7 DEF OthersKept
<1> QED
  BY <1>2, <1>3, <1>4, <1>6, <1>7, <1>8

\* The tables that are typed, as a set.
AllTables == {G \in [Switches -> UNION {HopTables(maxLid, NumPorts[s]) : s \in Switches}] : TablesTyped(G)}

\* They are all of them.
LEMMA AllTablesFacts == \A G : G \in AllTables <=> TablesTyped(G)
<1> SUFFICES ASSUME NEW G, TablesTyped(G)
             PROVE  G \in [Switches -> UNION {HopTables(maxLid, NumPorts[s]) : s \in Switches}]
  BY DEF AllTables
<1>1. G = [s \in Switches |-> G[s]]
  BY DEF TablesTyped
<1>2. \A s \in Switches : G[s] \in HopTables(maxLid, NumPorts[s])
  BY DEF TablesTyped, HopTables
<1>3. \A s \in Switches : G[s] \in UNION {HopTables(maxLid, NumPorts[t]) : t \in Switches}
  BY <1>2
<1> QED
  BY ONLY <1>1, <1>3

\* The loop over the ports has a result.
LEMMA LearnsExist ==
  ASSUME DesignLids, stage # "lids", NEW s \in MemberSwitches, NEW l \in HopLids,
         NEW h \in 0 .. Unassigned, NEW is, is \subseteq ToSwitches(s), TablesTyped(hops)
  PROVE  \E a : LearnsUpTo(s, is, l, h, a)
<1>1. PICK N \in Nat : N = NumPorts[s]
  <2>1. s \in Nodes
    BY SubnetAssumption DEF MemberSwitches
  <2> QED
    BY <2>1, SubnetAssumption
<1>2. PICK T : T = AllTables
  OBVIOUS
<1>3. PICK x : x \in T /\ x = hops
  BY <1>2, AllTablesFacts
<1>4. PICK f : f = [kv \in (1 .. N) \X T |->
                     IF kv[1] \in is THEN Learned(s, l, h, kv[2], kv[1]) ELSE kv[2]]
  OBVIOUS
<1>5. ASSUME NEW kv \in (1 .. N) \X T
      PROVE  (IF kv[1] \in is THEN Learned(s, l, h, kv[2], kv[1]) ELSE kv[2]) \in T
  <2>1. CASE kv[1] \in is
    <3>1. PICK i, G, H : i = kv[1] /\ G = kv[2] /\ H = Learned(s, l, h, G, i)
      OBVIOUS
    <3>2. G \in T
      BY ONLY kv \in (1 .. N) \X T, <3>1
    <3>3. i \in ToSwitches(s) /\ TablesTyped(G)
      BY <1>2, <2>1, <3>1, <3>2, AllTablesFacts
    <3>4. Remote(<<s, i>>) = <<Remote(<<s, i>>)[1], Remote(<<s, i>>)[2]>>
      <4>1. PICK p : p = <<s, i>>
        OBVIOUS
      <4>2. p \in DOMAIN remote /\ Remote(p) = remote[p]
        BY <3>3, <4>1, NeighbourFacts
      <4>3. remote[p] \in Ports
        BY <4>2, CableFacts DEF DesignLids
      <4> QED
        BY <4>1, <4>2, <4>3, PortFacts
    <3>5. PICK t, j : Remote(<<s, i>>) = <<t, j>>
      BY <3>4
    <3>6. TablesTyped(H)
      BY <3>1, <3>3, <3>5, LearnOne
    <3> QED
      BY <1>2, <2>1, <3>1, <3>6, AllTablesFacts
  <2>2. CASE kv[1] \notin is
    BY ONLY kv \in (1 .. N) \X T, <2>2
  <2> QED
    BY <2>1, <2>2
<1>6. f \in [(1 .. N) \X T -> T]
  BY ONLY <1>4, <1>5
<1>7. PICK g \in [0 .. N -> T] : g[0] = x /\ \A k \in 1 .. N : g[k] = f[<<k, g[k - 1]>>]
  <2>1. \E g : Unrolls(g, x, f, N, T)
    BY ONLY N \in Nat, <1>3, <1>6, Recursion, ZenonT(30)
  <2> QED
    BY ONLY <2>1 DEF Unrolls
<1>8. ASSUME NEW k \in 0 .. N
      PROVE  g[k] = IF k = 0 THEN hops
                    ELSE IF k \in is THEN Learned(s, l, h, g[k - 1], k) ELSE g[k - 1]
  <2>1. CASE k = 0
    BY <1>3, <1>7, <2>1
  <2>2. CASE k # 0
    <3>1. PICK kv : kv = <<k, g[k - 1]>>
      OBVIOUS
    <3>2. k \in 1 .. N /\ k - 1 \in 0 .. N
      BY ONLY k \in 0 .. N, N \in Nat, <2>2
    <3>3. kv \in (1 .. N) \X T /\ kv[1] = k /\ kv[2] = g[k - 1]
      BY ONLY <1>7, <3>1, <3>2
    <3>4. g[k] = f[kv]
      BY ONLY <1>7, <3>1, <3>2
    <3>5. f[kv] = IF kv[1] \in is THEN Learned(s, l, h, kv[2], kv[1]) ELSE kv[2]
      BY ONLY <1>4, <3>3
    <3> QED
      BY ONLY <2>2, <3>3, <3>4, <3>5
  <2> QED
    BY <2>1, <2>2
<1>9. g = [k \in 0 .. N |-> g[k]]
  BY <1>7
<1>10. LearnsUpTo(s, is, l, h, g)
  <2>1. g = [k \in 0 .. N |-> IF k = 0 THEN hops
                              ELSE IF k \in is THEN Learned(s, l, h, g[k - 1], k) ELSE g[k - 1]]
    BY ONLY <1>8, <1>9
  <2> QED
    BY <1>1, <2>1, Zenon DEF LearnsUpTo, Learned
<1> QED
  BY <1>10

\* The other end of a cable to a switch is a port of a switch of the subnet.
LEMMA FarPort ==
  ASSUME DesignLids, stage # "lids", NEW s \in MemberSwitches, NEW i \in ToSwitches(s)
  PROVE  \E t \in MemberSwitches : \E j \in 1 .. NumPorts[t] :
           Remote(<<s, i>>) = <<t, j>> /\ Remote(<<t, j>>) = <<s, i>> /\ j \in ToSwitches(t)
<1>1. PICK p : p = <<s, i>>
  OBVIOUS
<1>2. p \in DOMAIN remote /\ Remote(p) = remote[p] /\ remote[p][1] \in MemberSwitches /\ s \in Switches
  BY <1>1, NeighbourFacts
<1>3. remote \in Wirings
  BY DEF DesignLids
<1>4. PICK q : q = remote[p]
  OBVIOUS
<1>5. q \in DOMAIN remote /\ remote[q] = p /\ Remote(q) = remote[q] /\ q \in Ports
  BY <1>2, <1>3, <1>4, CableFacts
<1>6. q = <<q[1], q[2]>> /\ q[2] \in 1 .. NumPorts[q[1]]
  BY <1>5, PortFacts
<1>7. PICK t, j : t = q[1] /\ j = q[2]
  OBVIOUS
<1>8. q = <<t, j>> /\ j \in 1 .. NumPorts[t] /\ t \in MemberSwitches
  BY <1>2, <1>4, <1>6, <1>7
<1>9. Remote(<<s, i>>) = <<t, j>> /\ Remote(<<t, j>>) = <<s, i>>
  BY <1>1, <1>2, <1>4, <1>5, <1>8
<1>10. j \in ToSwitches(t)
  BY <1>2, <1>8, <1>9 DEF ToSwitches
<1> QED
  BY <1>8, <1>9, <1>10

\* One turn of the loop.
LEMMA LearntOne ==
  ASSUME DesignLids, stage # "lids", NEW s \in MemberSwitches, NEW l \in HopLids,
         NEW h \in 0 .. Unassigned, NEW is, is \subseteq ToSwitches(s),
         NEW k \in Nat, NEW m \in Nat, m = k + 1, NEW G, Learnt(G, s, is, l, h, k),
         NEW H, H = IF m \in is THEN Learned(s, l, h, G, m) ELSE G
  PROVE  Learnt(H, s, is, l, h, m)
<1>1. /\ TablesTyped(G) /\ OthersKept(G, hops, l)
      /\ \A t \in Switches : \A j \in 1 .. NumPorts[t] :
           G[t][l][j] = hops[t][l][j] \/ (G[t][l][j] = h /\ \E i \in is : Remote(<<s, i>>) = <<t, j>>)
      /\ \A t \in Switches :
           G[t][l][0] = hops[t][l][0] \/ (G[t][l][0] = h /\ h < hops[t][l][0])
      /\ \A i \in is : i <= k => G[Remote(<<s, i>>)[1]][l][0] <= h
  BY Zenon DEF Learnt
<1>2. \A i \in is : i \in Nat /\ (i <= m => i <= k \/ i = m)
  <2>1. \A i \in is : i \in Nat
    <3>1. \A i \in ToSwitches(s) : i \in 1 .. NumPorts[s]
      BY DEF ToSwitches
    <3>2. NumPorts[s] \in Nat
      BY SubnetAssumption DEF MemberSwitches
    <3> QED
      BY <3>1, <3>2
  <2> QED
    BY <2>1
<1>3. CASE m \notin is
  <2>1. H = G /\ \A i \in is : i <= m => i <= k
    BY <1>2, <1>3
  <2> QED
    BY <1>1, <2>1, Zenon DEF Learnt
<1>4. CASE m \in is
  <2>1. m \in ToSwitches(s)
    BY <1>4
  <2>2. PICK t \in MemberSwitches : \E e \in 1 .. NumPorts[t] : Remote(<<s, m>>) = <<t, e>>
    BY <2>1, FarPort
  <2>14. PICK j \in 1 .. NumPorts[t] : Remote(<<s, m>>) = <<t, j>>
    BY <2>2
  <2>3. H = Learned(s, l, h, G, m)
    BY <1>4
  <2>4. /\ t \in MemberSwitches /\ t \in Switches /\ j \in 1 .. NumPorts[t]
        /\ TablesTyped(H) /\ OthersKept(H, G, l)
        /\ \A u \in Switches : u # t => H[u] = G[u]
        /\ H[t][l][j] = h /\ H[t][l][0] = IF G[t][l][0] > h THEN h ELSE G[t][l][0]
        /\ \A i \in 1 .. NumPorts[t] : i # j => H[t][l][i] = G[t][l][i]
    BY <1>1, <2>1, <2>3, <2>14, LearnOne
  <2>5. PICK x, y : x = G[t][l][0] /\ y = H[t][l][0]
    OBVIOUS
  <2>6. x \in Nat /\ h \in Nat /\ y = IF x > h THEN h ELSE x
    <3>1. NumPorts[t] \in Nat
      BY <2>4, SubnetAssumption
    <3>2. 0 \in 0 .. NumPorts[t]
      BY <3>1
    <3>3. x \in Nat
      BY <1>1, <2>4, <2>5, <3>2, EntryFacts
    <3> QED
      BY <2>4, <2>5, <3>3
  <2>7. y <= h
    BY <2>6
  <2>8. OthersKept(H, hops, l)
    BY <1>1, <2>4 DEF OthersKept
  <2>9. ASSUME NEW u \in Switches, NEW i \in 1 .. NumPorts[u]
        PROVE  H[u][l][i] = hops[u][l][i] \/ (H[u][l][i] = h /\ \E e \in is : Remote(<<s, e>>) = <<u, i>>)
    <3>1. CASE u = t /\ i = j
      BY <1>4, <2>4, <2>14, <3>1
    <3>2. CASE ~(u = t /\ i = j)
      <4>1. H[u][l][i] = G[u][l][i]
        BY <2>4, <3>2
      <4> QED
        BY <1>1, <4>1
    <3> QED
      BY <3>1, <3>2
  <2>10. ASSUME NEW u \in Switches
         PROVE  H[u][l][0] = hops[u][l][0] \/ (H[u][l][0] = h /\ h < hops[u][l][0])
    <3>1. CASE u = t
      <4>1. x = hops[t][l][0] \/ (x = h /\ h < hops[t][l][0])
        BY <1>1, <2>4, <2>5
      <4>2. y = x \/ (y = h /\ h < x)
        BY <2>6
      <4>3. y = h /\ x = h => y = x
        OBVIOUS
      <4> QED
        BY <2>5, <3>1, <4>1, <4>2, <4>3
    <3>2. CASE u # t
      BY <1>1, <2>4, <3>2
    <3> QED
      BY <3>1, <3>2
  <2>11. ASSUME NEW i \in is, i <= m
         PROVE  H[Remote(<<s, i>>)[1]][l][0] <= h
    <3>1. PICK u : u = Remote(<<s, i>>)[1]
      OBVIOUS
    <3>2. u \in Switches
      BY <3>1 DEF ToSwitches
    <3>3. CASE u = t
      BY <2>5, <2>7, <3>1, <3>3
    <3>4. CASE u # t
      <4>1. i <= k
        <5>1. i # m
          BY <2>14, <3>1, <3>4
        <5> QED
          BY <1>2, <2>11, <5>1
      <4> QED
        BY <1>1, <2>4, <3>1, <3>2, <3>4, <4>1
    <3> QED
      BY <3>3, <3>4
  <2> QED
    BY <2>4, <2>8, <2>9, <2>10, <2>11, Zenon DEF Learnt
<1> QED
  BY <1>3, <1>4

\* What the loop over the ports makes of the tables.
LEMMA Learning ==
  ASSUME DesignLids, stage # "lids", NEW s \in MemberSwitches, NEW l \in HopLids,
         NEW h \in 0 .. Unassigned, NEW is, is \subseteq ToSwitches(s), TablesTyped(hops),
         NEW H, H = (CHOOSE b : LearnsUpTo(s, is, l, h, b))[NumPorts[s]]
  PROVE  Learnt(H, s, is, l, h, NumPorts[s])
<1>1. PICK N \in Nat : N = NumPorts[s]
  <2>1. s \in Nodes
    BY SubnetAssumption DEF MemberSwitches
  <2> QED
    BY <2>1, SubnetAssumption
<1>2. PICK a : a = CHOOSE b : LearnsUpTo(s, is, l, h, b)
  OBVIOUS
<1>3. LearnsUpTo(s, is, l, h, a)
  BY <1>2, LearnsExist, Zenon
<1>4. a = [k \in 0 .. N |->
             IF k = 0 THEN hops
             ELSE IF k \in is THEN Learned(s, l, h, a[k - 1], k) ELSE a[k - 1]]
  BY <1>1, <1>3, Zenon DEF LearnsUpTo, Learned
<1>5. a[0] = hops
  BY ONLY N \in Nat, <1>4
<1>6. ASSUME NEW k \in 0 .. N - 1, NEW m, m = k + 1
      PROVE  a[m] = IF m \in is THEN Learned(s, l, h, a[k], m) ELSE a[k]
  <2>1. m \in 0 .. N /\ m # 0 /\ m - 1 = k
    BY ONLY N \in Nat, k \in 0 .. N - 1, <1>6
  <2>2. a[m] = IF m = 0 THEN hops
               ELSE IF m \in is THEN Learned(s, l, h, a[m - 1], m) ELSE a[m - 1]
    BY ONLY <1>4, <2>1
  <2> QED
    BY ONLY <2>1, <2>2
<1> DEFINE S == {k \in 0 .. N : Learnt(a[k], s, is, l, h, k)}
<1>7. 0 \in S
  <2>1. \A i \in is : ~(i <= 0)
    <3>1. \A i \in ToSwitches(s) : i \in 1 .. N
      BY <1>1 DEF ToSwitches
    <3> QED
      BY <3>1
  <2>2. OthersKept(hops, hops, l)
    BY DEF OthersKept
  <2>3. Learnt(hops, s, is, l, h, 0)
    BY <2>1, <2>2, Zenon DEF Learnt
  <2> QED
    BY <1>5, <2>3
<1>8. ASSUME NEW k \in 0 .. N - 1, k \in S
      PROVE  k + 1 \in S
  <2>1. PICK m \in Nat : m = k + 1
    OBVIOUS
  <2>2. k \in Nat /\ m \in 0 .. N
    BY <2>1
  <2>3. PICK G, H1 : G = a[k] /\ H1 = a[m]
    OBVIOUS
  <2>4. H1 = IF m \in is THEN Learned(s, l, h, G, m) ELSE G
    BY <1>6, <2>1, <2>3
  <2>5. Learnt(G, s, is, l, h, k)
    BY <1>8, <2>3
  <2>6. Learnt(H1, s, is, l, h, m)
    BY <2>1, <2>2, <2>4, <2>5, LearntOne
  <2> QED
    BY <2>1, <2>2, <2>3, <2>6
<1> HIDE DEF S
<1>9. \A k \in 0 .. N : k \in S
  BY ONLY N \in Nat, <1>7, <1>8, BoundedInduction
<1>10. N \in S
  BY <1>9
<1> QED
  BY <1>1, <1>2, <1>10 DEF S

\* What the loop of SubnMgtUpDnBFSFromPort makes of the queue at the ports up to k.
WaitsUpTo(s, is, tail, a) ==
  a = [k \in 0 .. NumPorts[s] |->
         IF k = 0 THEN tail
         ELSE IF k \in is THEN Append(a[k - 1], Remote(<<s, k>>)[1]) ELSE a[k - 1]]

\* The queue holds what it did, and then only neighbours behind these ports.
Prolonged(q, s, is, tail) ==
  /\ q \in Seq(MemberSwitches) /\ Len(tail) <= Len(q)
  /\ \A j \in 1 .. Len(tail) : q[j] = tail[j]
  /\ \A j \in 1 .. Len(q) : j <= Len(tail) \/ \E i \in is : q[j] = Remote(<<s, i>>)[1]

\* There is such a function.
LEMMA WaitsExist ==
  ASSUME NEW s, NumPorts[s] \in Nat, NEW is, NEW P, \A i \in is : Remote(<<s, i>>)[1] \in P,
         NEW tail \in Seq(P)
  PROVE  \E a : WaitsUpTo(s, is, tail, a)
<1>1. PICK N \in Nat : N = NumPorts[s]
  OBVIOUS
<1>2. PICK T : T = Seq(P)
  OBVIOUS
<1>3. tail \in T
  BY <1>2
<1>4. PICK f : f = [kv \in (1 .. N) \X T |->
                     IF kv[1] \in is THEN Append(kv[2], Remote(<<s, kv[1]>>)[1]) ELSE kv[2]]
  OBVIOUS
<1>5. ASSUME NEW kv \in (1 .. N) \X T
      PROVE  (IF kv[1] \in is THEN Append(kv[2], Remote(<<s, kv[1]>>)[1]) ELSE kv[2]) \in T
  <2>1. kv[2] \in Seq(P)
    BY <1>2
  <2> QED
    BY <1>2, <2>1
<1>6. f \in [(1 .. N) \X T -> T]
  BY ONLY <1>4, <1>5
<1>7. PICK g \in [0 .. N -> T] : g[0] = tail /\ \A k \in 1 .. N : g[k] = f[<<k, g[k - 1]>>]
  <2>1. \E g : Unrolls(g, tail, f, N, T)
    BY ONLY N \in Nat, <1>3, <1>6, Recursion, ZenonT(30)
  <2> QED
    BY ONLY <2>1 DEF Unrolls
<1>8. ASSUME NEW k \in 0 .. N
      PROVE  g[k] = IF k = 0 THEN tail
                    ELSE IF k \in is THEN Append(g[k - 1], Remote(<<s, k>>)[1]) ELSE g[k - 1]
  <2>1. CASE k = 0
    BY <1>7, <2>1
  <2>2. CASE k # 0
    <3>1. PICK kv : kv = <<k, g[k - 1]>>
      OBVIOUS
    <3>2. k \in 1 .. N /\ k - 1 \in 0 .. N
      BY ONLY k \in 0 .. N, N \in Nat, <2>2
    <3>3. kv \in (1 .. N) \X T /\ kv[1] = k /\ kv[2] = g[k - 1]
      BY ONLY <1>7, <3>1, <3>2
    <3>4. g[k] = f[kv]
      BY ONLY <1>7, <3>1, <3>2
    <3>5. f[kv] = IF kv[1] \in is THEN Append(kv[2], Remote(<<s, kv[1]>>)[1]) ELSE kv[2]
      BY ONLY <1>4, <3>3
    <3> QED
      BY ONLY <2>2, <3>3, <3>4, <3>5
  <2> QED
    BY <2>1, <2>2
<1>9. g = [k \in 0 .. N |-> g[k]]
  BY <1>7
<1>10. WaitsUpTo(s, is, tail, g)
  BY ONLY <1>1, <1>8, <1>9 DEF WaitsUpTo
<1> QED
  BY <1>10

\* What the loop over the ports makes of the queue.
LEMMA Waiting ==
  ASSUME DesignLids, stage # "lids", NEW s \in MemberSwitches, NEW is, is \subseteq ToSwitches(s),
         NEW tail \in Seq(MemberSwitches),
         NEW q, q = (CHOOSE b : WaitsUpTo(s, is, tail, b))[NumPorts[s]]
  PROVE  Prolonged(q, s, is, tail)
<1>1. PICK N \in Nat : N = NumPorts[s]
  <2>1. s \in Nodes
    BY SubnetAssumption DEF MemberSwitches
  <2> QED
    BY <2>1, SubnetAssumption
<1>2. PICK P : P = MemberSwitches
  OBVIOUS
<1>3. \A i \in is : Remote(<<s, i>>)[1] \in P
  BY <1>2, NeighbourFacts
<1>4. PICK a : a = CHOOSE b : WaitsUpTo(s, is, tail, b)
  OBVIOUS
<1>5. WaitsUpTo(s, is, tail, a)
  <2>1. tail \in Seq(P)
    BY <1>2
  <2>2. NumPorts[s] \in Nat
    BY <1>1
  <2>3. \E b : WaitsUpTo(s, is, tail, b)
    BY ONLY <1>3, <2>1, <2>2, WaitsExist, Zenon
  <2> QED
    BY ONLY <1>4, <2>3
<1>6. /\ a[0] = tail
      /\ \A k \in 1 .. N : a[k] = IF k \in is THEN Append(a[k - 1], Remote(<<s, k>>)[1]) ELSE a[k - 1]
  <2>1. \A k \in 1 .. N : k \in 0 .. N /\ k # 0
    OBVIOUS
  <2>2. 0 \in 0 .. N
    OBVIOUS
  <2>3. \A k \in 0 .. N : a[k] = IF k = 0 THEN tail
                               ELSE IF k \in is THEN Append(a[k - 1], Remote(<<s, k>>)[1])
                                    ELSE a[k - 1]
    BY ONLY <1>1, <1>5, Zenon DEF WaitsUpTo
  <2> QED
    BY ONLY <2>1, <2>2, <2>3
<1> DEFINE S == {k \in 0 .. N : Prolonged(a[k], s, is, tail)}
<1>7. 0 \in S
  <2>1. Prolonged(tail, s, is, tail)
    BY DEF Prolonged
  <2>2. 0 \in 0 .. N
    BY ONLY N \in Nat
  <2> QED
    BY ONLY <1>6, <2>1, <2>2
<1>8. ASSUME NEW k \in 0 .. N - 1, k \in S
      PROVE  k + 1 \in S
  <2>0. PICK m : m = k + 1
    OBVIOUS
  <2>1. m \in 1 .. N /\ m - 1 = k /\ m \in 0 .. N
    BY ONLY <2>0, k \in 0 .. N - 1, N \in Nat
  <2>2. CASE m \in is
    <3>1. PICK t : t = Remote(<<s, m>>)[1]
      OBVIOUS
    <3>2. PICK x, y : x = a[k] /\ y = a[m]
      OBVIOUS
    <3>3. y = Append(x, t) /\ t \in P
      BY ONLY <1>3, <1>6, <2>1, <2>2, <3>1, <3>2
    <3>4. /\ x \in Seq(P) /\ Len(tail) <= Len(x)
          /\ \A j \in 1 .. Len(tail) : x[j] = tail[j]
          /\ \A j \in 1 .. Len(x) : j <= Len(tail) \/ \E i \in is : x[j] = Remote(<<s, i>>)[1]
      BY <1>2, <1>8, <3>2 DEF Prolonged
    <3>5. /\ y \in Seq(P) /\ Len(y) = Len(x) + 1 /\ Len(x) \in Nat /\ y[Len(x) + 1] = t
          /\ \A j \in 1 .. Len(x) : y[j] = x[j]
      BY ONLY <3>3, <3>4, AppendProperties
    <3>6. Len(tail) \in Nat
      OBVIOUS
    <3>7. Len(tail) <= Len(y) /\ \A j \in 1 .. Len(tail) : y[j] = tail[j]
      BY ONLY <3>4, <3>5, <3>6
    <3>8. ASSUME NEW j \in 1 .. Len(y)
          PROVE  j <= Len(tail) \/ \E i \in is : y[j] = Remote(<<s, i>>)[1]
      <4>1. CASE j = Len(x) + 1
        BY ONLY <2>2, <3>1, <3>5, <4>1
      <4>2. CASE j # Len(x) + 1
        <5>1. j \in 1 .. Len(x)
          BY <3>5, <4>2
        <5> QED
          BY <3>4, <3>5, <5>1
      <4> QED
        BY <4>1, <4>2
    <3>9. Prolonged(y, s, is, tail)
      BY <1>2, <3>5, <3>7, <3>8 DEF Prolonged
    <3> QED
      BY <2>0, <2>1, <3>2, <3>9
  <2>3. CASE m \notin is
    <3>1. a[m] = a[k]
      BY ONLY <1>6, <2>1, <2>3
    <3> QED
      BY ONLY <1>8, <2>0, <2>1, <3>1
  <2> QED
    BY <2>2, <2>3
<1>9. N \in S
  <2> HIDE DEF S
  <2>1. \A k \in 0 .. N : k \in S
    BY ONLY N \in Nat, <1>7, <1>8, BoundedInduction
  <2> QED
    BY <2>1
<1> QED
  BY <1>1, <1>4, <1>9

\* The least hops of the switches of the subnet are numbers.
LEMMA LabelFacts ==
  ASSUME DesignLids, stage # "lids", NEW H, TablesTyped(H), NEW l \in HopLids
  PROVE  \A t \in MemberSwitches : H[t][l][0] \in Nat /\ H[t][l][0] <= Unassigned
<1> SUFFICES ASSUME NEW t \in MemberSwitches
             PROVE  H[t][l][0] \in Nat /\ H[t][l][0] <= Unassigned
  OBVIOUS
<1>1. NumPorts[t] \in Nat
  BY SubnetAssumption DEF MemberSwitches
<1>2. 0 \in 0 .. NumPorts[t]
  BY <1>1
<1> QED
  BY <1>2, EntryFacts

\* The switch that the search visits next.
LEMMA HeadFacts ==
  ASSUME DesignLids, stage # "lids", TablesTyped(hops), NEW l \in HopLids,
         NEW queue, queue # <<>>, Spreading(hops, l, queue),
         NEW s, s = Head(queue), NEW h, h = hops[s][l][0] + 1
  PROVE  /\ s \in MemberSwitches /\ h \in Nat \ {0} /\ h \in 0 .. Unassigned
         /\ hops[s][l][0] # Unassigned
         /\ queue[1] = s /\ Len(queue) \in Nat \ {0}
         /\ Tail(queue) \in Seq(MemberSwitches) /\ Len(Tail(queue)) = Len(queue) - 1
         /\ \A k \in 1 .. Len(queue) - 1 : Tail(queue)[k] = queue[k + 1]
<1>1. /\ s \in MemberSwitches /\ queue[1] = s /\ Len(queue) \in Nat \ {0}
      /\ Tail(queue) \in Seq(MemberSwitches) /\ Len(Tail(queue)) = Len(queue) - 1
      /\ \A k \in 1 .. Len(queue) - 1 : Tail(queue)[k] = queue[k + 1]
  <2>1. queue \in Seq(MemberSwitches)
    BY DEF Spreading
  <2> QED
    BY ONLY <2>1, queue # <<>>, s = Head(queue)
<1>2. hops[s][l][0] # Unassigned
  <2>1. 1 \in 1 .. Len(queue)
    BY <1>1
  <2> QED
    BY <1>1, <2>1, Zenon DEF Spreading, InOrder
<1>3. hops[s][l][0] \in Nat /\ hops[s][l][0] <= Unassigned
  BY <1>1, LabelFacts
<1>4. h \in Nat \ {0} /\ h \in 0 .. Unassigned
  <2>1. PICK x : x = hops[s][l][0]
    OBVIOUS
  <2>2. x \in Nat /\ x <= Unassigned /\ x # Unassigned /\ h = x + 1
    BY <1>2, <1>3, <2>1
  <2> QED
    BY ONLY <2>2 DEF Unassigned
<1> QED
  BY <1>1, <1>2, <1>4

\* Labels, once set, are kept: those that are new are one more than that of the switch.
LabelKept(H, t, l, h) ==
  /\ hops[t][l][0] # Unassigned => H[t][l][0] = hops[t][l][0] /\ H[t][l][0] <= h
  /\ hops[t][l][0] = Unassigned => H[t][l][0] \in {Unassigned, h}

\* A turn of the search does that.
LEMMA LabelsKept ==
  ASSUME DesignLids, stage # "lids", TablesTyped(hops), NEW l \in HopLids,
         NEW queue, queue # <<>>, Spreading(hops, l, queue),
         NEW s, s = Head(queue), NEW h, h = hops[s][l][0] + 1,
         NEW taken, NEW N, NEW H, Learnt(H, s, taken, l, h, N), NEW t \in MemberSwitches
  PROVE  LabelKept(H, t, l, h)
<1>1. /\ s \in MemberSwitches /\ h \in Nat \ {0} /\ h \in 0 .. Unassigned
      /\ queue[1] = s /\ Len(queue) \in Nat \ {0}
  BY HeadFacts
<1> PICK x, y : x = hops[t][l][0] /\ y = H[t][l][0]
  OBVIOUS
<1>2. t \in Switches
  BY DEF MemberSwitches
<1>3. y = x \/ (y = h /\ h < x)
  BY <1>2, Zenon DEF Learnt
<1>4. x # Unassigned => x <= h
  <2>1. 1 \in 1 .. Len(queue)
    BY <1>1
  <2>2. x # Unassigned => x <= hops[queue[1]][l][0] + 1
    BY <2>1, Zenon DEF Spreading, InOrder
  <2> QED
    BY <1>1, <2>2
<1>5. x \in Nat
  BY LabelFacts
<1> QED
  BY <1>1, <1>3, <1>4, <1>5 DEF LabelKept

\* What is true of the columns stays true.
LEMMA ColumnsKept ==
  ASSUME DesignLids, stage # "lids", TablesTyped(hops), NEW l \in HopLids,
         NEW queue, queue # <<>>, Spreading(hops, l, queue),
         NEW s, s = Head(queue), NEW h, h = hops[s][l][0] + 1,
         NEW taken, taken \subseteq ToSwitches(s),
         NEW N, NEW H, Learnt(H, s, taken, l, h, N), NEW t \in MemberSwitches
  PROVE  SpreadOn(H, t, l)
<1>1. /\ s \in MemberSwitches /\ h \in Nat \ {0} /\ h \in 0 .. Unassigned
      /\ hops[s][l][0] # Unassigned
  BY HeadFacts
<1>2. ASSUME NEW u \in MemberSwitches
      PROVE  /\ hops[u][l][0] # Unassigned => H[u][l][0] = hops[u][l][0] /\ H[u][l][0] <= h
             /\ hops[u][l][0] = Unassigned => H[u][l][0] \in {Unassigned, h}
  <2>1. LabelKept(H, u, l, h)
    BY ONLY DesignLids, stage # "lids", TablesTyped(hops), l \in HopLids, queue # <<>>,
            Spreading(hops, l, queue), s = Head(queue), h = hops[s][l][0] + 1,
            Learnt(H, s, taken, l, h, N), u \in MemberSwitches, LabelsKept
  <2> QED
    BY <2>1 DEF LabelKept
<1>3. /\ Home(l) = t <=> hops[t][l][0] = 0
      /\ Home(l) # t => \A i \in 1 .. NumPorts[t] :
           hops[t][l][i] # Unassigned => HopTrue(hops, t, l, i)
  BY Zenon DEF Spreading, SpreadOn
<1>4. Home(l) = t <=> H[t][l][0] = 0
  <2>1. PICK x, y : x = hops[t][l][0] /\ y = H[t][l][0]
    OBVIOUS
  <2>2. /\ x # Unassigned => y = x
        /\ x = Unassigned => y \in {Unassigned, h}
    BY ONLY <1>2, <2>1
  <2>3. Unassigned # 0 /\ h # 0
    BY <1>1 DEF Unassigned
  <2>4. y = 0 <=> x = 0
    BY <2>2, <2>3
  <2> QED
    BY <1>3, <2>1, <2>4
<1>5. t \in Switches /\ t \in Nodes /\ NumPorts[t] \in Nat
  <2>1. t \in Switches /\ t \in Nodes
    BY SubnetAssumption DEF MemberSwitches
  <2>2. NumPorts[t] \in Nat
    BY ONLY <2>1, SubnetAssumption
  <2> QED
    BY ONLY <2>1, <2>2
<1>6. ASSUME Home(l) # t, NEW i \in 1 .. NumPorts[t], H[t][l][i] # Unassigned
      PROVE  HopTrue(H, t, l, i)
  <2>1. CASE H[t][l][i] = hops[t][l][i]
    <3>1. HopTrue(hops, t, l, i)
      BY <1>3, <1>6, <2>1
    <3>2. CASE i \in ToSwitches(t)
      <4>1. PICK u : u = Remote(<<t, i>>)[1]
        OBVIOUS
      <4>2. hops[t][l][i] = hops[u][l][0] + 1
        BY <3>1, <3>2, <4>1 DEF HopTrue
      <4>3. u \in MemberSwitches
        BY <3>2, <4>1, NeighbourFacts
      <4>4. hops[u][l][0] # Unassigned
        <5>1. i \in 0 .. NumPorts[t]
          BY <1>5
        <5>2. hops[t][l][i] <= Unassigned
          BY <5>1, EntryFacts
        <5> QED
          BY <4>2, <5>2 DEF Unassigned
      <4>5. H[u][l][0] = hops[u][l][0]
        BY <1>2, <4>3, <4>4
      <4> QED
        BY <2>1, <3>2, <4>1, <4>2, <4>5 DEF HopTrue
    <3>3. CASE i \notin ToSwitches(t)
      BY <2>1, <3>1, <3>3 DEF HopTrue
    <3> QED
      BY <3>2, <3>3
  <2>2. CASE H[t][l][i] # hops[t][l][i]
    <3>1. H[t][l][i] = h /\ \E e \in taken : Remote(<<s, e>>) = <<t, i>>
      BY <1>5, <2>2, Zenon DEF Learnt
    <3>2. PICK e \in taken : Remote(<<s, e>>) = <<t, i>>
      BY <3>1
    <3>3. e \in ToSwitches(s)
      OBVIOUS
    <3>4. PICK v \in MemberSwitches : \E j \in 1 .. NumPorts[v] :
            Remote(<<s, e>>) = <<v, j>> /\ Remote(<<v, j>>) = <<s, e>> /\ j \in ToSwitches(v)
      BY <1>1, <3>3, FarPort
    <3>5. PICK j : Remote(<<s, e>>) = <<v, j>> /\ Remote(<<v, j>>) = <<s, e>> /\ j \in ToSwitches(v)
      BY <3>4
    <3>6. v = t /\ j = i
      BY <3>2, <3>5
    <3>7. Remote(<<t, i>>)[1] = s /\ i \in ToSwitches(t)
      BY <3>5, <3>6
    <3>8. H[s][l][0] = hops[s][l][0]
      BY <1>1, <1>2
    <3> QED
      BY <3>1, <3>7, <3>8 DEF HopTrue
  <2> QED
    BY <2>1, <2>2
<1> QED
  BY <1>4, <1>6, Zenon DEF SpreadOn

\* The queue stays in the order of the hops.
LEMMA OrderKept ==
  ASSUME DesignLids, stage # "lids", TablesTyped(hops), NEW l \in HopLids,
         NEW queue, queue # <<>>, Spreading(hops, l, queue),
         NEW s, s = Head(queue), NEW h, h = hops[s][l][0] + 1,
         NEW taken, taken \subseteq ToSwitches(s), NEW shorter, shorter \subseteq taken,
         \A i \in shorter : h < hops[Remote(<<s, i>>)[1]][l][0],
         NEW H, Learnt(H, s, taken, l, h, NumPorts[s]),
         NEW q, Prolonged(q, s, shorter, Tail(queue))
  PROVE  InOrder(H, l, q)
<1>1. /\ s \in MemberSwitches /\ h \in Nat \ {0} /\ h \in 0 .. Unassigned
      /\ hops[s][l][0] # Unassigned
      /\ queue[1] = s /\ Len(queue) \in Nat \ {0} /\ Len(Tail(queue)) = Len(queue) - 1
      /\ \A k \in 1 .. Len(queue) - 1 : Tail(queue)[k] = queue[k + 1]
  BY HeadFacts
<1> PICK T \in Nat : T = Len(queue) - 1
  <2>1. Len(queue) - 1 \in Nat
    BY ONLY <1>1
  <2> QED
    BY ONLY <2>1
<1>2. ASSUME NEW u \in MemberSwitches
      PROVE  /\ hops[u][l][0] # Unassigned => H[u][l][0] = hops[u][l][0] /\ H[u][l][0] <= h
             /\ hops[u][l][0] = Unassigned => H[u][l][0] \in {Unassigned, h}
  <2> PICK N : N = NumPorts[s]
    OBVIOUS
  <2>1. LabelKept(H, u, l, h)
    BY ONLY DesignLids, stage # "lids", TablesTyped(hops), l \in HopLids, queue # <<>>,
            Spreading(hops, l, queue), s = Head(queue), h = hops[s][l][0] + 1,
            Learnt(H, s, taken, l, h, N), u \in MemberSwitches, LabelsKept
  <2> QED
    BY <2>1 DEF LabelKept
<1>3. /\ \A k \in 1 .. Len(queue) : hops[queue[k]][l][0] # Unassigned /\ queue[k] \in MemberSwitches
      /\ \A j, k \in 1 .. Len(queue) : j < k => hops[queue[j]][l][0] <= hops[queue[k]][l][0]
  <2>1. InOrder(hops, l, queue) /\ queue \in Seq(MemberSwitches)
    BY DEF Spreading
  <2>2. \A k \in 1 .. Len(queue) : queue[k] \in MemberSwitches
    BY <2>1
  <2> QED
    BY <2>1, <2>2, Zenon DEF InOrder
<1>4. /\ q \in Seq(MemberSwitches) /\ T <= Len(q)
      /\ \A j \in 1 .. T : q[j] = queue[j + 1]
      /\ \A j \in 1 .. Len(q) : j <= T \/ \E i \in shorter : q[j] = Remote(<<s, i>>)[1]
  BY <1>1 DEF Prolonged
<1>5. PICK V : V = [t \in MemberSwitches |-> H[t][l][0]]
  OBVIOUS
<1>6. \A t \in MemberSwitches : V[t] = H[t][l][0] /\ V[t] \in Nat
  <2>1. TablesTyped(H)
    BY Zenon DEF Learnt
  <2>2. \A t \in MemberSwitches : H[t][l][0] \in Nat
    BY <2>1, LabelFacts
  <2> QED
    BY <1>5, <2>2
<1>7. PICK b : b = hops[s][l][0]
  OBVIOUS
<1>8. b \in Nat /\ h = b + 1 /\ h <= Unassigned
  <2>1. b \in Nat
    BY <1>1, <1>7, LabelFacts
  <2> QED
    BY <1>1, <1>7, <2>1
<1>9. \A t \in MemberSwitches : V[t] # Unassigned => V[t] <= h
  BY <1>2, <1>6, <1>8
<1>10. ASSUME NEW k \in 1 .. T
       PROVE  /\ q[k] = queue[k + 1] /\ k + 1 \in 1 .. Len(queue)
              /\ V[q[k]] = hops[queue[k + 1]][l][0] /\ V[q[k]] # Unassigned /\ b <= V[q[k]]
  <2>1. PICK m : m = k + 1
    OBVIOUS
  <2>2. m \in 1 .. Len(queue) /\ 1 \in 1 .. Len(queue) /\ 1 < m
    BY <1>1, <2>1
  <2>3. hops[queue[m]][l][0] # Unassigned /\ queue[m] \in MemberSwitches /\ b <= hops[queue[m]][l][0]
    BY <1>1, <1>3, <1>7, <2>2
  <2>4. V[queue[m]] = hops[queue[m]][l][0]
    BY <1>2, <1>6, <2>3
  <2> QED
    BY <1>4, <2>1, <2>2, <2>3, <2>4
<1>11. ASSUME NEW k \in 1 .. Len(q), ~(k <= T)
       PROVE  V[q[k]] = h /\ h # Unassigned
  <2>1. PICK i \in shorter : q[k] = Remote(<<s, i>>)[1]
    BY <1>4, <1>11
  <2>2. PICK t : t = q[k]
    OBVIOUS
  <2>3. t \in MemberSwitches /\ t \in Switches
    BY <1>4, <2>2 DEF MemberSwitches
  <2>4. h < hops[t][l][0]
    BY <2>1, <2>2
  <2>5. hops[t][l][0] \in Nat /\ hops[t][l][0] <= Unassigned
    BY <2>3, LabelFacts
  <2>6. H[t][l][0] <= h
    <3>1. i \in taken /\ i \in ToSwitches(s)
      OBVIOUS
    <3>4. s \in Nodes
      BY <1>1, SubnetAssumption DEF MemberSwitches
    <3>2. NumPorts[s] \in Nat
      BY ONLY <3>4, PortFacts
    <3>3. i <= NumPorts[s]
      BY <3>1, <3>2 DEF ToSwitches
    <3> QED
      BY <2>1, <2>2, <3>1, <3>3, Zenon DEF Learnt
  <2>7. h # Unassigned
    BY <1>8, <2>4, <2>5 DEF Unassigned
  <2>8. H[t][l][0] = hops[t][l][0] \/ H[t][l][0] = h
    BY <2>3, Zenon DEF Learnt
  <2>9. H[t][l][0] = h
    BY <1>8, <2>4, <2>5, <2>6, <2>8
  <2> QED
    BY <1>6, <2>2, <2>3, <2>7, <2>9
<1>12. ASSUME NEW k \in 1 .. Len(q)
       PROVE  /\ q[k] \in MemberSwitches /\ V[q[k]] \in Nat /\ V[q[k]] # Unassigned
              /\ b <= V[q[k]] /\ V[q[k]] <= h
  <2>1. q[k] \in MemberSwitches
    BY <1>4
  <2>2. V[q[k]] \in Nat
    BY <1>6, <2>1
  <2>3. V[q[k]] # Unassigned /\ b <= V[q[k]]
    <3>1. CASE k <= T
      BY <1>10, <3>1
    <3>2. CASE ~(k <= T)
      BY <1>8, <1>11, <3>2
    <3> QED
      BY <3>1, <3>2
  <2> QED
    BY <1>9, <2>1, <2>2, <2>3
<1>13. ASSUME NEW j \in 1 .. Len(q), NEW k \in 1 .. Len(q), j < k
       PROVE  V[q[j]] <= V[q[k]]
  <2>1. CASE k <= T
    <3>1. j \in 1 .. T /\ k \in 1 .. T /\ j + 1 < k + 1
      BY <1>13, <2>1
    <3>2. PICK e, f : e = j + 1 /\ f = k + 1
      OBVIOUS
    <3>3. e \in 1 .. Len(queue) /\ f \in 1 .. Len(queue) /\ e < f
      BY <1>10, <3>1, <3>2
    <3>4. V[q[j]] = hops[queue[e]][l][0] /\ V[q[k]] = hops[queue[f]][l][0]
      BY <1>10, <3>1, <3>2
    <3> QED
      BY <1>3, <3>3, <3>4
  <2>2. CASE ~(k <= T)
    BY <1>11, <1>12, <2>2
  <2> QED
    BY <2>1, <2>2
<1>14. ASSUME NEW t \in MemberSwitches, NEW k \in 1 .. Len(q), V[t] # Unassigned
       PROVE  V[t] <= V[q[k]] + 1
  <2>1. V[t] \in Nat /\ V[t] <= h
    BY ONLY <1>6, <1>9, <1>14, t \in MemberSwitches
  <2>2. V[q[k]] \in Nat /\ b <= V[q[k]]
    BY <1>12
  <2> QED
    BY ONLY <1>8, <2>1, <2>2
<1>15. \A k \in 1 .. Len(q) : V[q[k]] = H[q[k]][l][0]
  BY <1>6, <1>12
<1> QED
  BY <1>6, <1>12, <1>13, <1>14, <1>15, Zenon DEF InOrder

\* One switch of the search.
LEMMA SpreadKeeps ==
  ASSUME DesignLids, stage # "lids", TablesTyped(hops), NEW l \in HopLids,
         NEW queue, queue # <<>>, Spreading(hops, l, queue),
         NEW s, s = Head(queue), NEW h, h = hops[s][l][0] + 1,
         NEW taken, taken \subseteq ToSwitches(s), NEW shorter, shorter \subseteq taken,
         \A i \in shorter : h < hops[Remote(<<s, i>>)[1]][l][0],
         NEW H, H = (CHOOSE b : LearnsUpTo(s, taken, l, h, b))[NumPorts[s]],
         NEW q, q = (CHOOSE b : WaitsUpTo(s, shorter, Tail(queue), b))[NumPorts[s]]
  PROVE  TablesTyped(H) /\ OthersKept(H, hops, l) /\ Spreading(H, l, q)
<1>1. s \in MemberSwitches /\ h \in 0 .. Unassigned /\ Tail(queue) \in Seq(MemberSwitches)
  BY HeadFacts
<1>2. Learnt(H, s, taken, l, h, NumPorts[s])
  BY <1>1, Learning
<1>3. Prolonged(q, s, shorter, Tail(queue))
  <2>1. shorter \subseteq ToSwitches(s)
    OBVIOUS
  <2>2. PICK tail : tail = Tail(queue)
    OBVIOUS
  <2>3. tail \in Seq(MemberSwitches)
    BY <1>1, <2>2
  <2>4. q = (CHOOSE b : WaitsUpTo(s, shorter, tail, b))[NumPorts[s]]
    BY <2>2
  <2>5. Prolonged(q, s, shorter, tail)
    BY ONLY DesignLids, stage # "lids", <1>1, <2>1, <2>3, <2>4, Waiting, Zenon
  <2> QED
    BY <2>2, <2>5
<1>4. \A t \in MemberSwitches : SpreadOn(H, t, l)
  BY <1>2, ColumnsKept
<1>5. InOrder(H, l, q)
  BY <1>2, <1>3, OrderKept
<1>6. q \in Seq(MemberSwitches)
  BY <1>3 DEF Prolonged
<1> QED
  BY <1>2, <1>4, <1>5, <1>6, Zenon DEF Learnt, Spreading

\* What was found is what the routes need.
LEMMA SpreadLeads ==
  ASSUME NEW H, NEW l, NEW s, SpreadOn(H, s, l)
  PROVE  LeadsOn(H, s, l)
BY Zenon DEF SpreadOn, LeadsOn

\* All switches know ways to all LIDs, or have no hops to it.
AllLead(H) == \A s \in MemberSwitches, l \in HopLids : LeadsOn(H, s, l)

\* Ways to the LIDs below l are known, none to those above, and some to l once a switch
\* was visited.
UpDnAt(H, l, visited, queue) ==
  /\ TablesTyped(H)
  /\ l \in Nat \ {0} /\ (l - 1) % LidStep = 0
  /\ LeadsBelow(H, l)
  /\ \A k \in HopLids : k > l \/ (k = l /\ visited = {}) => NoHopsYet(H, k)
  /\ IF visited = {} THEN queue = <<>> ELSE l \in HopLids /\ Spreading(H, l, queue)

UpDnInv ==
  stage = "updn" /\ Switches # {} =>
    WorkRecord /\ UpDnAt(hops, work.lid, work.visited, work.queue)

\* This stays so when nothing changes.
LEMMA UpDnFrozen ==
  ASSUME UNCHANGED <<remote, opts, baseLid, portByLid, maxLid>>,
         NEW H, H = hops', NEW l, NEW v, NEW q, UpDnAt(H, l, v, q),
         WorkRecord', work'.lid = l, work'.visited = v, work'.queue = q
  PROVE  UpDnInv'
<1>1. /\ TablesTyped(H) /\ l \in Nat \ {0} /\ (l - 1) % LidStep = 0 /\ LeadsBelow(H, l)
      /\ \A k \in HopLids : k > l \/ (k = l /\ v = {}) => NoHopsYet(H, k)
      /\ IF v = {} THEN q = <<>> ELSE l \in HopLids /\ Spreading(H, l, q)
  BY Zenon DEF UpDnAt
<1>2. TablesTyped(hops)' /\ LeadsBelow(hops, l)'
  BY <1>1, TablesFrozen, LeadsFrozen
<1>3. MemberSwitches' = MemberSwitches /\ HopLids' = HopLids /\ LidStep' = LidStep
  BY DEF MemberSwitches, Member, HopLids, LidStep
<1>4. \A k \in HopLids' : k > l \/ (k = l /\ v = {}) => NoHopsYet(hops, k)'
  BY <1>1, <1>3, Zenon DEF NoHopsYet
<1>5. ASSUME NEW s, SpreadOn(H, s, l)
      PROVE  SpreadOn(hops, s, l)'
  <2>1. SpreadOn(H, s, l)' = SpreadOn(H, s, l)
    BY SMT DEF SpreadOn, HopTrue, ToSwitches, Remote, AtCa, Home
  <2>2. SpreadOn(H, s, l)'
    BY <1>5, <2>1
  <2> QED
    BY <2>2, Zenon DEF SpreadOn, HopTrue
<1>6. Spreading(H, l, q) => Spreading(hops, l, q)'
  <2>1. InOrder(H, l, q) => InOrder(hops, l, q)'
    BY <1>3, Zenon DEF InOrder
  <2> QED
    BY <1>3, <1>5, <2>1, Zenon DEF Spreading
<1>7. IF v = {} THEN q = <<>> ELSE l \in HopLids' /\ Spreading(hops, l, q)'
  BY <1>1, <1>3, <1>6
<1>8. UpDnAt(hops, l, v, q)'
  BY <1>1, <1>2, <1>3, <1>4, <1>7, Zenon DEF UpDnAt
<1> QED
  BY <1>8, Zenon DEF UpDnInv

\* What is known of other LIDs is kept.
LEMMA OthersLead ==
  ASSUME DesignLids, stage # "lids", NEW H, NEW G, NEW l, OthersKept(H, G, l),
         NEW k \in HopLids, k # l
  PROVE  /\ \A s \in MemberSwitches : LeadsOn(G, s, k) => LeadsOn(H, s, k)
         /\ NoHopsYet(G, k) => NoHopsYet(H, k)
<1>1. k \in 0 .. maxLid
  BY HomeFacts
<1>2. \A s \in Switches : H[s][k] = G[s][k]
  BY <1>1 DEF OthersKept
<1>3. \A s \in MemberSwitches : s \in Switches
  BY DEF MemberSwitches
<1>4. ASSUME NEW s \in MemberSwitches, LeadsOn(G, s, k)
      PROVE  LeadsOn(H, s, k)
  <2>1. ASSUME NEW i \in 1 .. NumPorts[s], HopTrue(G, s, k, i)
        PROVE  HopTrue(H, s, k, i)
    <3>1. CASE i \in ToSwitches(s)
      <4>1. Remote(<<s, i>>)[1] \in Switches
        BY <3>1 DEF ToSwitches
      <4> QED
        BY <1>2, <1>3, <2>1, <3>1, <4>1, Zenon DEF HopTrue
    <3>2. CASE i \notin ToSwitches(s)
      BY <1>2, <1>3, <2>1, <3>2, Zenon DEF HopTrue
    <3> QED
      BY <3>1, <3>2
  <2>2. H[s][k] = G[s][k]
    BY <1>2, <1>3
  <2> QED
    BY <1>4, <2>1, <2>2, Zenon DEF LeadsOn
<1>5. NoHopsYet(G, k) => NoHopsYet(H, k)
  BY <1>2, <1>3, Zenon DEF NoHopsYet
<1> QED
  BY <1>4, <1>5

\* A search for one LID keeps what is known of the others.
LEMMA SearchKeeps ==
  ASSUME DesignLids, stage # "lids", NEW H, TablesTyped(H), NEW G, NEW l, NEW v, NEW q,
         UpDnAt(G, l, v, q), OthersKept(H, G, l), l \in HopLids,
         NEW w, w # {}, NEW queue, Spreading(H, l, queue)
  PROVE  UpDnAt(H, l, w, queue)
<1>1. /\ l \in Nat \ {0} /\ (l - 1) % LidStep = 0 /\ LeadsBelow(G, l)
      /\ \A k \in HopLids : k > l \/ (k = l /\ v = {}) => NoHopsYet(G, k)
  BY Zenon DEF UpDnAt
<1>2. \A k \in HopLids : k \in Nat
  BY HomeFacts
<1>3. LeadsBelow(H, l)
  <2> SUFFICES ASSUME NEW s \in MemberSwitches, NEW k \in HopLids, k < l
               PROVE  LeadsOn(H, s, k)
    BY Zenon DEF LeadsBelow
  <2>1. k # l
    BY <1>1, <1>2
  <2>2. LeadsOn(G, s, k)
    BY <1>1, Zenon DEF LeadsBelow
  <2> QED
    BY <2>1, <2>2, OthersLead
<1>4. ASSUME NEW k \in HopLids, k > l
      PROVE  NoHopsYet(H, k)
  <2>1. k # l
    BY <1>1, <1>2, <1>4
  <2> QED
    BY <1>1, <1>4, <2>1, OthersLead
<1> QED
  BY <1>1, <1>3, <1>4, Zenon DEF UpDnAt

\* The search for the next LID begins.
LEMMA StartKeeps ==
  ASSUME DesignLids, UpDnInv, StartUpDn, Switches # {}
  PROVE  UpDnInv'
<1>0. stage = "updn" /\ UNCHANGED <<remote, opts, baseLid, portByLid, maxLid>>
  <2>1. StartUpDn => stage = "updn" /\ UNCHANGED <<GivenVars, LidVars>>
    BY ZenonT(60) DEF StartUpDn
  <2> QED
    BY <2>1 DEF GivenVars, LidVars
<1> SUFFICES ASSUME stage' = "updn"
             PROVE  UpDnInv'
  BY DEF UpDnInv
<1> PICK l, H, q : l = work.lid /\ H = hops' /\ q = work.queue
  OBVIOUS
<1> PICK f, h : f = FirstPort(l) /\ h = FirstHops(l)
  OBVIOUS
<1>1. WorkRecord /\ UpDnAt(hops, l, {}, q) /\ l <= maxLid /\ work.visited = {}
  <2>1. StartUpDn => work.lid <= maxLid /\ work.visited = {}
    BY ZenonT(60) DEF StartUpDn
  <2>2. work.visited = {}
    BY <2>1
  <2>3. WorkRecord /\ UpDnAt(hops, l, work.visited, q)
    BY <1>0 DEF UpDnInv
  <2> QED
    BY <2>1, <2>2, <2>3
<1>2. /\ f[1] \in Switches
      /\ Started(H, f, l, h)
      /\ \E d : work' = [work EXCEPT !.queue = <<f[1]>>, !.visited = {f[1]}, !.down = d]
  <2>0. "failed" # "updn"
    OBVIOUS
  <2>1. StartUpDn /\ stage' # "failed" =>
          LET first == FirstPort(work.lid)
          IN /\ first[1] \in Switches
             /\ Started(hops', first, work.lid, FirstHops(work.lid))
             /\ \E d : work' = [work EXCEPT !.queue = <<first[1]>>, !.visited = {first[1]}, !.down = d]
    BY ZenonT(60) DEF StartUpDn, FirstPort, FirstHops, Started
  <2> QED
    BY <2>0, <2>1, Zenon
<1>3. l \in HopLids /\ TablesTyped(hops) /\ NoHopsYet(hops, l)
  <2>1. /\ l \in Nat \ {0} /\ (l - 1) % LidStep = 0 /\ TablesTyped(hops)
        /\ \A k \in HopLids : k > l \/ (k = l /\ {} = {}) => NoHopsYet(hops, k)
    BY <1>1, Zenon DEF UpDnAt
  <2>2. l \in 1 .. maxLid
    <3>1. maxLid \in Nat
      BY <1>0 DEF DesignLids, Visited
    <3> QED
      BY <1>1, <2>1, <3>1
  <2>3. l \in HopLids
    BY <2>1, <2>2 DEF HopLids
  <2> QED
    BY <2>1, <2>3
<1>4. stage # "lids"
  BY <1>0
<1> PICK queue, v : queue = <<f[1]>> /\ v = {f[1]}
  OBVIOUS
<1>5. TablesTyped(H) /\ Spreading(H, l, queue) /\ OthersKept(H, hops, l)
  <2>2. TablesTyped(H) /\ Spreading(H, l, <<f[1]>>) /\ OthersKept(H, hops, l)
    BY ONLY DesignLids, <1>2, <1>3, <1>4, f = FirstPort(l), h = FirstHops(l), SpreadStarts
  <2> QED
    BY <2>2
<1>6. UpDnAt(H, l, v, queue)
  <2>1. v # {}
    OBVIOUS
  <2> QED
    BY <1>1, <1>3, <1>4, <1>5, <2>1, SearchKeeps
<1>7. WorkRecord' /\ work'.queue = queue /\ work'.visited = v /\ work'.lid = l
  <2>1. PICK d : work' = [work EXCEPT !.queue = queue, !.visited = v, !.down = d]
    BY <1>2
  <2> QED
    BY <1>1, <2>1, QueueSet
<1> QED
  BY <1>0, <1>6, <1>7, UpDnFrozen

\* The ports over which the search goes on.
Taken(s, l, h) ==
  {i \in ToSwitches(s) :
     LET q == Remote(<<s, i>>) IN ~Forbidden(s, q[1]) /\ h <= hops[q[1]][l][q[2]]}

Shortens(s, l, h, i) ==
  /\ h < hops[Remote(<<s, i>>)[1]][l][0]
  /\ \A j \in Taken(s, l, h) : j < i => Remote(<<s, j>>)[1] # Remote(<<s, i>>)[1]
Shorter(s, l, h) == {i \in Taken(s, l, h) : Shortens(s, l, h, i)}

\* They are ports that lead to switches.
LEMMA TakenFacts ==
  ASSUME NEW s, NEW l, NEW h
  PROVE  Taken(s, l, h) \subseteq ToSwitches(s) /\ Shorter(s, l, h) \subseteq Taken(s, l, h)
BY Zenon DEF Taken, Shorter

\* What the search makes of the tables and of the queue.
Spread(H, q, s, l, h, tail) ==
  /\ H = (CHOOSE b : LearnsUpTo(s, Taken(s, l, h), l, h, b))[NumPorts[s]]
  /\ q = (CHOOSE b : WaitsUpTo(s, Shorter(s, l, h), tail, b))[NumPorts[s]]

\* SpreadUpDn does it.
LEMMA SpreadTaken ==
  ASSUME SpreadUpDn
  PROVE  \E q, v, d :
           /\ Spread(hops', q, Head(work.queue), work.lid,
                     hops[Head(work.queue)][work.lid][0] + 1, Tail(work.queue))
           /\ work' = [work EXCEPT !.queue = q, !.visited = @ \cup v, !.down = d]
BY ZenonT(60) DEF SpreadUpDn, OverPorts, Spread, LearnsUpTo, WaitsUpTo, Taken, Shorter, Shortens

\* The search visits the next switch.
LEMMA VisitKeeps ==
  ASSUME DesignLids, UpDnInv, SpreadUpDn, Switches # {}
  PROVE  UpDnInv'
<1>0. stage = "updn" /\ UNCHANGED <<remote, opts, baseLid, portByLid, maxLid>> /\ work.queue # <<>>
  <2>1. SpreadUpDn => stage = "updn" /\ UNCHANGED <<GivenVars, LidVars>> /\ work.queue # <<>>
    BY ZenonT(60) DEF SpreadUpDn
  <2> QED
    BY <2>1 DEF GivenVars, LidVars
<1> PICK l, H, queue, v : l = work.lid /\ H = hops' /\ queue = work.queue /\ v = work.visited
  OBVIOUS
<1>1. WorkRecord /\ UpDnAt(hops, l, v, queue) /\ queue # <<>>
  BY <1>0 DEF UpDnInv
<1>2. v # {} /\ l \in HopLids /\ Spreading(hops, l, queue) /\ TablesTyped(hops)
  <2>1. TablesTyped(hops) /\ IF v = {} THEN queue = <<>> ELSE l \in HopLids /\ Spreading(hops, l, queue)
    BY <1>1, Zenon DEF UpDnAt
  <2> QED
    BY <1>1, <2>1
<1> PICK s, tail : s = Head(queue) /\ tail = Tail(queue)
  OBVIOUS
<1> PICK h : h = hops[s][l][0] + 1
  OBVIOUS
<1>3. PICK q, u, d : /\ Spread(H, q, s, l, h, tail)
                     /\ work' = [work EXCEPT !.queue = q, !.visited = @ \cup u, !.down = d]
  BY SpreadTaken
<1>4. stage # "lids"
  BY <1>0
<1>5. TablesTyped(H) /\ OthersKept(H, hops, l) /\ Spreading(H, l, q)
  <2>1. PICK taken, shorter : taken = Taken(s, l, h) /\ shorter = Shorter(s, l, h)
    OBVIOUS
  <2>2. taken \subseteq ToSwitches(s) /\ shorter \subseteq taken
    <3>1. Taken(s, l, h) \subseteq ToSwitches(s) /\ Shorter(s, l, h) \subseteq Taken(s, l, h)
      BY ONLY TakenFacts, ZenonT(60)
    <3> QED
      BY ONLY <2>1, <3>1
  <2>3. \A i \in shorter : h < hops[Remote(<<s, i>>)[1]][l][0]
    BY <2>1 DEF Shorter, Shortens
  <2>4. H = (CHOOSE b : LearnsUpTo(s, taken, l, h, b))[NumPorts[s]]
    BY <1>3, <2>1, Zenon DEF Spread
  <2>5. q = (CHOOSE b : WaitsUpTo(s, shorter, Tail(queue), b))[NumPorts[s]]
    BY <1>3, <2>1, Zenon DEF Spread
  <2> QED
    BY ONLY DesignLids, <1>1, <1>2, <1>4, s = Head(queue), h = hops[s][l][0] + 1,
            <2>2, <2>3, <2>4, <2>5, SpreadKeeps
<1>6. PICK w : w = v \cup u
  OBVIOUS
<1>7. UpDnAt(H, l, w, q)
  <2>1. w # {}
    BY <1>2, <1>6
  <2> QED
    BY <1>1, <1>2, <1>4, <1>5, <2>1, SearchKeeps
<1>8. WorkRecord' /\ work'.queue = q /\ work'.visited = w /\ work'.lid = l
  <2>1. work' = [work EXCEPT !.queue = q, !.visited = work.visited \cup u, !.down = d]
    BY <1>3, Zenon
  <2>2. work' = [work EXCEPT !.queue = q, !.visited = w, !.down = d]
    BY <1>6, <2>1
  <2> QED
    BY <1>1, <2>2, QueueSet
<1> QED
  BY <1>0, <1>7, <1>8, UpDnFrozen

\* The LID is set.
LEMMA LidSet ==
  ASSUME WorkRecord, NEW l, NEW v, work' = [work EXCEPT !.lid = l, !.visited = v]
  PROVE  WorkRecord' /\ work'.queue = work.queue /\ work'.visited = v /\ work'.lid = l
<1>1. PICK x : x = [work EXCEPT !.lid = l]
  OBVIOUS
<1>2. x = [queue |-> work.queue, visited |-> work.visited, lid |-> l, at |-> work.at,
           changed |-> work.changed, down |-> work.down, subs |-> work.subs,
           nodes |-> work.nodes, systems |-> work.systems]
  BY <1>1, SMT DEF WorkRecord
<1>3. work' = [x EXCEPT !.visited = v]
  BY <1>1, Zenon
<1>4. work' = [queue |-> work.queue, visited |-> v, lid |-> l, at |-> work.at,
               changed |-> work.changed, down |-> work.down, subs |-> work.subs,
               nodes |-> work.nodes, systems |-> work.systems]
  BY ONLY <1>2, <1>3, SMT
<1> QED
  BY ONLY <1>4, SMT DEF WorkRecord

\* What a search found is known from then on.
LEMMA NextLid ==
  ASSUME DesignLids, stage # "lids", NEW H, NEW l, NEW v, NEW q, UpDnAt(H, l, v, q), v # {},
         NEW m, m = l + LidStep
  PROVE  UpDnAt(H, m, {}, <<>>)
<1> PICK step : step = LidStep
  OBVIOUS
<1>1. step \in Nat \ {0} /\ m = l + step
  BY DEF DesignLids, LidsInv
<1>2. /\ TablesTyped(H) /\ l \in Nat \ {0} /\ (l - 1) % step = 0 /\ LeadsBelow(H, l)
      /\ \A k \in HopLids : k > l \/ (k = l /\ v = {}) => NoHopsYet(H, k)
      /\ l \in HopLids /\ Spreading(H, l, q)
  BY Zenon DEF UpDnAt
<1>3. m \in Nat \ {0} /\ (m - 1) % step = 0
  <2>1. PICK a \in Nat : a = l - 1
    <3>1. l - 1 \in Nat
      BY <1>2
    <3> QED
      BY <3>1
  <2>2. (a + step) % step = 0
    <3>1. a % step = 0
      BY <1>2, <2>1
    <3> QED
      BY <1>1, <3>1, NextMultiple
  <2>3. m - 1 = a + step
    BY <1>1, <1>2, <2>1
  <2> QED
    BY <1>1, <1>2, <2>2, <2>3
<1>4. ASSUME NEW k \in HopLids, k < m, ~(k < l)
      PROVE  k = l
  <2>1. k \in Nat \ {0} /\ (k - 1) % step = 0
    BY HomeFacts DEF HopLids
  <2>2. PICK a \in Nat, b \in Nat : a = k - 1 /\ b = l - 1
    <3>1. k - 1 \in Nat /\ l - 1 \in Nat
      BY <1>2, <2>1
    <3> QED
      BY <3>1
  <2>3. a % step = 0 /\ b % step = 0 /\ b <= a /\ a < b + step
    BY <1>1, <1>2, <1>4, <2>1, <2>2
  <2>4. a = b
    BY <1>1, <2>3, OneMultiple
  <2> QED
    BY <1>2, <2>1, <2>2, <2>4
<1>5. LeadsBelow(H, m)
  <2> SUFFICES ASSUME NEW s \in MemberSwitches, NEW k \in HopLids, k < m
               PROVE  LeadsOn(H, s, k)
    BY Zenon DEF LeadsBelow
  <2>1. CASE k < l
    BY <1>2, <2>1, Zenon DEF LeadsBelow
  <2>2. CASE ~(k < l)
    <3>1. SpreadOn(H, s, k)
      BY <1>2, <1>4, <2>2, Zenon DEF Spreading
    <3> QED
      BY <3>1, SpreadLeads
  <2> QED
    BY <2>1, <2>2
<1>6. ASSUME NEW k \in HopLids, k > m \/ k = m
      PROVE  NoHopsYet(H, k)
  <2>1. k > l
    <3>1. k \in Nat
      BY HomeFacts
    <3> QED
      BY <1>1, <1>2, <1>6, <3>1
  <2> QED
    BY <1>2, <2>1
<1> QED
  BY <1>2, <1>3, <1>5, <1>6, Zenon DEF UpDnAt

\* The search for a LID ends, or that for the last.
LEMMA EndKeeps ==
  ASSUME DesignLids, UpDnInv, EndUpDn, Switches # {}
  PROVE  /\ UpDnInv'
         /\ stage' = "route" => AllLead(hops) /\ TablesTyped(hops) /\ work' = NoWork
<1>0. /\ stage = "updn" /\ UNCHANGED <<remote, opts, baseLid, portByLid, maxLid, hops, lft>>
      /\ work.queue = <<>>
  BY SMT DEF EndUpDn, GivenVars, LidVars
<1>1. \/ work.lid > maxLid /\ work' = NoWork /\ stage' = "route"
      \/ /\ work.visited # {} /\ stage' = "updn"
         /\ work' = [work EXCEPT !.lid = work.lid + LidStep, !.visited = {}]
  BY <1>0, SMT DEF EndUpDn
<1> PICK l, H, queue, v : l = work.lid /\ H = hops' /\ queue = work.queue /\ v = work.visited
  OBVIOUS
<1>2. WorkRecord /\ UpDnAt(hops, l, v, queue) /\ queue = <<>> /\ stage # "lids" /\ H = hops
  BY <1>0 DEF UpDnInv
<1>3. CASE work.lid > maxLid /\ work' = NoWork /\ stage' = "route"
  <2>1. TablesTyped(hops) /\ LeadsBelow(hops, l) /\ l \in Nat
    BY <1>2, Zenon DEF UpDnAt
  <2>5. maxLid \in Nat /\ l > maxLid
    BY <1>2, <1>3 DEF DesignLids, Visited
  <2>2. \A k \in HopLids : k < l
    BY <2>1, <2>5 DEF HopLids
  <2>3. AllLead(hops)
    BY <2>1, <2>2, Zenon DEF LeadsBelow, AllLead
  <2>4. stage' # "updn"
    BY <1>3
  <2> QED
    BY <1>3, <2>1, <2>3, <2>4 DEF UpDnInv
<1>4. CASE work.visited # {} /\ stage' = "updn" /\ work' = [work EXCEPT !.lid = work.lid + LidStep, !.visited = {}]
  <2>1. PICK m : m = l + LidStep
    OBVIOUS
  <2>2. UpDnAt(H, m, {}, <<>>)
    BY <1>2, <1>4, <2>1, NextLid
  <2>3. work' = [work EXCEPT !.lid = m, !.visited = {}]
    BY <1>4, <2>1
  <2>4. WorkRecord' /\ work'.queue = <<>> /\ work'.visited = {} /\ work'.lid = m
    BY <1>2, <2>3, LidSet
  <2>5. UpDnInv'
    BY <1>0, <2>2, <2>4, UpDnFrozen
  <2> QED
    BY <1>4, <2>5
<1> QED
  BY <1>1, <1>3, <1>4

\* A table is reset.
LEMMA ResetFacts ==
  ASSUME NEW N \in Nat, NEW M \in Nat, NEW table, table \in HopTables(M, N),
         NEW g, g = SetHops(table, 0, 0, Unassigned)
  PROVE  g \in HopTables(M, N) /\ \A l \in 0 .. M : \A i \in 0 .. N : g[l][i] = Unassigned
<1>1. g = [k \in DOMAIN table |-> [i \in DOMAIN table[k] |-> Unassigned]]
  BY DEF SetHops
<1>2. DOMAIN table = 0 .. M /\ \A k \in 0 .. M : DOMAIN table[k] = 0 .. N
  BY DEF HopTables
<1>3. g = [k \in 0 .. M |-> [i \in 0 .. N |-> Unassigned]]
  BY ONLY <1>1, <1>2
<1>4. Unassigned \in 0 .. Unassigned
  BY DEF Unassigned
<1> QED
  BY ONLY <1>3, <1>4 DEF HopTables

\* A record of local variables.
IsWork(w) ==
  w = [queue |-> w.queue, visited |-> w.visited, lid |-> w.lid, at |-> w.at,
       changed |-> w.changed, down |-> w.down, subs |-> w.subs,
       nodes |-> w.nodes, systems |-> w.systems]

\* The local variables at first.
LEMMA WorkBegins ==
  ASSUME NEW s, NEW w, w = WorkAt(s)
  PROVE  /\ IsWork(w) /\ w.queue = <<>> /\ w.visited = {} /\ w.lid = 1 /\ w.at = s
         /\ w.subs = [i \in 1 .. NumPorts[s] |-> 0]
BY SMT DEF WorkAt, IsWork

\* The search under the up/down rule begins with tables without hops.
LEMMA ResetKeeps ==
  ASSUME DesignLids, FindRoots, TablesTyped(hops), work = NoWork, Switches # {}, stage' = "updn"
  PROVE  UpDnInv'
<1>0. /\ stage = "roots" /\ UNCHANGED <<remote, opts, baseLid, portByLid, maxLid, work>>
  BY SMT DEF FindRoots, GivenVars, LidVars
<1>1. hops' = [s \in Switches |-> IF LidOfSwitch(s) # 0 THEN SetHops(hops[s], 0, 0, Unassigned)
                                  ELSE hops[s]]
  BY ZenonT(60) DEF FindRoots
<1>10. maxLid \in Nat
  BY <1>0 DEF DesignLids, Visited
<1>2. PICK H, M : H = hops' /\ M = maxLid /\ M \in Nat
  BY <1>10
<1>3. ASSUME NEW s \in Switches
      PROVE  /\ H[s] \in HopTables(M, NumPorts[s])
             /\ s \in MemberSwitches =>
                  \A l \in 0 .. M : \A i \in 0 .. NumPorts[s] : H[s][l][i] = Unassigned
  <2>1. s \in Nodes
    BY SubnetAssumption
  <2>2. PICK N \in Nat : N = NumPorts[s]
    BY <2>1, PortFacts
  <2>3. PICK table, g : table = hops[s] /\ g = SetHops(table, 0, 0, Unassigned)
    OBVIOUS
  <2>4. table \in HopTables(M, N)
    BY <1>2, <2>2, <2>3 DEF TablesTyped, HopTables
  <2>5. g \in HopTables(M, N) /\ \A l \in 0 .. M : \A i \in 0 .. N : g[l][i] = Unassigned
    <3>1. M \in Nat
      BY <1>2
    <3>2. N \in Nat
      BY <2>2
    <3> QED
      BY ONLY <3>1, <3>2, <2>3, <2>4, ResetFacts
  <2>6. H[s] = IF LidOfSwitch(s) # 0 THEN g ELSE table
    BY <1>1, <1>2, <2>3
  <2>7. s \in MemberSwitches => LidOfSwitch(s) # 0
    <3>1. s \in MemberSwitches => Member(s)
      BY DEF MemberSwitches
    <3>2. PICK b : b = LidOfSwitch(s)
      OBVIOUS
    <3>3. Member(s) => b \in HopLids
      BY <1>0, <3>2, SwitchLid
    <3>4. b \in HopLids => b # 0
      BY DEF HopLids
    <3> QED
      BY <3>1, <3>2, <3>3, <3>4
  <2> QED
    BY <2>2, <2>4, <2>5, <2>6, <2>7
<1>4. TablesTyped(H)
  <2>1. H = [s \in Switches |-> H[s]]
    BY <1>1, <1>2
  <2> QED
    BY <1>2, <1>3, <2>1 DEF TablesTyped, HopTables
<1>5. ASSUME NEW l \in HopLids
      PROVE  NoHopsYet(H, l) /\ ~(l < 1)
  <2>1. l \in 0 .. M
    BY <1>0, <1>2, HomeFacts
  <2>2. ~(l < 1)
    BY DEF HopLids
  <2>3. MemberSwitches \subseteq Switches
    BY DEF MemberSwitches
  <2> QED
    BY <1>3, <2>1, <2>2, <2>3 DEF NoHopsYet
<1>6. PICK one : one = 1
  OBVIOUS
<1>7. one \in Nat \ {0} /\ (one - 1) % LidStep = 0
  BY <1>6 DEF DesignLids, LidsInv
<1>8. UpDnAt(H, one, {}, <<>>)
  BY <1>4, <1>5, <1>6, <1>7, Zenon DEF UpDnAt, LeadsBelow
<1>9. WorkRecord' /\ work'.lid = one /\ work'.visited = {} /\ work'.queue = <<>>
  <2>1. PICK w : w = work'
    OBVIOUS
  <2>4. PICK s : w = WorkAt(s)
    BY <1>0, <2>1 DEF NoWork
  <2>2. IsWork(w) /\ w.queue = <<>> /\ w.visited = {} /\ w.lid = 1
    BY ONLY <2>4, WorkBegins
  <2>3. WorkRecord'
    BY ONLY <2>1, <2>2, Zenon DEF WorkRecord, IsWork
  <2> QED
    BY ONLY <1>6, <2>1, <2>2, <2>3
<1> QED
  BY <1>0, <1>2, <1>8, <1>9, UpDnFrozen

\* The base LID of every LID that gets an entry is one of those that the tables of hops
\* are about, and the port with the base LID has the LID.
LEMMA BaseFacts ==
  ASSUME DesignLids, stage # "lids", NEW l, l \in 1 .. maxLid + LidStep - 1, NEW b, b = BaseOf(l)
  PROVE  b \in HopLids /\ \A p : baseLid[p] = b => HasLid(p, l)
<1> PICK step, M : step = LidStep /\ M = maxLid
  OBVIOUS
<1>1. step \in Nat \ {0} /\ M \in Nat \ {0} /\ (M - 1) % step = 0
  BY DEF DesignLids, LidsInv, Visited
<1>2. PICK a \in Nat, c \in Nat : a = l - 1 /\ c = M - 1
  <2>1. l - 1 \in Nat /\ M - 1 \in Nat
    BY <1>1
  <2> QED
    BY <2>1
<1>3. PICK d : d = (a \div step) * step
  OBVIOUS
<1>4. d \in Nat /\ d <= a /\ a < d + step /\ d % step = 0
  BY <1>1, <1>3, MultipleBelow
<1>5. b = d + 1
  BY <1>2, <1>3 DEF BaseOf
<1>6. d <= c
  <2> SUFFICES ASSUME ~(d <= c)
               PROVE  FALSE
    OBVIOUS
  <2>1. c % step = 0 /\ c <= d /\ d < c + step
    BY <1>1, <1>2, <1>4
  <2>2. d = c
    BY <1>1, <1>4, <2>1, OneMultiple
  <2> QED
    BY <2>2
<1>7. b \in 1 .. M /\ b - 1 = d /\ b <= l /\ l <= b + step - 1
  BY <1>1, <1>2, <1>4, <1>5, <1>6
<1>8. b \in HopLids
  <2>1. (b - 1) % LidStep = 0
    BY <1>4, <1>7
  <2> QED
    BY <1>7, <2>1 DEF HopLids
<1> QED
  BY <1>7, <1>8 DEF HasLid

-----------------------------------------------------------------------------
(* The tables of SubnMgtOsmRoute and SubnMgtOsmEnhancedRoute *)

\* The entry e of switch s for LID l: 0 for its own, a port with the least hops for one
\* that it knows a way to.
EntryIs(s, l, e) ==
  LET b == BaseOf(l) IN
  /\ LidOfSwitch(s) = b => e = 0
  /\ LidOfSwitch(s) # b /\ hops[s][b][0] = Unassigned => e = Unassigned
  /\ LidOfSwitch(s) # b /\ hops[s][b][0] # Unassigned =>
       e \in 1 .. NumPorts[s] /\ hops[s][b][e] = hops[s][b][0]

\* The table of switch s has the entries for the first n LIDs.
Filled(F, s, n) ==
  /\ F[s] \in Seq(Nat) /\ Len(F[s]) = n
  /\ \A l \in 1 .. n : EntryIs(s, l, F[s][l])

\* Of several ports with the least use one is the first.
LEMMA LeastFacts ==
  ASSUME NEW N \in Nat, NEW subs, subs \in [1 .. N -> Nat], NEW is, is \subseteq 1 .. N, is # {},
         subs = work.subs
  PROVE  LeastUsed(is) \in is
<1>1. PICK x \in is : \A j \in is : subs[x] <= subs[j]
  <2> DEFINE U == {subs[j] : j \in is}
  <2>1. U \in SUBSET Nat /\ U # {}
    OBVIOUS
  <2>2. PICK m \in U : \A y \in U : m <= y
    <3> HIDE DEF U
    <3> QED
      BY <2>1, LeastNumber
  <2>3. PICK x \in is : subs[x] = m
    BY <2>2
  <2>4. \A j \in is : subs[j] \in U
    OBVIOUS
  <2> HIDE DEF U
  <2> QED
    BY <2>2, <2>3, <2>4
<1>2. PICK i \in is : subs[i] = subs[x] /\ \A j \in is : subs[j] = subs[x] => i <= j
  <2> DEFINE I == {j \in is : subs[j] = subs[x]}
  <2>3. \A j \in is : j \in Nat
    BY N \in Nat
  <2>1. I \in SUBSET Nat /\ x \in I
    BY <2>3
  <2>2. PICK i \in I : \A j \in I : i <= j
    <3> HIDE DEF I
    <3> QED
      BY <2>1, LeastNumber
  <2> QED
    BY <2>2
<1>3. ASSUME NEW j \in is
      PROVE  work.subs[i] < work.subs[j] \/ (work.subs[i] = work.subs[j] /\ i <= j)
  <2>1. subs[i] \in Nat /\ subs[j] \in Nat /\ subs[i] <= subs[j]
    BY <1>1, <1>2
  <2>2. subs[i] = subs[j] => i <= j
    BY <1>2
  <2> QED
    BY <2>1, <2>2
<1> QED
  BY <1>3, Zenon DEF LeastUsed

\* Ports are preferred only to others.
LEMMA PreferredFacts ==
  ASSUME NEW s, NEW is, is # {}
  PROVE  Preferred(s, is) \subseteq is /\ Preferred(s, is) # {}
BY DEF Preferred

\* What RouteLid finds for a LID.
LEMMA EntryFound ==
  ASSUME DesignLids, stage # "lids", TablesTyped(hops), AllLead(hops), NEW s \in Switches,
         work.subs \in [1 .. NumPorts[s] -> Nat],
         NEW l, l \in 1 .. maxLid + LidStep - 1, ~NoRoute(s, BaseOf(l)),
         NEW e, e = EntryFor(s, BaseOf(l))
  PROVE  EntryIs(s, l, e) /\ e \in Nat
<1> PICK b : b = BaseOf(l)
  OBVIOUS
<1>1. e = IF LidOfSwitch(s) = b THEN 0
          ELSE IF hops[s][b][0] = Unassigned THEN Unassigned
          ELSE LeastUsed(Preferred(s, MinHopPorts(s, b)))
  BY DEF EntryFor
<1>2. CASE LidOfSwitch(s) = b
  <2>1. e = 0 /\ e \in Nat
    BY <1>1, <1>2
  <2> QED
    BY <1>2, <2>1 DEF EntryIs, Unassigned
<1>3. CASE LidOfSwitch(s) # b /\ hops[s][b][0] = Unassigned
  <2>1. e = Unassigned
    BY <1>1, <1>3
  <2> QED
    BY <1>3, <2>1 DEF EntryIs, Unassigned
<1>4. CASE LidOfSwitch(s) # b /\ hops[s][b][0] # Unassigned
  <2>1. PICK is, js : is = MinHopPorts(s, b) /\ js = Preferred(s, is)
    OBVIOUS
  <2>2. is # {}
    BY <1>4, <2>1 DEF NoRoute
  <2>3. PICK N \in Nat : N = NumPorts[s]
    BY PortFacts, SubnetAssumption
  <2>4. js \subseteq is /\ js # {}
    BY <2>1, <2>2, PreferredFacts
  <2>5. is \subseteq 1 .. N /\ \A i \in is : hops[s][b][i] = hops[s][b][0]
    BY <2>1, <2>3 DEF MinHopPorts
  <2>6. PICK subs : subs = work.subs
    OBVIOUS
  <2>7. e = LeastUsed(js)
    BY <1>1, <1>4, <2>1
  <2>8. e \in js
    <3>1. js \subseteq 1 .. N /\ subs \in [1 .. N -> Nat]
      BY <2>3, <2>4, <2>5, <2>6
    <3> QED
      BY ONLY N \in Nat, <2>4, <2>6, <2>7, <3>1, LeastFacts
  <2>9. e \in 1 .. N /\ hops[s][b][e] = hops[s][b][0]
    BY <2>4, <2>5, <2>8
  <2> QED
    BY <1>4, <2>3, <2>9 DEF EntryIs
<1> QED
  BY <1>2, <1>3, <1>4

\* The use of a port is counted.
LEMMA NoteFacts ==
  ASSUME WorkRecord, NEW s, NEW b, NEW e, NEW N \in Nat, work.subs \in [1 .. N -> Nat],
         NEW w, w = Note(s, b, e)
  PROVE  IsWork(w) /\ w.lid = work.lid /\ w.at = work.at /\ w.subs \in [1 .. N -> Nat]
<1>0. PICK caPort, out, n, y :
        /\ caPort = (IF IsCaLid(b) THEN {e} \cap (1 .. NumPorts[s]) ELSE {})
        /\ out = (e \notin {0, Unassigned})
        /\ n = (IF out THEN work.nodes \cup {Remote(<<s, e>>)[1]} ELSE work.nodes)
        /\ y = (IF out /\ opts.enhanced THEN work.systems \cup {SystemOf[s]} ELSE work.systems)
  OBVIOUS
<1>1. w = [work EXCEPT
        !.subs = [i \in DOMAIN work.subs |-> IF i \in caPort THEN work.subs[i] + 1 ELSE work.subs[i]],
        !.nodes = n, !.systems = y]
  <2>1. w = [work EXCEPT
         !.subs = [i \in DOMAIN @ |-> IF i \in caPort THEN @[i] + 1 ELSE @[i]],
         !.nodes = IF out THEN @ \cup {Remote(<<s, e>>)[1]} ELSE @,
         !.systems = IF out /\ opts.enhanced THEN @ \cup {SystemOf[s]} ELSE @]
    BY <1>0, Zenon DEF Note
  <2> QED
    BY <1>0, <2>1, Zenon
<1>2. PICK subs : subs = [i \in DOMAIN work.subs |->
                            IF i \in caPort THEN work.subs[i] + 1 ELSE work.subs[i]]
  OBVIOUS
<1>3. subs \in [1 .. N -> Nat]
  <2>1. PICK f : f = work.subs
    OBVIOUS
  <2>2. f \in [1 .. N -> Nat] /\ subs = [i \in DOMAIN f |-> IF i \in caPort THEN f[i] + 1 ELSE f[i]]
    BY <1>2, <2>1
  <2> QED
    BY ONLY <2>2
<1>4. PICK x : x = [work EXCEPT !.subs = subs]
  OBVIOUS
<1>5. x = [queue |-> work.queue, visited |-> work.visited, lid |-> work.lid, at |-> work.at,
           changed |-> work.changed, down |-> work.down, subs |-> subs,
           nodes |-> work.nodes, systems |-> work.systems]
  BY <1>4, SMT DEF WorkRecord
<1>6. PICK z : z = [x EXCEPT !.nodes = n]
  OBVIOUS
<1>7. z = [queue |-> work.queue, visited |-> work.visited, lid |-> work.lid, at |-> work.at,
           changed |-> work.changed, down |-> work.down, subs |-> subs,
           nodes |-> n, systems |-> work.systems]
  BY ONLY <1>5, <1>6, SMT
<1>8. w = [z EXCEPT !.systems = y]
  BY <1>1, <1>2, <1>4, <1>6, Zenon
<1>9. w = [queue |-> work.queue, visited |-> work.visited, lid |-> work.lid, at |-> work.at,
           changed |-> work.changed, down |-> work.down, subs |-> subs,
           nodes |-> n, systems |-> y]
  BY ONLY <1>7, <1>8, SMT
<1>10. IsWork(w) /\ w.lid = work.lid /\ w.at = work.at /\ w.subs = subs
  BY ONLY <1>9, SMT DEF IsWork
<1> QED
  BY <1>3, <1>10

\* The last LID that gets an entry.
TopLid == maxLid + LidStep - 1

\* The next turn goes on with the next LID, or at the next switch with the first.
LEMMA AfterLidFacts ==
  ASSUME NEW w, IsWork(w), NEW x, x = AfterLid(w)
  PROVE  IF w.lid < TopLid THEN IsWork(x) /\ x.lid = w.lid + 1 /\ x.at = w.at /\ x.subs = w.subs
         ELSE x = IF NextSwitches(w.at) = {} THEN NoWork ELSE WorkAt(Min(NextSwitches(w.at)))
<1>1. CASE w.lid < TopLid
  <2>1. \/ x = [w EXCEPT !.lid = w.lid + 1]
        \/ x = [w EXCEPT !.lid = w.lid + 1, !.nodes = {}, !.systems = {}]
    <3> PICK r : r = w.lid % LidStep
      OBVIOUS
    <3>1. x = CASE w.lid < TopLid /\ r # 0 -> [w EXCEPT !.lid = w.lid + 1]
                [] w.lid < TopLid /\ r = 0 -> [w EXCEPT !.lid = w.lid + 1, !.nodes = {}, !.systems = {}]
                [] OTHER -> IF NextSwitches(w.at) = {} THEN NoWork
                            ELSE WorkAt(Min(NextSwitches(w.at)))
      BY Zenon DEF AfterLid, TopLid
    <3> QED
      BY <1>1, <3>1, Zenon
  <2>2. ASSUME x = [w EXCEPT !.lid = w.lid + 1]
        PROVE  IsWork(x) /\ x.lid = w.lid + 1 /\ x.at = w.at /\ x.subs = w.subs
    BY <2>2, SMT DEF IsWork
  <2>3. ASSUME x = [w EXCEPT !.lid = w.lid + 1, !.nodes = {}, !.systems = {}]
        PROVE  IsWork(x) /\ x.lid = w.lid + 1 /\ x.at = w.at /\ x.subs = w.subs
    <3> PICK none : none = {}
      OBVIOUS
    <3>1. PICK y : y = [w EXCEPT !.lid = w.lid + 1]
      OBVIOUS
    <3>7. PICK z : z = [y EXCEPT !.nodes = none]
      OBVIOUS
    <3> PICK l : l = w.lid + 1
      OBVIOUS
    <3>2. y = [queue |-> w.queue, visited |-> w.visited, lid |-> l, at |-> w.at,
               changed |-> w.changed, down |-> w.down, subs |-> w.subs,
               nodes |-> w.nodes, systems |-> w.systems]
      BY <3>1, SMT DEF IsWork
    <3>3. z = [queue |-> w.queue, visited |-> w.visited, lid |-> l, at |-> w.at,
               changed |-> w.changed, down |-> w.down, subs |-> w.subs,
               nodes |-> none, systems |-> w.systems]
      BY ONLY <3>2, <3>7, SMT
    <3>4. x = [z EXCEPT !.systems = none]
      <4>1. x = [w EXCEPT !.lid = w.lid + 1, !.nodes = none, !.systems = none]
        BY <2>3
      <4> QED
        BY <3>1, <3>7, <4>1, Zenon
    <3>5. x = [queue |-> w.queue, visited |-> w.visited, lid |-> l, at |-> w.at,
               changed |-> w.changed, down |-> w.down, subs |-> w.subs,
               nodes |-> none, systems |-> none]
      BY ONLY <3>3, <3>4, SMT
    <3>6. IsWork(x) /\ x.lid = l /\ x.at = w.at /\ x.subs = w.subs
      BY ONLY <3>5, SMT DEF IsWork
    <3> QED
      BY <3>6
  <2> QED
    BY <1>1, <2>1, <2>2, <2>3
<1>2. CASE ~(w.lid < TopLid)
  <2>1. x = IF NextSwitches(w.at) = {} THEN NoWork ELSE WorkAt(Min(NextSwitches(w.at)))
    BY <1>2, Zenon DEF AfterLid, TopLid
  <2> QED
    BY <1>2, <2>1
<1> QED
  BY <1>1, <1>2

\* An entry is added to the table of a switch.
LEMMA EntryAdded ==
  ASSUME NEW G, G = [t \in Switches |-> G[t]], NEW s \in Switches, NEW e \in Nat, NEW l \in Nat \ {0},
         Filled(G, s, l - 1), EntryIs(s, l, e), NEW F, F = [G EXCEPT ![s] = Append(G[s], e)]
  PROVE  /\ F = [t \in Switches |-> F[t]] /\ Filled(F, s, l)
         /\ \A t \in Switches : t # s => F[t] = G[t]
<1>1. F = [t \in Switches |-> F[t]] /\ \A t \in Switches : t # s => F[t] = G[t]
  OBVIOUS
<1>2. PICK f, g : f = F[s] /\ g = G[s] /\ f = Append(g, e)
  OBVIOUS
<1>3. g \in Seq(Nat) /\ Len(g) = l - 1 /\ \A k \in 1 .. l - 1 : EntryIs(s, k, g[k])
  BY <1>2, Zenon DEF Filled
<1>4. f \in Seq(Nat) /\ Len(f) = l /\ f[l] = e /\ \A k \in 1 .. l - 1 : f[k] = g[k]
  BY ONLY <1>2, <1>3, e \in Nat, l \in Nat \ {0}
<1>5. \A k \in 1 .. l : EntryIs(s, k, f[k])
  <2> TAKE k \in 1 .. l
  <2>1. CASE k = l
    BY <1>4, <2>1
  <2>2. CASE k # l
    <3>1. k \in 1 .. l - 1
      BY <2>2
    <3> QED
      BY <1>3, <1>4, <3>1
  <2> QED
    BY <2>1, <2>2
<1> QED
  BY <1>1, <1>2, <1>4, <1>5, Zenon DEF Filled

\* The tables of the switches gone by are full, that of the switch at hand has entries for
\* the LIDs gone by, and the hops that they are made from lead to all LIDs.
RouteAt(F, at, lid, subs) ==
  /\ TablesTyped(hops) /\ AllLead(hops)
  /\ F = [s \in Switches |-> F[s]]
  /\ at \in Switches /\ lid \in 1 .. TopLid /\ subs \in [1 .. NumPorts[at] -> Nat]
  /\ \A s \in Switches : s < at => Filled(F, s, TopLid)
  /\ \A s \in Switches : s > at => F[s] = <<>>
  /\ Filled(F, at, lid - 1)

\* In the end all are full.
AllFilled(F) == TablesTyped(hops) /\ AllLead(hops) /\ \A s \in Switches : Filled(F, s, TopLid)

RouteInv ==
  /\ stage = "route" /\ Switches # {} => WorkRecord /\ RouteAt(lft, work.at, work.lid, work.subs)
  /\ stage = "check" /\ Switches # {} => AllFilled(lft)

\* Entries stay right when the hops do not change.
LEMMA EntriesFrozen ==
  ASSUME UNCHANGED <<remote, opts, baseLid, portByLid, maxLid, hops>>, NEW F, F = lft'
  PROVE  /\ \A s, n : Filled(F, s, n) => Filled(lft, s, n)'
         /\ TopLid' = TopLid
         /\ TablesTyped(hops) /\ AllLead(hops) => TablesTyped(hops)' /\ AllLead(hops)'
<1>1. LidStep' = LidStep
  BY DEF LidStep
<1>2. TopLid' = TopLid
  BY <1>1 DEF TopLid
<1>3. ASSUME NEW s, NEW l, NEW e, EntryIs(s, l, e)
      PROVE  EntryIs(s, l, e)'
  <2>1. BaseOf(l)' = BaseOf(l)
    BY <1>1, Zenon DEF BaseOf
  <2>2. LidOfSwitch(s)' = LidOfSwitch(s)
    BY DEF LidOfSwitch
  <2> QED
    BY <1>3, <2>1, <2>2, Zenon DEF EntryIs
<1>4. ASSUME NEW s, NEW n, Filled(F, s, n)
      PROVE  Filled(lft, s, n)'
  <2>1. F[s] \in Seq(Nat) /\ Len(F[s]) = n /\ \A l \in 1 .. n : EntryIs(s, l, F[s][l])
    BY <1>4, Zenon DEF Filled
  <2>2. \A l \in 1 .. n : EntryIs(s, l, lft[s][l])'
    <3> TAKE l \in 1 .. n
    <3>1. PICK e : e = F[s][l]
      OBVIOUS
    <3>2. EntryIs(s, l, e)
      BY <2>1, <3>1
    <3>3. EntryIs(s, l, e)'
      BY <1>3, <3>2
    <3> QED
      BY <3>1, <3>3, Zenon DEF EntryIs
  <2> QED
    BY <2>1, <2>2, Zenon DEF Filled
<1>5. ASSUME TablesTyped(hops), AllLead(hops)
      PROVE  TablesTyped(hops)' /\ AllLead(hops)'
  <2>1. PICK H : H = hops /\ H = hops'
    OBVIOUS
  <2>2. TablesTyped(hops)'
    BY <1>5, <2>1, TablesFrozen
  <2>3. MemberSwitches' = MemberSwitches /\ HopLids' = HopLids
    BY <1>1 DEF MemberSwitches, Member, HopLids
  <2>4. \A s \in MemberSwitches, l \in HopLids : LeadsOn(H, s, l)
    BY <1>5, <2>1, Zenon DEF AllLead
  <2>5. \A s \in MemberSwitches, l \in HopLids : LeadsOn(hops, s, l)'
    BY <2>1, <2>4, LeadsFrozen
  <2> QED
    BY <2>2, <2>3, <2>5, Zenon DEF AllLead
<1> QED
  BY <1>2, <1>4, <1>5

\* Full tables stay so when the hops do not change.
LEMMA RouteFrozen ==
  ASSUME UNCHANGED <<remote, opts, baseLid, portByLid, maxLid, hops>>, NEW F, F = lft'
  PROVE  /\ \A at, lid, subs :
              /\ RouteAt(F, at, lid, subs) /\ WorkRecord'
              /\ work'.at = at /\ work'.lid = lid /\ work'.subs = subs /\ stage' = "route"
              => RouteInv'
         /\ AllFilled(F) /\ stage' # "route" => RouteInv'
<1>1. ASSUME NEW at, NEW lid, NEW subs, RouteAt(F, at, lid, subs), WorkRecord',
             work'.at = at, work'.lid = lid, work'.subs = subs, stage' = "route"
      PROVE  RouteInv'
  <2>1. /\ TablesTyped(hops) /\ AllLead(hops)
        /\ F = [s \in Switches |-> F[s]]
        /\ at \in Switches /\ lid \in 1 .. TopLid /\ subs \in [1 .. NumPorts[at] -> Nat]
        /\ \A s \in Switches : s < at => Filled(F, s, TopLid)
        /\ \A s \in Switches : s > at => F[s] = <<>>
        /\ Filled(F, at, lid - 1)
    BY <1>1, Zenon DEF RouteAt
  <2>2. /\ \A s, n : Filled(F, s, n) => Filled(lft, s, n)'
        /\ TopLid' = TopLid
        /\ TablesTyped(hops) /\ AllLead(hops) => TablesTyped(hops)' /\ AllLead(hops)'
    BY EntriesFrozen
  <2>3. PICK top : top = TopLid
    OBVIOUS
  <2>4. /\ TablesTyped(hops)' /\ AllLead(hops)'
        /\ \A s \in Switches : s < at => Filled(lft, s, top)'
        /\ Filled(lft, at, lid - 1)'
    BY <2>1, <2>2, <2>3
  <2>5. RouteAt(lft, at, lid, subs)'
    BY <2>1, <2>2, <2>3, <2>4, Zenon DEF RouteAt, Filled
  <2> QED
    BY <1>1, <2>5, Zenon DEF RouteInv
<1>2. ASSUME AllFilled(F), stage' # "route"
      PROVE  RouteInv'
  <2>1. PICK top : top = TopLid
    OBVIOUS
  <2>2. TablesTyped(hops)' /\ AllLead(hops)' /\ TopLid' = top
        /\ \A s \in Switches : Filled(lft, s, top)'
    BY <1>2, <2>1, EntriesFrozen DEF AllFilled
  <2>3. AllFilled(lft)'
    BY <2>2, Zenon DEF AllFilled, Filled
  <2> QED
    BY <1>2, <2>3, Zenon DEF RouteInv
<1> QED
  BY <1>1, <1>2

\* A switch begins with the first LID.
LEMMA SwitchBegins ==
  ASSUME NEW F, F = [s \in Switches |-> F[s]], NEW at \in Switches,
         \A s \in Switches : s < at => Filled(F, s, TopLid),
         \A s \in Switches : ~(s < at) => F[s] = <<>>,
         TablesTyped(hops), AllLead(hops), TopLid \in Nat \ {0}, NEW w, w = WorkAt(at)
  PROVE  IsWork(w) /\ w.at = at /\ RouteAt(F, at, w.lid, w.subs)
<1>1. IsWork(w) /\ w.lid = 1 /\ w.at = at /\ w.subs = [i \in 1 .. NumPorts[at] |-> 0]
  BY WorkBegins, Zenon
<1>2. PICK lid, subs, top : lid = w.lid /\ subs = w.subs /\ top = TopLid
  OBVIOUS
<1>3. lid \in 1 .. top /\ lid - 1 = 0
  BY <1>1, <1>2
<1>4. subs \in [1 .. NumPorts[at] -> Nat]
  BY <1>1, <1>2
<1>5. at \in Nat /\ \A s \in Switches : s \in Nat
  BY SubnetAssumption DEF Nodes
<1>6. Filled(F, at, 0)
  <2>1. PICK f : f = F[at]
    OBVIOUS
  <2>2. f = <<>>
    BY <1>5, <2>1
  <2>3. f \in Seq(Nat) /\ Len(f) = 0 /\ \A l \in 1 .. 0 : EntryIs(at, l, f[l])
    BY <2>2
  <2> QED
    BY <2>1, <2>3, Zenon DEF Filled
<1>7. \A s \in Switches : s > at => F[s] = <<>>
  BY <1>5
<1>8. RouteAt(F, at, lid, subs)
  BY <1>2, <1>3, <1>4, <1>6, <1>7, Zenon DEF RouteAt
<1> QED
  BY <1>1, <1>2, <1>8

\* The tables of SubnMgtOsmRoute begin empty at the first switch.
LEMMA RouteBegins ==
  ASSUME DesignLids, stage # "lids", Switches # {}, TablesTyped(hops), AllLead(hops),
         lft = [s \in Switches |-> <<>>], work' = NoWork, stage' = "route",
         UNCHANGED <<remote, opts, baseLid, portByLid, maxLid, hops, lft>>
  PROVE  RouteInv'
<1>1. PICK F, w, at : F = lft' /\ w = work' /\ at = Min(Switches)
  OBVIOUS
<1>2. Switches \in SUBSET Nat
  BY SubnetAssumption DEF Nodes
<1>3. at \in Switches /\ \A s \in Switches : at <= s
  BY ONLY <1>1, <1>2, Switches # {}, MinFacts
<1>4. \A s \in Switches : ~(s < at)
  BY <1>2, <1>3
<1>5. F = [s \in Switches |-> F[s]] /\ \A s \in Switches : F[s] = <<>>
  BY <1>1
<1>6. TopLid \in Nat \ {0}
  BY DEF DesignLids, LidsInv, Visited, TopLid
<1>7. w = WorkAt(at)
  BY <1>1, Zenon DEF NoWork
<1>8. IsWork(w) /\ w.at = at /\ RouteAt(F, at, w.lid, w.subs)
  BY <1>3, <1>4, <1>5, <1>6, <1>7, SwitchBegins
<1>9. WorkRecord'
  BY <1>1, <1>8, Zenon DEF IsWork, WorkRecord
<1>10. PICK lid, subs : lid = w.lid /\ subs = w.subs
  OBVIOUS
<1>11. RouteAt(F, at, lid, subs) /\ work'.at = at /\ work'.lid = lid /\ work'.subs = subs
  BY <1>1, <1>8, <1>10
<1> QED
  BY <1>1, <1>9, <1>11, RouteFrozen

\* An entry is filled in.
LEMMA RouteKeeps ==
  ASSUME DesignLids, RouteInv, RouteLid, Switches # {}
  PROVE  RouteInv'
<1>0. stage = "route" /\ UNCHANGED <<remote, opts, baseLid, portByLid, maxLid, hops>>
  <2>1. RouteLid => stage = "route" /\ UNCHANGED <<GivenVars, LidVars, hops>>
    BY ZenonT(60) DEF RouteLid
  <2> QED
    BY <2>1 DEF GivenVars, LidVars
<1> PICK s, l, F, G, subs : s = work.at /\ l = work.lid /\ F = lft' /\ G = lft /\ subs = work.subs
  OBVIOUS
<1> PICK b, e, top : b = BaseOf(l) /\ e = EntryFor(s, b) /\ top = TopLid
  OBVIOUS
<1>1. \/ NoRoute(s, b) /\ stage' = "failed"
      \/ /\ ~NoRoute(s, b) /\ F = [G EXCEPT ![s] = Append(G[s], e)]
         /\ work' = AfterLid(Note(s, b, e))
         /\ stage' = IF l = top /\ NextSwitches(s) = {} THEN "check" ELSE stage
  BY ZenonT(60) DEF RouteLid, TopLid
<1>2. /\ WorkRecord /\ TablesTyped(hops) /\ AllLead(hops) /\ G = [t \in Switches |-> G[t]]
      /\ s \in Switches /\ l \in 1 .. top /\ subs \in [1 .. NumPorts[s] -> Nat]
      /\ \A t \in Switches : t < s => Filled(G, t, top)
      /\ \A t \in Switches : t > s => G[t] = <<>>
      /\ Filled(G, s, l - 1)
  <2>1. WorkRecord /\ RouteAt(G, s, l, subs)
    BY <1>0 DEF RouteInv
  <2> QED
    BY <2>1, Zenon DEF RouteAt
<1>3. CASE NoRoute(s, b) /\ stage' = "failed"
  BY <1>3 DEF RouteInv
<1>4. CASE /\ ~NoRoute(s, b) /\ F = [G EXCEPT ![s] = Append(G[s], e)]
           /\ work' = AfterLid(Note(s, b, e))
           /\ stage' = IF l = top /\ NextSwitches(s) = {} THEN "check" ELSE stage
  <2>0. stage # "lids" /\ l \in 1 .. maxLid + LidStep - 1
    BY <1>0, <1>2 DEF TopLid
  <2>1. EntryIs(s, l, e) /\ e \in Nat
    <3>1. work.subs \in [1 .. NumPorts[s] -> Nat] /\ ~NoRoute(s, BaseOf(l)) /\ e = EntryFor(s, BaseOf(l))
      BY <1>2, <1>4
    <3> QED
      BY ONLY DesignLids, <1>2, <2>0, <3>1, EntryFound
  <2>2. top \in Nat \ {0} /\ l \in Nat \ {0} /\ l <= top
    <3>1. top \in Nat \ {0}
      BY <2>0 DEF DesignLids, LidsInv, Visited, TopLid
    <3> QED
      BY <1>2, <3>1
  <2>3. /\ F = [t \in Switches |-> F[t]] /\ Filled(F, s, l)
        /\ \A t \in Switches : t # s => F[t] = G[t]
    BY ONLY <1>2, <1>4, <2>1, <2>2, EntryAdded
  <2>4. s \in Nat /\ \A t \in Switches : t \in Nat
    BY <1>2, SubnetAssumption DEF Nodes
  <2>5. ASSUME NEW t \in Switches
        PROVE  /\ t < s => Filled(F, t, top)
               /\ t > s => F[t] = <<>>
    <3>1. t # s => F[t] = G[t]
      BY <2>3
    <3>2. t < s \/ t > s => t # s
      BY <2>4
    <3>3. F[t] = G[t] /\ Filled(G, t, top) => Filled(F, t, top)
      BY Zenon DEF Filled
    <3> QED
      BY <1>2, <3>1, <3>2, <3>3
  <2>6. PICK w : w = Note(s, b, e)
    OBVIOUS
  <2>7. IsWork(w) /\ w.lid = l /\ w.at = s /\ w.subs \in [1 .. NumPorts[s] -> Nat]
    <3>1. PICK N \in Nat : N = NumPorts[s]
      BY <1>2, PortFacts, SubnetAssumption
    <3>2. work.subs \in [1 .. N -> Nat]
      BY <1>2, <3>1
    <3>3. IsWork(w) /\ w.lid = work.lid /\ w.at = work.at /\ w.subs \in [1 .. N -> Nat]
      BY ONLY <1>2, <2>6, <3>2, N \in Nat, NoteFacts
    <3> QED
      BY <3>1, <3>3
  <2>8. PICK x : x = work' /\ x = AfterLid(w)
    BY <1>4, <2>6
  <2>9. IF l < top THEN IsWork(x) /\ x.lid = l + 1 /\ x.at = s /\ x.subs = w.subs
        ELSE x = IF NextSwitches(s) = {} THEN NoWork ELSE WorkAt(Min(NextSwitches(s)))
    <3>1. IF w.lid < TopLid THEN IsWork(x) /\ x.lid = w.lid + 1 /\ x.at = w.at /\ x.subs = w.subs
          ELSE x = IF NextSwitches(w.at) = {} THEN NoWork ELSE WorkAt(Min(NextSwitches(w.at)))
      BY ONLY <2>7, <2>8, AfterLidFacts
    <3> QED
      BY <2>7, <3>1, Zenon
  <2>10. CASE l < top
    <3>1. l # top /\ IsWork(x) /\ x.lid = l + 1 /\ x.at = s /\ x.subs = w.subs
      BY <2>2, <2>9, <2>10
    <3>2. PICK k, y : k = l + 1 /\ y = w.subs
      OBVIOUS
    <3>3. k \in 1 .. top /\ k - 1 = l
      BY <2>2, <2>10, <3>2
    <3>4. RouteAt(F, s, k, y)
      BY <1>2, <2>3, <2>5, <2>7, <3>2, <3>3, Zenon DEF RouteAt
    <3>5. WorkRecord' /\ work'.at = s /\ work'.lid = k /\ work'.subs = y
      BY <2>8, <3>1, <3>2, Zenon DEF IsWork, WorkRecord
    <3>6. stage' = "route"
      BY <1>0, <1>4, <3>1
    <3> QED
      BY <1>0, <3>4, <3>5, <3>6, RouteFrozen
  <2>11. CASE ~(l < top) /\ NextSwitches(s) # {}
    <3>1. PICK at : at = Min(NextSwitches(s))
      OBVIOUS
    <3>2. NextSwitches(s) \in SUBSET Nat
      BY <2>4 DEF NextSwitches
    <3>3. at \in NextSwitches(s) /\ \A t \in NextSwitches(s) : at <= t
      BY ONLY <3>1, <3>2, <2>11, MinFacts
    <3>4. at \in Switches /\ at > s /\ at \in Nat
      BY <2>4, <3>3 DEF NextSwitches
    <3>5. \A t \in Switches : t > s => at <= t
      BY <3>3 DEF NextSwitches
    <3>6. \A t \in Switches : t < at => Filled(F, t, top)
      <4> TAKE t \in Switches
      <4>1. t < at => t < s \/ t = s
        BY <2>4, <3>4, <3>5
      <4>2. l = top
        BY <2>2, <2>11
      <4> QED
        BY <2>3, <2>5, <4>1, <4>2
    <3>7. \A t \in Switches : ~(t < at) => F[t] = <<>>
      <4> TAKE t \in Switches
      <4>1. ~(t < at) => t > s
        BY <2>4, <3>4
      <4> QED
        BY <2>5, <4>1
    <3>8. x = WorkAt(at)
      BY <2>9, <2>11, <3>1
    <3>9. IsWork(x) /\ x.at = at /\ RouteAt(F, at, x.lid, x.subs)
      <4>1. TopLid \in Nat \ {0} /\ \A t \in Switches : t < at => Filled(F, t, TopLid)
        BY <2>2, <3>6
      <4> QED
        BY ONLY <1>2, <2>3, <3>4, <3>7, <3>8, <4>1, SwitchBegins
    <3>10. PICK k, y : k = x.lid /\ y = x.subs
      OBVIOUS
    <3>11. WorkRecord' /\ work'.at = at /\ work'.lid = k /\ work'.subs = y
      BY <2>8, <3>9, <3>10, Zenon DEF IsWork, WorkRecord
    <3>12. stage' = "route"
      BY <1>0, <1>4, <2>11
    <3> QED
      BY <1>0, <3>9, <3>10, <3>11, <3>12, RouteFrozen
  <2>12. CASE ~(l < top) /\ NextSwitches(s) = {}
    <3>1. l = top
      BY <2>2, <2>12
    <3>2. \A t \in Switches : Filled(F, t, top)
      <4> TAKE t \in Switches
      <4>1. ~(t > s)
        BY <2>12 DEF NextSwitches
      <4>2. t < s \/ t = s
        BY <2>4, <4>1
      <4> QED
        BY <2>3, <2>5, <3>1, <4>2
    <3>3. AllFilled(F)
      BY <1>2, <3>2, Zenon DEF AllFilled
    <3>4. stage' # "route"
      BY <1>4, <2>12, <3>1
    <3> QED
      BY <1>0, <3>3, <3>4, RouteFrozen
  <2> QED
    BY <2>10, <2>11, <2>12
<1> QED
  BY <1>1, <1>3, <1>4

-----------------------------------------------------------------------------
(* The ways that the tables lead *)

\* A switch without hops to a LID has it, at all its ports.
LEMMA AtHome ==
  ASSUME DesignLids, stage # "lids", NEW s \in MemberSwitches, NEW b \in HopLids
  PROVE  Home(b) = s <=> LidOfSwitch(s) = b
<1>1. s \in Switches /\ s \in Nodes
  BY SubnetAssumption DEF MemberSwitches
<1>2. PICK c : c = LidOfSwitch(s)
  OBVIOUS
<1>3. \A p \in PortsOf(s) : baseLid[p] = c
  BY <1>1, <1>2, SwitchLid
<1>4. PICK p \in Ports : baseLid[p] = b
  BY HomeFacts
<1>5. \A q \in Ports : baseLid[q] = b => q[1] = Home(b)
  BY HomeFacts
<1>6. Home(b) = s => c = b
  <2>1. Home(b) = s => p \in PortsOf(s)
    BY <1>4, <1>5, PortFacts
  <2> QED
    BY <1>3, <1>4, <2>1
<1>7. c = b => Home(b) = s
  <2>1. PICK q : q \in PortsOf(s)
    BY <1>1, PortFacts
  <2>2. q \in Ports /\ q[1] = s /\ baseLid[q] = c
    BY <1>1, <1>3, <2>1, PortFacts
  <2> QED
    BY <1>5, <2>2
<1> QED
  BY <1>2, <1>6, <1>7

\* An entry leads to the port that has the LID, or to a switch one hop closer.
LEMMA EntryLeads ==
  ASSUME DesignLids, stage # "lids", TablesTyped(hops), AllLead(hops),
         NEW s \in MemberSwitches, NEW l, l \in 1 .. TopLid, NEW b, b = BaseOf(l),
         NEW e, EntryIs(s, l, e), NEW h, h = hops[s][b][0], NEW q, q = Remote(<<s, e>>)
  PROVE  /\ h \in 0 .. Unassigned
         /\ h = 0 => LidOfSwitch(s) = b /\ e = 0
         /\ h = Unassigned => e = Unassigned
         /\ h # 0 /\ h # Unassigned =>
              \/ h = 1 /\ q # NoPort /\ HasLid(q, l)
              \/ q \in Ports /\ q[1] \in MemberSwitches /\ hops[q[1]][b][0] \in Nat
                 /\ h = hops[q[1]][b][0] + 1
<1>0. b \in HopLids /\ \A p : baseLid[p] = b => HasLid(p, l)
  BY BaseFacts DEF TopLid
<1>1. s \in Switches /\ s \in Nodes
  BY SubnetAssumption DEF MemberSwitches
<1>2. /\ Home(b) = s <=> h = 0
      /\ Home(b) # s => \A i \in 1 .. NumPorts[s] :
           hops[s][b][i] = h /\ hops[s][b][i] # Unassigned => HopTrue(hops, s, b, i)
  <2>1. LeadsOn(hops, s, b)
    BY <1>0, Zenon DEF AllLead
  <2> QED
    BY <2>1, Zenon DEF LeadsOn
<1>3. Home(b) = s <=> LidOfSwitch(s) = b
  BY <1>0, AtHome
<1>4. /\ LidOfSwitch(s) = b => e = 0
      /\ LidOfSwitch(s) # b /\ h = Unassigned => e = Unassigned
      /\ LidOfSwitch(s) # b /\ h # Unassigned => e \in 1 .. NumPorts[s] /\ hops[s][b][e] = h
  BY Zenon DEF EntryIs
<1>5. h \in 0 .. Unassigned
  <2>1. NumPorts[s] \in Nat
    BY <1>1, PortFacts
  <2>2. 0 \in 0 .. NumPorts[s] /\ b \in 0 .. maxLid
    BY <1>0, <2>1, HomeFacts
  <2>3. hops[s] \in [0 .. maxLid -> [0 .. NumPorts[s] -> 0 .. Unassigned]]
    BY <1>1 DEF TablesTyped
  <2>4. hops[s][b] \in [0 .. NumPorts[s] -> 0 .. Unassigned]
    BY ONLY <2>2, <2>3
  <2>5. h = hops[s][b][0]
    OBVIOUS
  <2> QED
    BY ONLY <2>2, <2>4, <2>5
<1>6. 0 # Unassigned
  BY DEF Unassigned
<1>7. ASSUME h # 0, h # Unassigned
      PROVE  \/ h = 1 /\ q # NoPort /\ HasLid(q, l)
             \/ q \in Ports /\ q[1] \in MemberSwitches /\ hops[q[1]][b][0] \in Nat
                /\ h = hops[q[1]][b][0] + 1
  <2>1. e \in 1 .. NumPorts[s] /\ hops[s][b][e] = h /\ HopTrue(hops, s, b, e)
    BY <1>2, <1>3, <1>4, <1>7
  <2>2. IsWiring(remote) /\ ~(NoPort \in Ports)
    <3>1. IsWiring(remote)
      BY CableFacts DEF DesignLids
    <3>2. NoPort[1] \notin Nodes
      BY SubnetAssumption DEF NoPort, Nodes
    <3> QED
      BY <3>1, <3>2, PortFacts
  <2>3. \A p \in DOMAIN remote : remote[p] \in Ports
    BY <2>2 DEF IsWiring
  <2>4. CASE e \in ToSwitches(s)
    <3>1. <<s, e>> \in DOMAIN remote /\ q = remote[<<s, e>>] /\ q[1] \in MemberSwitches
      BY <2>4, NeighbourFacts
    <3>2. q \in Ports
      BY <2>3, <3>1
    <3>3. h = hops[q[1]][b][0] + 1
      BY <2>1, <2>4, Zenon DEF HopTrue
    <3>4. hops[q[1]][b][0] \in Nat
      <4>1. PICK t : t = q[1]
        OBVIOUS
      <4>2. t \in Switches /\ NumPorts[t] \in Nat
        BY <3>1, <4>1, SubnetAssumption, PortFacts DEF MemberSwitches
      <4>3. 0 \in 0 .. NumPorts[t] /\ b \in 0 .. maxLid
        BY <1>0, <4>2, HomeFacts
      <4>4. hops[t] \in [0 .. maxLid -> [0 .. NumPorts[t] -> 0 .. Unassigned]]
        BY <4>2 DEF TablesTyped
      <4>5. hops[t][b] \in [0 .. NumPorts[t] -> 0 .. Unassigned]
        BY ONLY <4>3, <4>4
      <4>6. hops[t][b][0] \in 0 .. Unassigned
        BY ONLY <4>3, <4>5
      <4> QED
        BY <4>1, <4>6, EntriesAreNumbers
    <3> QED
      BY <3>1, <3>2, <3>3, <3>4
  <2>5. CASE e \notin ToSwitches(s)
    <3>1. h = 1 /\ AtCa(s, e, b)
      BY <2>1, <2>5, Zenon DEF HopTrue
    <3>2. <<s, e>> \in DOMAIN remote /\ baseLid[q] = b /\ q = remote[<<s, e>>]
      BY <3>1 DEF AtCa, Remote
    <3>3. q \in Ports
      BY <2>3, <3>2
    <3> QED
      BY <1>0, <2>2, <3>1, <3>2, <3>3
  <2> QED
    BY <2>4, <2>5
<1> QED
  BY <1>2, <1>3, <1>4, <1>5, <1>6, <1>7

\* Where the tables lead from port p.
Steps(s, l) ==
  [p \in Ports \cup {NoPort, <<s, 0>>} |->
     IF p[1] \in Switches THEN Remote(<<p[1], lft[p[1]][l]>>) ELSE NoPort]

\* As many steps as there are hops, the first of them taken, lead to a port with LID l.
Arriving(f, l, b) ==
  \A k \in Nat : \A s \in MemberSwitches : \A q, z :
    hops[s][b][0] = k + 1 /\ k + 1 # Unassigned /\ q = Remote(<<s, lft[s][l]>>)
    /\ z = Iterated(q, f, k)[k] => z # NoPort /\ HasLid(z, l)

\* They do when the tables are full.
LEMMA StepsArrive ==
  ASSUME DesignLids, stage # "lids", Switches # {}, AllFilled(lft), NEW l, l \in 1 .. TopLid,
         NEW b, b = BaseOf(l), NEW f, \A p \in Ports : p[1] \in Switches => f[p] = Remote(<<p[1], lft[p[1]][l]>>)
  PROVE  Arriving(f, l, b)
<1> DEFINE T == {k \in Nat : \A s \in MemberSwitches : \A q, z :
                   hops[s][b][0] = k + 1 /\ k + 1 # Unassigned /\ q = Remote(<<s, lft[s][l]>>)
                   /\ z = Iterated(q, f, k)[k] => z # NoPort /\ HasLid(z, l)}
<1>0. b \in HopLids /\ \A p : baseLid[p] = b => HasLid(p, l)
  BY BaseFacts DEF TopLid
<1>1. TablesTyped(hops) /\ AllLead(hops) /\ \A s \in Switches : Filled(lft, s, TopLid)
  BY DEF AllFilled
<1>2. \A s \in MemberSwitches : s \in Switches /\ EntryIs(s, l, lft[s][l])
  BY <1>1, Zenon DEF Filled, MemberSwitches
<1>3. ~(NoPort \in Ports)
  <2>1. NoPort[1] \notin Nodes
    BY SubnetAssumption DEF NoPort, Nodes
  <2> QED
    BY <2>1, PortFacts
<1>4. ASSUME NEW s \in MemberSwitches, NEW q, q = Remote(<<s, lft[s][l]>>), NEW h, h = hops[s][b][0],
             h # 0, h # Unassigned
      PROVE  /\ h \in 0 .. Unassigned
             /\ \/ h = 1 /\ q # NoPort /\ HasLid(q, l)
                \/ q \in Ports /\ q[1] \in MemberSwitches /\ hops[q[1]][b][0] \in Nat
                   /\ h = hops[q[1]][b][0] + 1
  BY ONLY DesignLids, stage # "lids", <1>1, <1>2, <1>4, l \in 1 .. TopLid, b = BaseOf(l), EntryLeads
<1>5. 0 \in T
  <2> SUFFICES ASSUME NEW s \in MemberSwitches, NEW q, NEW z, hops[s][b][0] = 0 + 1,
                      q = Remote(<<s, lft[s][l]>>), z = Iterated(q, f, 0)[0]
               PROVE  z # NoPort /\ HasLid(z, l)
    OBVIOUS
  <2>1. z = q
    <3>1. PICK g : g = Iterated(q, f, 0)
      OBVIOUS
    <3>2. 0 \in Nat
      OBVIOUS
    <3>3. g[0] = q
      BY ONLY <3>1, <3>2, Iteration
    <3> QED
      BY <3>1, <3>3
  <2>2. PICK h : h = hops[s][b][0] /\ h = 1 /\ h # 0 /\ h # Unassigned
    BY DEF Unassigned
  <2>3. \/ h = 1 /\ q # NoPort /\ HasLid(q, l)
        \/ q \in Ports /\ q[1] \in MemberSwitches /\ hops[q[1]][b][0] \in Nat
           /\ h = hops[q[1]][b][0] + 1
    BY <1>4, <2>2
  <2>4. CASE q \in Ports /\ q[1] \in MemberSwitches /\ hops[q[1]][b][0] \in Nat
             /\ h = hops[q[1]][b][0] + 1
    <3>1. PICK t : t = q[1]
      OBVIOUS
    <3>2. t \in MemberSwitches /\ hops[t][b][0] = 0
      BY <2>2, <2>4, <3>1
    <3>3. LeadsOn(hops, t, b)
      BY <1>0, <1>1, <3>2, Zenon DEF AllLead
    <3>4. Home(b) = t
      BY <3>2, <3>3, Zenon DEF LeadsOn
    <3>5. LidOfSwitch(t) = b
      BY <1>0, <3>2, <3>4, AtHome
    <3>6. t \in Switches /\ q \in PortsOf(t)
      BY <1>2, <2>4, <3>1, <3>2, PortFacts
    <3>7. baseLid[q] = b
      BY <3>5, <3>6, SwitchLid
    <3> QED
      BY <1>0, <1>3, <2>1, <2>4, <3>7
  <2> QED
    BY <2>1, <2>3, <2>4
<1>6. ASSUME NEW k \in Nat, k \in T
      PROVE  k + 1 \in T
  <2> PICK m \in Nat : m = k + 1
    OBVIOUS
  <2> SUFFICES ASSUME NEW s \in MemberSwitches, NEW q, NEW z, hops[s][b][0] = m + 1, m + 1 # Unassigned,
                      q = Remote(<<s, lft[s][l]>>), z = Iterated(q, f, m)[m]
               PROVE  z # NoPort /\ HasLid(z, l)
    OBVIOUS
  <2>1. PICK h : h = hops[s][b][0]
    OBVIOUS
  <2>2. h # 0 /\ h # Unassigned /\ h # 1 /\ h = k + 1 + 1
    BY <2>1
  <2>3. h \in 0 .. Unassigned /\ q \in Ports /\ q[1] \in MemberSwitches
        /\ hops[q[1]][b][0] \in Nat /\ h = hops[q[1]][b][0] + 1
    BY <1>4, <2>1, <2>2
  <2>4. PICK t, r : t = q[1] /\ r = Remote(<<t, lft[t][l]>>)
    OBVIOUS
  <2>5. t \in MemberSwitches /\ hops[t][b][0] = k + 1
    BY <2>2, <2>3, <2>4
  <2>6. k + 1 # Unassigned
    <3>1. h \in Nat /\ h <= Unassigned /\ Unassigned \in Nat
      BY ONLY <2>3, EntriesAreNumbers DEF Unassigned
    <3> QED
      BY <2>2, <3>1
  <2>7. r = f[q]
    <3>1. q \in Ports /\ q[1] \in Switches
      BY <1>2, <2>3
    <3>2. f[q] = Remote(<<q[1], lft[q[1]][l]>>)
      BY ONLY <3>1, \A p \in Ports : p[1] \in Switches => f[p] = Remote(<<p[1], lft[p[1]][l]>>), Zenon
    <3> QED
      BY ONLY <2>4, <3>2
  <2>8. z = Iterated(r, f, k)[k]
    BY ONLY k \in Nat, m \in Nat, m = k + 1, z = Iterated(q, f, m)[m], <2>7, IterationShift
  <2> QED
    BY <1>6, <2>4, <2>5, <2>6, <2>8
<1> HIDE DEF T
<1>7. \A k \in Nat : k \in T
  BY <1>5, <1>6, SetInduction
<1> QED
  BY <1>7 DEF T, Arriving

\* Full tables lead to every LID by as many cables as there are hops.
LEMMA RoutedArrive ==
  ASSUME DesignLids, stage # "lids", Switches # {}, AllFilled(lft)
  PROVE  RoutesArrive
<1>1. TablesTyped(hops) /\ AllLead(hops) /\ \A s \in Switches : Filled(lft, s, TopLid)
  BY DEF AllFilled
<1>2. ASSUME NEW s \in MemberSwitches, NEW l \in AssignedLids, NEW h, h = hops[s][BaseOf(l)][0]
      PROVE  CASE h = 0 -> LidOfSwitch(s) = BaseOf(l) /\ lft[s][l] = 0
               [] h = Unassigned -> lft[s][l] = Unassigned
               [] OTHER -> Led(s, l, h) # NoPort /\ HasLid(Led(s, l, h), l)
  <2>0. l \in 1 .. TopLid /\ s \in Switches
    BY DEF AssignedLids, TopLid, MemberSwitches
  <2>1. PICK b, e, q : b = BaseOf(l) /\ e = lft[s][l] /\ q = Remote(<<s, e>>)
    OBVIOUS
  <2>2. EntryIs(s, l, e)
    BY <1>1, <2>0, <2>1, Zenon DEF Filled
  <2>3. h = hops[s][b][0]
    BY <1>2, <2>1
  <2>4. /\ h \in 0 .. Unassigned
        /\ h = 0 => LidOfSwitch(s) = b /\ e = 0
        /\ h = Unassigned => e = Unassigned
    BY ONLY DesignLids, stage # "lids", <1>1, s \in MemberSwitches, <2>0, <2>1, <2>2, <2>3, EntryLeads
  <2>5. 0 # Unassigned
    BY DEF Unassigned
  <2>6. ASSUME h # 0, h # Unassigned
        PROVE  Led(s, l, h) # NoPort /\ HasLid(Led(s, l, h), l)
    <3>1. h \in Nat
      BY <2>4, EntriesAreNumbers
    <3>2. PICK k \in Nat : h = k + 1
      <4>1. h - 1 \in Nat /\ h = (h - 1) + 1
        BY <2>6, <3>1
      <4> QED
        BY <4>1
    <3>3. PICK f, x, z : f = Steps(s, l) /\ x = <<s, 0>> /\ z = Led(s, l, h)
      OBVIOUS
    <3>4. z = Iterated(x, f, h)[h]
      <4>1. Led(s, l, h) = Iterated(<<s, 0>>, Steps(s, l), h)[h]
        BY Zenon DEF Led, Iterate, Iterated, Steps
      <4> QED
        BY <3>3, <4>1
    <3>5. q = f[x]
      <4>1. x \in Ports \cup {NoPort, <<s, 0>>} /\ x[1] = s
        BY <3>3
      <4> QED
        BY <2>0, <2>1, <3>3, <4>1 DEF Steps
    <3>6. z = Iterated(q, f, k)[k]
      BY ONLY k \in Nat, h = k + 1, <3>1, <3>4, <3>5, IterationShift
    <3>7. \A p \in Ports : p[1] \in Switches => f[p] = Remote(<<p[1], lft[p[1]][l]>>)
      BY <3>3 DEF Steps
    <3>8. hops[s][b][0] = k + 1 /\ k + 1 # Unassigned /\ q = Remote(<<s, lft[s][l]>>)
      BY <2>1, <2>3, <2>6, <3>2
    <3>9. Arriving(f, l, b)
      BY ONLY DesignLids, stage # "lids", Switches # {}, AllFilled(lft), <2>0, <2>1, <3>7, StepsArrive
    <3>10. z # NoPort /\ HasLid(z, l)
      BY <3>6, <3>8, <3>9, Zenon DEF Arriving
    <3> QED
      BY <3>3, <3>10
  <2> QED
    BY <2>1, <2>4, <2>5, <2>6
<1> QED
  BY <1>2, Zenon DEF RoutesArrive

CheckStages == {"verifyAll", "groups", "exit", "report", "graph", "loops", "crashed"}

\* The checks never go back.
LEMMA ChecksGoOn == CheckNext => stage' \in CheckStages
<1> SUFFICES ASSUME CheckNext
             PROVE  stage' \in CheckStages
  OBVIOUS
<1>1. CASE VerifyAllCaToCaRoutes \/ CountPastHops \/ VerifyAllRoutes
  BY <1>1 DEF VerifyAllCaToCaRoutes, CountPastHops, VerifyAllRoutes, Exit, CheckStages
<1>2. CASE StartGroup \/ VisitMember
  BY <1>2, GroupSteps DEF CheckStages
<1>3. CASE EndGroup \/ EndGroups
  BY <1>3 DEF EndGroup, EndGroups, CheckStages
<1>4. CASE ReportNonUpDown
  <2>1. ReportNonUpDown => stage' = "exit"
    BY SMT DEF ReportNonUpDown, Exit
  <2> QED
    BY <1>4, <2>1 DEF CheckStages
<1>5. CASE BuildGraph
  BY <1>5 DEF BuildGraph, Exit, CheckStages
<1>6. CASE StartLoopSearch \/ FollowDependency \/ CloseChannel
  BY <1>6 DEF StartLoopSearch, FollowDependency, CloseChannel, Exit, CheckStages
<1> QED
  BY <1>1, <1>2, <1>3, <1>4, <1>5, <1>6 DEF CheckNext

\* Every step of the design is one of these.
LEMMA DesignSteps ==
  ASSUME [Next \/ Done]_vars
  PROVE  \/ AssignLids \/ EndLids \/ SeedHops \/ RelaxHops \/ CheckReach
         \/ FindRoots \/ StartUpDn \/ SpreadUpDn \/ EndUpDn \/ RouteLid
         \/ stage' = "crashed" \/ stage' \in CheckStages
         \/ UNCHANGED vars
<1>1. CountPastPorts => stage' = "crashed"
  BY ZenonT(60) DEF CountPastPorts
<1> QED
  BY <1>1, ChecksGoOn DEF Next, Design, Check, DesignNext, Done

\* The tables are empty until SubnMgtOsmRoute fills them in, and the search for roots and
\* the check before it leave the local variables as the loops that follow find them.
Fresh ==
  /\ stage \in {"reach", "roots"} => work = NoWork
  /\ stage \in {"lids", "updn"} \cup HopStages => lft = [s \in Switches |-> <<>>]

\* Every step keeps this.
LEMMA FreshStep ==
  ASSUME Fresh, [Next \/ Done]_vars
  PROVE  Fresh'
<1>1. ASSUME UNCHANGED lft, stage' \notin {"reach", "roots"}, stage \in {"lids", "updn"} \cup HopStages
      PROVE  Fresh'
  BY <1>1 DEF Fresh
<1>2. CASE AssignLids
  <2>1. AssignLids => stage = "lids" /\ stage' = "lids" /\ UNCHANGED lft
    BY ZenonT(60) DEF AssignLids
  <2> QED
    BY <1>1, <1>2, <2>1
<1>3. CASE EndLids
  <2>1. EndLids => stage = "lids" /\ stage' = "seed" /\ UNCHANGED lft
    BY ZenonT(60) DEF EndLids
  <2> QED
    BY <1>1, <1>3, <2>1
<1>4. CASE SeedHops
  <2>1. SeedHops => stage = "seed" /\ (stage' = stage \/ stage' = "relax") /\ UNCHANGED lft
    BY ZenonT(60) DEF SeedHops
  <2> QED
    BY <1>1, <1>4, <2>1 DEF HopStages
<1>5. CASE RelaxHops
  <2>1. RelaxHops => /\ stage = "relax" /\ UNCHANGED lft
                     /\ \/ stage' = stage
                        \/ (stage' = "relax" \/ stage' = "reach") /\ work' = NoWork
    BY ZenonT(60) DEF RelaxHops
  <2>2. NoWork' = NoWork
    BY DEF NoWork, WorkAt
  <2> QED
    BY <1>5, <2>1, <2>2 DEF Fresh, HopStages
<1>6. CASE CheckReach
  <2>1. stage = "reach" /\ UNCHANGED <<lft, work>>
    BY <1>6, Zenon DEF CheckReach
  <2> QED
    BY <2>1 DEF Fresh, HopStages
<1>7. CASE FindRoots
  <2>1. FindRoots => stage = "roots" /\ (stage' = "route" \/ stage' = "updn") /\ UNCHANGED lft
    BY ZenonT(60) DEF FindRoots
  <2> QED
    BY <1>1, <1>7, <2>1 DEF HopStages
<1>8. CASE StartUpDn
  <2>1. StartUpDn => stage = "updn" /\ (stage' = "failed" \/ stage' = stage) /\ UNCHANGED lft
    BY ZenonT(60) DEF StartUpDn
  <2> QED
    BY <1>1, <1>8, <2>1
<1>9. CASE SpreadUpDn \/ EndUpDn
  <2>1. SpreadUpDn => stage = "updn" /\ stage' = stage /\ UNCHANGED lft
    BY ZenonT(60) DEF SpreadUpDn
  <2>2. EndUpDn => stage = "updn" /\ (stage' = stage \/ stage' = "route") /\ UNCHANGED lft
    BY ZenonT(60) DEF EndUpDn
  <2> QED
    BY <1>1, <1>9, <2>1, <2>2
<1>10. CASE RouteLid
  <2>1. RouteLid => stage = "route" /\ (stage' = "failed" \/ stage' = "check" \/ stage' = stage)
    BY ZenonT(60) DEF RouteLid
  <2> QED
    BY <1>10, <2>1 DEF Fresh, HopStages
<1>11. CASE stage' = "crashed" \/ stage' \in CheckStages
  BY <1>11 DEF Fresh, HopStages, CheckStages
<1>12. CASE UNCHANGED vars
  <2>1. UNCHANGED <<stage, lft, work>>
    BY <1>12 DEF vars, subnetVars
  <2> QED
    BY <2>1 DEF Fresh, NoWork, WorkAt
<1> QED
  BY <1>2, <1>3, <1>4, <1>5, <1>6, <1>7, <1>8, <1>9, <1>10, <1>11, <1>12, DesignSteps

\* The up/down search goes on, or the step is none of it.
LEMMA UpDnStep ==
  ASSUME DesignLids, OneCable, HopsInv, Fresh, UpDnInv, [Next \/ Done]_vars
  PROVE  UpDnInv'
<1>0. CASE Switches = {}
  BY <1>0 DEF UpDnInv
<1>1. ASSUME stage' # "updn"
      PROVE  UpDnInv'
  BY <1>1 DEF UpDnInv
<1>2. CASE AssignLids \/ EndLids \/ SeedHops \/ RelaxHops \/ CheckReach \/ RouteLid
  <2>1. AssignLids => stage' = "lids"
    BY ZenonT(60) DEF AssignLids
  <2>2. EndLids => stage' = "seed"
    BY ZenonT(60) DEF EndLids
  <2>3. SeedHops => stage' = "seed" \/ stage' = "relax"
    BY ZenonT(60) DEF SeedHops
  <2>4. RelaxHops => stage' = "relax" \/ stage' = "reach"
    BY ZenonT(60) DEF RelaxHops
  <2>5. CheckReach => stage' \in {"failed", "check", "roots", "route"}
    BY SMT DEF CheckReach
  <2>6. RouteLid => stage' = "failed" \/ stage' = "check" \/ stage' = "route"
    BY ZenonT(60) DEF RouteLid
  <2> QED
    BY <1>1, <1>2, <2>1, <2>2, <2>3, <2>4, <2>5, <2>6
<1>3. CASE FindRoots /\ Switches # {} /\ stage' = "updn"
  <2>1. stage = "roots"
    BY <1>3, Zenon DEF FindRoots
  <2>2. TablesTyped(hops) /\ work = NoWork
    BY <1>3, <2>1 DEF HopsInv, HopStages, Fresh
  <2> QED
    BY <1>3, <2>2, ResetKeeps
<1>4. CASE StartUpDn /\ Switches # {}
  BY <1>4, StartKeeps
<1>5. CASE SpreadUpDn /\ Switches # {}
  BY <1>5, VisitKeeps
<1>6. CASE EndUpDn /\ Switches # {}
  BY <1>6, EndKeeps
<1>7. CASE stage' = "crashed" \/ stage' \in CheckStages
  BY <1>1, <1>7 DEF CheckStages
<1>8. CASE UNCHANGED vars /\ Switches # {} /\ stage' = "updn"
  <2>1. stage = "updn" /\ UNCHANGED <<remote, opts, baseLid, portByLid, maxLid, hops, work>>
    BY <1>8 DEF vars, subnetVars, designVars
  <2>2. PICK H, l, v, q : H = hops' /\ l = work.lid /\ v = work.visited /\ q = work.queue
    OBVIOUS
  <2>3. WorkRecord /\ UpDnAt(H, l, v, q)
    BY <1>8, <2>1, <2>2 DEF UpDnInv
  <2>4. WorkRecord' /\ work'.lid = l /\ work'.visited = v /\ work'.queue = q
    BY <2>1, <2>2, <2>3 DEF WorkRecord
  <2> QED
    BY <2>1, <2>2, <2>3, <2>4, UpDnFrozen
<1> QED
  BY <1>0, <1>1, <1>2, <1>3, <1>4, <1>5, <1>6, <1>7, <1>8, DesignSteps

\* The tables are filled in from hops that lead to all LIDs.
LEMMA RouteStep ==
  ASSUME opts.design, DesignLids, OneCable, HopsInv, Fresh, UpDnInv, RouteInv, [Next \/ Done]_vars
  PROVE  RouteInv'
<1>0. CASE Switches = {}
  BY <1>0 DEF RouteInv
<1>1. ASSUME stage' # "route", stage' # "check"
      PROVE  RouteInv'
  BY <1>1 DEF RouteInv
<1>2. ASSUME Switches # {}, stage \in {"reach", "roots"}
      PROVE  TablesTyped(hops) /\ AllLead(hops) /\ work = NoWork /\ lft = [s \in Switches |-> <<>>]
  <2>1. /\ TablesTyped(hops) /\ TablesSound(hops) /\ SeededBelow(hops, NumNodes + 1)
        /\ \A s \in MemberSwitches : SettledAt(hops, s)
    BY <1>2, Zenon DEF HopsInv, HopStages
  <2>2. \A s \in MemberSwitches, l \in HopLids : LeadsOn(hops, s, l)
    BY ONLY DesignLids, OneCable, <1>2, <2>1, SettledLeads
  <2>3. AllLead(hops)
    BY <2>2, Zenon DEF AllLead
  <2> QED
    BY <1>2, <2>1, <2>3 DEF Fresh, HopStages
<1>3. CASE AssignLids \/ EndLids \/ SeedHops \/ RelaxHops \/ StartUpDn \/ SpreadUpDn
  <2>1. AssignLids => stage' = "lids"
    BY ZenonT(60) DEF AssignLids
  <2>2. EndLids => stage' = "seed"
    BY ZenonT(60) DEF EndLids
  <2>3. SeedHops => stage' = "seed" \/ stage' = "relax"
    BY ZenonT(60) DEF SeedHops
  <2>4. RelaxHops => stage' = "relax" \/ stage' = "reach"
    BY ZenonT(60) DEF RelaxHops
  <2>5. StartUpDn => stage' = "failed" \/ stage' = "updn"
    BY ZenonT(60) DEF StartUpDn
  <2>6. SpreadUpDn => stage' = "updn"
    BY ZenonT(60) DEF SpreadUpDn
  <2> QED
    BY <1>1, <1>3, <2>1, <2>2, <2>3, <2>4, <2>5, <2>6
<1>4. CASE CheckReach /\ Switches # {}
  <2>1. stage = "reach" /\ UNCHANGED <<GivenVars, LidVars, hops, lft, work>>
    BY <1>4, Zenon DEF CheckReach
  <2>2. stage' \in {"failed", "roots", "route"}
    BY <1>4, SMT DEF CheckReach
  <2>3. CASE stage' = "route"
    BY <1>2, <1>4, <2>1, <2>3, RouteBegins DEF GivenVars, LidVars
  <2> QED
    BY <1>1, <2>2, <2>3
<1>5. CASE FindRoots /\ Switches # {}
  <2>1. /\ stage = "roots" /\ UNCHANGED <<GivenVars, LidVars, lft, work>>
        /\ stage' = "updn" \/ (stage' = "route" /\ UNCHANGED hops)
    BY <1>5, ZenonT(60) DEF FindRoots
  <2>2. CASE stage' = "route" /\ UNCHANGED hops
    BY <1>2, <1>5, <2>1, <2>2, RouteBegins DEF GivenVars, LidVars
  <2> QED
    BY <1>1, <2>1, <2>2
<1>6. CASE EndUpDn /\ Switches # {}
  <2>1. EndUpDn => /\ stage = "updn" /\ UNCHANGED <<GivenVars, LidVars, hops, lft>>
                   /\ stage' = stage \/ stage' = "route"
    BY ZenonT(60) DEF EndUpDn
  <2>2. CASE stage' = "route"
    <3>1. TablesTyped(hops) /\ AllLead(hops) /\ work' = NoWork
      BY <1>6, <2>2, EndKeeps
    <3>2. lft = [s \in Switches |-> <<>>] /\ stage # "lids"
      BY <1>6, <2>1 DEF Fresh
    <3> QED
      BY <1>6, <2>1, <2>2, <3>1, <3>2, RouteBegins DEF GivenVars, LidVars
  <2> QED
    BY <1>1, <1>6, <2>1, <2>2
<1>7. CASE RouteLid /\ Switches # {}
  BY <1>7, RouteKeeps
<1>8. CASE stage' = "crashed" \/ stage' \in CheckStages
  BY <1>1, <1>8 DEF CheckStages
<1>9. CASE UNCHANGED vars /\ Switches # {}
  <2>1. UNCHANGED <<stage, remote, opts, baseLid, portByLid, maxLid, hops, lft, work>>
    BY <1>9 DEF vars, subnetVars, designVars
  <2>2. PICK F, at, l, subs : F = lft' /\ at = work.at /\ l = work.lid /\ subs = work.subs
    OBVIOUS
  <2>3. CASE stage' = "route"
    <3>1. WorkRecord /\ RouteAt(F, at, l, subs)
      BY <1>9, <2>1, <2>2, <2>3 DEF RouteInv
    <3>2. WorkRecord' /\ work'.at = at /\ work'.lid = l /\ work'.subs = subs
      BY <2>1, <2>2, <3>1 DEF WorkRecord
    <3> QED
      BY <2>1, <2>2, <2>3, <3>1, <3>2, RouteFrozen
  <2>4. CASE stage' = "check"
    <3>1. AllFilled(F) /\ stage' # "route"
      BY <1>9, <2>1, <2>2, <2>4 DEF RouteInv
    <3> QED
      BY <2>1, <2>2, <3>1, RouteFrozen
  <2> QED
    BY <1>1, <2>3, <2>4
<1> QED
  BY <1>0, <1>3, <1>4, <1>5, <1>6, <1>7, <1>8, <1>9, DesignSteps

\* The tables that SubnMgtOsmRoute and SubnMgtOsmEnhancedRoute fill in lead from every
\* switch to the port of every LID, by as many cables as the table of hops says, be it made
\* by SubnMgtCalcMinHopTables or under the up/down rule.
THEOREM RoutesCorrect ==
  ASSUME OneCable
  PROVE  Spec => [](opts.design => RoutesArrive)
<1> DEFINE Inv == opts.design => DesignLids /\ HopsInv /\ Fresh /\ UpDnInv /\ RouteInv
<1>1. Init => Inv
  <2>1. VerificationMode => ~opts.design
    BY VerificationAssumption, SMT DEF VerificationMode
  <2>2. DesignMode => stage = "lids" /\ lft = [s \in Switches |-> <<>>]
    BY SMT DEF DesignMode, DesignInit
  <2>3. DesignMode => HopsInv /\ Fresh /\ UpDnInv /\ RouteInv
    BY <2>2 DEF HopsInv, HopStages, Fresh, UpDnInv, RouteInv
  <2> QED
    BY <2>1, <2>3, VisitsBegin DEF Init
<1>2. Inv /\ [Next \/ Done]_vars => Inv'
  <2> SUFFICES ASSUME Inv, [Next \/ Done]_vars, opts'.design
               PROVE  DesignLids' /\ HopsInv' /\ Fresh' /\ UpDnInv' /\ RouteInv'
    OBVIOUS
  <2>1. opts' = opts
    BY OptionsKept
  <2>2. opts.design /\ DesignLids /\ HopsInv /\ Fresh /\ UpDnInv /\ RouteInv
    BY <2>1
  <2> QED
    BY <2>2, DesignLidsStep, HopsStep, FreshStep, UpDnStep, RouteStep
<1>3. Inv => (opts.design => RoutesArrive)
  <2> SUFFICES ASSUME opts.design, DesignLids, RouteInv, stage = "check"
               PROVE  RoutesArrive
    BY DEF RoutesArrive
  <2>1. CASE Switches = {}
    BY <2>1 DEF RoutesArrive, MemberSwitches
  <2>2. CASE Switches # {}
    BY <2>2, RoutedArrive DEF RouteInv
  <2> QED
    BY <2>1, <2>2
<1> QED
  BY <1>1, <1>2, <1>3, PTL DEF Spec

-----------------------------------------------------------------------------
(* Traces *)

\* Where a trace with LID l goes on from each node.
StepOf(l) == [m \in Nodes \cup {Arrived, Lost} |-> IF m \in Nodes THEN NextNode(m, l) ELSE m]

\* The end of a trace is a place of its own.
LEMMA StepFacts ==
  ASSUME IsWiring(remote), NEW l, NEW f, f = StepOf(l)
  PROVE  /\ Arrived \notin Nodes /\ Lost \notin Nodes /\ Arrived # Lost
         /\ f[Arrived] = Arrived /\ f[Lost] = Lost
         /\ \A m \in Nodes : f[m] = NextNode(m, l) /\ f[m] \in Nodes \cup {Arrived, Lost}
         /\ \A m \in Nodes : m \notin Switches => f[m] = Lost
<1>1. Arrived \notin Nodes /\ Lost \notin Nodes /\ Arrived # Lost
  BY DEF Arrived, Lost, Nodes
<1>2. \A p : Remote(p) # NoPort => Remote(p)[1] \in Nodes
  <2>1. \A p \in DOMAIN remote : remote[p] \in Ports
    BY DEF IsWiring
  <2> QED
    BY <2>1, PortFacts DEF Remote
<1>3. f[Arrived] = Arrived /\ f[Lost] = Lost
  BY <1>1 DEF StepOf
<1>4. \A m \in Nodes : f[m] = NextNode(m, l)
  BY DEF StepOf
<1>5. \A m \in Nodes : NextNode(m, l) \in Nodes \cup {Arrived, Lost}
  <2> TAKE m \in Nodes
  <2> PICK e, q, own : e = Entry(m, l) /\ q = Remote(<<m, e>>) /\ own = LidOfSwitch(m)
    OBVIOUS
  <2>1. q # NoPort => q[1] \in Nodes
    BY <1>2
  <2>2. NextNode(m, l) =
          CASE e = Unassigned -> Lost
            [] e = 0 -> IF own # 0 /\ own <= l /\ l < own + LidStep THEN Arrived ELSE Lost
            [] e \notin {0, Unassigned} /\ q = NoPort -> Lost
            [] OTHER -> IF HasLid(q, l) THEN Arrived ELSE q[1]
    BY DEF NextNode
  <2>3. CASE e = Unassigned
    BY <2>2, <2>3 DEF Unassigned
  <2>4. CASE e # Unassigned /\ e = 0
    BY <2>2, <2>4
  <2>5. CASE e # Unassigned /\ e # 0 /\ q = NoPort
    BY <2>2, <2>5
  <2>6. CASE e # Unassigned /\ e # 0 /\ q # NoPort
    BY <2>1, <2>2, <2>6
  <2> QED
    BY <2>3, <2>4, <2>5, <2>6
<1>6. \A m \in Nodes : m \notin Switches => NextNode(m, l) = Lost
  BY DEF NextNode, Entry, Unassigned
<1> QED
  BY <1>1, <1>3, <1>4, <1>5, <1>6

\* A trace that has come to its end stays there.
LEMMA StaysAt ==
  ASSUME NEW x, NEW f, f[x] = x, NEW k \in Nat
  PROVE  Iterated(x, f, k)[k] = x
<1> PICK g : g = Iterated(x, f, k)
  OBVIOUS
<1>1. g[0] = x /\ \A j \in 0 .. k - 1 : g[j + 1] = f[g[j]]
  BY Iteration
<1> DEFINE S == {j \in 0 .. k : g[j] = x}
<1>2. 0 \in S
  BY <1>1
<1>3. ASSUME NEW j \in 0 .. k - 1, j \in S
      PROVE  j + 1 \in S
  BY <1>1, <1>3
<1>4. \A j \in 0 .. k : j \in S
  <2> HIDE DEF S
  <2> QED
    BY <1>2, <1>3, BoundedInduction
<1> QED
  BY <1>4

\* Where a walk is after k steps.
WalkAt(n, l, k) == Iterated(n, StepOf(l), k)[k]

\* It begins at n; its later steps are those of a walk that begins one node on.
LEMMA WalkFacts ==
  ASSUME NEW l, NEW f, f = StepOf(l), NEW n
  PROVE  /\ WalkAt(n, l, 0) = n
         /\ \A k \in Nat, m \in Nat : m = k + 1 => WalkAt(n, l, m) = WalkAt(f[n], l, k)
         /\ \A k \in Nat : f[n] = n => WalkAt(n, l, k) = n
<1>1. WalkAt(n, l, 0) = n
  <2> PICK g : g = Iterated(n, f, 0)
    OBVIOUS
  <2>1. 0 \in Nat
    OBVIOUS
  <2>2. g[0] = n
    BY ONLY <2>1, g = Iterated(n, f, 0), Iteration
  <2> QED
    BY <2>2 DEF WalkAt
<1>2. ASSUME NEW y, y = f[n], NEW k \in Nat, NEW m \in Nat, m = k + 1
      PROVE  WalkAt(n, l, m) = WalkAt(y, l, k)
  <2>1. Iterated(n, f, m)[m] = Iterated(y, f, k)[k]
    BY ONLY <1>2, IterationShift
  <2> QED
    BY <2>1 DEF WalkAt
<1>3. ASSUME f[n] = n, NEW k \in Nat
      PROVE  WalkAt(n, l, k) = n
  <2>1. Iterated(n, f, k)[k] = n
    BY ONLY <1>3, StaysAt
  <2> QED
    BY <2>1 DEF WalkAt
<1> QED
  BY <1>1, <1>2, <1>3

\* The switches that a walk gets from to a port with the LID over at most h cables.
ArrivesIn(l, h) ==
  {s \in Switches : /\ WalkAt(s, l, h + 1) = Arrived
                    /\ WalkAt(s, l, h) \in Nodes => Entry(WalkAt(s, l, h), l) = 0}

\* It arrives where it is, or goes on to the port or to a switch from which it arrives.
LEMMA ArrivesStep ==
  ASSUME IsWiring(remote), NEW l, NEW f, f = StepOf(l)
  PROVE  /\ \A s \in Switches : s \in ArrivesIn(l, 0) <=> f[s] = Arrived /\ Entry(s, l) = 0
         /\ \A k \in Nat, m \in Nat : m = k + 1 =>
              \A s \in Switches : s \in ArrivesIn(l, m) <=> f[s] = Arrived \/ f[s] \in ArrivesIn(l, k)
<1>0. /\ Arrived \notin Nodes /\ Lost \notin Nodes /\ Arrived # Lost
      /\ f[Arrived] = Arrived /\ f[Lost] = Lost
      /\ \A n \in Nodes : f[n] \in Nodes \cup {Arrived, Lost}
      /\ \A n \in Nodes : n \notin Switches => f[n] = Lost
  BY StepFacts
<1>1. \A s \in Switches : s \in Nodes
  BY SubnetAssumption
<1>2. /\ \A n : WalkAt(n, l, 0) = n
      /\ \A n : \A k \in Nat, m \in Nat : m = k + 1 => WalkAt(n, l, m) = WalkAt(f[n], l, k)
      /\ \A n : \A k \in Nat : f[n] = n => WalkAt(n, l, k) = n
  BY ONLY f = StepOf(l), WalkFacts
<1>3. ASSUME NEW s \in Switches
      PROVE  s \in ArrivesIn(l, 0) <=> f[s] = Arrived /\ Entry(s, l) = 0
  <2>1. WalkAt(s, l, 0) = s /\ WalkAt(s, l, 1) = WalkAt(f[s], l, 0) /\ WalkAt(f[s], l, 0) = f[s]
    BY <1>2
  <2>2. 0 + 1 = 1
    OBVIOUS
  <2> QED
    BY <1>1, <2>1, <2>2 DEF ArrivesIn
<1>4. ASSUME NEW k \in Nat, NEW m \in Nat, m = k + 1, NEW s \in Switches
      PROVE  s \in ArrivesIn(l, m) <=> f[s] = Arrived \/ f[s] \in ArrivesIn(l, k)
  <2> PICK y : y = f[s]
    OBVIOUS
  <2> PICK a, b : a = WalkAt(y, l, k) /\ b = WalkAt(y, l, m)
    OBVIOUS
  <2>1. WalkAt(s, l, m) = a /\ WalkAt(s, l, m + 1) = b
    <3>1. m + 1 \in Nat
      OBVIOUS
    <3> QED
      BY <1>2, <1>4, <3>1
  <2>2. s \in ArrivesIn(l, m) <=> b = Arrived /\ (a \in Nodes => Entry(a, l) = 0)
    BY <2>1 DEF ArrivesIn
  <2>3. y \in ArrivesIn(l, k) <=> y \in Switches /\ b = Arrived /\ (a \in Nodes => Entry(a, l) = 0)
    BY <1>4 DEF ArrivesIn
  <2>4. y \in Nodes \cup {Arrived, Lost}
    BY <1>0, <1>1
  <2>5. CASE y = Arrived
    <3>1. a = Arrived /\ b = Arrived
      BY <1>0, <1>2, <2>5
    <3> QED
      BY <1>0, <2>2, <2>5, <3>1
  <2>6. CASE y = Lost
    <3>1. b = Lost /\ y \notin Switches
      BY <1>0, <1>1, <1>2, <2>6
    <3> QED
      BY <1>0, <2>2, <2>3, <2>6, <3>1
  <2>7. CASE y \in Switches
    BY <1>0, <1>1, <2>2, <2>3, <2>7
  <2>8. CASE y \in Nodes /\ y \notin Switches
    <3>1. f[y] = Lost
      BY <1>0, <2>8
    <3>2. b = WalkAt(Lost, l, k)
      BY <1>2, <1>4, <3>1
    <3>3. b = Lost
      BY <1>0, <1>2, <3>2
    <3> QED
      BY <1>0, <2>2, <2>3, <2>8, <3>3
  <2> QED
    BY <2>4, <2>5, <2>6, <2>7, <2>8
<1> QED
  BY <1>3, <1>4

\* More cables reach no fewer.
LEMMA ArrivesMore ==
  ASSUME IsWiring(remote), NEW l, NEW k \in Nat, NEW m \in Nat, m = k + 1
  PROVE  ArrivesIn(l, k) \subseteq ArrivesIn(l, m)
<1> PICK f : f = StepOf(l)
  OBVIOUS
<1>1. /\ \A s \in Switches : s \in ArrivesIn(l, 0) <=> f[s] = Arrived /\ Entry(s, l) = 0
      /\ \A i \in Nat, j \in Nat : j = i + 1 =>
           \A s \in Switches : s \in ArrivesIn(l, j) <=> f[s] = Arrived \/ f[s] \in ArrivesIn(l, i)
  BY ArrivesStep
<1>2. \A i : ArrivesIn(l, i) \subseteq Switches
  BY DEF ArrivesIn
<1> DEFINE T == {i \in Nat : \A j \in Nat : j = i + 1 => ArrivesIn(l, i) \subseteq ArrivesIn(l, j)}
<1>3. 0 \in T
  BY <1>1, <1>2
<1>4. ASSUME NEW i \in Nat, i \in T
      PROVE  i + 1 \in T
  <2> PICK j \in Nat : j = i + 1
    OBVIOUS
  <2> PICK n \in Nat : n = j + 1
    OBVIOUS
  <2>1. ArrivesIn(l, i) \subseteq ArrivesIn(l, j)
    BY <1>4
  <2>2. ArrivesIn(l, j) \subseteq ArrivesIn(l, n)
    BY <1>1, <1>2, <2>1
  <2> QED
    BY <2>2
<1> HIDE DEF T
<1>5. \A i \in Nat : i \in T
  BY <1>3, <1>4, SetInduction
<1> QED
  BY <1>5 DEF T

\* To a LID that no switch has, a walk is still under way after c steps if c cables are
\* too few.
LEMMA UnderWay ==
  ASSUME IsWiring(remote), NEW l, NEW c \in Nat, NEW M \in Nat, NEW n \in ArrivesIn(l, M),
         \A s \in Switches : s \notin ArrivesIn(l, 0)
  PROVE  WalkAt(n, l, c) \in Nodes <=> n \notin ArrivesIn(l, c)
<1> PICK f : f = StepOf(l)
  OBVIOUS
<1>0. Arrived \notin Nodes /\ f[Arrived] = Arrived
  BY StepFacts
<1>1. \A k \in Nat, m \in Nat : m = k + 1 =>
        \A s \in Switches : s \in ArrivesIn(l, m) <=> f[s] = Arrived \/ f[s] \in ArrivesIn(l, k)
  BY ArrivesStep
<1>2. /\ \A x : WalkAt(x, l, 0) = x
      /\ \A x : \A k \in Nat, m \in Nat : m = k + 1 => WalkAt(x, l, m) = WalkAt(f[x], l, k)
      /\ \A x : \A k \in Nat : f[x] = x => WalkAt(x, l, k) = x
  BY ONLY f = StepOf(l), WalkFacts
<1>3. \A k : ArrivesIn(l, k) \subseteq Switches /\ ArrivesIn(l, k) \subseteq Nodes
  BY SubnetAssumption DEF ArrivesIn
<1> DEFINE T == {k \in Nat : \A x, m : m \in Nat /\ x \in ArrivesIn(l, m) =>
                               (WalkAt(x, l, k) \in Nodes <=> x \notin ArrivesIn(l, k))}
<1>4. 0 \in T
  BY <1>2, <1>3
<1>5. ASSUME NEW k \in Nat, k \in T
      PROVE  k + 1 \in T
  <2> PICK j \in Nat : j = k + 1
    OBVIOUS
  <2>1. ASSUME NEW x, NEW m \in Nat, x \in ArrivesIn(l, m)
        PROVE  WalkAt(x, l, j) \in Nodes <=> x \notin ArrivesIn(l, j)
    <3>1. x \in Switches /\ m # 0
      BY <1>3, <2>1
    <3> PICK i \in Nat : m = i + 1
      <4>1. m - 1 \in Nat /\ m = (m - 1) + 1
        BY <3>1
      <4> QED
        BY <4>1
    <3> PICK y : y = f[x]
      OBVIOUS
    <3>2. y = Arrived \/ y \in ArrivesIn(l, i)
      BY <1>1, <2>1, <3>1
    <3>3. WalkAt(x, l, j) = WalkAt(y, l, k)
      BY ONLY <1>2, k \in Nat, j \in Nat, j = k + 1, y = f[x]
    <3>4. x \in ArrivesIn(l, j) <=> y = Arrived \/ y \in ArrivesIn(l, k)
      BY <1>1, <3>1
    <3>5. CASE y = Arrived
      <4>1. WalkAt(y, l, k) = Arrived
        BY ONLY <1>0, <1>2, <3>5, k \in Nat
      <4> QED
        BY <1>0, <3>3, <3>4, <3>5, <4>1
    <3>6. CASE y # Arrived
      <4>1. WalkAt(y, l, k) \in Nodes <=> y \notin ArrivesIn(l, k)
        BY <1>5, <3>2, <3>6
      <4> QED
        BY <3>3, <3>4, <3>6, <4>1
    <3> QED
      BY <3>5, <3>6
  <2> QED
    BY <2>1
<1> HIDE DEF T
<1>6. c \in T
  BY <1>4, <1>5, SetInduction
<1> QED
  BY <1>6 DEF T

-----------------------------------------------------------------------------
(* Deliveries *)

\* A switch knows whether it has the LID.
KnowsItsLids(l) ==
  \A s \in Switches :
    LET own == LidOfSwitch(s) IN
    (own # 0 /\ own <= l /\ l < own + LidStep) <=>
      \E p \in PortsOf(s) : baseLid[p] # 0 /\ HasLid(p, l)

\* The switches that have the LID and keep it, as Delivering has them.
KeptAt(l) == {s \in Switches : Entry(s, l) = 0 /\ \E p \in PortsOf(s) : baseLid[p] # 0 /\ HasLid(p, l)}

\* NextNode follows the cable at the entry.
LEMMA NextFacts ==
  ASSUME IsWiring(remote), NEW l, KnowsItsLids(l), NEW f, f = StepOf(l), NEW s \in Switches,
         NEW q, q = Remote(OutPort(s, l))
  PROVE  /\ f[s] = Arrived <=> s \in KeptAt(l) \/ (q # NoPort /\ HasLid(q, l))
         /\ Entry(s, l) = 0 => q = NoPort
         /\ f[s] \in Nodes => q[1] = f[s]
         /\ q[1] \in Nodes => f[s] \in {Arrived, q[1]}
<1> PICK e, own : e = Entry(s, l) /\ own = LidOfSwitch(s)
  OBVIOUS
<1>1. /\ s \in Nodes /\ f[s] = NextNode(s, l)
      /\ Arrived \notin Nodes /\ Lost \notin Nodes /\ Arrived # Lost
  BY SubnetAssumption, StepFacts
<1> PICK home : home = IF own # 0 /\ own <= l /\ l < own + LidStep THEN Arrived ELSE Lost
  OBVIOUS
<1>3. Remote(<<s, e>>) = q
  BY DEF OutPort
<1>2. NextNode(s, l) =
        CASE e = Unassigned -> Lost
          [] e = 0 -> home
          [] e \notin {0, Unassigned} /\ q = NoPort -> Lost
          [] OTHER -> IF HasLid(q, l) THEN Arrived ELSE q[1]
  BY <1>3 DEF NextNode
<1>4. NoPort[1] \notin Nodes
  BY SubnetAssumption DEF NoPort, Nodes
<1>5. q # NoPort => q[1] \in Nodes /\ e # 0 /\ e # Unassigned
  <2> SUFFICES ASSUME q # NoPort
               PROVE  q[1] \in Nodes /\ e # 0 /\ e # Unassigned
    OBVIOUS
  <2>1. PICK p \in DOMAIN remote : p = <<s, e>> /\ q = remote[p]
    BY <1>3 DEF Remote
  <2>2. p \in Ports /\ q \in Ports
    BY <2>1 DEF IsWiring
  <2>3. e \in 1 .. NumPorts[s] /\ NumPorts[s] \in 1 .. 254
    BY <1>1, <2>1, <2>2, PortFacts, SubnetAssumption
  <2> QED
    BY <2>2, <2>3, PortFacts DEF Unassigned
<1>6. s \in KeptAt(l) <=> e = 0 /\ (\E p \in PortsOf(s) : baseLid[p] # 0 /\ HasLid(p, l))
  BY DEF KeptAt
<1>7. 0 # Unassigned
  BY DEF Unassigned
<1>8. CASE e = Unassigned
  <2>1. f[s] = Lost /\ q = NoPort
    BY <1>1, <1>2, <1>5, <1>7, <1>8
  <2> QED
    BY <1>1, <1>4, <1>6, <1>7, <1>8, <2>1
<1>9. CASE e = 0
  <2>1. f[s] = home /\ q = NoPort
    BY <1>1, <1>2, <1>5, <1>7, <1>9
  <2>2. own # 0 /\ own <= l /\ l < own + LidStep <=>
          \E p \in PortsOf(s) : baseLid[p] # 0 /\ HasLid(p, l)
    BY DEF KnowsItsLids
  <2> QED
    BY <1>1, <1>4, <1>6, <1>9, <2>1, <2>2
<1>10. CASE e # 0 /\ e # Unassigned /\ q = NoPort
  <2>1. f[s] = Lost
    BY <1>1, <1>2, <1>10
  <2> QED
    BY <1>1, <1>4, <1>6, <1>10, <2>1
<1>11. CASE e # 0 /\ e # Unassigned /\ q # NoPort
  <2>1. f[s] = IF HasLid(q, l) THEN Arrived ELSE q[1]
    BY <1>1, <1>2, <1>11
  <2> QED
    BY <1>1, <1>5, <1>6, <1>11, <2>1
<1> QED
  BY <1>8, <1>9, <1>10, <1>11

\* The recursion that the property is stated with.
LEMMA DeliveringStep ==
  ASSUME NEW l, NEW k \in Nat, NEW m \in Nat, m = k + 1
  PROVE  /\ Delivering(l, 0) = KeptAt(l)
         /\ Delivering(l, k) \subseteq Switches =>
              Delivering(l, m) = Delivering(l, k) \cup
                {s \in Switches : LET q == Remote(OutPort(s, l)) IN
                                    q[1] \in Delivering(l, k) \/ (q # NoPort /\ HasLid(q, l))}
<1> PICK g : g = [near \in SUBSET Switches |->
                   near \cup {s \in Switches :
                     LET q == Remote(OutPort(s, l)) IN q[1] \in near \/ (q # NoPort /\ HasLid(q, l))}]
  OBVIOUS
<1> PICK x : x = KeptAt(l)
  OBVIOUS
<1>1. \A h : Delivering(l, h) = Iterated(x, g, h)[h]
  BY Zenon DEF Delivering, Iterate, Iterated, KeptAt
<1>2. Iterated(x, g, 0)[0] = x
  <2> PICK d : d = Iterated(x, g, 0)
    OBVIOUS
  <2>1. 0 \in Nat
    OBVIOUS
  <2>2. d[0] = x
    BY ONLY <2>1, d = Iterated(x, g, 0), Iteration
  <2> QED
    BY <2>2
<1>3. Iterated(x, g, m)[m] = g[Iterated(x, g, k)[k]]
  <2> PICK d : d = Iterated(x, g, m)
    OBVIOUS
  <2>1. \A j \in 0 .. m - 1 : d[j + 1] = g[d[j]]
    BY ONLY m \in Nat, d = Iterated(x, g, m), Iteration
  <2>2. k \in 0 .. m - 1 /\ k + 1 = m
    OBVIOUS
  <2>3. k \in 0 .. k /\ k <= m
    OBVIOUS
  <2>4. Iterated(x, g, k)[k] = Iterated(x, g, m)[k]
    BY ONLY k \in Nat, m \in Nat, <2>3, IterationExtends
  <2> QED
    BY <2>1, <2>2, <2>4
<1>4. Delivering(l, m) = g[Delivering(l, k)]
  BY <1>1, <1>3
<1>5. ASSUME Delivering(l, k) \subseteq Switches
      PROVE  Delivering(l, m) = Delivering(l, k) \cup
               {s \in Switches : LET q == Remote(OutPort(s, l)) IN
                                   q[1] \in Delivering(l, k) \/ (q # NoPort /\ HasLid(q, l))}
  <2> PICK D \in SUBSET Switches : D = Delivering(l, k)
    BY <1>5
  <2>1. g[D] = D \cup {s \in Switches : LET q == Remote(OutPort(s, l)) IN
                                         q[1] \in D \/ (q # NoPort /\ HasLid(q, l))}
    OBVIOUS
  <2> QED
    BY <1>4, <2>1
<1> QED
  BY <1>1, <1>2, <1>5

\* It is what the walks do.
LEMMA DeliveringArrives ==
  ASSUME IsWiring(remote), NEW l, KnowsItsLids(l), NEW h \in Nat
  PROVE  Delivering(l, h) = ArrivesIn(l, h)
<1> PICK f : f = StepOf(l)
  OBVIOUS
<1>0. ASSUME NEW s \in Switches, NEW q, q = Remote(OutPort(s, l))
      PROVE  /\ f[s] = Arrived <=> s \in KeptAt(l) \/ (q # NoPort /\ HasLid(q, l))
             /\ Entry(s, l) = 0 => q = NoPort
             /\ f[s] \in Nodes => q[1] = f[s]
             /\ q[1] \in Nodes => f[s] \in {Arrived, q[1]}
  BY <1>0, NextFacts
<1>1. /\ \A s \in Switches : s \in ArrivesIn(l, 0) <=> f[s] = Arrived /\ Entry(s, l) = 0
      /\ \A k \in Nat, m \in Nat : m = k + 1 =>
           \A s \in Switches : s \in ArrivesIn(l, m) <=> f[s] = Arrived \/ f[s] \in ArrivesIn(l, k)
  BY ArrivesStep
<1>2. KeptAt(l) \subseteq Switches /\ \A k : ArrivesIn(l, k) \subseteq Switches
  BY DEF KeptAt, ArrivesIn
<1>3. Switches \subseteq Nodes
  BY SubnetAssumption
<1>4. \A s \in Switches : s \in KeptAt(l) => Entry(s, l) = 0
  BY DEF KeptAt
<1> DEFINE T == {k \in Nat : Delivering(l, k) = ArrivesIn(l, k) /\ KeptAt(l) \subseteq ArrivesIn(l, k)}
<1>5. 0 \in T
  <2>1. Delivering(l, 0) = KeptAt(l)
    <3>1. 0 \in Nat /\ 1 \in Nat /\ 1 = 0 + 1
      OBVIOUS
    <3> QED
      BY <3>1, DeliveringStep
  <2>2. \A s \in Switches : s \in ArrivesIn(l, 0) <=> s \in KeptAt(l)
    BY <1>0, <1>1, <1>4
  <2> QED
    BY <1>2, <2>1, <2>2
<1>6. ASSUME NEW k \in Nat, k \in T
      PROVE  k + 1 \in T
  <2> PICK m \in Nat : m = k + 1
    OBVIOUS
  <2> PICK D : D = ArrivesIn(l, k)
    OBVIOUS
  <2>1. Delivering(l, k) = D /\ KeptAt(l) \subseteq D /\ D \subseteq Switches
    BY <1>2, <1>6
  <2>2. Delivering(l, m) = D \cup
          {s \in Switches : LET q == Remote(OutPort(s, l)) IN q[1] \in D \/ (q # NoPort /\ HasLid(q, l))}
    BY <2>1, DeliveringStep
  <2>3. D \subseteq ArrivesIn(l, m)
    BY ArrivesMore
  <2>4. ASSUME NEW s \in Switches
        PROVE  s \in Delivering(l, m) <=> s \in ArrivesIn(l, m)
    <3> PICK q : q = Remote(OutPort(s, l))
      OBVIOUS
    <3>1. s \in Delivering(l, m) <=> s \in D \/ q[1] \in D \/ (q # NoPort /\ HasLid(q, l))
      BY <2>2
    <3>2. s \in ArrivesIn(l, m) <=> f[s] = Arrived \/ f[s] \in D
      BY <1>1
    <3>3. /\ f[s] = Arrived <=> s \in KeptAt(l) \/ (q # NoPort /\ HasLid(q, l))
          /\ f[s] \in Nodes => q[1] = f[s]
          /\ q[1] \in Nodes => f[s] \in {Arrived, q[1]}
      BY <1>0
    <3>4. \A x : x \in D => x \in Nodes
      BY <1>3, <2>1
    <3>5. s \in D => s \in ArrivesIn(l, m)
      BY <2>3
    <3>6. s \in KeptAt(l) => s \in D
      BY <2>1
    <3> QED
      BY <3>1, <3>2, <3>3, <3>4, <3>5, <3>6
  <2>5. Delivering(l, m) \subseteq Switches
    BY <2>1, <2>2
  <2>6. Delivering(l, m) = ArrivesIn(l, m)
    BY <1>2, <2>4, <2>5
  <2> QED
    BY <2>1, <2>3, <2>6
<1> HIDE DEF T
<1>7. h \in T
  BY <1>5, <1>6, SetInduction
<1> QED
  BY <1>7 DEF T

-----------------------------------------------------------------------------
(* What the traces tell *)

\* The traces of the checks are these walks.
LEMMA TraceSteps ==
  ASSUME NEW n, NEW l, NEW k \in 0 .. MaxHops + 1
  PROVE  Trace(n, l)[k] = WalkAt(n, l, k)
<1>1. Trace(n, l) = [j \in 0 .. MaxHops + 1 |-> Iterated(n, StepOf(l), j)[j]]
  BY Zenon DEF Trace, Iterate, Iterated, StepOf
<1> QED
  BY <1>1 DEF WalkAt

\* Within asks whether a trace arrives.
LEMMA WithinArrives ==
  ASSUME NEW n \in Switches, NEW l, NEW h \in 0 .. MaxHops
  PROVE  Within(n, l, h) <=> n \in ArrivesIn(l, h)
<1>1. h \in 0 .. MaxHops + 1 /\ h + 1 \in 0 .. MaxHops + 1
  BY HopsAssumption
<1>2. Trace(n, l)[h] = WalkAt(n, l, h) /\ Trace(n, l)[h + 1] = WalkAt(n, l, h + 1)
  BY <1>1, TraceSteps
<1> QED
  BY <1>2 DEF Within, ArrivesIn

LEMMA RoutedArrives ==
  ASSUME NEW src, NEW dst
  PROVE  Routed(src, dst) <=> StartOf(src) \in ArrivesIn(dst, MaxHops)
<1>1. MaxHops \in 0 .. MaxHops
  BY HopsAssumption
<1>2. \A n \in Switches : Within(n, dst, MaxHops) <=> n \in ArrivesIn(dst, MaxHops)
  BY <1>1, WithinArrives
<1>3. ArrivesIn(dst, MaxHops) \subseteq Switches
  BY DEF ArrivesIn
<1> QED
  BY <1>2, <1>3 DEF Routed

\* What the checks of the routes rely on: LIDs lead to the ports that have them.
LidsListed ==
  /\ IsWiring(remote) /\ LidStep \in Nat \ {0} /\ baseLid \in [Ports -> Nat]
  /\ \A l \in Nat : KnowsItsLids(l)
  /\ \A p \in DOMAIN remote : baseLid[p] # 0 =>
       /\ baseLid[p] \in LoopLids /\ (IsCaLid(baseLid[p]) <=> p[1] \notin Switches)
       /\ \A i \in 0 .. LidStep - 1 : StartOf(baseLid[p] + i) = SwitchOf(p)
  /\ \A l \in LoopLids : Base(l) = l /\ \E p \in DOMAIN remote : baseLid[p] = l /\ baseLid[p] # 0
  /\ \A p, q \in DOMAIN remote : baseLid[p] # 0 /\ baseLid[q] # 0 =>
       (baseLid[p] = baseLid[q] <=> p[1] = q[1])
  /\ \A p, q \in Ports : baseLid[p] # 0 /\ baseLid[q] # 0 /\ HasLid(q, baseLid[p]) => p[1] = q[1]

\* The packets of the ports of a set get to all the LIDs of the others.
AllDelivered(ports) ==
  \A p, q \in ports, i \in 0 .. LidStep - 1 :
    p[1] # q[1] => SwitchOf(p) \in Delivering(baseLid[q] + i, MaxHops)

\* One trace for each LID of a pair tells whether all packets arrive.
LEMMA TracesTell ==
  ASSUME LidsListed, NEW lids \in SUBSET LoopLids,
         NEW ports, \A p \in ports : p \in DOMAIN remote /\ baseLid[p] # 0 /\ baseLid[p] \in lids,
         \A l \in lids : \E p \in ports : baseLid[p] = l
  PROVE  AllRouted(lids) <=> AllDelivered(ports)
<1>1. /\ IsWiring(remote) /\ LidStep \in Nat \ {0} /\ baseLid \in [Ports -> Nat]
      /\ \A l \in Nat : KnowsItsLids(l)
      /\ \A p \in ports : \A i \in 0 .. LidStep - 1 : StartOf(baseLid[p] + i) = SwitchOf(p)
      /\ \A l \in lids : Base(l) = l
      /\ \A p, q \in ports : baseLid[p] = baseLid[q] <=> p[1] = q[1]
  BY DEF LidsListed
<1>2. \A p \in ports : baseLid[p] \in Nat
  BY <1>1 DEF IsWiring
<1> PICK step \in Nat \ {0} : step = LidStep
  BY <1>1
<1>3. ASSUME NEW p \in ports, NEW q \in ports, NEW i \in 0 .. step - 1
      PROVE  Routed(baseLid[p] + i, baseLid[q] + i) <=> SwitchOf(p) \in Delivering(baseLid[q] + i, MaxHops)
  <2> PICK l \in Nat : l = baseLid[q] + i
    BY <1>2
  <2>1. Delivering(l, MaxHops) = ArrivesIn(l, MaxHops)
    BY <1>1, HopsAssumption, DeliveringArrives
  <2>2. StartOf(baseLid[p] + i) = SwitchOf(p)
    BY <1>1
  <2>3. Routed(baseLid[p] + i, l) <=> StartOf(baseLid[p] + i) \in ArrivesIn(l, MaxHops)
    BY RoutedArrives
  <2> QED
    BY <2>1, <2>2, <2>3
<1>4. AllRouted(lids) <=> \A a, b \in lids, i \in 0 .. step - 1 : a # b => Routed(a + i, b + i)
  <2>1. ASSUME AllRouted(lids), NEW a \in lids, NEW b \in lids, NEW i \in 0 .. step - 1, a # b
        PROVE  Routed(a + i, b + i)
    <3>1. Base(a) = a /\ Base(b) = b
      BY <1>1
    <3> PICK r : r = <<a, b>>
      OBVIOUS
    <3>2. r \in {x \in lids \X lids : x[1] # x[2]} /\ r[1] = a /\ r[2] = b
      BY <2>1
    <3>3. <<Base(r[1]) + i, Base(r[2]) + i>> \in RoutesOf(lids)
      <4>1. i \in 0 .. LidStep - 1
        OBVIOUS
      <4> QED
        BY <3>2, <4>1, SMT DEF RoutesOf
    <3>4. <<a + i, b + i>> \in RoutesOf(lids)
      BY <3>1, <3>2, <3>3
    <3> QED
      BY <2>1, <3>4 DEF AllRouted
  <2>2. ASSUME \A a, b \in lids, i \in 0 .. step - 1 : a # b => Routed(a + i, b + i)
        PROVE  AllRouted(lids)
    <3> SUFFICES ASSUME NEW r \in RoutesOf(lids)
                 PROVE  Routed(r[1], r[2])
      BY DEF AllRouted
    <3>1. PICK x \in {y \in lids \X lids : y[1] # y[2]}, i \in 0 .. step - 1 :
            r = <<Base(x[1]) + i, Base(x[2]) + i>>
      BY DEF RoutesOf
    <3>2. x[1] \in lids /\ x[2] \in lids /\ x[1] # x[2]
      OBVIOUS
    <3>3. r[1] = x[1] + i /\ r[2] = x[2] + i
      BY <1>1, <3>1, <3>2
    <3> QED
      BY <2>2, <3>2, <3>3
  <2> QED
    BY <2>1, <2>2
<1>5. ASSUME AllRouted(lids), NEW p \in ports, NEW q \in ports, NEW i \in 0 .. step - 1, p[1] # q[1]
      PROVE  SwitchOf(p) \in Delivering(baseLid[q] + i, MaxHops)
  <2>1. baseLid[p] \in lids /\ baseLid[q] \in lids /\ baseLid[p] # baseLid[q]
    BY <1>1, <1>5
  <2>2. Routed(baseLid[p] + i, baseLid[q] + i)
    BY <1>4, <1>5, <2>1
  <2> QED
    BY <1>3, <2>2
<1>6. ASSUME AllDelivered(ports)
      PROVE  AllRouted(lids)
  <2> SUFFICES ASSUME NEW a \in lids, NEW b \in lids, NEW i \in 0 .. step - 1, a # b
               PROVE  Routed(a + i, b + i)
    BY <1>4
  <2>1. PICK p \in ports, q \in ports : baseLid[p] = a /\ baseLid[q] = b
    OBVIOUS
  <2>2. p[1] # q[1]
    BY <1>1, <2>1
  <2>3. SwitchOf(p) \in Delivering(baseLid[q] + i, MaxHops)
    BY <1>6, <2>2 DEF AllDelivered
  <2> QED
    BY <1>3, <2>1, <2>3
<1> QED
  BY <1>5, <1>6 DEF AllDelivered

\* The routes between the first LIDs of CAs have no more switches than can be compared.
AllCompared ==
  LidStep > 1 =>
    \A p, q \in Sources :
      p[1] # q[1] /\ p[1] \notin Switches /\ q[1] \notin Switches =>
        SwitchOf(p) \in Delivering(baseLid[q], ComparedSwitches)

\* The test of the length of routes that arrive tells this.
LEMMA LengthTells ==
  ASSUME LidsListed, AllRouted(CaLids)
  PROVE  ~TooLong <=> AllCompared
<1>1. /\ IsWiring(remote) /\ LidStep \in Nat \ {0} /\ baseLid \in [Ports -> Nat]
      /\ \A l \in Nat : KnowsItsLids(l)
      /\ \A p \in DOMAIN remote : baseLid[p] # 0 =>
           /\ baseLid[p] \in LoopLids /\ (IsCaLid(baseLid[p]) <=> p[1] \notin Switches)
           /\ \A i \in 0 .. LidStep - 1 : StartOf(baseLid[p] + i) = SwitchOf(p)
      /\ \A l \in LoopLids : Base(l) = l /\ \E p \in DOMAIN remote : baseLid[p] = l /\ baseLid[p] # 0
      /\ \A p, q \in DOMAIN remote : baseLid[p] # 0 /\ baseLid[q] # 0 =>
           (baseLid[p] = baseLid[q] <=> p[1] = q[1])
      /\ \A p, q \in Ports : baseLid[p] # 0 /\ baseLid[q] # 0 /\ HasLid(q, baseLid[p]) => p[1] = q[1]
  BY DEF LidsListed
<1> PICK c \in Nat : c = ComparedSwitches /\ c \in 0 .. MaxHops /\ c \in 0 .. MaxHops + 1
  BY HopsAssumption
<1> PICK H \in Nat : H = MaxHops
  BY HopsAssumption
\* The CAs with a LID are the sources that are not switches.
<1> PICK cas : cas = {p \in Sources : p[1] \notin Switches}
  OBVIOUS
<1>2. \A p : p \in cas <=> p \in DOMAIN remote /\ baseLid[p] # 0 /\ p[1] \notin Switches
  BY DEF Sources
<1>3. \A p \in cas : baseLid[p] \in CaLids /\ p \in Ports /\ baseLid[p] \in Nat
  BY <1>1, <1>2 DEF CaLids, IsWiring
<1>4. \A l \in CaLids : l \in LoopLids /\ Base(l) = l /\ \E p \in cas : baseLid[p] = l
  <2> TAKE l \in CaLids
  <2>1. l \in LoopLids /\ IsCaLid(l)
    BY DEF CaLids
  <2>2. PICK p \in DOMAIN remote : baseLid[p] = l /\ baseLid[p] # 0
    BY <1>1, <2>1
  <2>3. p \in cas
    BY <1>1, <1>2, <2>1, <2>2
  <2> QED
    BY <1>1, <2>1, <2>2, <2>3
<1>5. ASSUME NEW p \in cas, NEW q \in cas, p[1] # q[1]
      PROVE  Trace(StartOf(baseLid[p]), baseLid[q])[c] \in Nodes <=> SwitchOf(p) \notin Delivering(baseLid[q], c)
  <2> PICK l \in Nat : l = baseLid[q]
    BY <1>3
  <2> PICK n : n = SwitchOf(p)
    OBVIOUS
  <2>1. 0 \in 0 .. LidStep - 1 /\ baseLid[p] + 0 = baseLid[p] /\ l + 0 = l
    BY <1>1, <1>3
  <2>2. StartOf(baseLid[p]) = n
    BY <1>1, <1>2, <2>1
  <2>3. Routed(baseLid[p], l)
    <3> PICK r : r = <<baseLid[p], l>>
      OBVIOUS
    <3>1. baseLid[p] \in CaLids /\ l \in CaLids /\ Base(baseLid[p]) = baseLid[p] /\ Base(l) = l
      BY <1>3, <1>4
    <3>2. baseLid[p] # l
      BY <1>1, <1>2, <1>5
    <3>3. r \in {x \in CaLids \X CaLids : x[1] # x[2]} /\ r[1] = baseLid[p] /\ r[2] = l
      BY <3>1, <3>2
    <3>4. <<Base(r[1]) + 0, Base(r[2]) + 0>> \in RoutesOf(CaLids)
      BY <2>1, <3>3, SMT DEF RoutesOf
    <3>5. r \in RoutesOf(CaLids)
      BY <2>1, <3>1, <3>3, <3>4
    <3> QED
      BY <3>3, <3>5 DEF AllRouted
  <2>4. n \in ArrivesIn(l, H) /\ n \in Switches
    <3>1. n \in ArrivesIn(l, H)
      BY <2>2, <2>3, RoutedArrives
    <3> QED
      BY <3>1 DEF ArrivesIn
  <2>5. \A s \in Switches : s \notin ArrivesIn(l, 0)
    <3> SUFFICES ASSUME NEW s \in Switches, s \in ArrivesIn(l, 0)
                 PROVE  FALSE
      OBVIOUS
    <3>1. Delivering(l, 0) = ArrivesIn(l, 0)
      BY <1>1, DeliveringArrives
    <3>2. s \in KeptAt(l)
      <4>1. 0 \in Nat /\ 1 \in Nat /\ 1 = 0 + 1
        OBVIOUS
      <4> QED
        BY <3>1, <4>1, DeliveringStep
    <3>3. PICK o \in PortsOf(s) : baseLid[o] # 0 /\ HasLid(o, l)
      BY <3>2 DEF KeptAt
    <3>4. o \in Ports /\ o[1] = s
      BY <3>3, SubnetAssumption, PortFacts
    <3>5. q[1] = o[1]
      BY <1>1, <1>2, <1>3, <3>3, <3>4
    <3> QED
      BY <1>2, <3>4, <3>5
  <2>6. WalkAt(n, l, c) \in Nodes <=> n \notin ArrivesIn(l, c)
    BY <1>1, <2>4, <2>5, UnderWay
  <2>7. Delivering(l, c) = ArrivesIn(l, c)
    BY <1>1, DeliveringArrives
  <2>8. Trace(n, l)[c] = WalkAt(n, l, c)
    BY TraceSteps
  <2> QED
    BY <2>2, <2>6, <2>7, <2>8
<1>6. ASSUME ~TooLong, LidStep > 1, NEW p \in cas, NEW q \in cas, p[1] # q[1]
      PROVE  SwitchOf(p) \in Delivering(baseLid[q], c)
  <2>1. baseLid[p] \in CaLids /\ baseLid[q] \in CaLids /\ baseLid[p] # baseLid[q]
    BY <1>1, <1>2, <1>3, <1>6
  <2>2. Base(baseLid[p]) = baseLid[p] /\ Base(baseLid[q]) = baseLid[q]
    BY <1>4, <2>1
  <2>3. Trace(StartOf(baseLid[p]), baseLid[q])[c] \notin Nodes
    BY <1>6, <2>1, <2>2 DEF TooLong
  <2> QED
    BY <1>5, <1>6, <2>3
<1>7. ASSUME AllCompared
      PROVE  ~TooLong
  <2> SUFFICES ASSUME LidStep > 1, NEW i \in CaLids, NEW j \in CaLids, i # j
               PROVE  Trace(StartOf(Base(i)), Base(j))[c] \notin Nodes
    BY DEF TooLong
  <2>1. PICK p \in cas, q \in cas : baseLid[p] = i /\ baseLid[q] = j
    BY <1>4
  <2>2. p[1] # q[1] /\ Base(i) = i /\ Base(j) = j
    BY <1>1, <1>2, <1>4, <2>1
  <2>3. SwitchOf(p) \in Delivering(j, c)
    BY <1>7, <2>1, <2>2 DEF AllCompared
  <2> QED
    BY <1>5, <2>1, <2>2, <2>3
<1>8. ~TooLong => AllCompared
  BY <1>6 DEF AllCompared
<1> QED
  BY <1>7, <1>8

\* What the checks of the routes find, in all.
RoutesFine == AllRouted(CaLids) /\ ~TooLong /\ (opts.allPaths => AllRouted(LoopLids))

\* It says what the property asks.
LEMMA RoutesFineTell ==
  ASSUME LidsListed
  PROVE  RoutesFine <=> AllDelivered(Sources) /\ AllCompared
<1>1. /\ \A p \in DOMAIN remote : baseLid[p] # 0 =>
           baseLid[p] \in LoopLids /\ (IsCaLid(baseLid[p]) <=> p[1] \notin Switches)
      /\ \A l \in LoopLids : \E p \in DOMAIN remote : baseLid[p] = l /\ baseLid[p] # 0
  BY DEF LidsListed
<1>2. CaLids \in SUBSET LoopLids /\ LoopLids \in SUBSET LoopLids
  BY DEF CaLids
<1>0. AllRouted(CaLids) => (~TooLong <=> AllCompared)
  BY LengthTells
<1>3. CASE opts.allPaths
  <2> PICK ports : ports = Sources
    OBVIOUS
  <2>0. \A p : p \in ports <=> p \in DOMAIN remote /\ baseLid[p] # 0
    BY <1>3 DEF Sources
  <2>1. /\ \A p \in ports : p \in DOMAIN remote /\ baseLid[p] # 0 /\ baseLid[p] \in LoopLids
        /\ \A l \in LoopLids : \E p \in ports : baseLid[p] = l
    BY <1>1, <2>0
  <2>2. AllRouted(LoopLids) <=> AllDelivered(ports)
    BY ONLY LidsListed, <1>2, <2>1, TracesTell
  <2>3. AllRouted(LoopLids) => AllRouted(CaLids)
    <3>1. RoutesOf(CaLids) \subseteq RoutesOf(LoopLids)
      BY <1>2 DEF RoutesOf
    <3> QED
      BY <3>1 DEF AllRouted
  <2> QED
    BY <1>0, <1>3, <2>2, <2>3 DEF RoutesFine
<1>4. CASE ~opts.allPaths
  <2> PICK ports : ports = Sources
    OBVIOUS
  <2>0. \A p : p \in ports <=> p \in DOMAIN remote /\ baseLid[p] # 0 /\ p[1] \notin Switches
    BY <1>4 DEF Sources
  <2>1. \A p \in ports : p \in DOMAIN remote /\ baseLid[p] # 0 /\ baseLid[p] \in CaLids
    BY <1>1, <2>0 DEF CaLids
  <2>2. ASSUME NEW l \in CaLids
        PROVE  \E p \in ports : baseLid[p] = l
    <3>1. l \in LoopLids /\ IsCaLid(l)
      BY DEF CaLids
    <3>2. PICK p \in DOMAIN remote : baseLid[p] = l /\ baseLid[p] # 0
      BY <1>1, <3>1
    <3> QED
      BY <1>1, <2>0, <3>1, <3>2
  <2>3. AllRouted(CaLids) <=> AllDelivered(ports)
    BY ONLY LidsListed, <1>2, <2>1, <2>2, TracesTell
  <2> QED
    BY <1>0, <1>4, <2>3 DEF RoutesFine
<1> QED
  BY <1>3, <1>4

-----------------------------------------------------------------------------
(* The LIDs that lead to their ports *)

\* SubnMgtAssignLids lists ports with a cable, and one port of each switch that has one.
LidsCabled ==
  /\ \A l \in DOMAIN portByLid :
       /\ l \in Nat \ {0} /\ portByLid[l] \in Ports
       /\ portByLid[l] \in DOMAIN remote \/ portByLid[l][1] \in Switches
  /\ \A p \in Ports : baseLid[p] # 0 => \E q \in DOMAIN remote : q[1] = p[1]
  /\ stage # "lids" => 1 .. TopLid \subseteq DOMAIN portByLid

\* A visit lists the port that it came by.
LEMMA CabledVisit ==
  ASSUME DesignLids, LidsCabled, AssignLids
  PROVE  LidsCabled'
<1>0. stage = "lids" /\ stage' = "lids" /\ remote' = remote /\ work.queue # <<>>
  BY SMT DEF AssignLids, GivenVars
<1> PICK first : first = Head(work.queue)
  OBVIOUS
<1> PICK n : n = first[1]
  OBVIOUS
<1> PICK l : l = work.lid
  OBVIOUS
<1> PICK step : step = LidStep
  OBVIOUS
<1>1. /\ remote \in Wirings /\ work.queue \in Seq(DOMAIN remote)
      /\ l \in Nat \ {0} /\ step \in Nat \ {0} /\ 1 .. l - 1 \subseteq DOMAIN portByLid
  BY <1>0 DEF DesignLids, Visiting, LidsInv, LidsBelow
<1>2. first \in DOMAIN remote /\ first \in Ports /\ n \in Nodes
  <2>1. first \in DOMAIN remote
    BY ONLY <1>0, <1>1, first = Head(work.queue)
  <2> QED
    BY <1>1, <2>1, CableFacts
<1>3. CASE n \in work.visited
  <2>1. UNCHANGED <<baseLid, portByLid>>
    BY <1>3, SMT DEF AssignLids
  <2> QED
    BY <1>0, <2>1 DEF LidsCabled
<1>4. CASE n \notin work.visited
  <2>1. PICK given, listed :
          /\ given = (IF n \in Switches THEN PortsOf(n) ELSE {first})
          /\ listed = (IF n \in Switches THEN <<n, NumPorts[n]>> ELSE first)
    OBVIOUS
  <2>2. /\ baseLid' = [q \in Ports |-> IF q \in given THEN l ELSE baseLid[q]]
        /\ portByLid' = [k \in 1 .. l + step |-> IF k < l THEN portByLid[k] ELSE listed]
    BY <1>4, <2>1, SMT DEF AssignLids
  <2>3. listed \in Ports /\ (listed \in DOMAIN remote \/ listed[1] \in Switches)
    <3>1. CASE n \in Switches
      <4>1. listed = <<n, NumPorts[n]>> /\ NumPorts[n] \in Nat \ {0}
        BY <1>2, <2>1, <3>1, PortFacts
      <4>2. listed \in PortsOf(n)
        BY <4>1 DEF PortsOf
      <4> QED
        BY <1>2, <3>1, <4>1, <4>2, PortFacts
    <3>2. CASE n \notin Switches
      BY <1>2, <2>1, <3>2
    <3> QED
      BY <3>1, <3>2
  <2>4. ASSUME NEW k \in DOMAIN portByLid'
        PROVE  /\ k \in Nat \ {0} /\ portByLid'[k] \in Ports
               /\ portByLid'[k] \in DOMAIN remote \/ portByLid'[k][1] \in Switches
    <3>1. k \in 1 .. l + step
      BY <2>2
    <3>2. CASE k < l
      <4>0. k \in 1 .. l - 1
        BY ONLY <1>1, <3>1, <3>2
      <4>1. k \in DOMAIN portByLid /\ portByLid'[k] = portByLid[k]
        BY <1>1, <2>2, <3>1, <3>2, <4>0
      <4> QED
        BY <3>1, <4>1 DEF LidsCabled
    <3>3. CASE ~(k < l)
      <4>1. portByLid'[k] = listed
        BY <2>2, <3>1, <3>3
      <4> QED
        BY <2>3, <3>1, <4>1
    <3> QED
      BY <3>2, <3>3
  <2>5. ASSUME NEW p \in Ports, baseLid'[p] # 0
        PROVE  \E q \in DOMAIN remote : q[1] = p[1]
    <3>1. CASE p \in given
      <4>1. p[1] = n
        BY <1>2, <2>1, <3>1, PortFacts
      <4> QED
        BY <1>2, <4>1
    <3>2. CASE p \notin given
      BY <2>2, <2>5, <3>2 DEF LidsCabled
    <3> QED
      BY <3>1, <3>2
  <2> QED
    BY <1>0, <2>4, <2>5 DEF LidsCabled
<1> QED
  BY <1>3, <1>4

\* The last LID is listed too.
LEMMA CabledStep == DesignLids /\ LidsCabled /\ [Next \/ Done]_vars => LidsCabled'
<1> SUFFICES ASSUME DesignLids, LidsCabled, [Next \/ Done]_vars
             PROVE  LidsCabled'
  OBVIOUS
<1>1. CASE AssignLids
  BY <1>1, CabledVisit
<1>2. CASE EndLids
  <2>1. /\ stage = "lids" /\ UNCHANGED <<remote, opts, baseLid, portByLid>>
        /\ maxLid' = work.lid - LidStep
    BY <1>2, SMT DEF EndLids, GivenVars, LastLid
  <2>2. LidStep' = LidStep
    BY <2>1 DEF LidStep
  <2>3. LidStep \in Nat \ {0} /\ work.lid \in Nat /\ 1 .. work.lid - 1 \subseteq DOMAIN portByLid
    BY <2>1 DEF DesignLids, LidsInv, LidsBelow
  <2>4. TopLid' = work.lid - 1
    BY <2>1, <2>2, <2>3 DEF TopLid
  <2> QED
    BY <2>1, <2>3, <2>4 DEF LidsCabled
<1>3. CASE LidsFrozen
  BY <1>3 DEF LidsFrozen, LidsCabled, TopLid, LidStep
<1>4. CASE UNCHANGED vars
  BY <1>4 DEF vars, subnetVars, LidsCabled, TopLid, LidStep
<1> QED
  BY <1>1, <1>2, <1>3, <1>4, OthersKeepLids DEF Next, Design, Check, Done

\* So the LIDs that SubnMgtAssignLids gives lead to the ports that have them.
LEMMA DesignListed ==
  ASSUME DesignLids, LidsCabled, OneCable, opts.design, stage # "lids"
  PROVE  LidsListed
<1> PICK step \in Nat \ {0} : step = LidStep
  BY DEF DesignLids, LidsInv
<1>1. /\ remote \in Wirings /\ IsWiring(remote) /\ baseLid \in [Ports -> Nat]
      /\ LidsApart /\ Visited /\ LidsByNode
  BY CableFacts DEF DesignLids, LidsInv
<1>2. /\ \A p, q \in DOMAIN remote : p[1] = q[1] /\ p[1] \notin Switches => p = q
      /\ \A p \in DOMAIN remote : p \in Ports /\ Remote(p) = remote[p]
  BY <1>1, CableFacts DEF OneCable
<1>3. maxLid \in Nat /\ TopLid = maxLid + step - 1
  BY <1>1 DEF Visited, TopLid
<1>4. LoopLids = HopLids
  <2>1. \A l \in HopLids : l \in DOMAIN portByLid /\ portByLid[l] \in Ports
    BY <1>1 DEF Visited, ListedAt
  <2>2. NoPort \notin Ports
    <3>1. NoPort[1] \notin Nodes
      BY SubnetAssumption DEF NoPort, Nodes
    <3> QED
      BY <3>1, PortFacts
  <2>3. MinLid = 1
    BY DEF MinLid
  <2>4. \A l \in DOMAIN portByLid : l \in Nat \ {0}
    BY DEF LidsCabled
  <2>5. \A l \in LoopLids : l \in HopLids
    BY <1>3, <2>3, <2>4 DEF LoopLids, HopLids
  <2>6. \A l \in HopLids : l \in LoopLids
    BY <2>1, <2>2, <2>3 DEF LoopLids, HopLids
  <2> QED
    BY <2>5, <2>6
<1>5. ASSUME NEW l \in Nat
      PROVE  KnowsItsLids(l)
  <2> SUFFICES ASSUME NEW s \in Switches, NEW own, own = LidOfSwitch(s)
               PROVE  (own # 0 /\ own <= l /\ l < own + step) <=>
                        \E p \in PortsOf(s) : baseLid[p] # 0 /\ HasLid(p, l)
    BY DEF KnowsItsLids
  <2>1. \A p \in PortsOf(s) : baseLid[p] = own
    BY SwitchLid
  <2>2. s \in Nodes
    BY SubnetAssumption
  <2>3. PICK p0 : p0 \in PortsOf(s)
    BY <2>2, PortFacts
  <2>4. own \in Nat
    BY <1>1, <2>1, <2>2, <2>3, PortFacts
  <2>5. \A p \in PortsOf(s) : HasLid(p, l) <=> own <= l /\ l < own + step
    BY <2>1, <2>4 DEF HasLid
  <2> QED
    BY <2>1, <2>3, <2>5
<1>6. ASSUME NEW p \in DOMAIN remote, baseLid[p] # 0
      PROVE  baseLid[p] \in HopLids /\ p \in Ports /\ portByLid[baseLid[p]][1] = p[1]
  <2>1. p \in Ports
    BY <1>2
  <2>2. baseLid[p] \in HopLids
    BY <1>1, <1>6, <2>1 DEF Visited
  <2>3. p[1] = Home(baseLid[p])
    BY <2>1, <2>2, HomeFacts
  <2> QED
    BY <2>1, <2>2, <2>3 DEF Home
<1>7. ASSUME NEW p \in DOMAIN remote, baseLid[p] # 0, NEW i \in 0 .. step - 1
      PROVE  StartOf(baseLid[p] + i) = SwitchOf(p)
  <2> PICK l : l = baseLid[p] + i
    OBVIOUS
  <2>1. p \in Ports /\ baseLid[p] \in 1 .. maxLid
    BY <1>6, <1>7 DEF HopLids
  <2>2. l \in 1 .. TopLid /\ HasLid(p, l)
    BY <1>3, <2>1 DEF HasLid
  <2>3. l \in DOMAIN portByLid
    BY <2>2 DEF LidsCabled
  <2>4. portByLid[l][1] = p[1]
    BY <1>1, <1>7, <2>1, <2>2, <2>3 DEF LidsApart
  <2>5. CASE p[1] \in Switches
    BY <2>4, <2>5 DEF StartOf, SwitchOf
  <2>6. CASE p[1] \notin Switches
    <3>1. portByLid[l] \in DOMAIN remote
      BY <2>3, <2>4, <2>6 DEF LidsCabled
    <3>2. portByLid[l] = p
      BY <1>2, <2>4, <2>6, <3>1
    <3> QED
      BY <2>6, <3>2 DEF StartOf, SwitchOf
  <2> QED
    BY <2>5, <2>6
<1>8. ASSUME NEW p \in DOMAIN remote, baseLid[p] # 0
      PROVE  IsCaLid(baseLid[p]) <=> p[1] \notin Switches
  <2>1. baseLid[p] \in LoopLids
    BY <1>4, <1>6, <1>8
  <2>2. portByLid[baseLid[p]] # NoPort
    BY <2>1 DEF LoopLids
  <2> QED
    BY <1>6, <1>8, <2>2 DEF IsCaLid
<1>9. ASSUME NEW l \in LoopLids
      PROVE  Base(l) = l /\ \E p \in DOMAIN remote : baseLid[p] = l /\ baseLid[p] # 0
  <2>1. l \in HopLids /\ l # 0 /\ l \in DOMAIN portByLid
    BY <1>1, <1>4 DEF HopLids, Visited
  <2> PICK p : p = portByLid[l]
    OBVIOUS
  <2>2. p \in Ports /\ baseLid[p] = l
    BY <1>1, <2>1 DEF Visited, ListedAt
  <2>3. PICK q \in DOMAIN remote : q[1] = p[1]
    BY <2>1, <2>2 DEF LidsCabled
  <2>4. CASE p[1] \notin Switches
    BY <1>1, <2>1, <2>2, <2>4 DEF LidsByNode, Base
  <2>5. CASE p[1] \in Switches
    <3>1. q \in Ports /\ q \in PortsOf(p[1]) /\ p \in PortsOf(p[1])
      BY <1>2, <2>2, <2>3, PortFacts
    <3>2. baseLid[q] = baseLid[p]
      BY <1>1, <2>5, <3>1 DEF LidsByNode
    <3> QED
      BY <2>1, <2>2, <3>2 DEF Base
  <2> QED
    BY <2>4, <2>5
<1>10. ASSUME NEW p \in DOMAIN remote, NEW q \in DOMAIN remote, baseLid[p] # 0, baseLid[q] # 0
       PROVE  baseLid[p] = baseLid[q] <=> p[1] = q[1]
  <2>1. portByLid[baseLid[p]][1] = p[1] /\ portByLid[baseLid[q]][1] = q[1] /\ p \in Ports /\ q \in Ports
    BY <1>6, <1>10
  <2>2. ASSUME p[1] = q[1]
        PROVE  baseLid[p] = baseLid[q]
    <3>1. CASE p[1] \notin Switches
      BY <1>2, <2>2, <3>1
    <3>2. CASE p[1] \in Switches
      <4>1. p \in PortsOf(p[1]) /\ q \in PortsOf(p[1])
        BY <2>1, <2>2, PortFacts
      <4> QED
        BY <1>1, <3>2, <4>1 DEF LidsByNode
    <3> QED
      BY <3>1, <3>2
  <2> QED
    BY <2>1, <2>2
<1>11. \A p \in DOMAIN remote : baseLid[p] # 0 => baseLid[p] \in LoopLids
  BY <1>4, <1>6
<1>12. \A p, q \in Ports : baseLid[p] # 0 /\ baseLid[q] # 0 /\ HasLid(q, baseLid[p]) => p[1] = q[1]
  BY <1>1 DEF LidsApart
<1> QED
  BY <1>1, <1>5, <1>7, <1>8, <1>9, <1>10, <1>11, <1>12 DEF LidsListed

\* The base LIDs of the files are multiples of the number of LIDs that a port has.
FilesAligned == \A v \in Verifications, n \in Nodes : v.lid[n] % 2 ^ v.opts.lmc = 0

\* The last line with a LID is about a port that has it.
LEMMA LastFacts ==
  ASSUME NEW l, NEW with, with = {p \in Ports : baseLid[p] # 0 /\ HasLid(p, l)}
  PROVE  /\ with = {} => LastWithLid(l) = NoPort
         /\ with # {} => LastWithLid(l) \in with
<1> PICK S : S = {p[1] : p \in with}
  OBVIOUS
<1> PICK n : n = Max(S)
  OBVIOUS
<1> PICK T : T = {p[2] : p \in {q \in with : q[1] = n}}
  OBVIOUS
<1> PICK m : m = Max(T)
  OBVIOUS
<1>1. LastWithLid(l) = IF with = {} THEN NoPort ELSE <<n, m>>
  BY DEF LastWithLid
<1>2. ASSUME with # {}
      PROVE  <<n, m>> \in with
  <2>1. S \subseteq Nodes /\ S # {}
    BY <1>2, PortFacts
  <2>2. S \in SUBSET Nat /\ IsFiniteSet(S)
    <3>1. NumNodes \in Nat /\ \A x \in Nodes : x \in Nat /\ x <= NumNodes
      BY SubnetAssumption DEF Nodes
    <3>2. S \in SUBSET Nat /\ \A x \in S : x <= NumNodes
      BY ONLY <2>1, <3>1
    <3> QED
      BY <3>1, <3>2, FS_BoundedSetOfNaturals
  <2>3. n \in S
    BY ONLY <2>1, <2>2, n = Max(S), MaxFacts
  <2>4. n \in Nodes /\ NumPorts[n] \in Nat
    BY <2>1, <2>3, PortFacts
  <2>5. T \subseteq 1 .. NumPorts[n] /\ T # {}
    <3>1. \A p \in with : p[1] = n => p[2] \in 1 .. NumPorts[n]
      BY PortFacts
    <3>2. \E p \in with : p[1] = n
      BY <2>3
    <3> QED
      BY <3>1, <3>2
  <2>6. T \in SUBSET Nat /\ IsFiniteSet(T)
    <3> PICK N \in Nat : N = NumPorts[n]
      BY <2>4
    <3>1. \A x \in 1 .. N : x \in Nat /\ x <= N
      OBVIOUS
    <3>2. T \in SUBSET Nat /\ \A x \in T : x <= N
      BY ONLY <2>5, <3>1, N = NumPorts[n]
    <3> QED
      BY <3>2, FS_BoundedSetOfNaturals
  <2>7. m \in T
    BY ONLY <2>5, <2>6, m = Max(T), MaxFacts
  <2>8. PICK p \in with : p[1] = n /\ p[2] = m
    BY <2>7
  <2> QED
    BY <2>8, PortFacts
<1> QED
  BY <1>1, <1>2

\* There are finitely many ports.
LEMMA PortsFinite == IsFiniteSet(Ports)
<1>1. IsFiniteSet(Nodes)
  BY NodesFinite
<1>2. IsFiniteSet(1 .. 254)
  <2> PICK a \in Int, b \in Int : a = 1 /\ b = 254
    OBVIOUS
  <2>1. IsFiniteSet(a .. b)
    BY FS_Interval
  <2> QED
    BY <2>1
<1>3. IsFiniteSet(Nodes \X (1 .. 254))
  BY ONLY <1>1, <1>2, FS_Product
<1>4. ASSUME NEW p \in Ports
      PROVE  p \in Nodes \X (1 .. 254)
  <2>1. p[1] \in Nodes /\ p = <<p[1], p[2]>> /\ p[2] \in 1 .. NumPorts[p[1]]
    BY PortFacts
  <2>2. NumPorts[p[1]] \in 1 .. 254
    BY <2>1, SubnetAssumption
  <2>3. p[2] \in 1 .. 254
    BY <2>1, <2>2
  <2> QED
    BY <2>1, <2>3
<1> QED
  BY <1>3, <1>4, FS_Subset

\* The LIDs of good files lead to the ports that have them.
LEMMA FilesListed ==
  ASSUME FilesGood, FilesAligned, VerificationMode
  PROVE  LidsListed
<1> PICK step : step = LidStep
  OBVIOUS
<1>1. PICK v \in Verifications :
        /\ opts = v.opts /\ remote = v.remote
        /\ baseLid = [p \in Ports |-> IF p \in DOMAIN v.remote THEN v.lid[p[1]] ELSE 0]
  BY SMT DEF VerificationMode
<1>2. /\ stage = "seed" /\ portByLid = [l \in 1 .. maxLid |-> LastWithLid(l)]
      /\ maxLid = Max({baseLid[p] : p \in Ports}) + step - 1
  BY SMT DEF VerificationMode
<1>3. /\ LidsApart /\ step \in Nat \ {0} /\ baseLid \in [Ports -> Nat]
      /\ IsWiring(remote) /\ ~opts.design /\ DOMAIN remote \subseteq Ports
  <2>1. IsWiring(v.remote) /\ ~v.opts.design
    BY VerificationAssumption
  <2>2. IsWiring(remote) /\ ~opts.design
    BY <1>1, <2>1
  <2> QED
    BY <2>2, FilesRead DEF LidsInv, IsWiring
<1>4. \A p \in Ports : baseLid[p] # 0 =>
        p \in DOMAIN remote /\ baseLid[p] = v.lid[p[1]] /\ baseLid[p] % step = 0 /\ p[1] \in Nodes
  <2>1. step = 2 ^ v.opts.lmc
    BY <1>1 DEF LidStep
  <2> QED
    BY <1>1, <2>1, PortFacts DEF FilesAligned
<1>5. \A p \in DOMAIN remote : baseLid[p] = v.lid[p[1]]
  BY <1>1, <1>3
<1> PICK M : M = Max({baseLid[p] : p \in Ports})
  OBVIOUS
<1>6. M \in Nat /\ maxLid = M + step - 1 /\ \A p \in Ports : baseLid[p] <= M
  <2> PICK B : B = {baseLid[p] : p \in Ports}
    OBVIOUS
  <2>1. IsFiniteSet(Ports)
    BY PortsFinite
  <2>2. B \in SUBSET Nat /\ IsFiniteSet(B)
    <3>1. IsFiniteSet({baseLid[p] : p \in Ports})
      BY <2>1, ImageFinite
    <3> QED
      BY <1>3, <3>1
  <2>3. B # {}
    <3>1. 1 \in Nodes
      BY SubnetAssumption DEF Nodes
    <3>2. PICK p : p \in PortsOf(1)
      BY <3>1, PortFacts
    <3>3. p \in Ports
      BY <3>1, <3>2, PortFacts
    <3> QED
      BY <3>3
  <2>4. M \in B /\ \A y \in B : y <= M
    BY ONLY <2>2, <2>3, M = Max({baseLid[p] : p \in Ports}), B = {baseLid[p] : p \in Ports}, MaxFacts
  <2> QED
    BY <1>2, <2>2, <2>4
<1>7. DOMAIN portByLid = 1 .. maxLid /\ \A l \in 1 .. maxLid : portByLid[l] = LastWithLid(l)
  BY <1>2
<1>8. ASSUME NEW p \in Ports, NEW q \in Ports, baseLid[p] # 0, baseLid[q] # 0,
             NEW l \in Nat, HasLid(p, l), HasLid(q, l)
      PROVE  p = q \/ (p[1] = q[1] /\ p[1] \in Switches)
  <2>1. CASE baseLid[q] <= baseLid[p]
    <3>1. HasLid(q, baseLid[p])
      BY <1>3, <1>8, <2>1 DEF HasLid
    <3> QED
      BY <1>3, <1>8, <3>1 DEF LidsApart
  <2>2. CASE baseLid[p] <= baseLid[q]
    <3>1. HasLid(p, baseLid[q])
      BY <1>3, <1>8, <2>2 DEF HasLid
    <3> QED
      BY <1>3, <1>8, <3>1 DEF LidsApart
  <2> QED
    BY <1>3, <2>1, <2>2
<1>9. ASSUME NEW p \in Ports, baseLid[p] # 0, NEW l \in Nat, HasLid(p, l)
      PROVE  /\ l \in 1 .. maxLid /\ portByLid[l] \in DOMAIN remote /\ portByLid[l][1] = p[1]
             /\ p[1] \notin Switches => portByLid[l] = p
  <2>1. l \in 1 .. maxLid
    BY <1>3, <1>6, <1>9 DEF HasLid
  <2> PICK with : with = {q \in Ports : baseLid[q] # 0 /\ HasLid(q, l)}
    OBVIOUS
  <2>2. LastWithLid(l) \in with
    BY <1>9, LastFacts
  <2>3. /\ portByLid[l] \in Ports /\ baseLid[portByLid[l]] # 0 /\ HasLid(portByLid[l], l)
    BY <1>7, <2>1, <2>2
  <2> QED
    BY <1>4, <1>8, <1>9, <2>1, <2>3
<1>10. ASSUME NEW l \in LoopLids
       PROVE  portByLid[l] \in DOMAIN remote /\ baseLid[portByLid[l]] = l /\ l # 0
  <2>1. l \in 1 .. maxLid /\ portByLid[l] # NoPort /\ l % step = 0
    <3>1. l \in 1 .. maxLid /\ portByLid[l] # NoPort /\ (l - MinLid) % LidStep = 0
      BY <1>7 DEF LoopLids
    <3>2. MinLid = 0
      BY <1>3 DEF MinLid
    <3> QED
      BY <3>1, <3>2
  <2> PICK with : with = {q \in Ports : baseLid[q] # 0 /\ HasLid(q, l)}
    OBVIOUS
  <2>2. portByLid[l] = LastWithLid(l)
    BY <1>7, <2>1
  <2>3. LastWithLid(l) \in with
    BY <2>1, <2>2, LastFacts
  <2> PICK p : p = portByLid[l]
    OBVIOUS
  <2>4. p \in Ports /\ baseLid[p] # 0 /\ HasLid(p, l)
    BY <2>2, <2>3
  <2>5. p \in DOMAIN remote /\ baseLid[p] % step = 0 /\ baseLid[p] \in Nat
    BY <1>3, <1>4, <2>4
  <2>6. baseLid[p] <= l /\ l < baseLid[p] + step /\ l \in Nat
    BY <1>3, <2>1, <2>4, <2>5 DEF HasLid
  <2>7. l = baseLid[p]
    BY ONLY <1>3, <2>1, <2>5, <2>6, OneMultiple
  <2> QED
    BY <2>1, <2>5, <2>7
<1>11. ASSUME NEW l \in Nat
       PROVE  KnowsItsLids(l)
  <2> SUFFICES ASSUME NEW s \in Switches, NEW own, own = LidOfSwitch(s)
               PROVE  (own # 0 /\ own <= l /\ l < own + step) <=>
                        \E p \in PortsOf(s) : baseLid[p] # 0 /\ HasLid(p, l)
    BY DEF KnowsItsLids
  <2>1. s \in Nodes /\ PortsOf(s) # {} /\ \A p \in PortsOf(s) : p \in Ports /\ p[1] = s
    BY SubnetAssumption, PortFacts
  <2> PICK B : B = {baseLid[p] : p \in PortsOf(s)}
    OBVIOUS
  <2>2. B \in SUBSET Nat /\ B # {}
    BY <1>3, <2>1
  <2>3. IsFiniteSet(B)
    <3>1. B \subseteq {0, v.lid[s]}
      BY <1>4, <2>1
    <3>2. IsFiniteSet({0, v.lid[s]})
      <4>1. IsFiniteSet({0})
        BY FS_Singleton
      <4>2. IsFiniteSet({0} \cup {v.lid[s]})
        BY <4>1, FS_AddElement
      <4>3. {0} \cup {v.lid[s]} = {0, v.lid[s]}
        OBVIOUS
      <4> QED
        BY <4>2, <4>3
    <3> QED
      BY <3>1, <3>2, FS_Subset
  <2>4. own = Max(B)
    BY DEF LidOfSwitch
  <2>5. own \in B /\ \A y \in B : y <= own
    BY ONLY <2>2, <2>3, <2>4, MaxFacts
  <2>6. \A p \in PortsOf(s) : baseLid[p] # 0 => baseLid[p] = own
    <3> SUFFICES ASSUME NEW p \in PortsOf(s), baseLid[p] # 0
                 PROVE  baseLid[p] = own
      OBVIOUS
    <3>1. PICK q \in PortsOf(s) : own = baseLid[q]
      BY <2>5
    <3>2. baseLid[p] <= own /\ baseLid[p] \in Nat /\ own \in Nat
      BY <2>2, <2>5
    <3>3. own # 0
      BY <3>2
    <3>4. baseLid[p] = v.lid[s] /\ baseLid[q] = v.lid[s]
      BY <1>4, <2>1, <3>1, <3>3
    <3> QED
      BY <3>1, <3>4
  <2>7. own \in Nat
    BY <2>2, <2>5
  <2>8. \A p \in PortsOf(s) : baseLid[p] = own => (HasLid(p, l) <=> own <= l /\ l < own + step)
    BY <1>3, <2>7 DEF HasLid
  <2>9. PICK q \in PortsOf(s) : own = baseLid[q]
    BY <2>5
  <2> QED
    BY <2>6, <2>8, <2>9
<1>12. ASSUME NEW p \in DOMAIN remote, baseLid[p] # 0
       PROVE  /\ baseLid[p] \in LoopLids /\ (IsCaLid(baseLid[p]) <=> p[1] \notin Switches)
              /\ \A i \in 0 .. step - 1 : StartOf(baseLid[p] + i) = SwitchOf(p)
  <2> PICK b : b = baseLid[p]
    OBVIOUS
  <2>1. p \in Ports /\ b \in Nat /\ b # 0 /\ b % step = 0
    BY <1>3, <1>4, <1>12
  <2>2. HasLid(p, b) /\ \A i \in 0 .. step - 1 : HasLid(p, b + i) /\ b + i \in Nat
    BY <1>3, <2>1 DEF HasLid
  <2>3. b \in 1 .. maxLid /\ portByLid[b] \in DOMAIN remote /\ portByLid[b][1] = p[1]
    BY <1>9, <1>12, <2>1, <2>2
  <2>4. portByLid[b] # NoPort
    <3>1. NoPort[1] \notin Nodes
      BY SubnetAssumption DEF NoPort, Nodes
    <3> QED
      BY <1>3, <2>3, <3>1, PortFacts
  <2>5. b \in LoopLids
    <3>1. MinLid = 0 /\ b - 0 = b /\ b <= maxLid
      BY <1>3, <2>1, <2>3 DEF MinLid
    <3> QED
      BY <1>7, <2>1, <2>3, <2>4, <3>1 DEF LoopLids
  <2>6. IsCaLid(b) <=> p[1] \notin Switches
    BY <2>3, <2>4 DEF IsCaLid
  <2>7. ASSUME NEW i \in 0 .. step - 1
        PROVE  StartOf(b + i) = SwitchOf(p)
    <3>1. /\ portByLid[b + i][1] = p[1]
          /\ p[1] \notin Switches => portByLid[b + i] = p
      BY <1>9, <1>12, <2>1, <2>2
    <3> QED
      BY <3>1 DEF StartOf, SwitchOf
  <2> QED
    BY <2>5, <2>6, <2>7
<1>13. ASSUME NEW p \in DOMAIN remote, NEW q \in DOMAIN remote, baseLid[p] # 0, baseLid[q] # 0
       PROVE  baseLid[p] = baseLid[q] <=> p[1] = q[1]
  <2>1. p[1] = q[1] => baseLid[p] = baseLid[q]
    BY <1>5
  <2>2. ASSUME baseLid[p] = baseLid[q]
        PROVE  p[1] = q[1]
    <3>1. p \in Ports /\ q \in Ports /\ baseLid[p] \in Nat
      BY <1>3
    <3>2. HasLid(p, baseLid[p]) /\ HasLid(q, baseLid[p])
      BY <1>3, <2>2, <3>1 DEF HasLid
    <3> QED
      BY <1>8, <1>13, <3>1, <3>2
  <2> QED
    BY <2>1, <2>2
<1>14. \A l \in LoopLids : Base(l) = l /\ \E p \in DOMAIN remote : baseLid[p] = l /\ baseLid[p] # 0
  BY <1>10 DEF Base
<1>15. \A p, q \in Ports : baseLid[p] # 0 /\ baseLid[q] # 0 /\ HasLid(q, baseLid[p]) => p[1] = q[1]
  BY <1>3 DEF LidsApart
<1> QED
  BY <1>3, <1>11, <1>12, <1>13, <1>14, <1>15, Zenon DEF LidsListed

-----------------------------------------------------------------------------
(* What the checks of the routes find *)

\* A trace is the same as long as the fabric, the LIDs and the tables are.
LEMMA TraceFrozen ==
  ASSUME UNCHANGED <<remote, opts, baseLid, portByLid, maxLid, lft>>, NEW n, NEW l
  PROVE  Trace(n, l)' = Trace(n, l)
<1>1. \A m : NextNode(m, l)' = NextNode(m, l)
  <2> TAKE m
  <2>1. Entry(m, l)' = Entry(m, l)
    BY DEF Entry
  <2>2. LidOfSwitch(m)' = LidOfSwitch(m) /\ LidStep' = LidStep
    BY DEF LidOfSwitch, LidStep
  <2>3. \A q : Remote(q)' = Remote(q) /\ HasLid(q, l)' = HasLid(q, l)
    BY DEF Remote, HasLid, LidStep
  <2> QED
    BY Zenon DEF NextNode, Entry, Remote, HasLid, LidOfSwitch, LidStep
<1>2. [m \in Nodes \cup {Arrived, Lost} |-> IF m \in Nodes THEN NextNode(m, l)' ELSE m]
        = [m \in Nodes \cup {Arrived, Lost} |-> IF m \in Nodes THEN NextNode(m, l) ELSE m]
  BY <1>1
<1> QED
  BY <1>2, Zenon DEF Trace

\* So is what the checks find.
LEMMA RoutesFrozen ==
  ASSUME UNCHANGED <<remote, opts, baseLid, portByLid, maxLid, lft>>
  PROVE  /\ AllRouted(CaLids)' <=> AllRouted(CaLids)
         /\ AllRouted(LoopLids)' <=> AllRouted(LoopLids)
         /\ TooLong' <=> TooLong
         /\ RoutesFine' <=> RoutesFine
<1>1. LoopLids' = LoopLids /\ LidStep' = LidStep
  BY DEF LoopLids, LidStep, MinLid
<1>2. CaLids' = CaLids
  BY <1>1 DEF CaLids, IsCaLid
<1>3. \A l : StartOf(l)' = StartOf(l) /\ Base(l)' = Base(l)
  BY DEF StartOf, Base, Remote
<1>4. \A src, dst : Routed(src, dst)' = Routed(src, dst)
  <2> TAKE src, dst
  <2> PICK n : n = StartOf(src)
    OBVIOUS
  <2>1. StartOf(src)' = n
    BY <1>3
  <2>2. Trace(n, dst)' = Trace(n, dst)
    BY TraceFrozen
  <2>3. \A m : Entry(m, dst)' = Entry(m, dst)
    BY DEF Entry
  <2>4. Within(n, dst, MaxHops)' = Within(n, dst, MaxHops)
    BY <2>2, <2>3, Zenon DEF Within
  <2>5. Within(StartOf(src), dst, MaxHops)' = Within(n, dst, MaxHops)'
    BY <2>1, Zenon DEF Within, Trace
  <2> QED
    BY <2>1, <2>4, <2>5, Zenon DEF Routed
<1>5. \A C : RoutesOf(C)' = RoutesOf(C)
  BY <1>1, <1>3, SMT DEF RoutesOf
<1>6. \A C : AllRouted(C)' <=> AllRouted(C)
  BY <1>4, <1>5, Zenon DEF AllRouted
<1> PICK cas, all : cas = CaLids /\ all = LoopLids
  OBVIOUS
<1>7. CaLids' = cas /\ LoopLids' = all
  BY <1>1, <1>2
<1>8. RoutesOf(CaLids)' = RoutesOf(cas)' /\ RoutesOf(LoopLids)' = RoutesOf(all)'
  BY <1>7, SMT DEF RoutesOf
<1>9. (AllRouted(CaLids)' <=> AllRouted(cas)') /\ (AllRouted(LoopLids)' <=> AllRouted(all)')
  BY <1>8, Zenon DEF AllRouted
<1>10. TooLong' <=> TooLong
  <2>1. ASSUME NEW i, NEW j
        PROVE  Trace(StartOf(Base(i)), Base(j))' = Trace(StartOf(Base(i)), Base(j))
    <3> PICK b, n, l : b = Base(i) /\ n = StartOf(b) /\ l = Base(j)
      OBVIOUS
    <3>1. Base(i)' = b /\ StartOf(b)' = n /\ Base(j)' = l
      BY <1>3
    <3>2. StartOf(Base(i))' = StartOf(b)'
      BY <3>1, Zenon DEF StartOf
    <3>3. Trace(n, l)' = Trace(n, l)
      BY TraceFrozen
    <3>4. \A m : NextNode(m, Base(j))' = NextNode(m, l)'
      BY <3>1, Zenon DEF NextNode, Entry, HasLid
    <3> PICK f, g : /\ f = [m \in Nodes \cup {Arrived, Lost} |-> IF m \in Nodes THEN NextNode(m, l)' ELSE m]
                    /\ g = [m \in Nodes \cup {Arrived, Lost} |-> IF m \in Nodes THEN NextNode(m, Base(j))' ELSE m]
      OBVIOUS
    <3>5. f = g
      BY <3>4
    <3>6. Trace(n, l)' = [k \in 0 .. MaxHops + 1 |-> Iterate(f, n, k)]
      BY Zenon DEF Trace
    <3>7. Trace(StartOf(Base(i)), Base(j))' = [k \in 0 .. MaxHops + 1 |-> Iterate(g, StartOf(Base(i))', k)]
      BY Zenon DEF Trace
    <3>8. Trace(StartOf(Base(i)), Base(j))' = Trace(n, l)'
      BY <3>1, <3>2, <3>5, <3>6, <3>7, Zenon
    <3> QED
      BY <3>3, <3>8
  <2>2. TooLong => TooLong'
    <3> SUFFICES ASSUME LidStep > 1, NEW i \in CaLids, NEW j \in CaLids, i # j,
                        Trace(StartOf(Base(i)), Base(j))[ComparedSwitches] \in Nodes
                 PROVE  TooLong'
      BY DEF TooLong
    <3>1. LidStep' > 1 /\ i \in CaLids' /\ j \in CaLids'
      BY <1>1, <1>2
    <3>2. Trace(StartOf(Base(i)), Base(j))'[ComparedSwitches] \in Nodes
      BY <2>1
    <3> QED
      BY <3>1, <3>2, Zenon DEF TooLong
  <2>3. TooLong' => TooLong
    <3> SUFFICES ASSUME TooLong' PROVE TooLong
      OBVIOUS
    <3>1. PICK i \in CaLids', j \in CaLids' :
            LidStep' > 1 /\ i # j /\ Trace(StartOf(Base(i)), Base(j))'[ComparedSwitches] \in Nodes
      BY Zenon DEF TooLong
    <3>2. LidStep > 1 /\ i \in CaLids /\ j \in CaLids
      BY <1>1, <1>2, <3>1
    <3>3. Trace(StartOf(Base(i)), Base(j))[ComparedSwitches] \in Nodes
      BY <2>1, <3>1
    <3> QED
      BY <3>1, <3>2, <3>3 DEF TooLong
  <2> QED
    BY <2>2, <2>3
<1> QED
  BY <1>6, <1>9, <1>10, Zenon DEF RoutesFine

\* The list of LIDs stays good as long as the cables and the LIDs are the same.
LEMMA ListedFrozen ==
  ASSUME LidsListed, UNCHANGED <<remote, opts, baseLid, portByLid, maxLid>>
  PROVE  LidsListed'
<1>1. LidStep' = LidStep /\ LoopLids' = LoopLids
  BY DEF LidStep, LoopLids, MinLid
<1>2. \A p, l : HasLid(p, l)' = HasLid(p, l) /\ IsCaLid(l)' = IsCaLid(l)
  BY DEF HasLid, LidStep, IsCaLid
<1>3. \A p : SwitchOf(p)' = SwitchOf(p) /\ StartOf(p)' = StartOf(p) /\ Base(p)' = Base(p)
  BY DEF SwitchOf, StartOf, Base, Remote
<1>4. \A l : KnowsItsLids(l)' <=> KnowsItsLids(l)
  BY Zenon DEF KnowsItsLids, LidOfSwitch, HasLid, LidStep
<1>5. \A l \in Nat : KnowsItsLids(l)'
  BY <1>4 DEF LidsListed
<1>6. \A p \in DOMAIN remote : baseLid[p] # 0 =>
        /\ baseLid[p] \in LoopLids /\ (IsCaLid(baseLid[p]) <=> p[1] \notin Switches)
        /\ \A i \in 0 .. LidStep - 1 : StartOf(baseLid[p] + i) = SwitchOf(p)
  BY DEF LidsListed
<1>7. \A p, q \in Ports : baseLid[p] # 0 /\ baseLid[q] # 0 /\ HasLid(q, baseLid[p]) => p[1] = q[1]
  BY DEF LidsListed
<1>8. \A p, q \in Ports :
        baseLid'[p] # 0 /\ baseLid'[q] # 0 /\ HasLid(q, baseLid[p])' => p[1] = q[1]
  BY <1>1, <1>7 DEF HasLid
<1> QED
  BY <1>1, <1>2, <1>3, <1>5, <1>6, <1>8 DEF LidsListed

\* The checks of the routes are done.
LaterStages == {"groups", "report", "graph", "loops", "exit"}

\* What they found is what there is to find.
RoutesTold ==
  /\ stage \notin LaterStages => failures = {}
  /\ stage = "verifyAll" => opts.allPaths /\ AllRouted(CaLids) /\ ~TooLong
  /\ stage \in LaterStages => (~Found({"ca routes", "all routes"}) <=> RoutesFine)

\* The later checks find other things.
LEMMA OtherFaults ==
  ASSUME NEW what, NEW g, what \notin {"ca routes", "all routes"},
         UNCHANGED failures \/ failures' = failures \cup {<<what, g>>}
  PROVE  Found({"ca routes", "all routes"})' <=> Found({"ca routes", "all routes"})
<1>1. CASE UNCHANGED failures
  BY <1>1 DEF Found
<1>2. CASE failures' = failures \cup {<<what, g>>}
  <2> PICK f : f = <<what, g>>
    OBVIOUS
  <2>1. f[1] \notin {"ca routes", "all routes"}
    OBVIOUS
  <2>2. failures' = failures \cup {f}
    BY <1>2
  <2> QED
    BY <2>1, <2>2 DEF Found
<1> QED
  BY <1>1, <1>2

\* What no check changes.
LEMMA ChecksKeep ==
  CheckNext => UNCHANGED <<remote, opts, baseLid, portByLid, maxLid, lft, mft>>
<1> SUFFICES ASSUME CheckNext
             PROVE  UNCHANGED <<remote, opts, baseLid, portByLid, maxLid, lft, mft>>
  OBVIOUS
<1>1. LidsFrozen
  BY OthersKeepLids
<1>2. StartGroup \/ VisitMember => UNCHANGED <<lft, mft>>
  BY GroupSteps, Zenon DEF CheckGiven
<1>3. ReportNonUpDown => UNCHANGED <<lft, mft>>
  BY ZenonT(60) DEF ReportNonUpDown, CheckGiven
<1>4. VerifyAllCaToCaRoutes \/ CountPastHops \/ VerifyAllRoutes \/ EndGroup => UNCHANGED <<lft, mft>>
  BY ZenonT(60) DEF VerifyAllCaToCaRoutes, CountPastHops, VerifyAllRoutes, EndGroup, CheckGiven
<1>5. EndGroups \/ BuildGraph \/ StartLoopSearch => UNCHANGED <<lft, mft>>
  BY ZenonT(60) DEF EndGroups, BuildGraph, StartLoopSearch, CheckGiven
<1>6. FollowDependency \/ CloseChannel => UNCHANGED <<lft, mft>>
  BY ZenonT(60) DEF FollowDependency, CloseChannel, CheckGiven
<1> QED
  BY <1>1, <1>2, <1>3, <1>4, <1>5, <1>6 DEF CheckNext, LidsFrozen

\* Design mode is over when the checks begin.
LEMMA DesignStages ==
  DesignNext => stage \notin LaterStages /\ stage' \notin LaterStages /\ stage' # "verifyAll"
<1> SUFFICES ASSUME DesignNext
             PROVE  stage \notin LaterStages /\ stage' \notin LaterStages /\ stage' # "verifyAll"
  OBVIOUS
<1>1. AssignLids => stage = "lids" /\ stage' = "lids"
  BY ZenonT(60) DEF AssignLids
<1>2. EndLids => stage = "lids" /\ stage' = "seed"
  BY ZenonT(60) DEF EndLids
<1>3. SeedHops => stage = "seed" /\ (stage' = stage \/ stage' = "relax")
  BY ZenonT(60) DEF SeedHops
<1>4. RelaxHops => stage = "relax" /\ (stage' = stage \/ stage' = "relax" \/ stage' = "reach")
  BY ZenonT(60) DEF RelaxHops
<1>5. CheckReach => stage = "reach" /\ stage' \in {"failed", "check", "roots", "route"}
  BY SMT DEF CheckReach
<1>6. FindRoots => stage = "roots" /\ (stage' = "route" \/ stage' = "updn")
  BY ZenonT(60) DEF FindRoots
<1>7. StartUpDn => stage = "updn" /\ (stage' = "failed" \/ stage' = stage)
  BY ZenonT(60) DEF StartUpDn
<1>8. SpreadUpDn => stage = "updn" /\ stage' = stage
  BY ZenonT(60) DEF SpreadUpDn
<1>9. EndUpDn => stage = "updn" /\ (stage' = stage \/ stage' = "route")
  BY ZenonT(60) DEF EndUpDn
<1>10. RouteLid => stage = "route" /\ (stage' = "failed" \/ stage' = "check" \/ stage' = stage)
  BY ZenonT(60) DEF RouteLid
<1>11. CountPastPorts => stage = "route" /\ stage' = "crashed"
  BY ZenonT(60) DEF CountPastPorts
<1> QED
  BY <1>1, <1>2, <1>3, <1>4, <1>5, <1>6, <1>7, <1>8, <1>9, <1>10, <1>11 DEF DesignNext, LaterStages

\* The last checks name no group.
LEMMA LastChecks ==
  /\ ReportNonUpDown => stage = "report" /\ stage' = "exit"
  /\ BuildGraph => stage = "graph" /\ stage' \in {"exit", "loops"}
  /\ StartLoopSearch \/ FollowDependency \/ CloseChannel => stage = "loops" /\ stage' \in {"exit", "loops"}
  /\ ReportNonUpDown \/ BuildGraph \/ StartLoopSearch \/ FollowDependency \/ CloseChannel =>
       \E what \in {"updown", "graph", "loop"} :
         UNCHANGED failures \/ failures' = failures \cup {<<what, 0>>}
<1>1. ASSUME ReportNonUpDown
      PROVE  /\ stage = "report" /\ stage' = "exit"
             /\ UNCHANGED failures \/ failures' = failures \cup {<<"updown", 0>>}
  BY <1>1, ZenonT(60) DEF ReportNonUpDown, Exit
<1>2. ASSUME BuildGraph
      PROVE  /\ stage = "graph" /\ (stage' = "exit" \/ stage' = "loops")
             /\ UNCHANGED failures \/ failures' = failures \cup {<<"graph", 0>>}
  BY <1>2, ZenonT(60) DEF BuildGraph, Exit
<1>3. ASSUME StartLoopSearch \/ FollowDependency \/ CloseChannel
      PROVE  /\ stage = "loops" /\ (stage' = "exit" \/ stage' = "loops")
             /\ UNCHANGED failures \/ failures' = failures \cup {<<"loop", 0>>}
  BY <1>3 DEF StartLoopSearch, FollowDependency, CloseChannel, Exit
<1> QED
  BY <1>1, <1>2, <1>3

\* Every step keeps this.
LEMMA ToldStep ==
  ASSUME RoutesTold, [Next \/ Done]_vars
  PROVE  RoutesTold'
<1>1. ASSUME CheckNext
      PROVE  UNCHANGED <<remote, opts, baseLid, portByLid, maxLid, lft>>
  BY <1>1, ChecksKeep
<1>2. CheckNext => /\ AllRouted(CaLids)' <=> AllRouted(CaLids)
                   /\ AllRouted(LoopLids)' <=> AllRouted(LoopLids)
                   /\ TooLong' <=> TooLong
                   /\ RoutesFine' <=> RoutesFine
  BY <1>1, RoutesFrozen
<1>3. ASSUME CheckNext, stage \in LaterStages, stage' \in LaterStages,
             NEW what, NEW g, what \notin {"ca routes", "all routes"},
             UNCHANGED failures \/ failures' = failures \cup {<<what, g>>}
      PROVE  RoutesTold'
  <2>1. Found({"ca routes", "all routes"})' <=> Found({"ca routes", "all routes"})
    BY <1>3, OtherFaults
  <2> QED
    BY <1>2, <1>3, <2>1 DEF RoutesTold, LaterStages
<1>4. CASE VerifyAllCaToCaRoutes
  <2>1. /\ stage = "check" /\ failures = {}
        /\ IF ~AllRouted(CaLids) \/ TooLong THEN stage' = "exit" /\ failures' = failures \cup {<<"ca routes", 0>>}
           ELSE stage' = (IF opts.allPaths THEN "verifyAll" ELSE "groups") /\ UNCHANGED failures
    BY <1>4 DEF VerifyAllCaToCaRoutes, Exit, RoutesTold, LaterStages
  <2>2. opts' = opts /\ CheckNext
    BY <1>1, <1>4 DEF CheckNext
  <2>3. CASE ~AllRouted(CaLids) \/ TooLong
    <3>1. stage' = "exit" /\ failures' = {<<"ca routes", 0>>}
      BY <2>1, <2>3
    <3>2. Found({"ca routes", "all routes"})'
      BY <3>1 DEF Found
    <3>3. ~RoutesFine'
      BY <1>2, <2>2, <2>3 DEF RoutesFine
    <3> QED
      BY <3>1, <3>2, <3>3 DEF RoutesTold, LaterStages
  <2>4. CASE AllRouted(CaLids) /\ ~TooLong /\ opts.allPaths
    <3>1. stage' = "verifyAll" /\ failures' = {}
      BY <2>1, <2>4
    <3>2. opts'.allPaths /\ AllRouted(CaLids)' /\ ~TooLong'
      BY <1>2, <2>2, <2>4
    <3> QED
      BY <3>1, <3>2 DEF RoutesTold, LaterStages
  <2>5. CASE AllRouted(CaLids) /\ ~TooLong /\ ~opts.allPaths
    <3>1. stage' = "groups" /\ failures' = {}
      BY <2>1, <2>5
    <3>2. ~Found({"ca routes", "all routes"})'
      BY <3>1 DEF Found
    <3>3. RoutesFine'
      BY <1>2, <2>2, <2>5 DEF RoutesFine
    <3> QED
      BY <3>1, <3>2, <3>3 DEF RoutesTold, LaterStages
  <2> QED
    BY <2>3, <2>4, <2>5
<1>5. CASE VerifyAllRoutes
  <2>1. /\ stage = "verifyAll" /\ failures = {} /\ opts.allPaths /\ AllRouted(CaLids) /\ ~TooLong
        /\ IF AllRouted(LoopLids) THEN stage' = "groups" /\ UNCHANGED failures
           ELSE stage' = "exit" /\ failures' = failures \cup {<<"all routes", 0>>}
    BY <1>5 DEF VerifyAllRoutes, Exit, RoutesTold, LaterStages
  <2>2. CheckNext /\ (RoutesFine <=> AllRouted(LoopLids))
    BY <1>5, <2>1 DEF CheckNext, RoutesFine
  <2>3. CASE AllRouted(LoopLids)
    <3>1. stage' = "groups" /\ failures' = {}
      BY <2>1, <2>3
    <3>2. ~Found({"ca routes", "all routes"})'
      BY <3>1 DEF Found
    <3> QED
      BY <1>2, <2>2, <2>3, <3>1, <3>2 DEF RoutesTold, LaterStages
  <2>4. CASE ~AllRouted(LoopLids)
    <3>1. stage' = "exit" /\ failures' = {<<"all routes", 0>>}
      BY <2>1, <2>4
    <3>2. Found({"ca routes", "all routes"})'
      BY <3>1 DEF Found
    <3> QED
      BY <1>2, <2>2, <2>4, <3>1, <3>2 DEF RoutesTold, LaterStages
  <2> QED
    BY <2>3, <2>4
<1>6. CASE StartGroup \/ VisitMember
  <2>1. stage = "groups" /\ UNCHANGED <<stage, failures>> /\ CheckNext
    BY <1>6, GroupSteps DEF CheckNext
  <2>2. "group" \notin {"ca routes", "all routes"}
    OBVIOUS
  <2> QED
    BY <1>3, <2>1, <2>2 DEF LaterStages
<1>7. CASE EndGroup
  <2>1. stage = "groups" /\ UNCHANGED stage /\ CheckNext
    BY <1>7 DEF EndGroup, CheckNext
  <2>2. UNCHANGED failures \/ failures' = failures \cup {<<"group", Group>>}
    <3>1. EndGroup => failures' = failures \cup {} \/ failures' = failures \cup {<<"group", Group>>}
      BY ZenonT(60) DEF EndGroup
    <3> QED
      BY <1>7, <3>1
  <2>3. "group" \notin {"ca routes", "all routes"}
    OBVIOUS
  <2> QED
    BY <1>3, <2>1, <2>2, <2>3 DEF LaterStages
<1>8. CASE EndGroups
  <2>1. stage = "groups" /\ stage' \in {"exit", "report", "graph"} /\ UNCHANGED failures /\ CheckNext
    BY <1>8 DEF EndGroups, CheckNext
  <2>2. "group" \notin {"ca routes", "all routes"}
    OBVIOUS
  <2> QED
    BY <1>3, <2>1, <2>2 DEF LaterStages
<1>9. CASE ReportNonUpDown \/ BuildGraph \/ StartLoopSearch \/ FollowDependency \/ CloseChannel
  <2>1. /\ CheckNext /\ stage \in LaterStages /\ stage' \in LaterStages
        /\ \E what \in {"updown", "graph", "loop"} :
             UNCHANGED failures \/ failures' = failures \cup {<<what, 0>>}
    BY <1>9, LastChecks DEF CheckNext, LaterStages
  <2>2. \A what \in {"updown", "graph", "loop"} : what \notin {"ca routes", "all routes"}
    OBVIOUS
  <2> QED
    BY <1>3, <2>1, <2>2
<1>10. ASSUME DesignNext, UNCHANGED failures
       PROVE  RoutesTold'
  BY <1>10, DesignStages DEF RoutesTold
<1>12. CASE CountPastHops
  <2>1. stage = "check" /\ stage' = "crashed" /\ UNCHANGED failures
    BY <1>12, ZenonT(60) DEF CountPastHops
  <2> QED
    BY <2>1 DEF RoutesTold, LaterStages
<1>11. CASE UNCHANGED vars
  <2>1. UNCHANGED <<remote, opts, baseLid, portByLid, maxLid, lft, stage, failures>>
    BY <1>11 DEF vars, subnetVars
  <2>2. Found({"ca routes", "all routes"})' <=> Found({"ca routes", "all routes"})
    BY <2>1 DEF Found
  <2> QED
    BY <2>1, <2>2, RoutesFrozen DEF RoutesTold
<1> QED
  BY <1>4, <1>5, <1>6, <1>7, <1>8, <1>9, <1>10, <1>11, <1>12
  DEF Next, Design, Check, CheckNext, Done

\* SubnMgtVerifyAllCaToCaRoutes and SubnMgtVerifyAllRoutes find fault exactly when some
\* packets do not arrive over as many cables as a trace follows, although they trace only
\* one LID of the source with each LID of the destination, or when ports have several LIDs
\* and a route between first LIDs is too long to be compared: for any cabling, any tables
\* and any LIDs that no two ports share and that begin, as those of InfiniBand do, at a
\* multiple of the number of LIDs of a port.
THEOREM VerdictCorrect ==
  ASSUME OneCable, FilesGood, FilesAligned
  PROVE  Spec => []RoutesVerdict
<1> DEFINE Inv == /\ opts.design => DesignLids /\ LidsCabled
                  /\ ~opts.design => stage # "lids" /\ LidsListed
                  /\ RoutesTold
<1>1. Init => Inv
  <2> SUFFICES ASSUME Init
               PROVE  Inv
    OBVIOUS
  <2>1. failures = {} /\ stage \in {"lids", "seed"}
    BY SMT DEF Init, DesignMode, DesignInit, VerificationMode
  <2>2. RoutesTold
    BY <2>1 DEF RoutesTold, LaterStages
  <2>3. CASE DesignMode
    <3>1. opts.design /\ stage = "lids" /\ portByLid = <<>> /\ baseLid = [p \in Ports |-> 0]
      BY <2>3, DesignAssumption, SMT DEF DesignMode, DesignInit
    <3>2. LidsCabled
      BY <3>1 DEF LidsCabled
    <3> QED
      BY <2>2, <2>3, <3>1, <3>2, VisitsBegin
  <2>4. CASE VerificationMode
    <3>1. ~opts.design /\ stage # "lids"
      BY <2>4, VerificationAssumption, SMT DEF VerificationMode
    <3> QED
      BY <2>2, <2>4, <3>1, FilesListed
  <2> QED
    BY <2>3, <2>4 DEF Init
<1>2. Inv /\ [Next \/ Done]_vars => Inv'
  <2> SUFFICES ASSUME Inv, [Next \/ Done]_vars
               PROVE  Inv'
    OBVIOUS
  <2>1. opts' = opts /\ RoutesTold'
    BY OptionsKept, ToldStep
  <2>2. CASE opts.design
    BY <2>1, <2>2, DesignLidsStep, CabledStep
  <2>3. CASE ~opts.design
    <3>1. ~AssignLids /\ ~EndLids
      BY <2>3 DEF AssignLids, EndLids
    <3>2. UNCHANGED <<remote, opts, baseLid, portByLid, maxLid>> /\ stage' # "lids"
      BY <2>3, <3>1, OthersKeepLids DEF Next, Design, Check, Done, LidsFrozen, vars, subnetVars
    <3> QED
      BY <2>1, <2>3, <3>2, ListedFrozen
  <2> QED
    BY <2>2, <2>3
<1>3. Inv => RoutesVerdict
  <2> SUFFICES ASSUME Inv, stage = "exit"
               PROVE  ~Found({"ca routes", "all routes"}) <=> AllDelivered(Sources) /\ AllCompared
    BY DEF RoutesVerdict, AllDelivered, AllCompared
  <2>1. LidsListed
    BY DesignListed
  <2>2. ~Found({"ca routes", "all routes"}) <=> RoutesFine
    BY DEF RoutesTold, LaterStages
  <2> QED
    BY <2>1, <2>2, RoutesFineTell
<1> QED
  BY <1>1, <1>2, <1>3, PTL DEF Spec

-----------------------------------------------------------------------------
(* Queues *)

\* What FarEnds lists, each port once.
LEMMA FarEndsEach ==
  ASSUME IsWiring(remote), NEW n \in Nodes, NEW is \in SUBSET (1 .. NumPorts[n]),
         \A i \in is : <<n, i>> \in DOMAIN remote
  PROVE  /\ FarEnds(n, is) \in Seq(DOMAIN remote) /\ IsInjective(FarEnds(n, is))
         /\ \A q : Contains(FarEnds(n, is), q) <=> \E i \in is : q = remote[<<n, i>>]
<1>1. PICK N \in Nat : N = NumPorts[n]
  BY SubnetAssumption
<1> PICK D, T : D = DOMAIN remote /\ T = Seq(D)
  OBVIOUS
<1>2. \A i \in is : Remote(<<n, i>>) = remote[<<n, i>>] /\ Remote(<<n, i>>) \in D
  BY DEF Remote, IsWiring
<1>3. \A i \in is : \A j \in is : remote[<<n, i>>] = remote[<<n, j>>] => i = j
  <2> SUFFICES ASSUME NEW i \in is, NEW j \in is, remote[<<n, i>>] = remote[<<n, j>>]
               PROVE  i = j
    OBVIOUS
  <2>1. <<n, i>> = <<n, j>>
    BY DEF IsWiring
  <2> QED
    BY <2>1
<1> PICK a : a = CHOOSE b : EndsUpTo(n, is, b)
  OBVIOUS
<1>4. EndsUpTo(n, is, a)
  <2>1. \E b : EndsUpTo(n, is, b)
    BY <1>1, <1>2, EndsExist
  <2> QED
    BY <2>1
<1>5. FarEnds(n, is) = a[N]
  BY <1>1, Zenon DEF FarEnds, OverPorts, EndsUpTo
<1>6. \A k \in 0 .. N : a[k] = IF k = 0 THEN <<>>
                             ELSE IF k \in is THEN Append(a[k - 1], Remote(<<n, k>>)) ELSE a[k - 1]
  BY ONLY <1>1, <1>4, Zenon DEF EndsUpTo
<1> DEFINE Good(k, s) == /\ s \in T /\ IsInjective(s)
                         /\ \A q : Contains(s, q) <=> \E i \in is : i <= k /\ q = remote[<<n, i>>]
           S == {k \in 0 .. N : Good(k, a[k])}
<1>7. 0 \in S
  <2>1. 0 \in 0 .. N
    OBVIOUS
  <2>2. a[0] = <<>>
    BY ONLY <1>6, <2>1
  <2>3. Good(0, <<>>)
    <3>1. <<>> \in T /\ IsInjective(<<>>)
      BY DEF IsInjective
    <3>2. \A q : ~Contains(<<>>, q)
      BY DEF Contains
    <3>3. \A i \in is : ~(i <= 0)
      BY <1>1
    <3> QED
      BY <3>1, <3>2, <3>3
  <2> QED
    BY <2>1, <2>2, <2>3
<1>8. ASSUME NEW k \in 0 .. N - 1, k \in S
      PROVE  k + 1 \in S
  <2> PICK m \in Nat : m = k + 1
    OBVIOUS
  <2>1. m \in 1 .. N /\ m - 1 = k /\ m \in 0 .. N /\ m # 0
    BY <1>1
  <2> PICK s : s = a[k]
    OBVIOUS
  <2>2. Good(k, s)
    BY <1>8
  <2>3. CASE m \in is
    <3> PICK e \in D : e = remote[<<n, m>>] /\ e = Remote(<<n, m>>)
      BY <1>2, <2>3
    <3>1. a[m] = Append(s, e)
      BY <1>6, <2>1, <2>3
    <3>2. s \in Seq(D) /\ IsInjective(s)
      BY <2>2
    <3>3. ~Contains(s, e)
      <4> SUFFICES ASSUME NEW i \in is, i <= k, e = remote[<<n, i>>]
                   PROVE  FALSE
        BY <2>2
      <4>1. i = m
        BY <1>3, <2>3
      <4> QED
        BY <2>1, <4>1
    <3>4. Append(s, e) \in Seq(D) /\ IsInjective(Append(s, e))
      BY <3>2, <3>3, AppendInjectiveSeq
    <3>5. \A q : Contains(Append(s, e), q) <=> Contains(s, q) \/ e = q
      BY <3>2, AppendContains
    <3>6. \A i \in is : i <= m <=> i <= k \/ i = m
      BY <1>1, <2>1
    <3>7. \A q : Contains(s, q) <=> \E i \in is : i <= k /\ q = remote[<<n, i>>]
      BY <2>2
    <3>8. \A q : Contains(Append(s, e), q) <=> \E i \in is : i <= m /\ q = remote[<<n, i>>]
      BY <2>3, <3>5, <3>6, <3>7
    <3>9. Good(m, Append(s, e))
      BY <3>4, <3>8
    <3> QED
      BY <2>1, <3>1, <3>9
  <2>4. CASE m \notin is
    <3>1. a[m] = s
      BY <1>6, <2>1, <2>4
    <3>2. \A i \in is : i <= m <=> i <= k
      BY <1>1, <2>1, <2>4
    <3>3. Good(m, s)
      BY <2>2, <3>2
    <3> QED
      BY <2>1, <3>1, <3>3
  <2> QED
    BY <2>3, <2>4
<1>9. N \in S
  <2> HIDE DEF S
  <2>1. \A k \in 0 .. N : k \in S
    BY ONLY N \in Nat, <1>7, <1>8, BoundedInduction
  <2> QED
    BY <2>1
<1>10. Good(N, a[N])
  BY <1>9
<1>11. \A i \in is : i <= N
  BY <1>1
<1>12. a[N] \in Seq(DOMAIN remote) /\ IsInjective(a[N])
  BY <1>10
<1>13. \A q : Contains(a[N], q) <=> \E i \in is : q = remote[<<n, i>>]
  BY <1>10, <1>11
<1> QED
  BY ONLY <1>5, <1>12, <1>13

\* What is in q if it is s without its head and with u at its end.
Moved(P, s, u, q) ==
  /\ q \in Seq(P) /\ Head(s) \in P /\ Contains(s, Head(s))
  /\ \A x : Contains(q, x) <=> Contains(Tail(s), x) \/ Contains(u, x)
  /\ \A x : Contains(s, x) <=> x = Head(s) \/ Contains(Tail(s), x)
  /\ IsInjective(s) => ~Contains(Tail(s), Head(s))
  /\ IsInjective(s) /\ IsInjective(u) /\ (\A x : ~Contains(Tail(s), x) \/ ~Contains(u, x))
       => IsInjective(q)

\* The elements of a queue that loses its head and gets more at its end.
LEMMA QueueElements ==
  ASSUME NEW P, NEW s \in Seq(P), s # <<>>, NEW u \in Seq(P), NEW q, q = Tail(s) \o u
  PROVE  Moved(P, s, u, q)
<1> PICK t : t = Tail(s)
  OBVIOUS
<1>1. /\ t \in Seq(P) /\ Len(t) = Len(s) - 1 /\ Len(s) \in Nat /\ Len(s) > 0
      /\ \A k \in 1 .. Len(s) - 1 : t[k] = s[k + 1]
      /\ Head(s) = s[1] /\ s[1] \in P
  OBVIOUS
<1>2. /\ q \in Seq(P) /\ Len(q) = Len(t) + Len(u) /\ Len(u) \in Nat /\ Len(t) \in Nat
      /\ \A k \in 1 .. Len(t) + Len(u) : q[k] = IF k <= Len(t) THEN t[k] ELSE u[k - Len(t)]
  BY <1>1, ConcatProperties
<1> PICK L, M, N \in Nat : L = Len(s) /\ M = Len(t) /\ N = Len(u)
  BY <1>1, <1>2
<1>3. /\ \A x : Contains(s, x) <=> \E k \in 1 .. L : s[k] = x
      /\ \A x : Contains(t, x) <=> \E k \in 1 .. M : t[k] = x
      /\ \A x : Contains(u, x) <=> \E k \in 1 .. N : u[k] = x
      /\ \A x : Contains(q, x) <=> \E k \in 1 .. M + N : q[k] = x
  BY <1>2 DEF Contains
<1>4. /\ DOMAIN s = 1 .. L /\ DOMAIN u = 1 .. N /\ DOMAIN q = 1 .. M + N
  BY <1>2
<1>5. ASSUME NEW x
      PROVE  Contains(q, x) <=> Contains(t, x) \/ Contains(u, x)
  <2>1. ASSUME NEW k \in 1 .. M + N, q[k] = x
        PROVE  Contains(t, x) \/ Contains(u, x)
    <3>1. CASE k <= M
      BY <1>2, <1>3, <2>1, <3>1
    <3>2. CASE ~(k <= M)
      <4>1. k - M \in 1 .. N /\ u[k - M] = x
        BY <1>2, <2>1, <3>2
      <4> QED
        BY <1>3, <4>1
    <3> QED
      BY <3>1, <3>2
  <2>2. ASSUME NEW k \in 1 .. M, t[k] = x
        PROVE  Contains(q, x)
    <3>1. k \in 1 .. M + N /\ q[k] = x
      BY <1>2, <2>2
    <3> QED
      BY <1>3, <3>1
  <2>3. ASSUME NEW k \in 1 .. N, u[k] = x
        PROVE  Contains(q, x)
    <3>1. k + M \in 1 .. M + N /\ ~(k + M <= M) /\ (k + M) - M = k
      OBVIOUS
    <3>2. q[k + M] = x
      BY <1>2, <2>3, <3>1
    <3> QED
      BY <1>3, <3>1, <3>2
  <2> QED
    BY <1>3, <2>1, <2>2, <2>3
<1>6. ASSUME NEW x
      PROVE  Contains(s, x) <=> x = Head(s) \/ Contains(t, x)
  <2>1. ASSUME NEW k \in 1 .. L, s[k] = x, k # 1
        PROVE  Contains(t, x)
    <3>1. k - 1 \in 1 .. M /\ (k - 1) + 1 = k
      BY <1>1, <2>1
    <3>2. t[k - 1] = x
      BY <1>1, <2>1, <3>1
    <3> QED
      BY <1>3, <3>1, <3>2
  <2>2. ASSUME NEW k \in 1 .. M, t[k] = x
        PROVE  Contains(s, x)
    <3>1. k + 1 \in 1 .. L /\ s[k + 1] = x
      BY <1>1, <2>2
    <3> QED
      BY <1>3, <3>1
  <2>3. 1 \in 1 .. L
    BY <1>1
  <2> QED
    BY <1>1, <1>3, <2>1, <2>2, <2>3
<1>7. ASSUME IsInjective(s), Contains(t, Head(s))
      PROVE  FALSE
  <2>1. PICK k \in 1 .. M : t[k] = s[1]
    BY <1>1, <1>3, <1>7
  <2>2. k + 1 \in 1 .. L /\ s[k + 1] = s[1] /\ 1 \in 1 .. L /\ k + 1 # 1
    BY <1>1, <2>1
  <2>3. \A i, j \in 1 .. L : s[i] = s[j] => i = j
    BY <1>4, <1>7 DEF IsInjective
  <2> QED
    BY <2>2, <2>3
<1>8. ASSUME IsInjective(s), IsInjective(u), \A x : ~Contains(t, x) \/ ~Contains(u, x)
      PROVE  IsInjective(q)
  <2>1. \A i, j \in 1 .. L : s[i] = s[j] => i = j
    BY <1>4, <1>8 DEF IsInjective
  <2>2. \A i, j \in 1 .. N : u[i] = u[j] => i = j
    BY <1>4, <1>8 DEF IsInjective
  <2>3. ASSUME NEW i \in 1 .. M + N, NEW j \in 1 .. M + N, q[i] = q[j]
        PROVE  i = j
    <3>1. CASE i <= M /\ j <= M
      <4>1. i + 1 \in 1 .. L /\ j + 1 \in 1 .. L /\ s[i + 1] = s[j + 1]
        BY <1>1, <1>2, <2>3, <3>1
      <4>2. i + 1 = j + 1
        BY <2>1, <4>1
      <4> QED
        BY <4>2
    <3>2. CASE ~(i <= M) /\ ~(j <= M)
      <4>1. i - M \in 1 .. N /\ j - M \in 1 .. N /\ u[i - M] = u[j - M]
        BY <1>2, <2>3, <3>2
      <4>2. i - M = j - M
        BY <2>2, <4>1
      <4> QED
        BY <4>2
    <3>3. CASE i <= M /\ ~(j <= M)
      <4>1. i \in 1 .. M /\ j - M \in 1 .. N /\ t[i] = u[j - M]
        BY <1>2, <2>3, <3>3
      <4>2. Contains(t, t[i]) /\ Contains(u, t[i])
        BY <1>3, <4>1
      <4> QED
        BY <1>8, <4>2
    <3>4. CASE ~(i <= M) /\ j <= M
      <4>1. j \in 1 .. M /\ i - M \in 1 .. N /\ t[j] = u[i - M]
        BY <1>2, <2>3, <3>4
      <4>2. Contains(t, t[j]) /\ Contains(u, t[j])
        BY <1>3, <4>1
      <4> QED
        BY <1>8, <4>2
    <3> QED
      BY <3>1, <3>2, <3>3, <3>4
  <2> QED
    BY <1>4, <2>3 DEF IsInjective
<1> QED
  BY <1>1, <1>2, <1>5, <1>6, <1>7, <1>8 DEF Moved

-----------------------------------------------------------------------------
(* The cables of a multicast group *)

\* A cable that a group uses in both directions has two such ends, at two switches.
LEMMA BothWaysFacts ==
  ASSUME IsWiring(remote), NEW g
  PROVE  /\ IsFiniteSet(BothWays(g))
         /\ \A p \in BothWays(g) :
              /\ p \in DOMAIN remote /\ p \in Ports /\ p = <<p[1], p[2]>>
              /\ p[1] \in Switches /\ p[2] \in mft[p[1]][g] /\ Remote(p) = remote[p]
              /\ remote[p] \in BothWays(g) /\ remote[remote[p]] = p
              /\ remote[p][1] \in Switches /\ remote[p][1] # p[1]
<1>1. ASSUME NEW p \in BothWays(g)
      PROVE  /\ p \in DOMAIN remote /\ p[1] \in Switches /\ remote[p][1] \in Switches
             /\ p[2] \in mft[p[1]][g] /\ remote[p][2] \in mft[remote[p][1]][g]
  BY DEF BothWays
<1>2. ASSUME NEW p \in BothWays(g)
      PROVE  /\ p \in Ports /\ p = <<p[1], p[2]>> /\ Remote(p) = remote[p]
             /\ remote[remote[p]] = p /\ remote[p] \in DOMAIN remote /\ remote[p][1] # p[1]
  <2>1. p \in DOMAIN remote
    BY <1>1
  <2>2. p \in Ports /\ remote[p] \in DOMAIN remote /\ remote[remote[p]] = p /\ remote[p][1] # p[1]
    BY <2>1 DEF IsWiring
  <2> QED
    BY <2>1, <2>2, PortFacts DEF Remote
<1>3. ASSUME NEW p \in BothWays(g)
      PROVE  remote[p] \in BothWays(g)
  <2> PICK q : q = remote[p]
    OBVIOUS
  <2>1. q \in DOMAIN remote /\ remote[q] = p
    BY <1>2
  <2> QED
    BY <1>1, <2>1 DEF BothWays
<1>4. IsFiniteSet(BothWays(g))
  <2>1. BothWays(g) \subseteq Ports
    BY <1>2
  <2> QED
    BY <2>1, PortsFinite, FS_Subset
<1> QED
  BY <1>1, <1>2, <1>3, <1>4

\* The switches that the cables of a group join are the least set that they do not leave.
LEMMA JoinedClosure ==
  ASSUME IsWiring(remote), NEW n \in Nodes, NEW g
  PROVE  /\ Joined(n, g) \in SUBSET Nodes /\ n \in Joined(n, g)
         /\ \A p \in BothWays(g) : p[1] \in Joined(n, g) => remote[p][1] \in Joined(n, g)
         /\ \A T \in SUBSET Nodes :
              n \in T /\ (\A p \in BothWays(g) : p[1] \in T => remote[p][1] \in T)
              => Joined(n, g) \subseteq T
<1> DEFINE Far(m) == {remote[p][1] : p \in {q \in BothWays(g) : q[1] = m}}
<1> PICK f : f = [b \in SUBSET Nodes |-> b \cup UNION {Far(m) : m \in b}]
  OBVIOUS
<1>1. Joined(n, g) = Iterated({n}, f, NumNodes)[NumNodes]
  BY Zenon DEF Joined, Closure, Iterate, Iterated
<1>2. \A m : Far(m) \subseteq Nodes
  BY BothWaysFacts, SubnetAssumption
<1>3. \A b \in SUBSET Nodes : f[b] = b \cup UNION {Far(m) : m \in b}
  OBVIOUS
<1>4. \A b \in SUBSET Nodes : \A x :
        x \in f[b] <=> x \in b \/ \E p \in BothWays(g) : p[1] \in b /\ x = remote[p][1]
  BY <1>3
<1> HIDE DEF Far
<1>5. Grows(f, Nodes)
  <2>1. \A b \in SUBSET Nodes : b \cup UNION {Far(m) : m \in b} \in SUBSET Nodes
    BY <1>2
  <2> QED
    BY <1>3, <2>1 DEF Grows
<1>6. NumNodes \in Nat /\ IsFiniteSet(Nodes) /\ Cardinality(Nodes) <= NumNodes
  <2> PICK c : c = Cardinality(Nodes)
    OBVIOUS
  <2>1. NumNodes \in Nat /\ IsFiniteSet(Nodes) /\ c = NumNodes
    BY NodesFinite
  <2> QED
    BY <2>1
<1> PICK c, x, U : c = Joined(n, g) /\ x = {n} /\ U = Nodes
  OBVIOUS
<1>7. IsClosure(c, x, f, U)
  <2> PICK N \in Nat : N = NumNodes
    BY <1>6
  <2>1. IsFiniteSet(U) /\ Cardinality(U) <= N /\ x \subseteq U /\ Grows(f, U) /\ c = Iterated(x, f, N)[N]
    BY <1>1, <1>5, <1>6
  <2> QED
    BY ONLY N \in Nat, <2>1, Closing
<1>8. c \in SUBSET Nodes /\ n \in c /\ f[c] = c
  BY <1>7 DEF IsClosure
<1>9. ASSUME NEW p \in BothWays(g), p[1] \in c
      PROVE  remote[p][1] \in c
  <2> PICK y : y = remote[p][1]
    OBVIOUS
  <2>1. y \in f[c] <=> y \in c \/ \E r \in BothWays(g) : r[1] \in c /\ y = remote[r][1]
    BY ONLY <1>4, <1>8
  <2> QED
    BY <1>8, <1>9, <2>1
<1>10. ASSUME NEW T \in SUBSET Nodes, n \in T, \A p \in BothWays(g) : p[1] \in T => remote[p][1] \in T
       PROVE  c \subseteq T
  <2>1. \A s \in SUBSET T : f[s] \subseteq T
    <3> SUFFICES ASSUME NEW s \in SUBSET T, NEW y \in f[s]
                 PROVE  y \in T
      OBVIOUS
    <3>1. s \in SUBSET Nodes
      OBVIOUS
    <3>2. y \in s \/ \E p \in BothWays(g) : p[1] \in s /\ y = remote[p][1]
      BY <1>4, <3>1
    <3> QED
      BY <1>10, <3>2
  <2>2. x \subseteq T /\ T \in SUBSET U
    BY <1>10
  <2> QED
    BY <1>7, <2>1, <2>2 DEF IsClosure
<1> QED
  BY <1>8, <1>9, <1>10

\* The ends of the cables of a group that lie within a set of switches.
Inner(g, V) == {p \in BothWays(g) : p[1] \in V /\ remote[p][1] \in V}

\* The ends inside the set grow by two or more if W has the switch of q more than V.
OneMore(g, V, q, W) ==
  /\ Cardinality(Inner(g, V)) \in Nat /\ Cardinality(Inner(g, W)) \in Nat
  /\ Cardinality(V) \in Nat /\ Cardinality(W) = Cardinality(V) + 1
  /\ Cardinality(Inner(g, W)) >= Cardinality(Inner(g, V)) + 2
  /\ (\A p \in BothWays(g) : p[1] = q[1] /\ remote[p][1] \in V => p = q)
       => Cardinality(Inner(g, W)) = Cardinality(Inner(g, V)) + 2
  /\ (\E p \in BothWays(g) : p[1] = q[1] /\ remote[p][1] \in V /\ p # q)
       => Cardinality(Inner(g, W)) >= Cardinality(Inner(g, V)) + 3

\* A switch more comes with the two ends of the cable it was found by, and with no others
\* only if no second cable leads from it into the set.
LEMMA InnerGrows ==
  ASSUME IsWiring(remote), NEW g, NEW V \in SUBSET Switches,
         NEW q \in BothWays(g), NEW t, t = q[1], t \notin V, remote[q][1] \in V,
         NEW W, W = V \cup {t}
  PROVE  OneMore(g, V, q, W)
<1> PICK I, J, B : I = Inner(g, V) /\ J = Inner(g, W) /\ B = BothWays(g)
  OBVIOUS
<1>1. IsFiniteSet(I) /\ IsFiniteSet(J) /\ Cardinality(I) \in Nat /\ Cardinality(J) \in Nat
  <2>1. I \subseteq BothWays(g) /\ J \subseteq BothWays(g)
    BY DEF Inner
  <2> QED
    BY <2>1, BothWaysFacts, FS_Subset, FS_CardinalityType
<1>2. IsFiniteSet(V) /\ Cardinality(V) \in Nat /\ Cardinality(W) = Cardinality(V) + 1
  <2>1. IsFiniteSet(Nodes) /\ V \subseteq Nodes
    BY NodesFinite
  <2>2. IsFiniteSet(V)
    BY <2>1, FS_Subset
  <2> QED
    BY <2>2, FS_AddElement, FS_CardinalityType
<1>3. /\ \A p : p \in I <=> p \in B /\ p[1] \in V /\ remote[p][1] \in V
      /\ \A p : p \in J <=> p \in B /\ p[1] \in W /\ remote[p][1] \in W
  BY DEF Inner
<1>4. \A p \in B : remote[p] \in B /\ remote[remote[p]] = p /\ remote[p][1] # p[1]
  BY BothWaysFacts
<1> PICK r : r = remote[q]
  OBVIOUS
<1>5. q \in J /\ r \in J /\ q \notin I /\ r \notin I /\ q # r /\ I \subseteq J /\ r \in B /\ remote[r] = q
  BY <1>3, <1>4
<1> PICK K : K = (I \cup {q}) \cup {r}
  OBVIOUS
<1>6. IsFiniteSet(K) /\ Cardinality(K) = Cardinality(I) + 2 /\ K \subseteq J
  <2>1. IsFiniteSet(I \cup {q}) /\ Cardinality(I \cup {q}) = Cardinality(I) + 1
    BY <1>1, <1>5, FS_AddElement
  <2>2. IsFiniteSet(K) /\ Cardinality(K) = Cardinality(I \cup {q}) + 1
    BY <1>5, <2>1, FS_AddElement
  <2> QED
    BY <1>1, <1>5, <2>1, <2>2
<1>7. Cardinality(J) >= Cardinality(I) + 2
  <2>1. Cardinality(K) <= Cardinality(J)
    BY <1>1, <1>6, FS_Subset
  <2> QED
    BY <1>1, <1>6, <2>1
<1>8. ASSUME \A p \in BothWays(g) : p[1] = t /\ remote[p][1] \in V => p = q
      PROVE  Cardinality(J) = Cardinality(I) + 2
  <2>1. \A p \in J : p \in K
    <3> SUFFICES ASSUME NEW p \in J, p \notin I
                 PROVE  p = q \/ p = r
      OBVIOUS
    <3>1. p \in B /\ p[1] \in W /\ remote[p][1] \in W
      BY <1>3
    <3>2. CASE p[1] = t
      <4>1. remote[p][1] \in V
        BY <1>4, <3>1, <3>2
      <4> QED
        BY <1>8, <3>1, <3>2, <4>1
    <3>3. CASE p[1] # t
      <4>1. p[1] \in V /\ remote[p][1] = t
        BY <1>3, <3>1, <3>3
      <4>2. remote[p] \in B /\ remote[remote[p]] = p
        BY <1>4, <3>1
      <4>3. remote[p] = q
        BY <1>8, <4>1, <4>2
      <4> QED
        BY <4>2, <4>3
    <3> QED
      BY <3>2, <3>3
  <2>2. J = K
    BY <1>6, <2>1
  <2> QED
    BY <1>6, <2>2
<1>9. ASSUME NEW p \in BothWays(g), p[1] = t, remote[p][1] \in V, p # q
      PROVE  Cardinality(J) >= Cardinality(I) + 3
  <2>1. p \in J /\ p \notin I /\ p # r
    BY <1>3, <1>5, <1>9
  <2>2. p \notin K
    BY <1>9, <2>1
  <2>3. IsFiniteSet(K \cup {p}) /\ Cardinality(K \cup {p}) = Cardinality(K) + 1
    BY <1>6, <2>2, FS_AddElement
  <2>4. K \cup {p} \subseteq J
    BY <1>6, <2>1
  <2>5. Cardinality(K \cup {p}) <= Cardinality(J)
    BY <1>1, <2>4, FS_Subset
  <2> QED
    BY <1>1, <1>6, <2>3, <2>5
<1> QED
  BY <1>1, <1>2, <1>7, <1>8, <1>9 DEF OneMore

-----------------------------------------------------------------------------
(* The search of SubnMgtCheckMCGrp *)

\* What is known while it has visited V, Q waits, and L says whether it saw a loop: it is on
\* its way to what the cables of the group join, and the cables inside V are one less than the
\* switches until a loop is seen, and more after that.
WalkOf(g, V, Q, L) ==
  /\ Serving(g) # {} /\ V \subseteq Switches
  /\ Min(Serving(g)) \in V /\ V \subseteq Joined(Min(Serving(g)), g)
  /\ \A s \in V : mft[s][g] # {}
  /\ Q \in Seq(DOMAIN remote)
  /\ \A q : Contains(Q, q) => q \in BothWays(g) /\ remote[q][1] \in V
  /\ \A p \in BothWays(g) : p[1] \in V => remote[p][1] \in V \/ Contains(Q, remote[p])
  /\ ~L => /\ IsInjective(Q) /\ \A q : Contains(Q, q) => q[1] \notin V
           /\ Cardinality(Inner(g, V)) = 2 * Cardinality(V) - 2
  /\ L /\ OneWay(g) = {} => Cardinality(Inner(g, V)) > 2 * Cardinality(V) - 2

\* What a visit of switch s, by its port "in", adds to the queue and sees of loops, as
\* VisitMember has it.
OutsOf(g, s, in) == {i \in Cabled(s, g) \ {in} : Remote(<<s, i>>)[1] \in Switches}
LoopsOf(g, s, in, W) == {i \in OutsOf(g, s, in) : Remote(<<s, i>>)[1] \in W}
OnwardOf(g, s, in, W) ==
  {i \in OutsOf(g, s, in) \ LoopsOf(g, s, in, W) :
     Remote(<<s, i>>)[2] \in mft[Remote(<<s, i>>)[1]][g]}

\* What the visit did: the cables that lead on wait at the end, those that lead back are loops.
Looked(g, s, in, W, loops, u) ==
  /\ u \in Seq(DOMAIN remote) /\ IsInjective(u)
  /\ \A q : Contains(u, q) =>
       q \in BothWays(g) /\ q[1] \notin W /\ remote[q] \in BothWays(g) /\ remote[q][1] = s
  /\ \A p \in BothWays(g) : p[1] = s /\ p[2] # in =>
       IF remote[p][1] \in W THEN p[2] \in loops ELSE Contains(u, remote[p])
  /\ \A i \in loops : /\ <<s, i>> \in DOMAIN remote /\ remote[<<s, i>>][1] \in W
                      /\ i # in /\ remote[<<s, i>>][1] # s
                      /\ OneWay(g) = {} => <<s, i>> \in BothWays(g)

\* The ports that a visit looks at.
LEMMA OutsFacts ==
  ASSUME IsWiring(remote), NEW g, NEW s \in Switches, NEW in, NEW W, s \in W,
         NEW loops, loops = LoopsOf(g, s, in, W), NEW u, u = FarEnds(s, OnwardOf(g, s, in, W))
  PROVE  Looked(g, s, in, W, loops, u)
<1> PICK outs, on : outs = OutsOf(g, s, in) /\ on = OnwardOf(g, s, in, W)
  OBVIOUS
<1>0. s \in Nodes
  BY SubnetAssumption
<1>1. \A i : i \in outs <=> /\ i \in mft[s][g] /\ <<s, i>> \in DOMAIN remote /\ i # in
                            /\ remote[<<s, i>>][1] \in Switches
  BY DEF OutsOf, Cabled, Remote
<1>2. \A i \in outs : Remote(<<s, i>>) = remote[<<s, i>>]
  BY <1>1 DEF Remote
<1>3. \A i : i \in loops <=> i \in outs /\ remote[<<s, i>>][1] \in W
  BY <1>2 DEF LoopsOf
<1>4. \A i : i \in on <=> /\ i \in outs /\ remote[<<s, i>>][1] \notin W
                          /\ remote[<<s, i>>][2] \in mft[remote[<<s, i>>][1]][g]
  BY <1>2, <1>3 DEF OnwardOf
<1>5. ASSUME NEW i, <<s, i>> \in DOMAIN remote
      PROVE  /\ i \in 1 .. NumPorts[s] /\ <<s, i>>[1] = s /\ <<s, i>>[2] = i
             /\ remote[<<s, i>>] \in DOMAIN remote /\ remote[remote[<<s, i>>]] = <<s, i>>
             /\ remote[<<s, i>>][1] # s
  <2> PICK p : p = <<s, i>>
    OBVIOUS
  <2>1. p[1] = s /\ p[2] = i /\ p \in DOMAIN remote
    BY <1>5
  <2>2. p \in Ports /\ remote[p] \in DOMAIN remote /\ remote[remote[p]] = p /\ remote[p][1] # p[1]
    BY <2>1 DEF IsWiring
  <2>3. p[2] \in 1 .. NumPorts[p[1]]
    BY <2>2, PortFacts
  <2> QED
    BY <2>1, <2>2, <2>3
<1>6. on \in SUBSET (1 .. NumPorts[s]) /\ \A i \in on : <<s, i>> \in DOMAIN remote
  BY <1>1, <1>4, <1>5
<1>7. /\ u \in Seq(DOMAIN remote) /\ IsInjective(u)
      /\ \A q : Contains(u, q) <=> \E i \in on : q = remote[<<s, i>>]
  BY <1>0, <1>6, FarEndsEach
<1>8. ASSUME NEW i \in outs, remote[<<s, i>>][2] \in mft[remote[<<s, i>>][1]][g]
      PROVE  <<s, i>> \in BothWays(g)
  <2> PICK p : p = <<s, i>>
    OBVIOUS
  <2>1. p[1] = s /\ p[2] = i /\ p \in DOMAIN remote /\ i \in mft[s][g] /\ remote[p][1] \in Switches
    BY <1>1
  <2> QED
    BY <1>8, <2>1 DEF BothWays
<1>9. ASSUME NEW q, Contains(u, q)
      PROVE  q \in BothWays(g) /\ q[1] \notin W /\ remote[q] \in BothWays(g) /\ remote[q][1] = s
  <2>1. PICK i \in on : q = remote[<<s, i>>]
    BY <1>7, <1>9
  <2>2. <<s, i>> \in BothWays(g)
    BY <1>4, <1>8
  <2>3. q \in BothWays(g) /\ remote[q] = <<s, i>>
    BY <2>1, <2>2, BothWaysFacts
  <2> QED
    BY <1>4, <2>1, <2>2, <2>3
<1>10. ASSUME NEW p \in BothWays(g), p[1] = s, p[2] # in
       PROVE  IF remote[p][1] \in W THEN p[2] \in loops ELSE Contains(u, remote[p])
  <2>1. /\ p = <<s, p[2]>> /\ p \in DOMAIN remote /\ p[2] \in mft[s][g]
        /\ remote[p][1] \in Switches /\ remote[p][2] \in mft[remote[p][1]][g]
    <3>1. p = <<p[1], p[2]>>
      BY BothWaysFacts
    <3> QED
      BY <1>10, <3>1 DEF BothWays
  <2>2. p[2] \in outs
    BY <1>1, <1>10, <2>1
  <2> QED
    BY <1>3, <1>4, <1>7, <2>1, <2>2
<1>11. ASSUME NEW i \in loops
       PROVE  /\ <<s, i>> \in DOMAIN remote /\ remote[<<s, i>>][1] \in W
              /\ i # in /\ remote[<<s, i>>][1] # s
              /\ OneWay(g) = {} => <<s, i>> \in BothWays(g)
  <2>1. i \in outs /\ remote[<<s, i>>][1] \in W
    BY <1>3
  <2>2. /\ <<s, i>> \in DOMAIN remote /\ i # in /\ i \in mft[s][g] /\ remote[<<s, i>>][1] \in Switches
        /\ remote[<<s, i>>][1] # s
    BY <1>1, <1>5, <2>1
  <2>3. ASSUME OneWay(g) = {}
        PROVE  remote[<<s, i>>][2] \in mft[remote[<<s, i>>][1]][g]
    <3> PICK p : p = <<s, i>>
      OBVIOUS
    <3>1. p[1] = s /\ p[2] = i /\ p \in DOMAIN remote /\ i \in mft[s][g] /\ remote[p][1] \in Switches
      BY <2>2
    <3>2. p \notin OneWay(g)
      BY <2>3
    <3> QED
      BY <3>1, <3>2 DEF OneWay
  <2> QED
    BY <1>8, <2>1, <2>2, <2>3
<1> QED
  BY <1>7, <1>9, <1>10, <1>11 DEF Looked

\* The first visit.
LEMMA WalkBegins ==
  ASSUME IsWiring(remote), NEW g, Serving(g) # {}, NEW s, s = Min(Serving(g)),
         NEW R, R = Tail(<<<<s, 0>>>>) \o FarEnds(s, OnwardOf(g, s, 0, {s}))
  PROVE  WalkOf(g, {s}, R, FALSE) /\ LoopsOf(g, s, 0, {s}) = {}
<1> PICK u : u = FarEnds(s, OnwardOf(g, s, 0, {s}))
  OBVIOUS
<1> PICK loops : loops = LoopsOf(g, s, 0, {s})
  OBVIOUS
<1>1. s \in Serving(g) /\ s \in Switches /\ s \in Nodes
  <2>1. Serving(g) \subseteq Switches
    BY DEF Serving
  <2>2. Serving(g) \in SUBSET Nat
    <3>1. Nodes \subseteq Nat
      BY DEF Nodes
    <3> QED
      BY <2>1, <3>1, SubnetAssumption
  <2>3. s \in Serving(g)
    BY <2>2, MinFacts
  <2> QED
    BY <2>1, <2>3, SubnetAssumption
<1>2. /\ u \in Seq(DOMAIN remote) /\ IsInjective(u)
      /\ \A q : Contains(u, q) =>
           q \in BothWays(g) /\ q[1] \notin {s} /\ remote[q] \in BothWays(g) /\ remote[q][1] = s
      /\ \A p \in BothWays(g) : p[1] = s /\ p[2] # 0 =>
           IF remote[p][1] \in {s} THEN p[2] \in loops ELSE Contains(u, remote[p])
      /\ \A i \in loops : remote[<<s, i>>][1] \in {s} /\ remote[<<s, i>>][1] # s
  <2> PICK W, in : W = {s} /\ in = 0
    OBVIOUS
  <2>1. s \in W /\ loops = LoopsOf(g, s, in, W) /\ u = FarEnds(s, OnwardOf(g, s, in, W))
    OBVIOUS
  <2>2. Looked(g, s, in, W, loops, u)
    BY <1>1, <2>1, OutsFacts
  <2> QED
    BY <2>2 DEF Looked
<1>3. R = u
  <2>1. Tail(<<<<s, 0>>>>) = <<>>
    OBVIOUS
  <2>2. <<>> \o u = u
    BY <1>2
  <2> QED
    BY <2>1, <2>2
<1>4. loops = {}
  BY <1>2
<1>5. mft[s][g] # {}
  BY <1>1 DEF Serving, ServesCa, Cabled
<1>6. \A p \in BothWays(g) : p[2] # 0 /\ remote[p][1] # p[1]
  <2> TAKE p \in BothWays(g)
  <2>1. p \in Ports /\ remote[p][1] # p[1]
    BY BothWaysFacts
  <2>2. p[2] \in 1 .. NumPorts[p[1]]
    BY <2>1, PortFacts
  <2> QED
    BY <2>1, <2>2
<1>7. Cardinality(Inner(g, {s})) = 2 * Cardinality({s}) - 2
  <2>1. Inner(g, {s}) = {}
    BY <1>6 DEF Inner
  <2> PICK c, d : c = Cardinality({s}) /\ d = Cardinality(Inner(g, {s}))
    OBVIOUS
  <2>2. c = 1
    BY FS_Singleton
  <2>3. d = 0
    BY <2>1, FS_EmptySet
  <2> QED
    BY <2>2, <2>3
<1>8. s \in Joined(s, g)
  BY <1>1, JoinedClosure
<1>9. \A p \in BothWays(g) : p[1] \in {s} => remote[p][1] \in {s} \/ Contains(u, remote[p])
  BY <1>2, <1>6
<1> QED
  BY <1>1, <1>2, <1>3, <1>4, <1>5, <1>7, <1>8, <1>9 DEF WalkOf

\* What a visit of the switch at the head of Q does, as VisitMember has it.
VisitFrom(g, V, Q, L, W, R, K) ==
  LET s == Head(Q)[1]
      in == Head(Q)[2]
  IN /\ W = V \cup {s}
     /\ R = Tail(Q) \o FarEnds(s, OnwardOf(g, s, in, W))
     /\ K = (L \/ LoopsOf(g, s, in, W) # {})

\* Every visit keeps to it.
LEMMA WalkVisit ==
  ASSUME IsWiring(remote), NEW g, NEW V, NEW Q, NEW L, NEW W, NEW R, NEW K,
         WalkOf(g, V, Q, L), L \in BOOLEAN, Q # <<>>, VisitFrom(g, V, Q, L, W, R, K)
  PROVE  WalkOf(g, W, R, K)
<1> PICK first : first = Min(Serving(g))
  OBVIOUS
<1> PICK q, s, in : q = Head(Q) /\ s = q[1] /\ in = q[2]
  OBVIOUS
<1> PICK loops, u : /\ loops = LoopsOf(g, s, in, W) /\ u = FarEnds(s, OnwardOf(g, s, in, W))
                    /\ W = V \cup {s} /\ R = Tail(Q) \o u
                    /\ K \in BOOLEAN /\ (K <=> L \/ loops # {})
  BY DEF VisitFrom
<1>1. /\ Serving(g) # {} /\ V \subseteq Switches /\ first \in V /\ V \subseteq Joined(first, g)
      /\ \A m \in V : mft[m][g] # {}
      /\ Q \in Seq(DOMAIN remote)
      /\ \A x : Contains(Q, x) => x \in BothWays(g) /\ remote[x][1] \in V
      /\ \A p \in BothWays(g) : p[1] \in V => remote[p][1] \in V \/ Contains(Q, remote[p])
      /\ ~L => /\ IsInjective(Q) /\ \A x : Contains(Q, x) => x[1] \notin V
               /\ Cardinality(Inner(g, V)) = 2 * Cardinality(V) - 2
      /\ L /\ OneWay(g) = {} => Cardinality(Inner(g, V)) > 2 * Cardinality(V) - 2
  BY DEF WalkOf
<1>2. Head(Q) \in DOMAIN remote /\ Contains(Q, q)
  BY <1>1 DEF Contains
<1>3. /\ q \in BothWays(g) /\ remote[q][1] \in V /\ q = <<s, in>> /\ s \in Switches
      /\ in \in mft[s][g] /\ remote[q] \in BothWays(g) /\ remote[remote[q]] = q
  <2>1. q \in BothWays(g) /\ remote[q][1] \in V
    BY <1>1, <1>2
  <2> QED
    BY <2>1, BothWaysFacts
<1>4. Looked(g, s, in, W, loops, u)
  BY <1>3, OutsFacts
<1>5. /\ u \in Seq(DOMAIN remote) /\ IsInjective(u)
      /\ \A x : Contains(u, x) =>
           x \in BothWays(g) /\ x[1] \notin W /\ remote[x] \in BothWays(g) /\ remote[x][1] = s
      /\ \A p \in BothWays(g) : p[1] = s /\ p[2] # in =>
           IF remote[p][1] \in W THEN p[2] \in loops ELSE Contains(u, remote[p])
      /\ \A i \in loops : /\ <<s, i>> \in DOMAIN remote /\ remote[<<s, i>>][1] \in W
                          /\ i # in /\ remote[<<s, i>>][1] # s
                          /\ OneWay(g) = {} => <<s, i>> \in BothWays(g)
  BY <1>4 DEF Looked
<1>6. /\ R \in Seq(DOMAIN remote)
      /\ \A x : Contains(R, x) <=> Contains(Tail(Q), x) \/ Contains(u, x)
      /\ \A x : Contains(Q, x) <=> x = q \/ Contains(Tail(Q), x)
      /\ IsInjective(Q) => ~Contains(Tail(Q), q)
      /\ IsInjective(Q) /\ IsInjective(u) /\ (\A x : ~Contains(Tail(Q), x) \/ ~Contains(u, x))
           => IsInjective(R)
  <2> PICK D : D = DOMAIN remote
    OBVIOUS
  <2>1. Q \in Seq(D) /\ u \in Seq(D) /\ Q # <<>> /\ R = Tail(Q) \o u /\ q = Head(Q)
    BY <1>1, <1>5
  <2>2. Moved(D, Q, u, R)
    BY ONLY <2>1, QueueElements
  <2> QED
    BY <2>1, <2>2 DEF Moved
<1>7. \A p \in BothWays(g) : p = <<p[1], p[2]>> /\ remote[p] \in BothWays(g) /\ remote[remote[p]] = p
  BY BothWaysFacts
<1>8. W \subseteq Switches /\ first \in W /\ \A m \in W : mft[m][g] # {}
  BY <1>1, <1>3
<1>9. W \subseteq Joined(first, g)
  <2>1. first \in Nodes
    BY <1>1, SubnetAssumption
  <2>2. remote[remote[q]][1] \in Joined(first, g)
    BY <1>1, <1>3, <2>1, JoinedClosure
  <2> QED
    BY <1>1, <1>3, <2>2
<1>10. \A x : Contains(R, x) => x \in BothWays(g) /\ remote[x][1] \in W
  BY <1>1, <1>5, <1>6
<1>11. ASSUME NEW p \in BothWays(g), p[1] \in W
       PROVE  remote[p][1] \in W \/ Contains(R, remote[p])
  <2>1. CASE p[1] \in V
    <3>1. remote[p][1] \in V \/ remote[p] = q \/ Contains(Tail(Q), remote[p])
      BY <1>1, <1>6, <2>1
    <3> QED
      BY <1>6, <3>1
  <2>2. CASE p[1] = s /\ p[2] = in
    BY <1>3, <1>7, <2>2
  <2>3. CASE p[1] = s /\ p[2] # in
    BY <1>5, <1>6, <2>3
  <2> QED
    BY <1>11, <2>1, <2>2, <2>3
<1>12. ASSUME s \notin V
       PROVE  /\ Cardinality(Inner(g, V)) \in Nat /\ Cardinality(Inner(g, W)) \in Nat
              /\ Cardinality(V) \in Nat /\ Cardinality(W) = Cardinality(V) + 1
              /\ Cardinality(Inner(g, W)) >= Cardinality(Inner(g, V)) + 2
              /\ (\A p \in BothWays(g) : p[1] = s /\ remote[p][1] \in V => p = q)
                   => Cardinality(Inner(g, W)) = Cardinality(Inner(g, V)) + 2
              /\ (\E p \in BothWays(g) : p[1] = s /\ remote[p][1] \in V /\ p # q)
                   => Cardinality(Inner(g, W)) >= Cardinality(Inner(g, V)) + 3
  <2>1. V \in SUBSET Switches
    BY <1>1
  <2>2. OneMore(g, V, q, W)
    BY <1>3, <1>12, <2>1, InnerGrows
  <2>3. s = q[1]
    OBVIOUS
  <2> QED
    BY ONLY <2>2, <2>3, Zenon DEF OneMore
<1>13. ASSUME ~L
       PROVE  s \notin V
  BY <1>1, <1>2, <1>13
<1>14. ASSUME ~K
       PROVE  /\ IsInjective(R) /\ \A x : Contains(R, x) => x[1] \notin W
              /\ Cardinality(Inner(g, W)) = 2 * Cardinality(W) - 2
  <2>1. ~L /\ loops = {} /\ IsInjective(Q) /\ s \notin V
    BY <1>1, <1>13, <1>14
  <2>2. \A x : ~Contains(Tail(Q), x) \/ ~Contains(u, x)
    BY <1>1, <1>5, <1>6, <2>1
  <2>3. ASSUME NEW p \in BothWays(g), p[1] = s, remote[p][1] \in V
        PROVE  p = q
    <3>1. p[2] # in => p[2] \in loops
      BY <1>5, <2>3
    <3>2. p = <<p[1], p[2]>>
      BY <1>7
    <3> QED
      BY <1>3, <2>1, <2>3, <3>1, <3>2
  <2>4. ASSUME NEW x, Contains(Tail(Q), x)
        PROVE  x[1] \notin W
    <3>1. x \in BothWays(g) /\ remote[x][1] \in V /\ x[1] \notin V /\ x # q
      BY <1>1, <1>6, <2>1, <2>4
    <3> QED
      BY <2>3, <3>1
  <2>5. Cardinality(Inner(g, W)) = 2 * Cardinality(W) - 2
    <3> PICK a, b, c, d : /\ a = Cardinality(Inner(g, V)) /\ b = Cardinality(Inner(g, W))
                          /\ c = Cardinality(V) /\ d = Cardinality(W)
      OBVIOUS
    <3>1. a \in Nat /\ b = a + 2 /\ c \in Nat /\ d = c + 1 /\ a = 2 * c - 2
      BY <1>1, <1>12, <2>1, <2>3
    <3>2. b = 2 * d - 2
      BY ONLY <3>1
    <3> QED
      BY ONLY <3>2, b = Cardinality(Inner(g, W)), d = Cardinality(W)
  <2> QED
    BY <1>5, <1>6, <2>1, <2>2, <2>4, <2>5
<1>15. ASSUME K, OneWay(g) = {}
       PROVE  Cardinality(Inner(g, W)) > 2 * Cardinality(W) - 2
  <2>1. CASE s \in V
    <3>1. L /\ W = V
      BY <1>13, <2>1
    <3> QED
      BY <1>1, <1>15, <3>1
  <2>2. CASE s \notin V
    <3> PICK a, b, c, d : /\ a = Cardinality(Inner(g, V)) /\ b = Cardinality(Inner(g, W))
                          /\ c = Cardinality(V) /\ d = Cardinality(W)
      OBVIOUS
    <3>1. a \in Nat /\ b \in Nat /\ c \in Nat /\ d = c + 1 /\ b >= a + 2
      BY <1>12, <2>2
    <3>2. (~L => a = 2 * c - 2) /\ (L => a > 2 * c - 2)
      BY <1>1, <1>15
    <3>3. ASSUME loops # {}
          PROVE  b >= a + 3
      <4>1. PICK i \in loops : TRUE
        BY <3>3
      <4> PICK p : p = <<s, i>>
        OBVIOUS
      <4>2. p \in BothWays(g) /\ remote[p][1] \in V /\ p # q /\ p[1] = s
        BY <1>3, <1>5, <1>15, <4>1
      <4> QED
        BY <1>12, <2>2, <4>2
    <3>4. L \/ loops # {}
      BY <1>15
    <3>5. b > 2 * d - 2
      BY ONLY <3>1, <3>2, <3>3, <3>4
    <3> QED
      BY ONLY <3>5, b = Cardinality(Inner(g, W)), d = Cardinality(W)
  <2> QED
    BY <2>1, <2>2
<1> QED
  BY <1>1, <1>6, <1>8, <1>9, <1>10, <1>11, <1>14, <1>15 DEF WalkOf

\* The cables of a group join its switches, without a loop.
Tree(g) ==
  LET joined == Joined(Min(Serving(g)), g) IN
  /\ Serving(g) \subseteq joined
  /\ Cardinality({p \in BothWays(g) : p[1] \in joined}) = 2 * Cardinality(joined) - 2

\* What EndGroup takes for good.
Accepted(g, V, L) == ~L /\ Serving(g) \subseteq V /\ \A s \in V : mft[s][g] # {}

\* When nothing waits any more the search has been where the cables of the group lead.
LEMMA WalkEnds ==
  ASSUME IsWiring(remote), NEW g, NEW V, NEW L, WalkOf(g, V, <<>>, L)
  PROVE  /\ Accepted(g, V, L) => Tree(g)
         /\ Tree(g) /\ OneWay(g) = {} => Accepted(g, V, L)
<1> PICK first, J : first = Min(Serving(g)) /\ J = Joined(first, g)
  OBVIOUS
<1>1. /\ Serving(g) # {} /\ V \subseteq Switches /\ first \in V /\ V \subseteq J
      /\ \A m \in V : mft[m][g] # {}
      /\ \A p \in BothWays(g) : p[1] \in V => remote[p][1] \in V \/ Contains(<<>>, remote[p])
      /\ ~L => Cardinality(Inner(g, V)) = 2 * Cardinality(V) - 2
      /\ L /\ OneWay(g) = {} => Cardinality(Inner(g, V)) > 2 * Cardinality(V) - 2
  BY DEF WalkOf
<1>2. \A p \in BothWays(g) : p[1] \in V => remote[p][1] \in V
  <2>1. \A x : ~Contains(<<>>, x)
    BY DEF Contains
  <2> QED
    BY <1>1, <2>1
<1>3. V = J
  <2>1. V \in SUBSET Nodes /\ first \in Nodes
    BY <1>1, SubnetAssumption
  <2>2. Joined(first, g) \subseteq V
    BY <1>1, <1>2, <2>1, JoinedClosure
  <2> QED
    BY <1>1, <2>2
<1>4. Inner(g, V) = {p \in BothWays(g) : p[1] \in J}
  BY <1>2, <1>3 DEF Inner
<1>5. Cardinality(Inner(g, V)) \in Nat /\ Cardinality(V) \in Nat
  <2>1. IsFiniteSet(BothWays(g)) /\ Inner(g, V) \subseteq BothWays(g)
    BY BothWaysFacts DEF Inner
  <2>2. IsFiniteSet(Nodes) /\ V \subseteq Nodes
    BY <1>1, NodesFinite
  <2> QED
    BY <2>1, <2>2, FS_Subset, FS_CardinalityType
<1>6. Tree(g) <=> Serving(g) \subseteq V /\ Cardinality(Inner(g, V)) = 2 * Cardinality(V) - 2
  BY <1>3, <1>4 DEF Tree
<1>7. L /\ OneWay(g) = {} => Cardinality(Inner(g, V)) # 2 * Cardinality(V) - 2
  <2> PICK a, b \in Nat : a = Cardinality(Inner(g, V)) /\ b = Cardinality(V)
    BY <1>5
  <2>1. a > 2 * b - 2 => a # 2 * b - 2
    OBVIOUS
  <2> QED
    BY <1>1, <2>1
<1> QED
  BY <1>1, <1>6, <1>7 DEF Accepted

\* As long as the cables and the ports of the groups are the same, so is what they join.
LEMMA GroupFrozen ==
  ASSUME UNCHANGED <<remote, mft>>, NEW g
  PROVE  /\ Serving(g)' = Serving(g) /\ OneWay(g)' = OneWay(g) /\ (Tree(g)' <=> Tree(g))
         /\ \A V, Q, L : WalkOf(g, V, Q, L)' <=> WalkOf(g, V, Q, L)
<1>1. BothWays(g)' = BothWays(g) /\ OneWay(g)' = OneWay(g)
  BY DEF BothWays, OneWay
<1>2. Serving(g)' = Serving(g)
  BY DEF Serving, ServesCa, Cabled, Remote
<1>3. \A n : Joined(n, g)' = Joined(n, g)
  <2> TAKE n
  <2> PICK f : f = [b \in SUBSET Nodes |->
                     b \cup UNION {{remote[p][1] : p \in {q \in BothWays(g) : q[1] = m}} : m \in b}]
    OBVIOUS
  <2>1. f = [b \in SUBSET Nodes |->
               b \cup UNION {{remote'[p][1] : p \in {q \in BothWays(g)' : q[1] = m}} : m \in b}]
    BY <1>1
  <2>2. Joined(n, g) = Iterate(f, {n}, NumNodes)
    BY Zenon DEF Joined, Closure
  <2>3. Joined(n, g)' = Iterate(f, {n}, NumNodes)
    BY <2>1, Zenon DEF Joined, Closure
  <2> QED
    BY <2>2, <2>3
<1>4. \A V : Inner(g, V)' = Inner(g, V)
  BY <1>1 DEF Inner
<1> PICK first : first = Min(Serving(g))
  OBVIOUS
<1>5. Min(Serving(g))' = first
  BY <1>2
<1>6. Joined(Min(Serving(g)), g)' = Joined(Min(Serving(g)), g)
  <2>1. Joined(Min(Serving(g)), g)' = Joined(first, g)'
    BY <1>5, Zenon DEF Joined, Closure
  <2> QED
    BY <1>3, <2>1
<1>7. Tree(g)' <=> Tree(g)
  BY <1>1, <1>2, <1>6, Zenon DEF Tree
<1>8. ASSUME NEW V, NEW Q, NEW L
      PROVE  WalkOf(g, V, Q, L)' <=> WalkOf(g, V, Q, L)
  BY <1>1, <1>2, <1>4, <1>5, <1>6, Zenon DEF WalkOf
<1> QED
  BY <1>1, <1>2, <1>7, <1>8

-----------------------------------------------------------------------------
(* What the checks of the groups found *)

\* GroupVerdict, of one group.
GroupTold(g) ==
  IF Serving(g) = {} THEN <<"group", g>> \notin failures
  ELSE /\ <<"group", g>> \notin failures => Tree(g)
       /\ Tree(g) /\ OneWay(g) = {} => <<"group", g>> \notin failures

\* The search of the group whose turn it is, before its first visit and after it.
Starting ==
  \E g : /\ g = Group /\ Serving(g) # {} /\ search.queue = <<<<Min(Serving(g)), 0>>>>
         /\ search.visited = {} /\ search.loops = FALSE
Walking ==
  \E g, V, Q, L : /\ g = Group /\ V = search.visited /\ Q = search.queue /\ L = search.loops
                  /\ V # {} /\ WalkOf(g, V, Q, L)

\* Between two groups, or in one.
GroupSearch ==
  /\ DOMAIN search = DOMAIN NoSearch /\ search.loops \in BOOLEAN /\ search.groups \subseteq Groups
  /\ \/ search.visited = {} /\ search.queue = <<>> /\ search.loops = FALSE
     \/ search.groups # {} /\ (Starting \/ Walking)

\* The groups that had their turn are told of, those that wait for it are not.
GroupsTold ==
  /\ stage \notin LaterStages => search = NoSearch
  /\ stage = "groups" => /\ GroupSearch
                         /\ \A g \in search.groups : <<"group", g>> \notin failures
                         /\ \A g \in Groups \ search.groups : GroupTold(g)
  /\ stage \in {"report", "graph", "loops"} \/ RoutesGood => \A g \in Groups : GroupTold(g)

\* The group whose turn it is.
LEMMA GroupIsOne ==
  ASSUME search.groups \subseteq Groups, search.groups # {}
  PROVE  Group \in search.groups /\ Group \in Groups
BY GroupsAssumption, MinFacts DEF Group

\* The search after it began with a group.
LEMMA StartMoves ==
  ASSUME DOMAIN search = DOMAIN NoSearch, StartGroup
  PROVE  /\ search.groups # {} /\ search.visited = {} /\ search.queue = <<>>
         /\ DOMAIN search' = DOMAIN search /\ search'.visited = {} /\ search'.loops = search.loops
         /\ IF Serving(Group) = {}
            THEN search'.groups = search.groups \ {Group} /\ search'.queue = <<>>
            ELSE /\ search'.groups = search.groups
                 /\ search'.queue = <<<<Min(Serving(Group)), 0>>>>
<1>0. DOMAIN search = {"groups", "queue", "visited", "loops", "deps", "open", "closed", "stack"}
  BY DEF NoSearch
<1> PICK g, S, f : g = Group /\ S = Serving(g) /\ f = Min(S)
  OBVIOUS
<1>1. /\ search.groups # {} /\ search.visited = {} /\ search.queue = <<>>
      /\ search' = IF S = {} THEN [search EXCEPT !.groups = @ \ {g}]
                   ELSE [search EXCEPT !.queue = <<<<f, 0>>>>]
  BY Zenon DEF StartGroup
<1> QED
  BY <1>0, <1>1

\* After a visit.
LEMMA VisitMoves ==
  ASSUME DOMAIN search = DOMAIN NoSearch, VisitMember
  PROVE  /\ search.queue # <<>>
         /\ DOMAIN search' = DOMAIN search /\ search'.groups = search.groups
         /\ VisitFrom(Group, search.visited, search.queue, search.loops,
                      search'.visited, search'.queue, search'.loops)
<1>0. DOMAIN search = {"groups", "queue", "visited", "loops", "deps", "open", "closed", "stack"}
  BY DEF NoSearch
<1> PICK g, Q, s, in, W, loops, u :
      /\ g = Group /\ Q = search.queue /\ s = Head(Q)[1] /\ in = Head(Q)[2]
      /\ W = search.visited \cup {s}
      /\ loops = LoopsOf(g, s, in, W) /\ u = FarEnds(s, OnwardOf(g, s, in, W))
  OBVIOUS
<1>1. search.queue # <<>>
  BY Zenon DEF VisitMember
<1>2. search' = [search EXCEPT !.queue = Tail(@) \o u, !.visited = W, !.loops = @ \/ loops # {}]
  BY ZenonT(60) DEF VisitMember, Onward, OutsOf, LoopsOf, OnwardOf
<1>3. /\ DOMAIN search' = DOMAIN search /\ search'.groups = search.groups
      /\ search'.queue = Tail(Q) \o u /\ search'.visited = W
      /\ search'.loops = (search.loops \/ loops # {})
  BY <1>0, <1>2
<1> QED
  BY <1>1, <1>3, Zenon DEF VisitFrom

\* After the last visit of a group.
LEMMA EndMoves ==
  ASSUME DOMAIN search = DOMAIN NoSearch, EndGroup
  PROVE  /\ search.queue = <<>> /\ search.visited # {}
         /\ DOMAIN search' = DOMAIN search /\ search'.groups = search.groups \ {Group}
         /\ search'.queue = <<>> /\ search'.visited = {} /\ search'.loops = FALSE
         /\ failures' = failures \cup
              IF Accepted(Group, search.visited, search.loops) THEN {} ELSE {<<"group", Group>>}
<1>0. DOMAIN search = {"groups", "queue", "visited", "loops", "deps", "open", "closed", "stack"}
  BY DEF NoSearch
<1> PICK g : g = Group
  OBVIOUS
<1>1. /\ search.queue = <<>> /\ search.visited # {}
      /\ search' = [search EXCEPT !.groups = @ \ {g}, !.visited = {}, !.loops = FALSE]
  BY Zenon DEF EndGroup
<1>2. failures' = failures \cup
        IF Accepted(Group, search.visited, search.loops) THEN {} ELSE {<<"group", Group>>}
  BY Zenon DEF EndGroup, Accepted
<1> QED
  BY <1>0, <1>1, <1>2

\* What was found about one group stands if no step after it names the group.
LEMMA GroupToldOn ==
  ASSUME UNCHANGED <<remote, mft>>, NEW g, <<"group", g>> \in failures' <=> <<"group", g>> \in failures
  PROVE  GroupTold(g)' <=> GroupTold(g)
BY GroupFrozen, Zenon DEF GroupTold

\* The walk that takes the first turn, and the one that goes on.
LEMMA GroupVisited ==
  ASSUME IsWiring(remote), UNCHANGED <<remote, mft>>, GroupSearch, VisitMember
  PROVE  GroupSearch' /\ search'.groups = search.groups
<1>1. DOMAIN search = DOMAIN NoSearch /\ search.loops \in BOOLEAN /\ search.groups \subseteq Groups
  BY DEF GroupSearch
<1> PICK g, V, Q, L, W, R, K :
      /\ g = Group /\ V = search.visited /\ Q = search.queue /\ L = search.loops
      /\ W = search'.visited /\ R = search'.queue /\ K = search'.loops
  OBVIOUS
<1>2. /\ Q # <<>> /\ DOMAIN search' = DOMAIN search /\ search'.groups = search.groups
      /\ VisitFrom(g, V, Q, L, W, R, K)
  BY <1>1, VisitMoves
<1>3. K \in BOOLEAN /\ W # {}
  BY <1>1, <1>2 DEF VisitFrom
<1>4. search.groups # {} /\ (Starting \/ Walking)
  BY <1>2 DEF GroupSearch
<1>5. WalkOf(g, W, R, K)
  <2>1. CASE Starting
    <3> PICK s : s = Min(Serving(g))
      OBVIOUS
    <3>1. Serving(g) # {} /\ Q = <<<<s, 0>>>> /\ V = {} /\ L = FALSE
      BY <2>1 DEF Starting
    <3>2. Head(Q)[1] = s /\ Head(Q)[2] = 0
      BY <3>1
    <3>3. /\ W = {s} /\ R = Tail(<<<<s, 0>>>>) \o FarEnds(s, OnwardOf(g, s, 0, {s}))
          /\ K = (LoopsOf(g, s, 0, {s}) # {})
      BY <1>2, <3>1, <3>2 DEF VisitFrom
    <3>4. WalkOf(g, {s}, R, FALSE) /\ LoopsOf(g, s, 0, {s}) = {}
      BY <3>1, <3>3, WalkBegins
    <3> QED
      BY <3>3, <3>4
  <2>2. CASE Walking
    <3>1. WalkOf(g, V, Q, L)
      BY <2>2, Zenon DEF Walking
    <3> QED
      BY <1>1, <1>2, <3>1, WalkVisit
  <2> QED
    BY <1>4, <2>1, <2>2
<1>6. Walking'
  <2>1. WalkOf(g, W, R, K)'
    BY <1>5, GroupFrozen
  <2>2. Group' = g
    BY <1>2 DEF Group
  <2> QED
    BY <1>3, <2>1, <2>2, Zenon DEF Walking
<1> QED
  BY <1>1, <1>2, <1>3, <1>4, <1>6 DEF GroupSearch, NoSearch

\* The beginning of a search: a group that serves no CA has had its turn.
LEMMA GroupStarted ==
  ASSUME UNCHANGED <<remote, mft>>, GroupSearch, StartGroup
  PROVE  /\ GroupSearch' /\ Group \in search.groups
         /\ \/ search'.groups = search.groups
            \/ Serving(Group) = {} /\ search'.groups = search.groups \ {Group}
<1>1. DOMAIN search = DOMAIN NoSearch /\ search.loops \in BOOLEAN /\ search.groups \subseteq Groups
  BY DEF GroupSearch
<1> PICK g : g = Group
  OBVIOUS
<1>2. /\ search.groups # {} /\ search.visited = {} /\ search.queue = <<>>
      /\ DOMAIN search' = DOMAIN search /\ search'.visited = {} /\ search'.loops = search.loops
      /\ IF Serving(g) = {} THEN search'.groups = search.groups \ {g} /\ search'.queue = <<>>
         ELSE search'.groups = search.groups /\ search'.queue = <<<<Min(Serving(g)), 0>>>>
  BY <1>1, StartMoves
<1>3. search.loops = FALSE
  <2>1. ~Starting /\ ~Walking
    BY <1>2 DEF Starting, Walking
  <2> QED
    BY <2>1 DEF GroupSearch
<1>4. CASE Serving(g) = {}
  BY <1>1, <1>2, <1>3, <1>4, GroupIsOne DEF GroupSearch, NoSearch
<1>5. CASE Serving(g) # {}
  <2>1. Group' = g
    BY <1>2, <1>5 DEF Group
  <2>2. Serving(g)' = Serving(g)
    BY GroupFrozen
  <2>3. Starting'
    BY <1>2, <1>3, <1>5, <2>1, <2>2, Zenon DEF Starting
  <2> QED
    BY <1>1, <1>2, <1>3, <1>5, <2>3, GroupIsOne DEF GroupSearch, NoSearch
<1> QED
  BY <1>4, <1>5

\* The end of one: the group is told of as it should be.
LEMMA GroupEnded ==
  ASSUME IsWiring(remote), UNCHANGED <<remote, mft>>, GroupSearch, EndGroup,
         <<"group", Group>> \notin failures
  PROVE  /\ GroupSearch' /\ Group \in search.groups /\ search'.groups = search.groups \ {Group}
         /\ \A g : g = Group => GroupTold(g)'
         /\ failures' = failures \/ failures' = failures \cup {<<"group", Group>>}
<1>1. DOMAIN search = DOMAIN NoSearch /\ search.loops \in BOOLEAN /\ search.groups \subseteq Groups
  BY DEF GroupSearch
<1> PICK g, V, L : g = Group /\ V = search.visited /\ L = search.loops
  OBVIOUS
<1>2. /\ search.queue = <<>> /\ V # {}
      /\ DOMAIN search' = DOMAIN search /\ search'.groups = search.groups \ {g}
      /\ search'.queue = <<>> /\ search'.visited = {} /\ search'.loops = FALSE
      /\ failures' = failures \cup IF Accepted(g, V, L) THEN {} ELSE {<<"group", g>>}
  BY <1>1, EndMoves
<1>3. search.groups # {} /\ Walking
  BY <1>2 DEF GroupSearch, Starting
<1>4. WalkOf(g, V, <<>>, L)
  BY <1>2, <1>3, Zenon DEF Walking
<1>5. /\ Accepted(g, V, L) => Tree(g)
      /\ Tree(g) /\ OneWay(g) = {} => Accepted(g, V, L)
  BY <1>4, WalkEnds
<1>6. Serving(g) # {}
  BY <1>4 DEF WalkOf
<1>7. <<"group", g>> \in failures' <=> ~Accepted(g, V, L)
  BY <1>2
<1>8. GroupTold(g)'
  <2>1. Serving(g)' = Serving(g) /\ OneWay(g)' = OneWay(g) /\ (Tree(g)' <=> Tree(g))
    BY GroupFrozen
  <2> QED
    BY <1>5, <1>6, <1>7, <2>1, Zenon DEF GroupTold
<1>9. GroupSearch' /\ Group \in search.groups
  BY <1>1, <1>2, <1>3, GroupIsOne DEF GroupSearch, NoSearch
<1> QED
  BY <1>2, <1>8, <1>9

\* Every step keeps what is known of the groups.
LEMMA GroupsStep ==
  ASSUME IsWiring(remote), RoutesTold, GroupsTold, [Next \/ Done]_vars
  PROVE  GroupsTold'
<1>1. ASSUME CheckNext, NEW g, <<"group", g>> \in failures' <=> <<"group", g>> \in failures
      PROVE  GroupTold(g)' <=> GroupTold(g)
  BY <1>1, ChecksKeep, GroupToldOn
<1>2. ASSUME CheckNext, stage \in {"report", "graph", "loops"}, stage' \in {"exit", "graph", "loops"},
             \E what \in {"updown", "graph", "loop"} :
               UNCHANGED failures \/ failures' = failures \cup {<<what, 0>>}
      PROVE  GroupsTold'
  <2>1. \A g : <<"group", g>> \in failures' <=> <<"group", g>> \in failures
    BY <1>2
  <2>2. \A g \in Groups : GroupTold(g)
    BY <1>2 DEF GroupsTold
  <2>3. \A g \in Groups : GroupTold(g)'
    BY <1>1, <1>2, <2>1, <2>2
  <2> QED
    BY <1>2, <2>3 DEF GroupsTold, LaterStages
<1>3. ASSUME VerifyAllCaToCaRoutes \/ CountPastHops \/ VerifyAllRoutes
      PROVE  GroupsTold'
  <2>1. stage \in {"check", "verifyAll"} /\ search' = search
    BY <1>3 DEF VerifyAllCaToCaRoutes, CountPastHops, VerifyAllRoutes
  <2>2. search' = NoSearch /\ failures = {}
    BY <2>1 DEF GroupsTold, RoutesTold, LaterStages
  <2>3. \/ stage' = "exit" /\ \E what \in {"ca routes", "all routes"} : <<what, 0>> \in failures'
        \/ stage' \in {"verifyAll", "groups", "crashed"} /\ failures' = failures
    BY <1>3 DEF VerifyAllCaToCaRoutes, CountPastHops, VerifyAllRoutes, Exit
  <2>4. stage' = "exit" => ~RoutesGood'
    BY <2>3 DEF RoutesGood, Found
  <2>5. stage' # "exit" => ~RoutesGood'
    BY DEF RoutesGood
  <2>6. GroupSearch'
    BY <2>2 DEF GroupSearch, NoSearch
  <2>7. search'.groups = Groups
    BY <2>2 DEF NoSearch
  <2> QED
    BY <2>2, <2>3, <2>4, <2>5, <2>6, <2>7 DEF GroupsTold
<1>4. ASSUME StartGroup \/ VisitMember \/ EndGroup
      PROVE  GroupsTold'
  <2>1. CheckNext /\ stage = "groups" /\ stage' = "groups" /\ UNCHANGED <<remote, mft>>
    BY <1>4, GroupSteps, ChecksKeep DEF CheckNext, EndGroup
  <2>2. /\ GroupSearch /\ \A g \in search.groups : <<"group", g>> \notin failures
        /\ \A g \in Groups \ search.groups : GroupTold(g)
    BY <2>1 DEF GroupsTold
  <2>3. ~RoutesGood'
    BY <2>1 DEF RoutesGood
  <2>4. CASE StartGroup
    <3>1. /\ GroupSearch' /\ Group \in search.groups
          /\ \/ search'.groups = search.groups
             \/ Serving(Group) = {} /\ search'.groups = search.groups \ {Group}
      BY <2>1, <2>2, <2>4, GroupStarted
    <3>2. failures' = failures
      BY <2>4, GroupSteps
    <3> PICK h : h = Group
      OBVIOUS
    <3>3. Serving(h) = {} => GroupTold(h)
      BY <2>2, <3>1 DEF GroupTold
    <3>4. \A g \in Groups \ search'.groups : GroupTold(g)
      BY <2>2, <3>1, <3>3
    <3>5. \A g \in Groups \ search'.groups : GroupTold(g)'
      BY <1>1, <2>1, <3>2, <3>4
    <3>6. \A g \in search'.groups : <<"group", g>> \notin failures'
      BY <2>2, <3>1, <3>2
    <3> QED
      BY <2>1, <2>3, <3>1, <3>5, <3>6 DEF GroupsTold, LaterStages
  <2>5. CASE VisitMember
    <3>1. GroupSearch' /\ search'.groups = search.groups
      BY <2>1, <2>2, <2>5, GroupVisited
    <3>2. failures' = failures
      BY <2>5, GroupSteps
    <3>3. \A g \in Groups \ search'.groups : GroupTold(g)'
      BY <1>1, <2>1, <2>2, <3>1, <3>2
    <3> QED
      BY <2>1, <2>2, <2>3, <3>1, <3>2, <3>3 DEF GroupsTold, LaterStages
  <2>6. CASE EndGroup
    <3> PICK h : h = Group
      OBVIOUS
    <3>1. h \in search.groups
      BY <2>6, <2>2, GroupIsOne, EndMoves DEF GroupSearch, Starting
    <3>2. /\ GroupSearch' /\ search'.groups = search.groups \ {h} /\ GroupTold(h)'
          /\ failures' = failures \/ failures' = failures \cup {<<"group", h>>}
      BY <2>1, <2>2, <2>6, <3>1, GroupEnded
    <3>3. \A g : g # h => (<<"group", g>> \in failures' <=> <<"group", g>> \in failures)
      BY <3>2
    <3>4. \A g \in Groups \ search'.groups : GroupTold(g)'
      BY <1>1, <2>1, <2>2, <3>2, <3>3
    <3>5. \A g \in search'.groups : <<"group", g>> \notin failures'
      BY <2>2, <3>2, <3>3
    <3> QED
      BY <2>1, <2>3, <3>2, <3>4, <3>5 DEF GroupsTold, LaterStages
  <2> QED
    BY <1>4, <2>4, <2>5, <2>6
<1>5. ASSUME EndGroups
      PROVE  GroupsTold'
  <2>1. /\ stage = "groups" /\ stage' \in {"exit", "report", "graph"} /\ UNCHANGED failures
        /\ search.groups = {} /\ CheckNext
    BY <1>5 DEF EndGroups, CheckNext
  <2>2. \A g \in Groups : GroupTold(g)
    BY <2>1 DEF GroupsTold
  <2>3. \A g \in Groups : GroupTold(g)'
    BY <1>1, <2>1, <2>2
  <2> QED
    BY <2>1, <2>3 DEF GroupsTold, LaterStages
<1>6. ASSUME DesignNext, UNCHANGED search
      PROVE  GroupsTold'
  BY <1>6, DesignStages DEF GroupsTold, RoutesGood, LaterStages
<1>7. ASSUME UNCHANGED vars
      PROVE  GroupsTold'
  <2>1. UNCHANGED <<remote, mft, failures, search, stage>>
    BY <1>7 DEF vars, subnetVars
  <2>2. \A g : GroupTold(g)' <=> GroupTold(g)
    BY <2>1, GroupToldOn
  <2>3. RoutesGood' <=> RoutesGood
    BY <2>1 DEF RoutesGood, Found
  <2>4. Group' = Group
    BY <2>1 DEF Group
  <2>5. Starting => Starting'
    <3> SUFFICES ASSUME Starting
                 PROVE  Starting'
      OBVIOUS
    <3> PICK g : g = Group
      OBVIOUS
    <3>1. Serving(g)' = Serving(g)
      BY <2>1, GroupFrozen
    <3> QED
      BY <2>1, <2>4, <3>1, Zenon DEF Starting
  <2>6. Walking => Walking'
    <3> SUFFICES ASSUME Walking
                 PROVE  Walking'
      OBVIOUS
    <3>1. PICK g, V, Q, L : /\ g = Group /\ V = search.visited /\ Q = search.queue /\ L = search.loops
                            /\ V # {} /\ WalkOf(g, V, Q, L)
      BY Zenon DEF Walking
    <3>2. WalkOf(g, V, Q, L)'
      BY <2>1, <3>1, GroupFrozen
    <3> QED
      BY <2>1, <2>4, <3>1, <3>2, Zenon DEF Walking
  <2>7. GroupSearch => GroupSearch'
    BY <2>1, <2>5, <2>6 DEF GroupSearch, NoSearch
  <2> QED
    BY <2>1, <2>2, <2>3, <2>7 DEF GroupsTold
<1>8. CASE ReportNonUpDown \/ BuildGraph \/ StartLoopSearch \/ FollowDependency \/ CloseChannel
  <2>1. CheckNext
    BY <1>8 DEF CheckNext
  <2> QED
    BY <1>2, <1>8, <2>1, LastChecks
<1> QED
  BY <1>3, <1>4, <1>5, <1>6, <1>7, <1>8 DEF Next, Design, Check, CheckNext, Done

\* No step takes a cable away.
LEMMA CablesStay == [Next \/ Done]_vars => remote' = remote
<1>1. AssignLids => remote' = remote
  BY SMT DEF AssignLids, GivenVars
<1>2. EndLids => remote' = remote
  BY SMT DEF EndLids, GivenVars
<1> QED
  BY <1>1, <1>2, OthersKeepLids DEF Next, Design, Check, Done, vars, subnetVars, LidsFrozen

\* SubnMgtCheckMCGrp accepts a group only if its cables join all switches with a CA of the
\* group, without a loop, and if all of them are used both ways it accepts no fewer: for any
\* cabling, any ports of any groups, and in both modes.
THEOREM GroupsCorrect == Spec => []GroupVerdict
<1> DEFINE Inv == IsWiring(remote) /\ RoutesTold /\ GroupsTold
<1>1. Init => Inv
  <2> SUFFICES ASSUME Init
               PROVE  Inv
    OBVIOUS
  <2>1. failures = {} /\ stage \in {"lids", "seed"} /\ search = NoSearch
    BY SMT DEF Init, DesignMode, DesignInit, VerificationMode
  <2>2. IsWiring(remote)
    <3>1. DesignMode => remote \in Wirings
      BY SMT DEF DesignMode, DesignInit
    <3>2. VerificationMode => \E v \in Verifications : remote = v.remote
      BY SMT DEF VerificationMode
    <3> QED
      BY <3>1, <3>2, SubnetAssumption, VerificationAssumption DEF Init
  <2>3. RoutesTold /\ GroupsTold
    BY <2>1 DEF RoutesTold, GroupsTold, LaterStages, RoutesGood
  <2> QED
    BY <2>2, <2>3
<1>2. Inv /\ [Next \/ Done]_vars => Inv'
  BY CablesStay, ToldStep, GroupsStep DEF IsWiring
<1>3. Inv => GroupVerdict
  <2> SUFFICES ASSUME Inv, RoutesGood, NEW g \in Groups
               PROVE  LET joined == Joined(Min(Serving(g)), g)
                          tree == /\ Serving(g) \subseteq joined
                                  /\ Cardinality({p \in BothWays(g) : p[1] \in joined})
                                       = 2 * Cardinality(joined) - 2
                      IN IF Serving(g) = {} THEN <<"group", g>> \notin failures
                         ELSE /\ <<"group", g>> \notin failures => tree
                              /\ tree /\ OneWay(g) = {} => <<"group", g>> \notin failures
    BY Zenon DEF GroupVerdict
  <2>1. GroupTold(g)
    BY DEF GroupsTold
  <2> QED
    BY <2>1, Zenon DEF GroupTold, Tree
<1> QED
  BY <1>1, <1>2, <1>3, PTL DEF Spec
===============================================================================
