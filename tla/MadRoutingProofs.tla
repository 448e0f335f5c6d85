--------------------------- MODULE MadRoutingProofs ---------------------------
(***************************************************************************)
(* Proofs about the way of a MAD, for any fabric and any forwarding tables *)
(* and links, which may change while the MAD is on its way.                *)
(*                                                                         *)
(* A directed route has walked a trail of ports; the return path of the    *)
(* MAD says where each cable of the trail came in, so that the response    *)
(* finds the other end of each cable, in the opposite order.               *)
(***************************************************************************)
EXTENDS MadRouting, DataLemmas, SequenceTheorems, FiniteSetTheorems, TLAPS

MadType ==
  [pc : {"none", "lid", "out", "response", "back"} \cup Ends,
   by : {"lid", "path"}, from : Sources,
   at : Positions,
   first : BOOLEAN, vl15 : BOOLEAN, dlid : Lids \cup {0}, mixed : BOOLEAN,
   path : Seq(PortNums), back : Seq(PortNums), hop : 0 .. MaxPath[cable] + 1]

\* The cables of the fabric are what it started with; the tables have their type.
FabricOK ==
  /\ cable \in Cables /\ lft \in [Switches -> [Lids -> PortNums \cup {0, Unassigned}]]
  /\ link \in [DOMAIN cable -> LinkStates[cable]]

\* What the state of a MAD says of its class.
ClassOK ==
  /\ mad.pc = "lid" => mad.by = "lid"
  /\ mad.pc \in {"out", "response", "back"} =>
       mad.by = "path" /\ Len(mad.path) <= MaxPath[cable] /\ Len(mad.back) <= Len(mad.path)
  /\ mad.pc \in {"out", "response"} => mad.hop = Len(mad.back) + 1
  /\ mad.pc = "response" => Len(mad.back) = Len(mad.path)
  /\ mad.pc = "back" => Len(mad.back) = Len(mad.path) /\ mad.hop <= Len(mad.back)

\* The trail: where the request was after each cable, and by which port it came in.
IsTrail(pos) ==
  /\ pos[1] = mad.from
  /\ \A j \in 1 .. Len(mad.back) :
       /\ <<pos[j][1], mad.path[j]>> \in DOMAIN cable
       /\ cable[<<pos[j][1], mad.path[j]>>] = pos[j + 1]
       /\ mad.back[j] = pos[j + 1][2]

\* The request is at the end of the trail; the response, on the way back, at the node
\* where the trail was after as many cables as it has left, and it came in by the port
\* that the request left this node by.
OnTrail(pos) ==
  /\ IsTrail(pos)
  /\ mad.pc \in {"out", "response"} => mad.at = pos[mad.hop]
  /\ mad.pc = "back" =>
       /\ mad.at[1] = pos[mad.hop + 1][1]
       /\ mad.at[2] = IF mad.hop = Len(mad.back) THEN pos[mad.hop + 1][2]
                      ELSE mad.path[mad.hop + 1]

TrailOK ==
  mad.pc \in {"out", "response", "back"} => \E pos \in [Nat -> Positions] : OnTrail(pos)

RoutingInv == FabricOK /\ mad \in MadType /\ ClassOK /\ TrailOK /\ RoundTrip

\* What the assumptions say of a fabric.
LEMMA FabricFacts ==
  ASSUME FabricOK
  PROVE  /\ MaxPath[cable] \in Nat
         /\ Positions \subseteq Nodes \X (PortNums \cup {0})
         /\ DOMAIN cable \subseteq Nodes \X PortNums
         /\ \A p \in DOMAIN cable : /\ cable[p] \in DOMAIN cable /\ cable[p] \in Positions
                                    /\ cable[p][2] \in PortNums /\ cable[cable[p]] = p
         /\ Sources \subseteq Positions /\ NoMad \in MadType /\ NoMad.pc = "none"
         /\ lft \in [Switches -> [Lids -> PortNums \cup {0, Unassigned}]]
<1>1. /\ MaxPath[cable] \in Nat /\ DOMAIN cable \subseteq Nodes \X PortNums
      /\ \A p \in DOMAIN cable : cable[p] \in DOMAIN cable /\ cable[cable[p]] = p
      /\ Sources = {p \in DOMAIN cable : p[1] \in Hcas} \cup (Switches \X {0})
      /\ Sources # {}
      /\ lft \in [Switches -> [Lids -> PortNums \cup {0, Unassigned}]]
  BY RoutingAssumption DEF FabricOK, Sources
<1>2. Sources \subseteq Positions /\ DOMAIN cable \subseteq Positions
  BY <1>1 DEF Positions
<1>3. \A p \in DOMAIN cable : cable[p][2] \in PortNums
  BY <1>1
<1>4. Positions \subseteq Nodes \X (PortNums \cup {0})
  BY <1>1 DEF Positions, Nodes
<1>5. PICK p \in Sources : p = CHOOSE q \in Sources : TRUE
  BY <1>1
<1>6. NoMad \in MadType /\ NoMad.pc = "none"
  <2>1. 0 \in 0 .. MaxPath[cable] + 1 /\ <<>> \in Seq(PortNums)
    BY <1>1
  <2> QED
    BY <1>2, <1>5, <2>1 DEF NoMad, MadType
<1> QED
  BY <1>1, <1>2, <1>3, <1>4, <1>6

\* The invariant gives the type invariant.
LEMMA RoutingTypes == RoutingInv => TypeOK
  BY FabricFacts DEF RoutingInv, TypeOK, MadType, FabricOK

\* The initial states satisfy the invariant.
LEMMA RoutingInit == Init => RoutingInv
<1> SUFFICES ASSUME Init PROVE RoutingInv
  OBVIOUS
<1>1. FabricOK
  BY RoutingAssumption DEF Init, FabricOK
<1> QED
  BY <1>1, FabricFacts DEF Init, RoutingInv, ClassOK, TrailOK, RoundTrip

-----------------------------------------------------------------------------
(* One step. *)

\* The end of a MAD routed by LID, and the loss of any.
LEMMA RoutingEnd ==
  ASSUME RoutingInv, UNCHANGED <<cable, lft, link>>, NEW pc \in Ends,
         mad' = [mad EXCEPT !.pc = pc], mad.by = "lid" \/ pc # "done"
  PROVE  RoutingInv'
<1>1. mad \in MadType /\ pc \in {"done", "dropped", "refused"}
  BY DEF RoutingInv, Ends
<1>2. mad' \in MadType' /\ mad'.pc = pc /\ mad'.by = mad.by
  BY <1>1 DEF MadType, Positions, Ends
<1>3. FabricOK'
  BY DEF RoutingInv, FabricOK
<1>4. ClassOK' /\ TrailOK'
  BY <1>1, <1>2 DEF ClassOK, TrailOK
<1>5. RoundTrip'
  BY <1>2 DEF RoundTrip
<1> QED
  BY <1>2, <1>3, <1>4, <1>5 DEF RoutingInv

\* A MAD is sent.
LEMMA RoutingSend ==
  ASSUME RoutingInv, Send
  PROVE  RoutingInv'
<1>1. /\ UNCHANGED <<cable, lft, link>>
      /\ \E p \in Sources :
           \/ \E lid \in Lids, vl15 \in BOOLEAN :
                mad' = [NoMad EXCEPT !.pc = "lid", !.from = p, !.at = p, !.dlid = lid, !.vl15 = vl15]
           \/ \E path \in Paths, mixed \in BOOLEAN :
                mad' = [NoMad EXCEPT !.pc = "out", !.by = "path", !.from = p, !.at = p,
                                     !.mixed = mixed, !.path = path, !.hop = 1]
  BY DEF Send, SendByLid, SendByPath
<1>2. PICK p \in Sources :
           \/ \E lid \in Lids, vl15 \in BOOLEAN :
                mad' = [NoMad EXCEPT !.pc = "lid", !.from = p, !.at = p, !.dlid = lid, !.vl15 = vl15]
           \/ \E path \in Paths, mixed \in BOOLEAN :
                mad' = [NoMad EXCEPT !.pc = "out", !.by = "path", !.from = p, !.at = p,
                                     !.mixed = mixed, !.path = path, !.hop = 1]
  BY <1>1
<1>3. /\ FabricOK /\ p \in Positions /\ NoMad \in MadType /\ MaxPath[cable] \in Nat
  BY FabricFacts DEF RoutingInv
<1>4. FabricOK' /\ MadType' = MadType /\ Positions' = Positions
  BY <1>1, <1>3 DEF FabricOK, MadType, Positions
<1>5. CASE \E lid \in Lids, vl15 \in BOOLEAN :
             mad' = [NoMad EXCEPT !.pc = "lid", !.from = p, !.at = p, !.dlid = lid, !.vl15 = vl15]
  <2>2. PICK lid \in Lids, vl15 \in BOOLEAN :
          mad' = [NoMad EXCEPT !.pc = "lid", !.from = p, !.at = p, !.dlid = lid, !.vl15 = vl15]
    BY <1>5
  <2>3. mad' = [pc |-> "lid", by |-> "lid", from |-> p, at |-> p, first |-> TRUE, vl15 |-> vl15,
                dlid |-> lid, mixed |-> FALSE, path |-> <<>>, back |-> <<>>, hop |-> 0]
    BY <2>2 DEF NoMad
  <2>4. NoMad.path \in Seq(PortNums) /\ NoMad.path = <<>>
    BY <1>3 DEF MadType, NoMad
  <2>1. mad' \in MadType /\ mad'.pc = "lid" /\ mad'.by = "lid"
    BY <1>3, <2>3, <2>4 DEF MadType
  <2> QED
    BY <1>4, <2>1 DEF RoutingInv, ClassOK, TrailOK, RoundTrip
<1>6. CASE \E path \in Paths, mixed \in BOOLEAN :
             mad' = [NoMad EXCEPT !.pc = "out", !.by = "path", !.from = p, !.at = p,
                                  !.mixed = mixed, !.path = path, !.hop = 1]
  <2>1. PICK path \in Paths, mixed \in BOOLEAN :
          mad' = [NoMad EXCEPT !.pc = "out", !.by = "path", !.from = p, !.at = p,
                               !.mixed = mixed, !.path = path, !.hop = 1]
    BY <1>6
  <2>2. path \in Seq(PortNums) /\ Len(path) \in Nat /\ Len(path) <= MaxPath[cable]
    <3>1. PICK n \in 0 .. MaxPath[cable] : path \in [1 .. n -> PortNums]
      BY DEF Paths
    <3> QED
      BY <1>3, <3>1
  <2>3. /\ mad' \in MadType /\ mad'.pc = "out" /\ mad'.by = "path" /\ mad'.from = p /\ mad'.at = p
        /\ mad'.path = path /\ mad'.back = <<>> /\ mad'.hop = 1
    <3>1. 1 \in 0 .. MaxPath[cable] + 1
      BY <1>3
    <3> QED
      BY <1>3, <2>1, <2>2, <3>1 DEF MadType, NoMad
  <2>4. ClassOK' /\ RoundTrip'
    <3>1. Len(mad'.path) <= MaxPath[cable]' /\ Len(mad'.back) = 0
      BY <1>1, <2>2, <2>3
    <3> QED
      BY <1>3, <2>2, <2>3, <3>1 DEF ClassOK, RoundTrip
  <2>5. TrailOK'
    <3> DEFINE pos == [j \in Nat |-> p]
    <3>1. pos \in [Nat -> Positions] /\ pos[1] = p
      BY <1>3
    <3>2. OnTrail(pos)'
      BY <2>3, <3>1 DEF OnTrail, IsTrail
    <3> HIDE DEF pos
    <3> QED
      BY <1>4, <3>1, <3>2 DEF TrailOK, OnTrail, IsTrail
  <2> QED
    BY <1>4, <2>3, <2>4, <2>5 DEF RoutingInv
<1> QED
  BY <1>2, <1>5, <1>6

\* One hop by LID.
LEMMA RoutingByLid ==
  ASSUME RoutingInv, LeaveHca \/ ArriveAtHca \/ Forward
  PROVE  RoutingInv'
<1>1. UNCHANGED <<cable, lft, link>> /\ mad.pc = "lid" /\ mad.by = "lid" /\ mad \in MadType
  BY DEF LeaveHca, ArriveAtHca, Forward, Finish, Out, ByLidAt, RoutingInv, ClassOK
<1>2. \/ \E pc \in {"done", "dropped"} : mad' = [mad EXCEPT !.pc = pc]
      \/ \E p \in DOMAIN cable : mad' = Arrived(cable[p])
  <2>1. CASE ArriveAtHca
    BY <2>1 DEF ArriveAtHca, Finish
  <2>2. CASE LeaveHca
    BY <2>2 DEF LeaveHca, Finish, Out, Passes
  <2>3. CASE Forward
    <3>1. CASE Entry = Unassigned \/ Entry = 0
      BY <2>3, <3>1 DEF Forward, Finish
    <3>2. CASE Entry # Unassigned /\ Entry # 0
      <4> DEFINE p == <<mad.at[1], Entry>>
                 q == cable[p]
      <4>1. Out(p, mad.vl15, IF q[1] = p[1] THEN [mad EXCEPT !.pc = "done"] ELSE Arrived(q))
        BY <2>3, <3>2 DEF Forward
      <4> HIDE DEF p
      <4> QED
        BY <4>1 DEF Out, Passes
    <3> QED
      BY <3>1, <3>2
  <2> QED
    BY <2>1, <2>2, <2>3
<1>3. CASE \E pc \in {"done", "dropped"} : mad' = [mad EXCEPT !.pc = pc]
  BY <1>1, <1>3, RoutingEnd DEF Ends
<1>4. CASE \E p \in DOMAIN cable : mad' = Arrived(cable[p])
  <2>1. PICK p \in DOMAIN cable : mad' = [mad EXCEPT !.at = cable[p], !.first = FALSE]
    BY <1>4 DEF Arrived
  <2>2. cable[p] \in Positions
    BY FabricFacts DEF RoutingInv
  <2>3. FabricOK' /\ MadType' = MadType
    BY <1>1 DEF RoutingInv, FabricOK, MadType, Positions
  <2>4. mad' \in MadType /\ mad'.pc = "lid" /\ mad'.by = "lid"
    BY <1>1, <2>1, <2>2 DEF MadType
  <2> QED
    BY <2>3, <2>4 DEF RoutingInv, ClassOK, TrailOK, RoundTrip
<1> QED
  BY <1>2, <1>3, <1>4

\* One hop out makes the trail longer.
LEMMA RoutingFollowPath ==
  ASSUME RoutingInv, FollowPath
  PROVE  RoutingInv'
<1> DEFINE p == <<mad.at[1], mad.path[mad.hop]>>
<1>1. /\ mad.pc = "out" /\ mad.hop <= Len(mad.path) /\ mad \in MadType
      /\ UNCHANGED <<cable, lft, link>>
      /\ \/ /\ p \in DOMAIN cable
            /\ mad' = [mad EXCEPT !.at = cable[p], !.back = Append(mad.back, cable[p][2]),
                                  !.hop = mad.hop + 1]
         \/ mad' = [mad EXCEPT !.pc = "dropped"]
  BY DEF FollowPath, Out, Passes, RoutingInv
<1>2. CASE mad' = [mad EXCEPT !.pc = "dropped"]
  BY <1>1, <1>2, RoutingEnd DEF Ends
<1>3. CASE /\ p \in DOMAIN cable
           /\ mad' = [mad EXCEPT !.at = cable[p], !.back = Append(mad.back, cable[p][2]),
                                 !.hop = mad.hop + 1]
  <2>0. cable[p] \in Positions /\ Append(mad.back, cable[p][2]) \in Seq(PortNums)
        /\ Len(mad.back) \in Nat
    <3>1. cable[p] \in Positions /\ cable[p][2] \in PortNums /\ mad.back \in Seq(PortNums)
      BY <1>1, <1>3, FabricFacts DEF RoutingInv, MadType
    <3> QED
      BY <3>1
  <2> PICK q \in Positions : q = cable[p]
    BY <2>0
  <2> PICK back \in Seq(PortNums) : back = Append(mad.back, q[2])
    BY <2>0
  <2> PICK n \in Nat : n = Len(mad.back)
    BY <2>0
  <2>1. /\ q \in DOMAIN cable /\ q \in Positions /\ q[2] \in PortNums /\ MaxPath[cable] \in Nat
    BY <1>3, FabricFacts DEF RoutingInv
  <2>2. /\ mad.by = "path" /\ n \in Nat /\ mad.hop = n + 1 /\ Len(mad.path) \in Nat
        /\ Len(mad.path) <= MaxPath[cable] /\ mad.back \in Seq(PortNums) /\ mad.path \in Seq(PortNums)
        /\ n + 1 <= Len(mad.path)
    BY <1>1 DEF RoutingInv, ClassOK, MadType
  <2>3. /\ back \in Seq(PortNums) /\ Len(back) = n + 1 /\ back[n + 1] = q[2]
        /\ \A j \in 1 .. n : back[j] = mad.back[j]
    BY <2>1, <2>2
  <2> HIDE DEF p
  <2>4. /\ mad' \in MadType /\ mad'.pc = "out" /\ mad'.by = "path" /\ mad'.from = mad.from
        /\ mad'.at = q /\ mad'.path = mad.path /\ mad'.back = back /\ mad'.hop = n + 2
    <3>1. mad.hop + 1 \in 0 .. MaxPath[cable] + 1 /\ mad.hop + 1 = n + 2
      BY <2>1, <2>2
    <3>2. mad' = [mad EXCEPT !.at = q, !.back = back, !.hop = mad.hop + 1]
      BY <1>3
    <3> PICK hop \in 0 .. MaxPath[cable] + 1 : hop = mad.hop + 1
      BY <3>1
    <3>3. [mad EXCEPT !.at = q, !.back = back, !.hop = hop] \in MadType
      BY <1>1 DEF MadType
    <3>4. mad' = [mad EXCEPT !.at = q, !.back = back, !.hop = hop]
      BY <3>2
    <3>5. MadType' = MadType
      BY <1>1 DEF MadType, Positions
    <3> QED
      BY <1>1, <3>1, <3>3, <3>4, <3>5, <2>2 DEF MadType
  <2>5. FabricOK' /\ MadType' = MadType /\ Positions' = Positions
    BY <1>1 DEF RoutingInv, FabricOK, MadType, Positions
  <2>6. ClassOK' /\ RoundTrip'
    BY <1>1, <2>2, <2>3, <2>4 DEF ClassOK, RoundTrip
  <2>7. TrailOK'
    <3>1. PICK pos \in [Nat -> Positions] : OnTrail(pos)
      BY <1>1 DEF RoutingInv, TrailOK
    <3>0. [pos EXCEPT ![n + 2] = q] \in [Nat -> Positions]
      BY <2>1, <2>2
    <3> PICK ext \in [Nat -> Positions] : ext = [pos EXCEPT ![n + 2] = q]
      BY <3>0
    <3>2. ext[n + 2] = q /\ \A j \in 1 .. n + 1 : ext[j] = pos[j]
      BY <2>1, <2>2
    <3>3. /\ pos[1] = mad.from /\ mad.at = pos[n + 1]
          /\ \A j \in 1 .. n :
               /\ <<pos[j][1], mad.path[j]>> \in DOMAIN cable
               /\ cable[<<pos[j][1], mad.path[j]>>] = pos[j + 1]
               /\ mad.back[j] = pos[j + 1][2]
      BY <1>1, <2>2, <3>1 DEF OnTrail, IsTrail
    <3>4. ASSUME NEW j \in 1 .. n + 1
          PROVE  /\ <<ext[j][1], mad.path[j]>> \in DOMAIN cable
                 /\ cable[<<ext[j][1], mad.path[j]>>] = ext[j + 1]
                 /\ back[j] = ext[j + 1][2]
      <4>1. CASE j = n + 1
        <5>1. j + 1 = n + 2 /\ p = <<ext[j][1], mad.path[j]>>
          BY <2>2, <3>2, <3>3, <4>1 DEF p
        <5>2. p \in DOMAIN cable /\ cable[p] = q
          BY <1>3
        <5>3. ext[n + 2] = q /\ back[j] = q[2]
          BY <2>3, <3>2, <4>1
        <5> QED
          BY <5>1, <5>2, <5>3
      <4>2. CASE j # n + 1
        <5>1. j \in 1 .. n /\ j + 1 \in 1 .. n + 1
          BY <2>2, <4>2
        <5>2. ext[j] = pos[j] /\ ext[j + 1] = pos[j + 1] /\ back[j] = mad.back[j]
          BY <2>3, <3>2, <5>1
        <5> QED
          BY <3>3, <5>1, <5>2
      <4> QED
        BY <4>1, <4>2
    <3>5. OnTrail(ext)'
      <4>1. ext[1] = mad.from /\ n + 1 = Len(mad'.back)
        BY <2>2, <2>3, <2>4, <3>2, <3>3
      <4>2. IsTrail(ext)'
        BY <1>1, <2>4, <3>4, <4>1 DEF IsTrail
      <4> QED
        BY <2>4, <3>2, <4>2 DEF OnTrail
    <3> QED
      BY <2>5, <3>2, <3>5 DEF TrailOK
  <2> QED
    BY <2>4, <2>5, <2>6, <2>7 DEF RoutingInv
<1> QED
  BY <1>1, <1>2, <1>3

\* The SMA answers: the trail is as long as the path.
LEMMA RoutingTurn ==
  ASSUME RoutingInv, Respond \/ StartBack
  PROVE  RoutingInv'
<1>1. UNCHANGED <<cable, lft, link>> /\ mad \in MadType /\ mad.by = "path"
      /\ mad.pc \in {"out", "response"}
  BY DEF Respond, StartBack, RoutingInv, ClassOK
<1>2. FabricOK' /\ MadType' = MadType /\ Positions' = Positions
  BY <1>1 DEF RoutingInv, FabricOK, MadType, Positions
<1>3. /\ Len(mad.path) \in Nat /\ Len(mad.back) \in Nat /\ mad.hop = Len(mad.back) + 1
      /\ Len(mad.back) <= Len(mad.path) /\ MaxPath[cable] \in Nat
  BY <1>1, FabricFacts DEF RoutingInv, ClassOK, MadType
<1>4. PICK pos \in [Nat -> Positions] : OnTrail(pos)
  BY <1>1 DEF RoutingInv, TrailOK
<1>5. CASE Respond
  <2>1. mad.hop > Len(mad.path) /\ mad' = [mad EXCEPT !.pc = "response"]
    BY <1>5 DEF Respond
  <2>2. /\ mad' \in MadType /\ mad'.pc = "response" /\ mad'.by = mad.by /\ mad'.from = mad.from
        /\ mad'.at = mad.at /\ mad'.path = mad.path /\ mad'.back = mad.back /\ mad'.hop = mad.hop
    BY <1>1, <2>1 DEF MadType
  <2>3. ClassOK' /\ RoundTrip'
    BY <1>1, <1>3, <2>1, <2>2 DEF RoutingInv, ClassOK, RoundTrip
  <2>4. OnTrail(pos)'
    BY <1>1, <1>4, <2>2 DEF OnTrail, IsTrail
  <2> QED
    BY <1>2, <2>2, <2>3, <2>4 DEF RoutingInv, TrailOK
<1>6. CASE StartBack /\ mad.mixed
  <2>1. mad' = [mad EXCEPT !.pc = "refused"]
    BY <1>6 DEF StartBack
  <2> QED
    BY <1>1, <2>1, RoutingEnd DEF Ends
<1>7. CASE StartBack /\ ~mad.mixed
  <2>1. mad.pc = "response" /\ mad' = [mad EXCEPT !.pc = "back", !.hop = mad.hop - 1]
    BY <1>7 DEF StartBack
  <2>2. mad.hop - 1 \in 0 .. MaxPath[cable] + 1 /\ mad.hop - 1 = Len(mad.back)
        /\ Len(mad.back) = Len(mad.path)
    BY <1>1, <1>3, <2>1 DEF RoutingInv, ClassOK, MadType
  <2>3. /\ mad' \in MadType /\ mad'.pc = "back" /\ mad'.by = mad.by /\ mad'.from = mad.from
        /\ mad'.at = mad.at /\ mad'.path = mad.path /\ mad'.back = mad.back
        /\ mad'.hop = Len(mad.back)
    BY <1>1, <2>1, <2>2 DEF MadType
  <2>4. ClassOK' /\ RoundTrip'
    BY <1>1, <1>3, <2>1, <2>2, <2>3 DEF RoutingInv, ClassOK, RoundTrip
  <2>5. OnTrail(pos)'
    <3>1. mad.at = pos[Len(mad.back) + 1]
      BY <1>3, <1>4, <2>1 DEF OnTrail
    <3>2. IsTrail(pos)'
      BY <1>1, <1>4, <2>3 DEF OnTrail, IsTrail
    <3> QED
      BY <2>3, <3>1, <3>2 DEF OnTrail
  <2> QED
    BY <1>2, <2>3, <2>4, <2>5 DEF RoutingInv, TrailOK
<1> QED
  BY <1>5, <1>6, <1>7

\* One hop back: the cable by which the request came in leads to the port it left by.
LEMMA RoutingFollowBack ==
  ASSUME RoutingInv, FollowBack
  PROVE  RoutingInv'
<1> DEFINE p == <<mad.at[1], mad.back[mad.hop]>>
<1>1. /\ mad.pc = "back" /\ mad.hop > 0 /\ mad \in MadType
      /\ UNCHANGED <<cable, lft, link>>
      /\ \/ /\ p \in DOMAIN cable
            /\ mad' = [mad EXCEPT !.at = cable[p], !.hop = mad.hop - 1]
         \/ mad' = [mad EXCEPT !.pc = "dropped"]
  BY DEF FollowBack, Out, Passes, RoutingInv
<1>2. CASE mad' = [mad EXCEPT !.pc = "dropped"]
  BY <1>1, <1>2, RoutingEnd DEF Ends
<1>3. CASE /\ p \in DOMAIN cable
           /\ mad' = [mad EXCEPT !.at = cable[p], !.hop = mad.hop - 1]
  <2> DEFINE q == cable[p]
  <2>1. q \in Positions /\ MaxPath[cable] \in Nat
    BY <1>3, FabricFacts DEF RoutingInv
  <2>2. /\ mad.by = "path" /\ Len(mad.back) \in Nat /\ mad.hop \in 1 .. Len(mad.back)
        /\ Len(mad.back) = Len(mad.path) /\ mad.hop \in 0 .. MaxPath[cable] + 1
    BY <1>1 DEF RoutingInv, ClassOK, MadType
  <2> DEFINE k == mad.hop
  <2>3. PICK pos \in [Nat -> Positions] : OnTrail(pos)
    BY <1>1 DEF RoutingInv, TrailOK
  <2>4. /\ <<pos[k][1], mad.path[k]>> \in DOMAIN cable
        /\ cable[<<pos[k][1], mad.path[k]>>] = pos[k + 1]
        /\ mad.back[k] = pos[k + 1][2] /\ mad.at[1] = pos[k + 1][1]
    BY <1>1, <2>2, <2>3 DEF OnTrail, IsTrail
  <2>5. p = pos[k + 1]
    <3>1. k + 1 \in Nat
      BY <2>2
    <3>2. pos[k + 1] \in Nodes \X (PortNums \cup {0})
      BY <2>3, <3>1, FabricFacts DEF RoutingInv
    <3> QED
      BY <2>4, <3>2
  <2>6. q = <<pos[k][1], mad.path[k]>>
    BY <2>4, <2>5, FabricFacts DEF RoutingInv
  <2> HIDE DEF q, p
  <2>7. /\ mad' \in MadType /\ mad'.pc = "back" /\ mad'.by = mad.by /\ mad'.from = mad.from
        /\ mad'.at = q /\ mad'.path = mad.path /\ mad'.back = mad.back /\ mad'.hop = k - 1
    <3>1. k - 1 \in 0 .. MaxPath[cable] + 1
      BY <2>1, <2>2
    <3>2. mad' = [mad EXCEPT !.at = q, !.hop = k - 1]
      BY <1>3 DEF q
    <3> QED
      BY <1>1, <2>1, <3>1, <3>2 DEF MadType
  <2>8. FabricOK' /\ MadType' = MadType /\ Positions' = Positions
    BY <1>1 DEF RoutingInv, FabricOK, MadType, Positions
  <2>9. ClassOK' /\ RoundTrip'
    BY <1>1, <2>2, <2>7 DEF RoutingInv, ClassOK, RoundTrip
  <2>10. OnTrail(pos)'
    <3>1. IsTrail(pos)'
      BY <1>1, <2>3, <2>7 DEF OnTrail, IsTrail
    <3>2. k - 1 + 1 = k /\ k - 1 # Len(mad.back)
      BY <2>2
    <3>3. q[1] = pos[k][1] /\ q[2] = mad.path[k]
      BY <2>6
    <3> QED
      BY <2>7, <3>1, <3>2, <3>3 DEF OnTrail
  <2> QED
    BY <2>7, <2>8, <2>9, <2>10 DEF RoutingInv, TrailOK
<1> QED
  BY <1>1, <1>2, <1>3

\* The response is where the request began.
LEMMA RoutingEndBack ==
  ASSUME RoutingInv, EndBack
  PROVE  RoutingInv'
<1>1. /\ mad.pc = "back" /\ mad.hop = 0 /\ mad \in MadType
      /\ UNCHANGED <<cable, lft, link>> /\ mad' = [mad EXCEPT !.pc = "done"]
  BY DEF EndBack, Finish, RoutingInv
<1>2. /\ mad' \in MadType /\ mad'.pc = "done" /\ mad'.by = mad.by /\ mad'.from = mad.from
      /\ mad'.at = mad.at /\ mad'.path = mad.path
  BY <1>1 DEF MadType, Ends
<1>3. Len(mad.back) = Len(mad.path) /\ mad.path \in Seq(PortNums)
  BY <1>1 DEF RoutingInv, ClassOK, MadType
<1>4. PICK pos \in [Nat -> Positions] : OnTrail(pos)
  BY <1>1 DEF RoutingInv, TrailOK
<1>5. /\ mad.at[1] = mad.from[1]
      /\ mad.at[2] = IF Len(mad.back) = 0 THEN mad.from[2] ELSE mad.path[1]
  BY <1>1, <1>4 DEF OnTrail, IsTrail
<1>6. RoundTrip'
  BY <1>2, <1>3, <1>5 DEF RoundTrip
<1>7. FabricOK' /\ MadType' = MadType
  BY <1>1 DEF RoutingInv, FabricOK, MadType, Positions
<1> QED
  BY <1>2, <1>6, <1>7 DEF RoutingInv, ClassOK, TrailOK

\* Tables and links change, but cables do not: the trail remains.
LEMMA RoutingLinks ==
  ASSUME RoutingInv, UNCHANGED <<cable, mad>>, link' \in [DOMAIN cable -> LinkStates[cable]],
         lft' \in [Switches -> [Lids -> PortNums \cup {0, Unassigned}]]
  PROVE  RoutingInv'
<1>1. FabricOK' /\ MadType' = MadType /\ Positions' = Positions
  BY DEF RoutingInv, FabricOK, MadType, Positions
<1>2. ClassOK' /\ RoundTrip'
  BY DEF RoutingInv, ClassOK, RoundTrip
<1>3. TrailOK'
  BY <1>1 DEF RoutingInv, TrailOK, OnTrail, IsTrail
<1> QED
  BY <1>1, <1>2, <1>3 DEF RoutingInv

-----------------------------------------------------------------------------
(* By LID: the tables, while no link changes. *)

\* LeadsThere is closed and nothing else is in it: a port is near the end when it is one,
\* or when the switch sends the MAD on to a port that is near.
LEMMA NearFacts ==
  ASSUME FabricOK, NEW lid \in Lids, NEW vl15 \in BOOLEAN
  PROVE  \A p \in Positions :
           p \in LeadsThere(lid, vl15) <=>
             \/ Accepts(p, lid, vl15)
             \/ /\ p[1] \in Switches /\ Passes(<<p[1], lft[p[1]][lid]>>, vl15)
                /\ cable[<<p[1], lft[p[1]][lid]>>] \in LeadsThere(lid, vl15)
<1> DEFINE On(p, near) == /\ p[1] \in Switches /\ Passes(<<p[1], lft[p[1]][lid]>>, vl15)
                          /\ cable[<<p[1], lft[p[1]][lid]>>] \in near
           Ends0 == {p \in Positions : Accepts(p, lid, vl15)}
           Further0 == [near \in SUBSET Positions |-> near \cup {p \in Positions : On(p, near)}]
<1>1. IsFiniteSet(Positions)
  <2>1. IsFiniteSet(DOMAIN cable) /\ IsFiniteSet(Switches)
    BY RoutingAssumption DEF FabricOK
  <2>2. IsFiniteSet(Switches \X {0})
    BY <2>1, FS_Product, FS_Singleton
  <2> QED
    BY <2>1, <2>2, FS_Union DEF Positions
<1> PICK U : U = Positions
  OBVIOUS
<1> PICK N : N = Cardinality(U)
  OBVIOUS
<1>2. N \in Nat /\ N <= N /\ IsFiniteSet(U)
  BY <1>1, FS_CardinalityType
<1> PICK x : x = Ends0
  OBVIOUS
<1> PICK f : f = Further0
  OBVIOUS
<1>3. LeadsThere(lid, vl15) = Iterated(x, f, N)[N]
  BY Zenon DEF LeadsThere, Iterated
<1>4. x \subseteq U /\ Grows(f, U)
  BY DEF Grows
<1> PICK near : near = LeadsThere(lid, vl15)
  OBVIOUS
<1>5. /\ near \in SUBSET U /\ x \subseteq near /\ f[near] = near
      /\ \A T \in SUBSET U : x \subseteq T /\ (\A s \in SUBSET T : f[s] \subseteq T) => near \subseteq T
  <2>1. near = Iterated(x, f, N)[N] /\ Cardinality(U) <= N
    BY <1>2, <1>3
  <2>2. IsClosure(near, x, f, U)
    BY ONLY <1>2, <1>4, <2>1, Closing
  <2> QED
    BY ONLY <2>2 DEF IsClosure
<1>6. ASSUME NEW p \in Positions, Accepts(p, lid, vl15) \/ On(p, near)
      PROVE  p \in near
  <2>1. CASE Accepts(p, lid, vl15)
    BY <1>5, <2>1
  <2>2. CASE On(p, near)
    <3>1. p \in f[near]
      BY <1>5, <2>2
    <3> QED
      BY <1>5, <3>1
  <2> QED
    BY <1>6, <2>1, <2>2
<1>7. near \subseteq {p \in near : Accepts(p, lid, vl15) \/ On(p, near)}
  <2> PICK T : T = {p \in near : Accepts(p, lid, vl15) \/ On(p, near)}
    OBVIOUS
  <2>1. T \in SUBSET U /\ x \subseteq T
    BY <1>5
  <2>2. ASSUME NEW s \in SUBSET T
        PROVE  f[s] \subseteq T
    <3>1. s \in SUBSET U /\ s \subseteq near
      BY <2>1
    <3>2. ASSUME NEW p \in Positions, On(p, s)
          PROVE  p \in T
      <4>1. On(p, near)
        BY <3>1, <3>2
      <4> QED
        BY <1>6, <4>1
    <3>3. f[s] = s \cup {p \in Positions : On(p, s)}
      BY <3>1
    <3> HIDE DEF On
    <3> QED
      BY <3>2, <3>3
  <2>3. near \subseteq T
    BY ONLY <1>5, <2>1, <2>2, Zenon
  <2> QED
    BY <2>3
<1> QED
  BY <1>6, <1>7

\* What FollowsTables says of calm fabrics.
CalmFollows ==
  cable \in Calm /\ mad.by = "lid" /\ mad.pc \in Ends =>
    /\ (mad.pc = "done") = LeadsFrom(mad.from, mad.dlid, mad.vl15)
    /\ mad.pc = "done" => Accepts(mad.at, mad.dlid, mad.vl15)

\* Where a MAD by LID is, it is near the end exactly when the way from its port leads there.
FollowOK ==
  cable \in Calm /\ mad.by = "lid" /\ mad.pc # "none" =>
    /\ mad.dlid \in Lids
    /\ mad.pc = "lid" =>
         IF mad.first THEN mad.at = mad.from
         ELSE (mad.at \in LeadsThere(mad.dlid, mad.vl15)) = LeadsFrom(mad.from, mad.dlid, mad.vl15)
    /\ CalmFollows

\* What the tables say does not change while they, the cables and the links do not.
LEMMA FrozenTables ==
  ASSUME UNCHANGED <<cable, lft, link>>, NEW lid, NEW vl15, NEW p
  PROVE  /\ LeadsThere(lid, vl15)' = LeadsThere(lid, vl15)
         /\ Accepts(p, lid, vl15)' = Accepts(p, lid, vl15)
         /\ LeadsFrom(p, lid, vl15)' = LeadsFrom(p, lid, vl15)
<1>1. LeadsThere(lid, vl15)' = LeadsThere(lid, vl15)
  BY DEF LeadsThere, Accepts, Returns, Passes, Positions
<1>2. Accepts(p, lid, vl15)' = Accepts(p, lid, vl15)
  BY DEF Accepts, Returns, Passes
<1>3. LeadsFrom(p, lid, vl15)' = LeadsFrom(p, lid, vl15)
  BY <1>1 DEF LeadsFrom, Passes
<1> QED
  BY <1>1, <1>2, <1>3

\* The end of the way.
LEMMA FollowEnd ==
  ASSUME cable \in Calm, RoutingInv, FollowOK, mad.pc = "lid", UNCHANGED <<cable, lft, link>>,
         NEW pc \in {"done", "dropped"}, mad' = [mad EXCEPT !.pc = pc],
         pc = "done" <=> LeadsFrom(mad.from, mad.dlid, mad.vl15),
         pc = "done" => Accepts(mad.at, mad.dlid, mad.vl15)
  PROVE  FollowOK'
<1>1. PICK lid, vl15, from, at :
        lid = mad.dlid /\ vl15 = mad.vl15 /\ from = mad.from /\ at = mad.at
  OBVIOUS
<1>2. /\ mad'.pc = pc /\ mad'.by = mad.by /\ mad'.dlid = lid /\ mad'.vl15 = vl15
      /\ mad'.from = from /\ mad'.at = at
  BY <1>1 DEF RoutingInv, MadType
<1>3. mad.by = "lid" /\ lid \in Lids
  BY <1>1 DEF RoutingInv, ClassOK, FollowOK
<1>4. /\ LeadsFrom(from, lid, vl15)' = LeadsFrom(from, lid, vl15)
      /\ Accepts(at, lid, vl15)' = Accepts(at, lid, vl15)
  BY FrozenTables
<1>5. /\ pc = "done" <=> LeadsFrom(from, lid, vl15)'
      /\ pc = "done" => Accepts(at, lid, vl15)'
      /\ LeadsFrom(from, lid, vl15)' \in BOOLEAN
  <2>1. LeadsFrom(from, lid, vl15) \in BOOLEAN
    BY DEF LeadsFrom
  <2> QED
    BY <1>1, <1>4, <2>1
<1>6. CalmFollows'
  BY <1>2, <1>5 DEF CalmFollows
<1> QED
  BY <1>2, <1>3, <1>6 DEF FollowOK

\* A hop over a cable.
LEMMA FollowHop ==
  ASSUME cable \in Calm, RoutingInv, FollowOK, mad.pc = "lid", UNCHANGED <<cable, lft, link>>,
         NEW q, mad' = [mad EXCEPT !.at = q, !.first = FALSE],
         (q \in LeadsThere(mad.dlid, mad.vl15)) = LeadsFrom(mad.from, mad.dlid, mad.vl15)
  PROVE  FollowOK'
<1>1. PICK lid, vl15, from : lid = mad.dlid /\ vl15 = mad.vl15 /\ from = mad.from
  OBVIOUS
<1>2. /\ mad'.pc = "lid" /\ mad'.by = mad.by /\ mad'.dlid = lid /\ mad'.vl15 = vl15
      /\ mad'.from = from /\ mad'.at = q /\ mad'.first = FALSE
  BY <1>1 DEF RoutingInv, MadType
<1>3. mad.by = "lid" /\ lid \in Lids
  BY <1>1 DEF RoutingInv, ClassOK, FollowOK
<1>4. /\ LeadsFrom(from, lid, vl15)' = LeadsFrom(from, lid, vl15)
      /\ LeadsThere(lid, vl15)' = LeadsThere(lid, vl15)
  BY FrozenTables
<1>5. (q \in LeadsThere(lid, vl15)') = LeadsFrom(from, lid, vl15)'
  BY <1>1, <1>4
<1>6. CalmFollows'
  BY <1>2 DEF CalmFollows, Ends
<1> QED
  BY <1>2, <1>3, <1>5, <1>6 DEF FollowOK

\* From the HCA that sends.
LEMMA FollowLeave ==
  ASSUME cable \in Calm, RoutingInv, FollowOK, LeaveHca
  PROVE  FollowOK'
<1>1. /\ mad.pc = "lid" /\ mad.by = "lid" /\ mad.first /\ mad.at[1] \in Hcas /\ mad.at = mad.from
      /\ mad.dlid \in Lids /\ mad.vl15 \in BOOLEAN /\ mad.from \in Positions /\ FabricOK
      /\ mad.from[1] \notin Switches
  <2>1. mad.pc = "lid" /\ mad.at[1] \in Hcas /\ mad.first
    BY DEF LeaveHca, ByLidAt
  <2>2. mad.by = "lid" /\ mad.at = mad.from /\ mad.dlid \in Lids
    BY <2>1 DEF RoutingInv, ClassOK, FollowOK
  <2>3. mad.vl15 \in BOOLEAN /\ mad.from \in Positions /\ FabricOK
    BY <2>2 DEF RoutingInv, MadType
  <2>4. mad.from[1] \notin Switches
    BY <2>1, <2>2, RoutingAssumption
  <2> QED
    BY <2>1, <2>2, <2>3, <2>4
<1>2. /\ mad.from \in LeadsThere(mad.dlid, mad.vl15) <=> Accepts(mad.from, mad.dlid, mad.vl15)
      /\ Accepts(mad.from, mad.dlid, mad.vl15) <=> LidOf[mad.from] = mad.dlid
  <2>1. Accepts(mad.from, mad.dlid, mad.vl15) <=> LidOf[mad.from] = mad.dlid
    BY <1>1 DEF Accepts
  <2> QED
    BY <1>1, <2>1, NearFacts, ZenonT(60)
<1>3. CASE LidOf[mad.from] = mad.dlid
  <2>1. UNCHANGED <<cable, lft, link>> /\ mad' = [mad EXCEPT !.pc = "done"]
    BY <1>3 DEF LeaveHca, Finish
  <2>2. LeadsFrom(mad.from, mad.dlid, mad.vl15) /\ Accepts(mad.at, mad.dlid, mad.vl15)
    BY <1>1, <1>2, <1>3 DEF LeadsFrom
  <2> QED
    BY <1>1, <2>1, <2>2, FollowEnd
<1>4. CASE LidOf[mad.from] # mad.dlid
  <2>1. /\ UNCHANGED <<cable, lft, link>>
        /\ \/ /\ Passes(mad.from, mad.vl15)
              /\ mad' = [mad EXCEPT !.at = cable[mad.from], !.first = FALSE]
           \/ /\ ~Passes(mad.from, mad.vl15)
              /\ mad' = [mad EXCEPT !.pc = "dropped"]
    BY <1>4 DEF LeaveHca, Out, Arrived
  <2>2. LeadsFrom(mad.from, mad.dlid, mad.vl15)
          = (Passes(mad.from, mad.vl15) /\ cable[mad.from] \in LeadsThere(mad.dlid, mad.vl15))
    BY <1>1, <1>2, <1>4 DEF LeadsFrom
  <2>3. CASE Passes(mad.from, mad.vl15)
    <3>1. mad' = [mad EXCEPT !.at = cable[mad.from], !.first = FALSE]
      BY <2>1, <2>3
    <3>2. (cable[mad.from] \in LeadsThere(mad.dlid, mad.vl15))
            = LeadsFrom(mad.from, mad.dlid, mad.vl15)
      BY <2>2, <2>3
    <3> QED
      BY <1>1, <2>1, <3>1, <3>2, FollowHop
  <2>4. CASE ~Passes(mad.from, mad.vl15)
    <3>1. mad' = [mad EXCEPT !.pc = "dropped"] /\ ~LeadsFrom(mad.from, mad.dlid, mad.vl15)
      BY <2>1, <2>2, <2>4
    <3> QED
      BY <1>1, <2>1, <3>1, FollowEnd
  <2> QED
    BY <2>3, <2>4
<1> QED
  BY <1>3, <1>4

\* At another HCA.
LEMMA FollowArrive ==
  ASSUME cable \in Calm, RoutingInv, FollowOK, ArriveAtHca
  PROVE  FollowOK'
<1>1. /\ mad.pc = "lid" /\ ~mad.first /\ mad.at[1] \in Hcas /\ UNCHANGED <<cable, lft, link>>
      /\ mad' = [mad EXCEPT !.pc = IF LidOf[mad.at] = mad.dlid THEN "done" ELSE "dropped"]
  BY DEF ArriveAtHca, ByLidAt, Finish
<1>2. mad.by = "lid" /\ mad.dlid \in Lids /\ mad.vl15 \in BOOLEAN /\ mad.at \in Positions /\ FabricOK
  BY <1>1 DEF RoutingInv, ClassOK, FollowOK, MadType
<1>3. Accepts(mad.at, mad.dlid, mad.vl15) <=> LidOf[mad.at] = mad.dlid
  BY <1>1 DEF Accepts
<1>4. mad.at \in LeadsThere(mad.dlid, mad.vl15) <=> LidOf[mad.at] = mad.dlid
  <2>1. mad.at[1] \notin Switches
    BY <1>1, RoutingAssumption
  <2> QED
    BY <1>2, <1>3, <2>1, NearFacts
<1>5. LeadsFrom(mad.from, mad.dlid, mad.vl15) = (LidOf[mad.at] = mad.dlid)
  BY <1>1, <1>2, <1>4 DEF FollowOK
<1>6. PICK pc \in {"done", "dropped"} : pc = IF LidOf[mad.at] = mad.dlid THEN "done" ELSE "dropped"
  OBVIOUS
<1>7. /\ mad' = [mad EXCEPT !.pc = pc]
      /\ pc = "done" <=> LeadsFrom(mad.from, mad.dlid, mad.vl15)
      /\ pc = "done" => Accepts(mad.at, mad.dlid, mad.vl15)
  BY <1>1, <1>3, <1>5, <1>6
<1> QED
  BY <1>1, <1>7, FollowEnd

\* At a switch.
LEMMA FollowForward ==
  ASSUME cable \in Calm, RoutingInv, FollowOK, Forward
  PROVE  FollowOK'
<1>1. PICK lid, vl15, p : lid = mad.dlid /\ vl15 = mad.vl15 /\ p = <<mad.at[1], Entry>>
  OBVIOUS
<1>2. mad.pc = "lid" /\ mad.by = "lid" /\ mad.at[1] \in Switches /\ mad.at[1] \notin Hcas
  BY RoutingAssumption DEF Forward, ByLidAt, RoutingInv, ClassOK
<1>3. lid \in Lids /\ vl15 \in BOOLEAN /\ mad.at \in Positions /\ mad.from \in Positions /\ FabricOK
  <2>1. Sources \subseteq Positions
    BY FabricFacts DEF RoutingInv
  <2> QED
    BY <1>1, <1>2, <2>1 DEF RoutingInv, FollowOK, MadType
<1>4. /\ p = <<mad.at[1], lft[mad.at[1]][lid]>> /\ p[1] = mad.at[1] /\ p[2] = Entry
  BY <1>1 DEF Entry
<1>5. mad.at \in LeadsThere(lid, vl15) <=>
        Accepts(mad.at, lid, vl15) \/ (Passes(p, vl15) /\ cable[p] \in LeadsThere(lid, vl15))
  BY <1>2, <1>3, <1>4, NearFacts
<1>6. LeadsFrom(mad.from, lid, vl15) = (mad.at \in LeadsThere(lid, vl15))
  <2>1. CASE mad.first
    <3>1. mad.at = mad.from
      BY <1>2, <2>1 DEF FollowOK
    <3>2. LeadsFrom(mad.from, lid, vl15) <=> mad.at \in LeadsThere(lid, vl15)
      BY ONLY <1>2, <3>1 DEF LeadsFrom
    <3>3. LeadsFrom(mad.from, lid, vl15) \in BOOLEAN
      BY DEF LeadsFrom
    <3> QED
      BY <3>2, <3>3
  <2>2. CASE ~mad.first
    BY <1>1, <1>2, <2>2 DEF FollowOK
  <2> QED
    BY <2>1, <2>2
<1>7. Accepts(mad.at, lid, vl15) <=> Entry = 0 \/ (Returns(p) /\ Passes(p, vl15))
  BY <1>2, <1>4 DEF Accepts
<1>8. UNCHANGED <<cable, lft, link>>
  BY DEF Forward, Finish, Out
<1>9. CASE Entry = Unassigned
  <2>1. p \notin DOMAIN cable
    <3>1. DOMAIN cable \subseteq Nodes \X PortNums /\ Unassigned \notin PortNums
      BY <1>3, FabricFacts, RoutingAssumption
    <3> QED
      BY <1>4, <1>9, <3>1
  <2>2. ~Passes(p, vl15) /\ Entry # 0
    BY <1>9, <2>1 DEF Passes, Unassigned
  <2>3. ~LeadsFrom(mad.from, lid, vl15)
    BY <1>5, <1>6, <1>7, <2>2
  <2>4. mad' = [mad EXCEPT !.pc = "dropped"]
    BY <1>9, <2>2 DEF Forward, Finish
  <2> QED
    BY <1>1, <1>2, <1>8, <2>3, <2>4, FollowEnd
<1>10. CASE Entry = 0
  <2>1. mad' = [mad EXCEPT !.pc = "done"]
    BY <1>10 DEF Forward, Finish, Unassigned
  <2>2. LeadsFrom(mad.from, lid, vl15) /\ Accepts(mad.at, lid, vl15)
    BY <1>5, <1>6, <1>7, <1>10
  <2> QED
    BY <1>1, <1>2, <1>8, <2>1, <2>2, FollowEnd
<1>11. CASE Entry # Unassigned /\ Entry # 0
  <2>1. \/ ~Passes(p, vl15) /\ mad' = [mad EXCEPT !.pc = "dropped"]
        \/ /\ Passes(p, vl15)
           /\ mad' = IF cable[p][1] = p[1] THEN [mad EXCEPT !.pc = "done"]
                     ELSE [mad EXCEPT !.at = cable[p], !.first = FALSE]
    <3>1. Out(p, vl15, IF cable[p][1] = p[1] THEN [mad EXCEPT !.pc = "done"] ELSE Arrived(cable[p]))
      BY <1>1, <1>11 DEF Forward
    <3> QED
      BY <3>1 DEF Out, Arrived
  <2>2. CASE ~Passes(p, vl15)
    <3>1. ~LeadsFrom(mad.from, lid, vl15)
      BY <1>5, <1>6, <1>7, <1>11, <2>2
    <3>2. mad' = [mad EXCEPT !.pc = "dropped"]
      BY <2>1, <2>2
    <3> QED
      BY <1>1, <1>2, <1>8, <3>1, <3>2, FollowEnd
  <2>3. CASE Passes(p, vl15) /\ cable[p][1] = p[1]
    <3>1. Returns(p)
      BY <2>3 DEF Returns, Passes
    <3>2. LeadsFrom(mad.from, lid, vl15) /\ Accepts(mad.at, lid, vl15)
      BY <1>5, <1>6, <1>7, <2>3, <3>1
    <3>3. mad' = [mad EXCEPT !.pc = "done"]
      BY <2>1, <2>3
    <3> QED
      BY <1>1, <1>2, <1>8, <3>2, <3>3, FollowEnd
  <2>4. CASE Passes(p, vl15) /\ cable[p][1] # p[1]
    <3>1. ~Returns(p)
      BY <2>4 DEF Returns
    <3>2. (cable[p] \in LeadsThere(lid, vl15)) = LeadsFrom(mad.from, lid, vl15)
      BY <1>5, <1>6, <1>7, <1>11, <2>4, <3>1
    <3>3. mad' = [mad EXCEPT !.at = cable[p], !.first = FALSE]
      BY <2>1, <2>4
    <3> QED
      BY <1>1, <1>2, <1>8, <3>2, <3>3, FollowHop
  <2> QED
    BY <2>2, <2>3, <2>4
<1> QED
  BY <1>9, <1>10, <1>11

\* Steps of a MAD by directed route, and the sending of a MAD.
LEMMA FollowOther ==
  ASSUME RoutingInv,
         Send \/ FollowPath \/ Respond \/ StartBack \/ FollowBack \/ EndBack
  PROVE  FollowOK'
<1>1. CASE Send
  <2>1. CASE \E p \in Sources, lid \in Lids, vl15 \in BOOLEAN : SendByLid(p, lid, vl15)
    <3>1. PICK p \in Sources, lid \in Lids, vl15 \in BOOLEAN : SendByLid(p, lid, vl15)
      BY <2>1
    <3>2. mad' = [pc |-> "lid", by |-> "lid", from |-> p, at |-> p, first |-> TRUE, vl15 |-> vl15,
                  dlid |-> lid, mixed |-> FALSE, path |-> <<>>, back |-> <<>>, hop |-> 0]
      BY <3>1 DEF SendByLid, NoMad
    <3>3. /\ mad'.pc = "lid" /\ mad'.first = TRUE /\ mad'.at = mad'.from /\ mad'.dlid = lid
      BY <3>2
    <3> QED
      BY <3>3 DEF FollowOK, CalmFollows, Ends
  <2>2. CASE \E p \in Sources, path \in Paths, mixed \in BOOLEAN : SendByPath(p, path, mixed)
    <3>1. mad'.by = "path"
      BY <2>2 DEF SendByPath, NoMad
    <3> QED
      BY <3>1 DEF FollowOK
  <2> QED
    BY <1>1, <2>1, <2>2 DEF Send
<1>2. CASE FollowPath \/ Respond \/ StartBack \/ FollowBack \/ EndBack
  <2>1. mad \in MadType /\ mad.by = "path"
    BY <1>2 DEF RoutingInv, ClassOK, FollowPath, Respond, StartBack, FollowBack, EndBack
  <2>2. mad'.by = "path"
    <3>1. CASE FollowPath
      BY <2>1, <3>1 DEF FollowPath, Out, MadType
    <3>2. CASE Respond
      BY <2>1, <3>2 DEF Respond, MadType
    <3>3. CASE StartBack
      BY <2>1, <3>3 DEF StartBack, MadType
    <3>4. CASE FollowBack
      BY <2>1, <3>4 DEF FollowBack, Out, MadType
    <3>5. CASE EndBack
      BY <2>1, <3>5 DEF EndBack, Finish, MadType
    <3> QED
      BY <1>2, <3>1, <3>2, <3>3, <3>4, <3>5
  <2> QED
    BY <2>2 DEF FollowOK
<1> QED
  BY <1>1, <1>2

\* Cables never change.
LEMMA FabricStays ==
  ASSUME [Next]_vars
  PROVE  cable' = cable
<1>1. Send => cable' = cable
  BY DEF Send, SendByLid, SendByPath
<1>2. RouteMad => cable' = cable
  BY DEF RouteMad, LeaveHca, ArriveAtHca, Forward, FollowPath, Respond, StartBack, FollowBack,
         EndBack, Out, Finish
<1>3. ASSUME NEW p, NEW new, SetLinkStatus(p, new) PROVE cable' = cable
  BY <1>3 DEF SetLinkStatus
<1>4. ASSUME NEW s, SetLftBlock(s) PROVE cable' = cable
  BY <1>4 DEF SetLftBlock
<1> QED
  BY <1>1, <1>2, <1>3, <1>4 DEF Next, vars

\* Every step of a fabric that loses no packet and changes no table or link keeps the
\* invariant.
LEMMA FollowStep ==
  ASSUME cable \in Calm, RoutingInv, FollowOK, [Next]_vars
  PROVE  FollowOK'
<1>1. CASE Next
  BY <1>1, FollowLeave, FollowArrive, FollowForward, FollowOther, Zenon
     DEF Next, RouteMad, SetLinkStatus, SetLftBlock
<1>2. CASE UNCHANGED vars
  <2>1. UNCHANGED <<cable, lft, link>> /\ mad' = mad
    BY <1>2 DEF vars
  <2>2. PICK lid, vl15, from, at :
          lid = mad.dlid /\ vl15 = mad.vl15 /\ from = mad.from /\ at = mad.at
    OBVIOUS
  <2>3. /\ LeadsThere(lid, vl15)' = LeadsThere(lid, vl15)
        /\ LeadsFrom(from, lid, vl15)' = LeadsFrom(from, lid, vl15)
        /\ Accepts(at, lid, vl15)' = Accepts(at, lid, vl15)
    BY <2>1, FrozenTables
  <2>4. mad'.dlid = lid /\ mad'.vl15 = vl15 /\ mad'.from = from /\ mad'.at = at
    BY <2>1, <2>2
  <2>5. FollowOK' = FollowOK
    BY <2>1, <2>2, <2>3, <2>4 DEF FollowOK, CalmFollows
  <2> QED
    BY <2>5
<1> QED
  BY <1>1, <1>2

-----------------------------------------------------------------------------
(* The theorems. *)

\* Every step keeps the invariant.
LEMMA RoutingStep ==
  ASSUME RoutingInv, [Next]_vars
  PROVE  RoutingInv'
<1>1. CASE Send
  BY <1>1, RoutingSend
<1>2. CASE RouteMad
  BY <1>2, RoutingByLid, RoutingFollowPath, RoutingTurn, RoutingFollowBack, RoutingEndBack
     DEF RouteMad
<1>3. CASE \E p \in DOMAIN cable, new \in LinkStates[cable] : SetLinkStatus(p, new)
  <2>1. /\ link' \in [DOMAIN cable -> LinkStates[cable]] /\ UNCHANGED <<cable, lft, mad>>
        /\ lft \in [Switches -> [Lids -> PortNums \cup {0, Unassigned}]]
    BY <1>3 DEF SetLinkStatus, RoutingInv, FabricOK
  <2> QED
    BY <2>1, RoutingLinks
<1>4. CASE UNCHANGED vars
  BY <1>4, RoutingLinks DEF vars, RoutingInv, FabricOK
<1>5. CASE \E s \in Switches : SetLftBlock(s)
  <2>1. PICK s \in Switches, t \in Tables[cable] :
          lft' = [lft EXCEPT ![s] = t[s]] /\ UNCHANGED <<cable, link, mad>>
    BY <1>5 DEF SetLftBlock
  <2>2. /\ t \in [Switches -> [Lids -> PortNums \cup {0, Unassigned}]]
        /\ lft \in [Switches -> [Lids -> PortNums \cup {0, Unassigned}]]
        /\ link \in [DOMAIN cable -> LinkStates[cable]]
    BY RoutingAssumption DEF RoutingInv, FabricOK
  <2>3. lft' \in [Switches -> [Lids -> PortNums \cup {0, Unassigned}]]
    BY <2>1, <2>2
  <2> QED
    BY <2>1, <2>2, <2>3, RoutingLinks
<1> QED
  BY <1>1, <1>2, <1>3, <1>4, <1>5 DEF Next

\* The invariant holds wherever a MAD is on its way.
THEOREM RoutingCorrect == Spec => []RoutingInv
<1>1. RoutingInv /\ [Next]_vars => RoutingInv'
  BY RoutingStep
<1> QED
  BY <1>1, RoutingInit, PTL DEF Spec

\* The MAD, its hop pointer and its return path have their types: no directed route
\* goes on behind its end, in either direction.
THEOREM RoutingIsTyped == Spec => []TypeOK
  BY RoutingCorrect, RoutingTypes, PTL

\* A directed route brings the response back to where the request left, for every
\* fabric and path, whatever the links do meanwhile.
THEOREM ResponsesComeBack == Spec => []RoundTrip
<1>1. RoutingInv => RoundTrip
  BY DEF RoutingInv
<1> QED
  BY <1>1, RoutingCorrect, PTL

\* A MAD by LID that is at an HCA at last is at the port with its LID.
HcaOK ==
  /\ mad.pc = "lid" /\ mad.first => mad.at = mad.from
  /\ mad.by = "lid" /\ mad.pc = "done" /\ mad.at[1] \in Hcas => LidOf[mad.at] = mad.dlid

\* Every step keeps this, whatever becomes of tables and links.
LEMMA HcaStep ==
  ASSUME RoutingInv, HcaOK, [Next]_vars
  PROVE  HcaOK'
<1>0. mad \in MadType /\ DOMAIN mad = {"pc", "by", "from", "at", "first", "vl15", "dlid", "mixed", "path", "back", "hop"}
  BY DEF RoutingInv, MadType
<1>1. CASE Send
  <2>1. PICK p, lid, vl15 : SendByLid(p, lid, vl15) \/ \E path, mixed : SendByPath(p, path, mixed)
    BY <1>1 DEF Send
  <2>2. CASE SendByLid(p, lid, vl15)
    BY <2>2 DEF SendByLid, NoMad, HcaOK
  <2>3. CASE \E path, mixed : SendByPath(p, path, mixed)
    BY <2>3 DEF SendByPath, NoMad, HcaOK
  <2> QED
    BY <2>1, <2>2, <2>3
<1>2. CASE LeaveHca \/ ArriveAtHca
  <2>1. mad.pc = "lid" /\ mad.by = "lid" /\ mad.at[1] \in Hcas
    BY <1>2 DEF LeaveHca, ArriveAtHca, ByLidAt, RoutingInv, ClassOK
  <2>2. CASE LeaveHca
    <3>1. /\ mad.at = mad.from
          /\ \/ LidOf[mad.from] = mad.dlid /\ mad' = [mad EXCEPT !.pc = "done"]
             \/ mad' = [mad EXCEPT !.pc = "dropped"]
             \/ mad' = Arrived(cable[mad.from])
      BY <2>1, <2>2 DEF LeaveHca, Finish, Out, HcaOK
    <3> QED
      BY <1>0, <2>1, <3>1 DEF HcaOK, Arrived
  <2>3. CASE ArriveAtHca
    <3>1. \/ LidOf[mad.at] = mad.dlid /\ mad' = [mad EXCEPT !.pc = "done"]
          \/ mad' = [mad EXCEPT !.pc = "dropped"]
      BY <2>3 DEF ArriveAtHca, Finish
    <3> QED
      BY <1>0, <2>1, <3>1 DEF HcaOK
  <2> QED
    BY <1>2, <2>2, <2>3
<1>3. CASE Forward
  <2>1. mad.pc = "lid" /\ mad.by = "lid" /\ mad.at[1] \in Switches /\ mad.at[1] \notin Hcas
    BY <1>3, RoutingAssumption DEF Forward, ByLidAt, RoutingInv, ClassOK
  <2>2. \/ mad' = [mad EXCEPT !.pc = "done"]
        \/ mad' = [mad EXCEPT !.pc = "dropped"]
        \/ \E q : mad' = Arrived(q)
    BY <1>3 DEF Forward, Finish, Out
  <2> QED
    BY <1>0, <2>1, <2>2 DEF HcaOK, Arrived
<1>4. CASE FollowPath \/ Respond \/ StartBack \/ FollowBack \/ EndBack
  <2>1. mad.pc \in {"out", "response", "back"} /\ mad.by = "path"
    BY <1>4 DEF FollowPath, Respond, StartBack, FollowBack, EndBack, RoutingInv, ClassOK
  <2>2. mad'.by = "path" /\ mad'.pc # "lid"
    BY <1>0, <1>4, <2>1 DEF FollowPath, Respond, StartBack, FollowBack, EndBack, Out, Finish
  <2> QED
    BY <2>2 DEF HcaOK
<1>5. CASE mad' = mad
  BY <1>5 DEF HcaOK
<1>6. (\E p \in DOMAIN cable, new \in LinkStates[cable] : SetLinkStatus(p, new)) => mad' = mad
  BY DEF SetLinkStatus
<1>7. (\E s \in Switches : SetLftBlock(s)) => mad' = mad
  BY DEF SetLftBlock
<1> QED
  BY <1>1, <1>2, <1>3, <1>4, <1>5, <1>6, <1>7 DEF Next, RouteMad, vars

\* A MAD by LID ends up at no HCA but the one with the LID, whatever becomes of tables and
\* links; and it is delivered exactly when they lead from its port to an end, for every
\* fabric, with or without loops, and every table, whatever has no entry or points where no
\* cable is, as long as nothing is lost at random and no table or link changes.
THEOREM TablesAreFollowed == Spec => []FollowsTables
<1>1. Init => FollowOK /\ HcaOK
  <2>1. Init => FabricOK /\ mad = NoMad
    BY RoutingAssumption DEF Init, FabricOK
  <2> QED
    BY <2>1, FabricFacts DEF FollowOK, HcaOK
<1>2. RoutingInv /\ FollowOK /\ [Next]_vars => FollowOK'
  <2> SUFFICES ASSUME RoutingInv, FollowOK, [Next]_vars, cable' \in Calm PROVE FollowOK'
    BY DEF FollowOK
  <2>1. cable' = cable
    BY FabricStays
  <2> QED
    BY <2>1, FollowStep
<1>3. RoutingInv /\ HcaOK /\ [Next]_vars => HcaOK'
  BY HcaStep
<1>4. FollowOK /\ HcaOK => FollowsTables
  BY DEF FollowOK, HcaOK, FollowsTables, CalmFollows, Ends
<1> QED
  BY <1>1, <1>2, <1>3, <1>4, RoutingCorrect, PTL DEF Spec
=============================================================================
