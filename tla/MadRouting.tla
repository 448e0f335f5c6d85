------------------------------ MODULE MadRouting ------------------------------
(***************************************************************************)
(* How a dispatcher's worker takes one MAD through the simulated fabric:   *)
(* IBMSDispatcher::routeMadToDest, by LID through the forwarding tables or *)
(* by a directed route, out and back.  A worker locks one node at a time   *)
(* and only while it looks up the next hop: between two hops other workers *)
(* change tables and the shell link states, so a hop is an action.         *)
(*                                                                         *)
(* A port is <<node, number>>.  A MAD at a port has come in there; port 0  *)
(* of a switch is the switch itself.                                       *)
(***************************************************************************)
EXTENDS Integers, FiniteSets, Sequences

CONSTANTS
  Switches,    \* nodes that forward by LID
  Hcas,        \* nodes that do not
  PortNums,    \* numbers of the external ports
  Cables,      \* the fabrics: the port at the other end, for each port with a cable
  LidOf,       \* base LID of the ports of the HCAs and of port 0 of the switches
  Lids,        \* the LIDs that MADs are sent to
  LinkStates,  \* the port states that occur, on each fabric
  Tables,      \* the forwarding tables that occur, on each fabric
  MaxPath,     \* bound: hops of a directed route, on each fabric
  Calm         \* the fabrics where no packet is dropped at random and no table or link changes

Nodes == Switches \cup Hcas
Unassigned == 255          \* IB_LFT_UNASSIGNED

ASSUME RoutingAssumption ==
  /\ Switches \cap Hcas = {} /\ IsFiniteSet(Switches)
  /\ 0 \notin PortNums /\ Unassigned \notin PortNums
  /\ \A c \in Cables :
       /\ DOMAIN c \subseteq Nodes \X PortNums /\ IsFiniteSet(DOMAIN c)
       /\ \A p \in DOMAIN c : c[p] \in DOMAIN c /\ c[c[p]] = p
       /\ DOMAIN LidOf = {p \in DOMAIN c : p[1] \in Hcas} \cup (Switches \X {0})
       /\ Tables[c] \subseteq [Switches -> [Lids -> PortNums \cup {0, Unassigned}]]
       /\ LinkStates[c] \subseteq {"down", "init", "armed", "active"}
       /\ MaxPath[c] \in Nat
  /\ DOMAIN LidOf # {}

VARIABLES
  cable,     \* the cables of the fabric, which never change
  lft,       \* the forwarding tables
  link,      \* port state of every port with a cable
  mad        \* the MAD, where it is, and what the worker knows of it

vars == <<cable, lft, link, mad>>

Positions == (DOMAIN cable) \cup (Switches \X {0})

\* Ports that a client or an agent sends from.
Sources == DOMAIN LidOf

NoMad == [pc |-> "none", by |-> "lid", from |-> CHOOSE p \in Sources : TRUE,
          at |-> CHOOSE p \in Sources : TRUE, first |-> TRUE, vl15 |-> TRUE,
          dlid |-> 0, mixed |-> FALSE, path |-> <<>>, back |-> <<>>, hop |-> 0]

Init ==
  /\ cable \in Cables
  /\ lft \in Tables[cable]
  /\ link \in [DOMAIN cable -> LinkStates[cable]]
  /\ mad = NoMad

-----------------------------------------------------------------------------
(* One step over a cable: IBMSNode::getRemoteNodeByOutPort *)

\* What the port lets through: VL15 needs a link that is not down, data one that
\* is active.
Passes(p, vl15) ==
  /\ p \in DOMAIN cable
  /\ link[p] = "active" \/ (vl15 /\ link[p] # "down")

\* The MAD leaves by port p and arrives as next says, or it is lost.
Out(p, vl15, next) ==
  /\ UNCHANGED <<cable, lft, link>>
  /\ \/ Passes(p, vl15) /\ mad' = next
     \/ (~Passes(p, vl15) \/ cable \notin Calm) /\ mad' = [mad EXCEPT !.pc = "dropped"]

Finish(pc) == mad' = [mad EXCEPT !.pc = pc] /\ UNCHANGED <<cable, lft, link>>

-----------------------------------------------------------------------------
(* By LID: IBMSDispatcher::routeMadToDestByLid *)

SendByLid(p, lid, vl15) ==
  /\ mad = NoMad
  /\ mad' = [NoMad EXCEPT !.pc = "lid", !.from = p, !.at = p, !.dlid = lid, !.vl15 = vl15]
  /\ UNCHANGED <<cable, lft, link>>

ByLidAt(nodes) == mad.pc = "lid" /\ mad.at[1] \in nodes

Arrived(p) == [mad EXCEPT !.at = p, !.first = FALSE]

\* The HCA that sends: the MAD is for its own port, or it leaves by it.
LeaveHca ==
  /\ ByLidAt(Hcas)
  /\ mad.first
  /\ IF LidOf[mad.from] = mad.dlid THEN Finish("done")
     ELSE Out(mad.from, mad.vl15, Arrived(cable[mad.from]))

\* Mutant of ArriveAtHca: the LID of the port is not compared.
ArriveAtAnyHca ==
  /\ ByLidAt(Hcas)
  /\ ~mad.first
  /\ Finish("done")

\* Any other HCA is the end of the way.
ArriveAtHca ==
  /\ ByLidAt(Hcas)
  /\ ~mad.first
  /\ Finish(IF LidOf[mad.at] = mad.dlid THEN "done" ELSE "dropped")

Entry == lft[mad.at[1]][mad.dlid]

\* A switch forwards by its table; port 0 is the switch itself, and so is, for the
\* loop in the code, the other end of a cable that comes back to it.
Forward ==
  /\ ByLidAt(Switches)
  /\ CASE Entry = Unassigned -> Finish("dropped")
       [] Entry = 0 -> Finish("done")
       [] OTHER ->
            LET p == <<mad.at[1], Entry>>
                q == cable[p]
            IN  Out(p, mad.vl15, IF q[1] = p[1] THEN [mad EXCEPT !.pc = "done"] ELSE Arrived(q))

-----------------------------------------------------------------------------
(* By directed route: IBMSDispatcher::routeMadToDestByDR *)

\* A request with a path of its own; mixed: the part by LID behind it (dr_dlid) is
\* set.  Requests with dr_slid set are refused at once.
SendByPath(p, path, mixed) ==
  /\ mad = NoMad
  /\ mad' = [NoMad EXCEPT !.pc = "out", !.by = "path", !.from = p, !.at = p,
                          !.mixed = mixed, !.path = path, !.hop = 1]
  /\ UNCHANGED <<cable, lft, link>>

\* Mutant of FollowPath: the return path records the port the MAD left by.
FollowPathWrongPort ==
  /\ mad.pc = "out"
  /\ mad.hop <= Len(mad.path)
  /\ LET p == <<mad.at[1], mad.path[mad.hop]>>
     IN  Out(p, TRUE, [mad EXCEPT !.at = cable[p], !.back = Append(@, p[2]),
                                  !.hop = @ + 1])

\* Mutant of FollowPath: the hop count is not looked at.
FollowPathOn ==
  /\ mad.pc = "out"
  /\ LET p == <<mad.at[1], IF mad.hop <= Len(mad.path) THEN mad.path[mad.hop] ELSE 1>>
     IN  Out(p, TRUE, [mad EXCEPT !.at = cable[p], !.back = Append(@, cable[p][2]),
                                  !.hop = @ + 1])

\* One hop out; the port it comes in by goes into the return path.
FollowPath ==
  /\ mad.pc = "out"
  /\ mad.hop <= Len(mad.path)
  /\ LET p == <<mad.at[1], mad.path[mad.hop]>>
     IN  Out(p, TRUE, [mad EXCEPT !.at = cable[p], !.back = Append(@, cable[p][2]),
                                  !.hop = @ + 1])

\* The path is at its end: the node's SMA gets the MAD and sends a response with
\* the D bit set, dr_slid and dr_dlid exchanged, and the hop pointer as it is.
Respond ==
  /\ mad.pc = "out"
  /\ mad.hop > Len(mad.path)
  /\ mad' = [mad EXCEPT !.pc = "response"]
  /\ UNCHANGED <<cable, lft, link>>

\* The response starts: with dr_slid set it is refused.
StartBack ==
  /\ mad.pc = "response"
  /\ mad' = IF mad.mixed THEN [mad EXCEPT !.pc = "refused"]
            ELSE [mad EXCEPT !.pc = "back", !.hop = @ - 1]
  /\ UNCHANGED <<cable, lft, link>>

\* One hop back.
FollowBack ==
  /\ mad.pc = "back"
  /\ mad.hop > 0
  /\ LET p == <<mad.at[1], mad.back[mad.hop]>>
     IN  Out(p, TRUE, [mad EXCEPT !.at = cable[p], !.hop = @ - 1])

\* The response is at its end.
EndBack ==
  /\ mad.pc = "back"
  /\ mad.hop = 0
  /\ Finish("done")

-----------------------------------------------------------------------------
\* IBMSNode::setLinkStatus, as far as it sets the state of the port.
AllowedChange(old, new) ==
  CASE old = "init" -> new \in {"down", "armed"}
    [] old = "armed" -> new \in {"down", "active"}
    [] old = "active" -> new \in {"down", "armed"}
    [] OTHER -> TRUE

SetLinkStatus(p, new) ==
  /\ cable \notin Calm
  /\ AllowedChange(link[p], new)
  /\ link' = [link EXCEPT ![p] = new]
  /\ UNCHANGED <<cable, lft, mad>>

\* IBMSSma::lftMad: another worker carries out a Set of a block of one switch's table.
SetLftBlock(s) ==
  /\ cable \notin Calm
  /\ \E block \in {t[s] : t \in Tables[cable]} : lft' = [lft EXCEPT ![s] = block]
  /\ UNCHANGED <<cable, link, mad>>

Paths == UNION {[1 .. n -> PortNums] : n \in 0 .. MaxPath[cable]}

\* The MAD class tells which way to route.
Send ==
  \E p \in Sources :
    \/ \E lid \in Lids, vl15 \in BOOLEAN : SendByLid(p, lid, vl15)
    \/ \E path \in Paths, mixed \in BOOLEAN : SendByPath(p, path, mixed)

RouteMad ==
  \/ LeaveHca \/ ArriveAtHca \/ Forward
  \/ FollowPath \/ Respond \/ StartBack \/ FollowBack \/ EndBack

Next ==
  \/ Send
  \/ RouteMad
  \/ \E p \in DOMAIN cable, new \in LinkStates[cable] : SetLinkStatus(p, new)
  \/ \E s \in Switches : SetLftBlock(s)

Spec == Init /\ [][Next]_vars
-----------------------------------------------------------------------------
Ends == {"done", "dropped", "refused"}

\* Types of the variables.
TypeOK ==
  /\ lft \in [Switches -> [Lids -> PortNums \cup {0, Unassigned}]]
  /\ link \in [DOMAIN cable -> LinkStates[cable]]
  /\ mad \in [pc : {"none", "lid", "out", "response", "back"} \cup Ends,
              by : {"lid", "path"}, from : Sources,
              at : Positions,
              first : BOOLEAN, vl15 : BOOLEAN, dlid : Lids \cup {0}, mixed : BOOLEAN,
              path : Seq(PortNums), back : Seq(PortNums), hop : 0 .. MaxPath[cable] + 1]

\* A cable from a switch back to itself.
Returns(out) == out \in DOMAIN cable /\ cable[out][1] = out[1]

\* Where the tables end the way of a MAD for lid: at the port with the LID, at a
\* switch that has it, or at a switch that sends it back to itself.
Accepts(p, lid, vl15) ==
  IF p[1] \in Hcas THEN LidOf[p] = lid
  ELSE LET out == <<p[1], lft[p[1]][lid]>>
       IN  out[2] = 0 \/ (Returns(out) /\ Passes(out, vl15))

\* Ports from which the tables, as they are, lead a MAD for lid to such an end, reckoned
\* backwards from the end, a cable at a time.
LeadsThere(lid, vl15) ==
  LET Further == [near \in SUBSET Positions |->
                    near \cup {p \in Positions :
                                 /\ p[1] \in Switches /\ Passes(<<p[1], lft[p[1]][lid]>>, vl15)
                                 /\ cable[<<p[1], lft[p[1]][lid]>>] \in near}]
      within[k \in 0 .. Cardinality(Positions)] ==
        IF k = 0 THEN {p \in Positions : Accepts(p, lid, vl15)} ELSE Further[within[k - 1]]
  IN within[Cardinality(Positions)]

LeadsFrom(p, lid, vl15) ==
  \/ p \in LeadsThere(lid, vl15)
  \/ p[1] \in Hcas /\ Passes(p, vl15) /\ cable[p] \in LeadsThere(lid, vl15)

\* A MAD routed by LID ends up at no HCA but the one with the LID, whatever workers and
\* the shell change while it is on its way.  As long as no packet is dropped at random and
\* no table or link changes, it is delivered exactly when the forwarding tables and the
\* links lead from its port to an end, and then it is there.  A cable from a switch back to
\* itself counts as an end whatever the LID, against dispatcher.cpp:402 (check the lid of
\* the target port we reach): the loop takes the switch for its target.
FollowsTables ==
  mad.by = "lid" /\ mad.pc \in Ends =>
    /\ mad.pc = "done" /\ mad.at[1] \in Hcas => LidOf[mad.at] = mad.dlid
    /\ cable \in Calm =>
         /\ (mad.pc = "done") = LeadsFrom(mad.from, mad.dlid, mad.vl15)
         /\ mad.pc = "done" => Accepts(mad.at, mad.dlid, mad.vl15)

\* The response to a directed-route request comes back to the node that sent it,
\* and in by the port that the request left by, whatever happens to the links.
RoundTrip ==
  mad.by = "path" /\ mad.pc = "done" =>
    /\ mad.at[1] = mad.from[1]
    /\ mad.at[2] = IF mad.path = <<>> THEN mad.from[2] ELSE mad.path[1]

\* No request is carried out whose response will be refused: a request with dr_dlid
\* or dr_slid set is refused itself (dispatcher.cpp:445).
NoResponseRefused == mad.pc # "refused"
===============================================================================
