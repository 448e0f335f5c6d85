------------------------------- MODULE OsmCheck -------------------------------
(***************************************************************************)
(* The program osm_check: in design mode it routes a fabric that is given  *)
(* by its cables, in verification mode it reads the tables of one that     *)
(* runs; then it checks the tables.                                        *)
(***************************************************************************)
EXTENDS SubnetDesign, RouteCheck

CONSTANT Verifications   \* what the options and files of verification mode say

ASSUME VerificationAssumption ==
  \A v \in Verifications :
    /\ ~v.opts.design /\ v.opts.lmc \in Nat /\ 2 ^ v.opts.lmc \in Nat \ {0}
    /\ IsWiring(v.remote) /\ v.lid \in [Nodes -> Nat]

vars == <<subnetVars, work, mft, psl, failures, search>>

\* Without files there are no multicast groups and one service level.
DesignMode ==
  /\ DesignInit
  /\ mft = [s \in Switches |-> [g \in Groups |-> {}]]
  /\ psl = [n \in Nodes |-> [m \in Nodes |-> 0]]

\* The port that the last line with LID l was about: the lines go by nodes and ports.
LastWithLid(l) ==
  LET with == {p \in Ports : baseLid[p] # 0 /\ HasLid(p, l)}
      n == Max({p[1] : p \in with})
  IN IF with = {} THEN NoPort ELSE <<n, Max({p[2] : p \in {q \in with : q[1] = n}})>>

\* addLink for every line of the file of links: only ports with a cable get their LID.
VerificationMode ==
  /\ \E v \in Verifications :
       /\ opts = v.opts
       /\ remote = v.remote
       /\ baseLid = [p \in Ports |-> IF p \in DOMAIN v.remote THEN v.lid[p[1]] ELSE 0]
       /\ lft = v.lft
       /\ mft = v.mft
       /\ psl = v.psl
  /\ maxLid = Max({baseLid[p] : p \in Ports}) + LidStep - 1
  /\ portByLid = [l \in 1 .. maxLid |-> LastWithLid(l)]
  /\ hops = [s \in Switches |-> NoHops(s, maxLid)]
  /\ rank = [n \in Nodes |-> 0]
  /\ stage = "seed"
  /\ work = [NoWork EXCEPT !.at = 1]

Init ==
  /\ DesignMode \/ VerificationMode
  /\ failures = {}
  /\ search = NoSearch

Design == DesignNext /\ UNCHANGED <<mft, psl, failures, search>>
Check == CheckNext /\ UNCHANGED work

Next == Design \/ Check

Ended == stage \in {"exit", "failed", "crashed"}

Done == Ended /\ UNCHANGED vars

Fairness == WF_vars(Next)

Spec == Init /\ [][Next \/ Done]_vars /\ Fairness

-----------------------------------------------------------------------------
(* Properties *)

Stages == {"lids", "seed", "relax", "reach", "roots", "updn", "route", "check", "verifyAll",
           "groups", "report", "graph", "loops", "exit", "failed", "crashed"}

\* Hops and LIDs stay in their tables, and the checks work on nodes and channels.
TypeOK ==
  /\ stage \in Stages
  /\ baseLid \in [Ports -> Nat] /\ \A p \in Ports : baseLid[p] <= maxLid \/ stage = "lids"
  /\ \A l \in DOMAIN portByLid : portByLid[l] \in Ports \cup {NoPort}
  /\ \A s \in Switches :
       /\ \A l \in DOMAIN hops[s] : hops[s][l] \in [0 .. NumPorts[s] -> 0 .. Unassigned]
       /\ lft[s] \in Seq(0 .. Unassigned)
  /\ rank \in [Nodes -> 0 .. NumNodes]
  /\ work.visited \subseteq Nodes /\ work.at \in Nodes
  /\ search.groups \subseteq Groups /\ search.visited \subseteq Switches
  /\ \A c \in search.open \cup search.closed : c[1] \in DOMAIN remote

\* The sweeps, the walks over the up/down ways and the searches for loops all come to an
\* end, also on tables that lead round in circles.
Terminates == <>Ended

\* What the help text says of option -l: tables that bring every packet to its LID are
\* accepted as reachable whatever the LMC was that the subnet manager ran with.
GoodTablesVerified ==
  stage = "failed" /\ ~opts.design =>
    \E p, q \in Sources, i \in 0 .. LidStep - 1 :
      p[1] # q[1] /\ SwitchOf(p) \notin Delivering(baseLid[q] + i, MaxHops)
===============================================================================
