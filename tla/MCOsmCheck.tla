------------------------------ MODULE MCOsmCheck ------------------------------
(* CAs 1 to 3; leaves 4 and 5, spines 6 and 7; the spines are one system. *)
EXTENDS OsmCheck, TLC

MCNumPorts == <<1, 1, 2, 4, 5, 4, 4>>
MCSystemOf == <<1, 2, 3, 4, 5, 6, 6>>

Options(lmc, updn, roots) ==
  [lmc |-> lmc, sm |-> <<1, 1>>, updn |-> updn, roots |-> roots, design |-> TRUE,
   enhanced |-> FALSE, allPaths |-> FALSE, mcast |-> FALSE]

Enhanced(lmc, updn, roots) ==
  [Options(lmc, updn, roots) EXCEPT !.enhanced = TRUE, !.allPaths = TRUE]

Wired(cables) ==
  [p \in {c[1] : c \in cables} \cup {c[2] : c \in cables} |->
     LET c == CHOOSE c \in cables : p \in {c[1], c[2]} IN IF p = c[1] THEN c[2] ELSE c[1]]

\* The third CA is at a spine, or at a leaf.
CaCables == {<<<<1, 1>>, <<4, 1>>>>, <<<<2, 1>>, <<5, 1>>>>, <<<<3, 1>>, <<6, 1>>>>}
LeafCables == {<<<<1, 1>>, <<4, 1>>>>, <<<<2, 1>>, <<5, 1>>>>, <<<<3, 1>>, <<5, 5>>>>}

\* Every leaf to every spine, a link between the leaves, and one between the spines.
Links == {<<<<4, 2>>, <<6, 2>>>>, <<<<4, 3>>, <<7, 2>>>>, <<<<5, 2>>, <<6, 3>>>>,
          <<<<5, 3>>, <<7, 3>>>>, <<<<4, 4>>, <<5, 4>>>>, <<<<6, 4>>, <<7, 4>>>>}

LeafLinks == {<<<<4, 2>>, <<6, 2>>>>, <<<<5, 3>>, <<7, 3>>>>}

\* Design mode: any of the links may be missing, but for two if there is no CA at a spine.
\* At last two CAs on one cable, away from the switches.
MCWirings ==
  {Wired(CaCables \cup links) : links \in SUBSET Links} \cup
  {Wired(LeafCables \cup links) : links \in {ls \in SUBSET Links : LeafLinks \subseteq ls}} \cup
  {Wired({<<<<1, 1>>, <<2, 1>>>>} \cup Links)}

MCDesignOptions ==
  {Options(0, FALSE, {}), Options(1, TRUE, {}), Options(0, TRUE, {6, 7}),
   Enhanced(1, FALSE, {}), Enhanced(1, TRUE, {6, 7})}

-----------------------------------------------------------------------------
(* Verification mode: the ring 4 - 6 - 5 - 7, whose LIDs go by the numbers of the nodes *)

Ring == Wired(CaCables \cup {c \in Links : c[1][2] # 4})

\* Port 1 leads to the CA of a switch, ports 2 and 3 to the two neighbours on the ring.
PortTo(s, n) == CHOOSE i \in 1 .. 4 : <<s, i>> \in DOMAIN Ring /\ Ring[<<s, i>>][1] = n

Neighbours(n) == {Ring[p][1] : p \in {q \in DOMAIN Ring : q[1] = n}}

\* Where a switch may go either way for a LID of a CA.
Forks == {x \in {4, 5, 6, 7} \X {1, 2, 3} : x[2] \notin Neighbours(x[1])}

\* The tables of which the places in "other" take port 3.
Tables(other, l2n) ==
  [s \in {4, 5, 6, 7} |->
     [l \in DOMAIN l2n |->
        LET n == l2n[l] IN
        CASE n = s -> 0
          [] n # s /\ n \in Neighbours(s) -> PortTo(s, n)
          [] OTHER -> IF <<s, n>> \in other THEN 3 ELSE 2]]

OneLid == <<1, 2, 3, 4, 5, 6, 7>>
TwoLids == <<1, 1, 1, 2, 2, 3, 3, 4, 4, 5, 5, 6, 6, 7, 7>>   \* an LMC of 1: the LIDs of n are 2n, 2n + 1

\* The places of the shortest ways.
Short == {<<6, 2>>, <<7, 2>>}

NoMembers == [s \in {4, 5, 6, 7} |-> [g \in {1, 2} |-> {}]]
OneSl == [n \in 1 .. 7 |-> [m \in 1 .. 7 |-> 0]]

\* What CA n sends goes on service level 1, or what it is sent.
SlFrom(n) == [OneSl EXCEPT ![n] = [m \in 1 .. 7 |-> 1]]
SlTo(n) == [OneSl EXCEPT ![1][n] = 1, ![2][n] = 1, ![3][n] = 1]

Verify(options, tables, members, sl) ==
  [opts |-> options, remote |-> Ring, lid |-> OneLid, lft |-> tables, mft |-> members, psl |-> sl]

Graph == [Options(0, FALSE, {}) EXCEPT !.design = FALSE]
GraphOfAll == [Graph EXCEPT !.allPaths = TRUE]
GraphOfGroups == [Graph EXCEPT !.mcast = TRUE]
Report == [Options(0, TRUE, {6, 7}) EXCEPT !.design = FALSE]

\* Every way for every LID of a CA that is not next to the switch.
Ways == {Verify(o, Tables(w, OneLid), NoMembers, OneSl) : w \in SUBSET Forks, o \in {Graph, Report}}

\* One wrong entry.
Faults == {Verify(o, [Tables(Short, OneLid) EXCEPT ![s][l] = e], NoMembers, OneSl) :
             o \in {Graph, GraphOfAll}, s \in {4, 5, 6, 7}, l \in 1 .. 7, e \in {0, 1, 4, 255}}

\* Service levels that keep the routes round the ring apart, or not.
Lanes == {Verify(Graph, Tables(w, OneLid), NoMembers, sl) :
            w \in {Short, Forks, Forks \ Short},
            sl \in {SlFrom(n) : n \in {1, 2, 3}} \cup {SlTo(n) : n \in {1, 2, 3}}}

\* All multicast tables of one group.
Members(ports) == [s \in {4, 5, 6, 7} |-> [g \in {1, 2} |-> IF g = 1 THEN ports[s] ELSE {}]]
Multicast == {Verify(Report, Tables(Short, OneLid), Members(4 :> a @@ 5 :> b @@ 6 :> c @@ 7 :> d), OneSl) :
                a, b \in SUBSET {1, 2, 3}, c \in {{}, {2}, {2, 3}, {1, 2, 3}}, d \in {{}, {2, 3}}}

\* Two trees that are a circle together, or a group with a port that has no cable.
Trees == {4 :> <<{1, 2}, {2, 3}>> @@ 5 :> <<{2, 3}, {1, 3}>> @@ 6 :> <<{2, 3}, {2}>> @@ 7 :> <<{3}, {2, 3}>>,
          4 :> <<{1, 2}, {1, 2}>> @@ 5 :> <<{1, 2}, {1, 2}>> @@ 6 :> <<{2, 3}, {2, 3}>> @@ 7 :> <<{}, {}>>,
          4 :> <<{1, 2, 4}, {}>> @@ 5 :> <<{1, 2}, {}>> @@ 6 :> <<{2, 3}, {}>> @@ 7 :> <<{}, {}>>}
TwoGroups == {Verify(o, Tables(Short, OneLid), m, OneSl) : o \in {Graph, GraphOfGroups}, m \in Trees}

MCVerifications == Ways \cup Faults \cup Lanes \cup Multicast \cup TwoGroups

\* The same ring with two LIDs at each port, the first a multiple of 2, as the subnet
\* manager gives them.
MCTwoLids == {[Verify([o EXCEPT !.lmc = 1], Tables(w, TwoLids), NoMembers, OneSl) EXCEPT !.lid = [n \in 1 .. 7 |-> 2 * n]] :
                o \in {Graph, Report}, w \in {Short, Forks}}

-----------------------------------------------------------------------------
(* Up/down tables for three ranks of switches: the roots 7 and 8, then 5 and 6, then 3 and 4 *)

TallNumPorts == <<1, 1, 2, 2, 3, 3, 2, 2>>
TallSystemOf == <<1, 2, 3, 4, 5, 6, 7, 8>>

\* CA 1 at switch 3, which has one root above it; switch 4 hangs below both 5 and 6.
TallWirings ==
  {Wired({<<<<1, 1>>, <<3, 1>>>>, <<<<3, 2>>, <<5, 3>>>>, <<<<5, 1>>, <<7, 1>>>>, <<<<5, 2>>, <<4, 1>>>>,
          <<<<4, 2>>, <<6, 1>>>>, <<<<6, 2>>, <<7, 2>>>>, <<<<6, 3>>, <<8, 1>>>>, <<<<8, 2>>, <<2, 1>>>>})}

TallOptions == {Options(0, TRUE, {7, 8})}
=============================================================================
