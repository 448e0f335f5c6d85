----------------------------- MODULE LidMapProofs -----------------------------
(***************************************************************************)
(* Proofs about how LIDs are given to ports, for any number of nodes, of   *)
(* ports and of LIDs.                                                      *)
(*                                                                         *)
(* The LIDs that a Set in progress touches (InHand) become fewer while it  *)
(* runs.  Two Sets that touched none in common when the later one started  *)
(* therefore never do; outside of them the table and the ports agree, and  *)
(* for the LIDs of one Set the invariant says how far it has got.          *)
(***************************************************************************)
EXTENDS LidMap, FiniteSetTheorems, TLAPS

\* The nodes with a Set in progress.
Busy == {n \in Nodes : set[n].pc # "idle"}

\* The table of ports by LID, with the LIDs past its end.
Entry == [x \in Nat |-> IF x \in DOMAIN portByLid THEN portByLid[x] ELSE NoPort]

\* The LIDs that a Set in progress touches.
InHand == [n \in Nodes |-> Touched(n)]

SetType ==
  [pc : {"idle", "take", "clear", "evict", "enter"}, record : Records \cup {NoPort},
   lid : 0 .. MaxLid, port : Nat, prev : 0 .. MaxLid]

LidTypes ==
  /\ recordLid \in [Records -> 0 .. MaxLid]
  /\ baseLid \in [Ports -> 0 .. MaxLid]
  /\ portByLid \in [DOMAIN portByLid -> Ports \cup {NoPort}]
  /\ (\E top \in Nat : DOMAIN portByLid = 0 .. top) /\ portByLid[0] = NoPort
  /\ set \in [Nodes -> SetType]

\* What a Set in progress knows: its record, its LID, and the port whose turn it is.
Places ==
  /\ \A n \in Nodes : n \notin Busy => set[n] = NoSet
  /\ \A n \in Busy :
       /\ set[n].record \in Records /\ set[n].record[1] = n /\ set[n].lid # 0
       /\ Turn(n) \in PortsOf(n)
       /\ n \in Hcas => set[n].record = Turn(n)
       /\ InTable(n) => set[n].lid \in DOMAIN portByLid
       /\ set[n].pc = "enter" => set[n].port = LastPort(n)

Apart == \A n, m \in Busy : n # m => InHand[n] \cap InHand[m] = {}

\* The table and the ports agree about a LID that no Set in progress touches.
Settled ==
  \A x \in Nat \ {0} : (\A n \in Busy : x \notin InHand[n]) =>
    \A p \in Ports :
      /\ Entry[x] = p => baseLid[p] = x
      /\ baseLid[p] = x => Entry[x] \in PortsOf(p[1]) /\ (p[1] \in Hcas => Entry[x] = p)

\* What other nodes have to do with the LIDs that a Set touches: only an HCA, and only
\* with the LID that is being given.
Foreign(n) ==
  \A x \in InHand[n], q \in Ports : q[1] # n =>
    /\ Entry[x] = q => x = set[n].lid /\ q[1] \in Hcas /\ baseLid[q] \in {0, x}
    /\ baseLid[q] = x => /\ x = set[n].lid /\ q[1] \in Hcas /\ Entry[x] = q
                         /\ set[n].pc # "enter"
                         /\ ~(set[n].pc = "take" /\ baseLid[Turn(n)] = x)
                         /\ ~(set[n].pc = "clear" /\ set[n].prev = x)

\* The LIDs of the ports of an HCA, the turn of one of which it is.
HcaPorts(n) ==
  \A q \in PortsOf(n) :
    /\ q = Turn(n) => set[n].pc = "take" \/ baseLid[q] = set[n].lid
    /\ q # Turn(n) /\ baseLid[q] = set[n].lid => set[n].pc # "enter"
    /\ \A x \in Nat \ {0} :
         /\ Entry[x] = q => \/ baseLid[q] = x
                            \/ q = Turn(n) /\ set[n].pc = "clear" /\ x = set[n].prev
                            \/ q # Turn(n) /\ set[n].pc = "enter" /\ x = set[n].lid
         /\ baseLid[q] = x /\ (q # Turn(n) \/ set[n].pc = "take") => Entry[x] = q
         /\ q = Turn(n) /\ Entry[x] = q => set[n].pc = "take" \/ (set[n].pc = "clear" /\ x = set[n].prev)
         /\ q = Turn(n) /\ set[n].pc = "clear" /\ x = set[n].prev => Entry[x] = q

\* The LIDs of the ports of a switch, the first of which have the new LID.
SwitchPorts(n) ==
  /\ \A i \in 1 .. NumPorts[n] :
       /\ i < set[n].port \/ (i = set[n].port /\ set[n].pc # "take") =>
            baseLid[<<n, i>>] = set[n].lid
       /\ i > set[n].port /\ set[n].pc = "take" => baseLid[<<n, i>>] = baseLid[Turn(n)]
       /\ i > set[n].port /\ set[n].pc # "take" => baseLid[<<n, i>>] = set[n].prev
  /\ \A x \in Nat \ {0} :
       Entry[x] \in PortsOf(n) /\ x # set[n].lid =>
         \/ set[n].pc = "take" /\ x = baseLid[Turn(n)]
         \/ set[n].pc = "clear" /\ x = set[n].prev

\* The nodes at which this is how it is.
Sound == {n \in Nodes : /\ Foreign(n)
                        /\ n \in Hcas => HcaPorts(n)
                        /\ n \in Switches => SwitchPorts(n)}

OwnPorts ==
  /\ Busy \subseteq Sound
  /\ \A s \in Switches : s \notin Busy => \A p, q \in PortsOf(s) : baseLid[p] = baseLid[q]

MapInv == marred \cap {"raced", "robbed"} = {} => Apart /\ Settled /\ OwnPorts

\* The LID in a record, and the LIDs that the fabric has for its ports.
Agree ==
  \A r \in Records, p \in Ports :
    r = p \/ (r[2] = 0 /\ p[1] = r[1]) =>
      \/ recordLid[r] = baseLid[p]
      \/ set[r[1]].record = r /\ (p[2] < set[r[1]].port \/ (p[2] = set[r[1]].port /\ set[r[1]].pc # "take"))

Unshared == \A n \in Busy : \A r \in Records : r # set[n].record => recordLid[r] # set[n].lid

RecordInv ==
  marred \cap {"raced", "shared"} = {} => "robbed" \notin marred /\ Agree /\ Unshared

LidInv == LidTypes /\ Places /\ MapInv /\ RecordInv

-----------------------------------------------------------------------------
(* Ports, records, and the LIDs in hand *)

\* Ports are pairs of a node and a number of it.
LEMMA PortFacts ==
  /\ \A n \in Nodes : NumPorts[n] \in Nat \ {0} /\ <<n, 1>> \in PortsOf(n)
  /\ \A n \in Nodes : \A p : p \in PortsOf(n) <=> p \in Ports /\ p[1] = n
  /\ \A n \in Nodes : \A i \in 1 .. NumPorts[n] : <<n, i>> \in PortsOf(n)
  /\ \A p \in Ports : /\ p[1] \in Nodes /\ p = <<p[1], p[2]>> /\ p[2] \in 1 .. NumPorts[p[1]]
                      /\ p[2] \in Nat \ {0}
  /\ NoPort \notin Ports /\ NoPort \notin Records /\ NoPort[1] \notin Nodes
<1>1. \A n \in Nodes : NumPorts[n] \in Nat \ {0}
  BY LidMapAssumption
<1>2. \A n \in Nodes : \A p \in PortsOf(n) : /\ p \in Ports /\ p[1] = n /\ p = <<n, p[2]>>
                                             /\ p[2] \in 1 .. NumPorts[n] /\ p[2] \in Nat \ {0}
  BY <1>1 DEF Ports, PortsOf
<1>3. \A p \in Ports : \E n \in Nodes : p \in PortsOf(n)
  BY DEF Ports
<1>4. \A n \in Nodes : \A i \in 1 .. NumPorts[n] : <<n, i>> \in PortsOf(n)
  BY DEF PortsOf
<1>5. NoPort[1] \notin Nodes
  BY LidMapAssumption DEF NoPort
<1>6. NoPort \notin Ports
  BY <1>2, <1>3, <1>5
<1>7. NoPort \notin Records
  <2>1. \A r \in Switches \X {0} : r[1] \in Nodes
    BY DEF Nodes
  <2> QED
    BY <1>5, <1>6, <2>1 DEF Records
<1>8. \A n \in Nodes : <<n, 1>> \in PortsOf(n)
  BY <1>1, <1>4
<1> QED
  BY <1>1, <1>2, <1>3, <1>4, <1>5, <1>6, <1>7, <1>8

\* The record of a switch is that of port 0, those of an HCA are its ports.
LEMMA RecordFacts ==
  /\ \A n \in Nodes : n \in Switches <=> n \notin Hcas
  /\ \A r \in Records : /\ r[1] \in Nodes
                        /\ r[1] \in Hcas => r \in Ports /\ r[2] # 0
                        /\ r[1] \in Switches => r = <<r[1], 0>> /\ r[2] = 0
  /\ \A n \in Switches : <<n, 0>> \in Records
  /\ \A p \in Ports : p[1] \in Hcas => p \in Records
<1>1. \A n \in Nodes : n \in Switches <=> n \notin Hcas
  BY LidMapAssumption DEF Nodes
<1>2. \A r \in Switches \X {0} : r[1] \in Nodes /\ r[1] \in Switches /\ r = <<r[1], 0>> /\ r[2] = 0
  BY DEF Nodes
<1> QED
  BY <1>1, <1>2, PortFacts DEF Records

\* What it says of a LID that it is in hand at a node.
HandIs(n, x, lid, prev, base, table) ==
  x \in ({lid, prev} \cup ({base[p] : p \in PortsOf(n)}
                              \cup {l \in DOMAIN table : table[l][1] = n})) \ {0}
  <=> /\ x \in Nat /\ x # 0
      /\ \/ x = lid \/ x = prev
         \/ \E p \in Ports : p[1] = n /\ (base[p] = x
              \/ (IF x \in DOMAIN table THEN table[x] ELSE NoPort) = p)

\* What is in hand: the LID that is given, the one before, and those of the node.
LEMMA HandOf ==
  ASSUME NEW n \in Nodes, NEW lid \in Nat, NEW prev \in Nat, NEW base \in [Ports -> Nat],
         NEW table, DOMAIN table \subseteq Nat, table \in [DOMAIN table -> Ports \cup {NoPort}],
         NEW x
  PROVE  HandIs(n, x, lid, prev, base, table)
<1>1. x \in {base[p] : p \in PortsOf(n)} <=> \E p \in Ports : p[1] = n /\ base[p] = x
  BY PortFacts
<1>2. \A p \in Ports : base[p] \in Nat
  OBVIOUS
<1>3. x \in {l \in DOMAIN table : table[l][1] = n} <=>
        \E p \in Ports : p[1] = n /\ (IF x \in DOMAIN table THEN table[x] ELSE NoPort) = p
  <2>1. CASE x \in DOMAIN table
    <3>1. table[x] \in Ports \cup {NoPort}
      BY <2>1
    <3> QED
      BY <2>1, <3>1, PortFacts
  <2>2. CASE x \notin DOMAIN table
    BY <2>2, PortFacts
  <2> QED
    BY <2>1, <2>2
<1>4. x \in {l \in DOMAIN table : table[l][1] = n} => x \in Nat
  OBVIOUS
<1> QED
  BY <1>1, <1>2, <1>3, <1>4 DEF HandIs

\* The same of the state, before and after a step.
LEMMA HandNow ==
  LidTypes => \A n \in Nodes : \A x :
    x \in InHand[n] <=>
      /\ x \in Nat /\ x # 0
      /\ \/ x = set[n].lid \/ x = set[n].prev
         \/ \E p \in Ports : p[1] = n /\ (baseLid[p] = x \/ Entry[x] = p)
<1> SUFFICES ASSUME LidTypes, NEW n \in Nodes, NEW x
             PROVE  x \in InHand[n] <=>
                      /\ x \in Nat /\ x # 0
                      /\ \/ x = set[n].lid \/ x = set[n].prev
                         \/ \E p \in Ports : p[1] = n /\ (baseLid[p] = x \/ Entry[x] = p)
  OBVIOUS
<1>1. /\ set[n].lid \in Nat /\ set[n].prev \in Nat /\ baseLid \in [Ports -> Nat]
      /\ DOMAIN portByLid \subseteq Nat /\ portByLid \in [DOMAIN portByLid -> Ports \cup {NoPort}]
  BY LidMapAssumption DEF LidTypes, SetType
<1>2. InHand[n] = ({set[n].lid, set[n].prev} \cup ({baseLid[p] : p \in PortsOf(n)}
                     \cup {l \in DOMAIN portByLid : portByLid[l][1] = n})) \ {0}
  BY DEF InHand, Touched, LidsOf
<1>3. x \in Nat => Entry[x] = IF x \in DOMAIN portByLid THEN portByLid[x] ELSE NoPort
  BY DEF Entry
<1> PICK lid \in Nat : lid = set[n].lid
  BY <1>1
<1> PICK prev \in Nat : prev = set[n].prev
  BY <1>1
<1> PICK base \in [Ports -> Nat] : base = baseLid
  BY <1>1
<1> PICK table : table = portByLid
  OBVIOUS
<1>4. HandIs(n, x, lid, prev, base, table)
  <2>1. DOMAIN table \subseteq Nat /\ table \in [DOMAIN table -> Ports \cup {NoPort}]
    BY <1>1
  <2> QED
    BY <2>1, HandOf
<1> QED
  BY <1>2, <1>3, <1>4 DEF HandIs

\* After a step.
LEMMA HandNext ==
  LidTypes' => \A n \in Nodes : \A x :
    x \in InHand'[n] <=>
      /\ x \in Nat /\ x # 0
      /\ \/ x = set'[n].lid \/ x = set'[n].prev
         \/ \E p \in Ports : p[1] = n /\ (baseLid'[p] = x \/ Entry'[x] = p)
<1> SUFFICES ASSUME LidTypes', NEW n \in Nodes, NEW x
             PROVE  x \in InHand'[n] <=>
                      /\ x \in Nat /\ x # 0
                      /\ \/ x = set'[n].lid \/ x = set'[n].prev
                         \/ \E p \in Ports : p[1] = n /\ (baseLid'[p] = x \/ Entry'[x] = p)
  OBVIOUS
<1>1. /\ set'[n].lid \in Nat /\ set'[n].prev \in Nat /\ baseLid' \in [Ports -> Nat]
      /\ DOMAIN portByLid' \subseteq Nat /\ portByLid' \in [DOMAIN portByLid' -> Ports \cup {NoPort}]
  BY LidMapAssumption DEF LidTypes, SetType
<1>2. InHand'[n] = ({set'[n].lid, set'[n].prev} \cup ({baseLid'[p] : p \in PortsOf(n)}
                     \cup {l \in DOMAIN portByLid' : portByLid'[l][1] = n})) \ {0}
  BY DEF InHand, Touched, LidsOf
<1>3. x \in Nat => Entry'[x] = IF x \in DOMAIN portByLid' THEN portByLid'[x] ELSE NoPort
  BY DEF Entry
<1> PICK lid \in Nat : lid = set'[n].lid
  BY <1>1
<1> PICK prev \in Nat : prev = set'[n].prev
  BY <1>1
<1> PICK base \in [Ports -> Nat] : base = baseLid'
  BY <1>1
<1> PICK table : table = portByLid'
  OBVIOUS
<1>4. HandIs(n, x, lid, prev, base, table)
  <2>1. DOMAIN table \subseteq Nat /\ table \in [DOMAIN table -> Ports \cup {NoPort}]
    BY <1>1
  <2> QED
    BY <2>1, HandOf
<1> QED
  BY <1>2, <1>3, <1>4 DEF HandIs

-----------------------------------------------------------------------------
(* Types, and what a Set in progress knows *)

\* The initial states satisfy the invariant.
LEMMA LidInit == Init => LidInv
<1> SUFFICES ASSUME Init PROVE LidInv
  OBVIOUS
<1>1. Busy = {} /\ \A n \in Nodes : set[n] = NoSet
  BY DEF Init, Busy, NoSet
<1>2. LidTypes
  <2>1. NoSet \in SetType /\ 0 \in 0 .. MaxLid
    BY LidMapAssumption DEF NoSet, SetType
  <2>2. /\ portByLid = [l \in {0} |-> NoPort] /\ DOMAIN portByLid = 0 .. 0 /\ 0 \in Nat
    BY DEF Init
  <2> QED
    BY <1>1, <2>1, <2>2 DEF Init, LidTypes
<1>3. Places
  BY <1>1 DEF Places
<1>4. \A x \in Nat : Entry[x] = NoPort
  BY DEF Init, Entry
<1>5. MapInv
  <2>1. \A p \in Ports : baseLid[p] = 0
    BY DEF Init
  <2>2. Apart /\ OwnPorts
    <3>1. \A n \in Switches : n \in Nodes
      BY DEF Nodes
    <3>2. \A n \in Switches : \A p \in PortsOf(n) : baseLid[p] = 0
      BY <2>1, <3>1, PortFacts
    <3> QED
      BY <1>1, <3>2 DEF Apart, OwnPorts
  <2>3. Settled
    BY <1>4, <2>1, PortFacts DEF Settled
  <2> QED
    BY <2>2, <2>3 DEF MapInv
<1>6. RecordInv
  <2>1. Agree
    BY RecordFacts DEF Init, Agree
  <2>2. Unshared /\ "robbed" \notin marred
    BY <1>1 DEF Unshared, Init
  <2> QED
    BY <2>1, <2>2 DEF RecordInv
<1> QED
  BY <1>2, <1>3, <1>5, <1>6 DEF LidInv

\* A Set of which the place is known is one in progress.
LEMMA SetFacts ==
  ASSUME LidTypes, Places, NEW n \in Nodes, set[n].pc # "idle"
  PROVE  /\ n \in Busy /\ set[n] \in SetType /\ set[n].record \in Records /\ set[n].record[1] = n
         /\ set[n].lid \in 1 .. MaxLid /\ set[n].prev \in 0 .. MaxLid
         /\ set[n].port \in 1 .. NumPorts[n] /\ Turn(n) = <<n, set[n].port>>
         /\ Turn(n) \in Ports /\ Turn(n)[1] = n /\ Turn(n)[2] = set[n].port
         /\ n \in Hcas => set[n].record = Turn(n) /\ LastPort(n) = set[n].port
         /\ n \in Switches => LastPort(n) = NumPorts[n] /\ set[n].record = <<n, 0>>
         /\ set[n].lid \in InHand[n]
<1>1. n \in Busy /\ set[n] \in SetType
  BY DEF Busy, LidTypes
<1>2. /\ set[n].record \in Records /\ set[n].record[1] = n /\ set[n].lid # 0
      /\ Turn(n) \in PortsOf(n) /\ (n \in Hcas => set[n].record = Turn(n))
  BY <1>1 DEF Places
<1>3. /\ set[n].lid \in 1 .. MaxLid /\ set[n].prev \in 0 .. MaxLid /\ set[n].port \in Nat
  BY <1>1, <1>2, LidMapAssumption DEF SetType
<1>4. /\ Turn(n) = <<n, set[n].port>> /\ Turn(n) \in Ports /\ Turn(n)[1] = n
      /\ Turn(n)[2] = set[n].port
  BY <1>2, PortFacts DEF Turn
<1>5. set[n].port \in 1 .. NumPorts[n]
  BY <1>4, PortFacts
<1>6. /\ n \in Hcas => LastPort(n) = set[n].port
      /\ n \in Switches => LastPort(n) = NumPorts[n] /\ set[n].record = <<n, 0>>
  <2>1. n \in Hcas => n \notin Switches /\ set[n].record[2] = set[n].port
    BY <1>2, <1>4, RecordFacts
  <2>2. ASSUME n \in Switches
        PROVE  set[n].record = <<n, 0>>
    <3>1. \A r \in Records : r[1] \in Switches => r = <<r[1], 0>>
      BY RecordFacts
    <3>2. PICK r \in Records : r = set[n].record
      BY <1>2
    <3> QED
      BY <1>2, <2>2, <3>1, <3>2
  <2> QED
    BY <2>1, <2>2 DEF LastPort
<1>7. set[n].lid \in InHand[n]
  BY <1>3, HandNow
<1> QED
  BY <1>1, <1>2, <1>3, <1>4, <1>5, <1>6, <1>7

\* The table that goes on for ever has no entry for LID 0 and none past the table's end.
LEMMA EntryFacts ==
  ASSUME LidTypes
  PROVE  /\ \A x \in Nat : Entry[x] = IF x \in DOMAIN portByLid THEN portByLid[x] ELSE NoPort
         /\ \A x \in Nat : Entry[x] \in Ports \cup {NoPort}
         /\ Entry[0] = NoPort /\ DOMAIN Entry = Nat
<1>1. PICK top \in Nat : DOMAIN portByLid = 0 .. top
  BY DEF LidTypes
<1>2. 0 \in DOMAIN portByLid /\ portByLid[0] = NoPort
  BY <1>1 DEF LidTypes
<1> QED
  BY <1>2 DEF LidTypes, Entry

\* A function after one of its values is changed.
LEMMA EntryChanged ==
  ASSUME NEW S, NEW T, NEW f, NEW h, NEW x \in S, NEW y \in T,
         f \in [S -> T], h = [f EXCEPT ![x] = y]
  PROVE  /\ h \in [S -> T] /\ h[x] = y
         /\ \A z \in S : z # x => h[z] = f[z]
  OBVIOUS

\* What is known of the Sets after one of them went on.
LEMMA SetGoesOn ==
  ASSUME LidTypes, Places, NEW n \in Nodes, set[n].pc # "idle",
         NEW pc \in {"take", "clear", "evict", "enter"}, NEW prev \in 0 .. MaxLid,
         NEW port \in 1 .. NumPorts[n],
         set' = [set EXCEPT ![n].pc = pc, ![n].prev = prev, ![n].port = port],
         n \in Hcas => port = set[n].port,
         pc = "enter" => port = IF n \in Switches THEN NumPorts[n] ELSE set[n].record[2],
         DOMAIN portByLid \subseteq DOMAIN portByLid',
         pc # "take" => set[n].lid \in DOMAIN portByLid'
  PROVE  /\ set' \in [Nodes -> SetType] /\ Places' /\ Busy' = Busy
         /\ \A m \in Nodes : m # n => set'[m] = set[m]
         /\ set'[n].pc = pc /\ set'[n].prev = prev /\ set'[n].port = port
         /\ set'[n].lid = set[n].lid /\ set'[n].record = set[n].record
         /\ Turn(n)' = <<n, port>>
<1> DEFINE g == [set[n] EXCEPT !.pc = pc, !.prev = prev, !.port = port]
<1>1. set \in [Nodes -> SetType]
  BY DEF LidTypes
<1>2. set' = [set EXCEPT ![n] = g]
  BY <1>1 DEF SetType
<1>3. port \in Nat
  BY PortFacts
<1>4. /\ g \in SetType /\ g.pc = pc /\ g.prev = prev /\ g.port = port /\ g.lid = set[n].lid
      /\ g.record = set[n].record
  BY <1>1, <1>3, LidMapAssumption DEF SetType
<1> HIDE DEF g
<1>5. /\ set' \in [Nodes -> SetType] /\ set'[n] = g
      /\ \A m \in Nodes : m # n => set'[m] = set[m]
  <2>1. g \in SetType
    BY <1>4
  <2> QED
    BY ONLY n \in Nodes, <1>1, <1>2, <2>1, EntryChanged, Zenon
<1>6. Busy' = Busy /\ n \in Busy
  BY <1>4, <1>5 DEF Busy
<1>7. Turn(n)' = <<n, port>> /\ \A m \in Nodes : m # n => <<m, set'[m].port>> = <<m, set[m].port>>
  BY <1>4, <1>5 DEF Turn
<1>8. Places'
  <2>1. ASSUME NEW m \in Nodes, m \notin Busy
        PROVE  set'[m] = NoSet
    BY <1>5, <1>6, <2>1 DEF Places
  <2>2. ASSUME NEW m \in Busy
        PROVE  /\ set'[m].record \in Records /\ set'[m].record[1] = m /\ set'[m].lid # 0
               /\ <<m, set'[m].port>> \in PortsOf(m)
               /\ m \in Hcas => set'[m].record = <<m, set'[m].port>>
               /\ set'[m].pc \in {"clear", "evict", "enter"} => set'[m].lid \in DOMAIN portByLid'
               /\ set'[m].pc = "enter" =>
                    set'[m].port = IF m \in Switches THEN NumPorts[m] ELSE set'[m].record[2]
    <3>1. m \in Nodes
      BY DEF Busy
    <3>2. CASE m = n
      <4>1. <<n, port>> \in PortsOf(n)
        BY PortFacts
      <4>2. /\ set'[n].record = set[n].record /\ set'[n].lid = set[n].lid
            /\ set'[n].pc = pc /\ set'[n].port = port
        BY <1>4, <1>5
      <4>3. /\ set[n].record \in Records /\ set[n].record[1] = n /\ set[n].lid # 0
            /\ n \in Hcas => set[n].record = <<n, set[n].port>>
        BY <1>6 DEF Places, Turn
      <4>4. pc = "enter" => port = IF n \in Switches THEN NumPorts[n] ELSE set[n].record[2]
        <5>1. n \notin Switches => n \in Hcas
          BY RecordFacts
        <5>2. n \in Hcas => set[n].record[2] = set[n].port
          BY <4>3
        <5> QED
          BY <5>1, <5>2 DEF LastPort
      <4> HIDE DEF Busy
      <4> QED
        BY <3>2, <4>1, <4>2, <4>3, <4>4
    <3>3. CASE m # n
      BY <1>5, <2>2, <3>1, <3>3 DEF Places, Turn, InTable, LastPort
    <3> QED
      BY <3>2, <3>3
  <2> QED
    BY <1>6, <2>1, <2>2 DEF Places, Turn, InTable, LastPort
<1> QED
  BY <1>4, <1>5, <1>6, <1>7, <1>8

-----------------------------------------------------------------------------
(* What the actions do, in terms of the table that goes on for ever *)

\* A Set is made at a node that has none in progress.
LEMMA SetLidFacts ==
  ASSUME LidTypes, Places, NEW n \in Nodes, NEW r \in Records, NEW l \in 1 .. MaxLid,
         SetLid(n, r, l)
  PROVE  /\ n \notin Busy /\ r[1] = n /\ Busy' = Busy \cup {n}
         /\ \A m \in Nodes : m # n => set'[m] = set[m]
         /\ set'[n].pc = "take" /\ set'[n].record = r /\ set'[n].lid = l /\ set'[n].prev = 0
         /\ set'[n].port \in 1 .. NumPorts[n] /\ Turn(n)' = <<n, set'[n].port>>
         /\ n \in Switches => set'[n].port = 1
         /\ UNCHANGED <<recordLid, baseLid, portByLid>> /\ Entry' = Entry
         /\ marred' = marred \cup Marks(n, r, l)
         /\ LidTypes' /\ Places'
<1> DEFINE g == [pc |-> "take", record |-> r, lid |-> l, prev |-> 0,
                 port |-> IF n \in Switches THEN 1 ELSE r[2]]
<1>1. /\ set[n].pc = "idle" /\ r[1] = n /\ set' = [set EXCEPT ![n] = g]
      /\ UNCHANGED <<recordLid, baseLid, portByLid>> /\ marred' = marred \cup Marks(n, r, l)
  BY DEF SetLid, At
<1>2. n \in Hcas => n \notin Switches /\ r \in Ports /\ r = <<n, r[2]>> /\ r[2] \in 1 .. NumPorts[n]
  BY <1>1, RecordFacts, PortFacts
<1>3. n \in Hcas \/ n \in Switches
  BY DEF Nodes
<1>4. g.port \in 1 .. NumPorts[n] /\ (n \in Switches => g.port = 1) /\ (n \in Hcas => r = <<n, g.port>>)
  BY <1>2, <1>3, PortFacts
<1>5. /\ g \in SetType /\ g.pc = "take" /\ g.record = r /\ g.lid = l /\ g.prev = 0
  <2>1. g.port \in Nat /\ l \in 0 .. MaxLid /\ 0 \in 0 .. MaxLid
    BY <1>4, LidMapAssumption, PortFacts
  <2> QED
    BY <2>1 DEF SetType
<1> HIDE DEF g
<1>6. /\ set' \in [Nodes -> SetType] /\ set'[n] = g /\ \A m \in Nodes : m # n => set'[m] = set[m]
  BY <1>1, <1>5 DEF LidTypes
<1>7. Busy' = Busy \cup {n} /\ n \notin Busy
  BY <1>1, <1>5, <1>6 DEF Busy
<1>8. LidTypes'
  BY <1>1, <1>6 DEF LidTypes
<1>9. Places'
  <2>1. ASSUME NEW m \in Nodes, m \notin Busy'
        PROVE  set'[m] = NoSet
    BY <1>6, <1>7, <2>1 DEF Places
  <2>2. ASSUME NEW m \in Busy'
        PROVE  /\ set'[m].record \in Records /\ set'[m].record[1] = m /\ set'[m].lid # 0
               /\ <<m, set'[m].port>> \in PortsOf(m)
               /\ m \in Hcas => set'[m].record = <<m, set'[m].port>>
               /\ set'[m].pc \in {"clear", "evict", "enter"} => set'[m].lid \in DOMAIN portByLid'
               /\ set'[m].pc = "enter" =>
                    set'[m].port = IF m \in Switches THEN NumPorts[m] ELSE set'[m].record[2]
    <3>1. m \in Nodes /\ portByLid' = portByLid
      BY <1>1, <2>2 DEF Busy
    <3>2. CASE m = n
      <4>1. <<n, g.port>> \in PortsOf(n) /\ l # 0
        BY <1>4, PortFacts, LidMapAssumption
      <4> QED
        BY <1>1, <1>4, <1>5, <1>6, <3>2, <4>1
    <3>3. CASE m # n
      BY <1>6, <1>7, <2>2, <3>1, <3>3 DEF Places, Turn, InTable, LastPort
    <3> QED
      BY <3>2, <3>3
  <2> QED
    BY <2>1, <2>2 DEF Places, Turn, InTable, LastPort
<1>10. Entry' = Entry
  BY <1>1 DEF Entry
<1>11. Turn(n)' = <<n, g.port>>
  BY <1>6 DEF Turn
<1> QED
  BY <1>1, <1>4, <1>5, <1>6, <1>7, <1>8, <1>9, <1>10, <1>11

\* A port gets its LID.  The table may grow, which no entry tells.
LEMMA TakeFacts ==
  ASSUME LidTypes, Places, NEW n \in Nodes, TakeLid(n)
  PROVE  /\ set[n].pc = "take" /\ Busy' = Busy
         /\ \A m \in Nodes : m # n => set'[m] = set[m]
         /\ set'[n].pc = "clear" /\ set'[n].record = set[n].record /\ set'[n].lid = set[n].lid
         /\ set'[n].prev = baseLid[Turn(n)] /\ set'[n].port = set[n].port /\ Turn(n)' = Turn(n)
         /\ baseLid' = [baseLid EXCEPT ![Turn(n)] = set[n].lid]
         /\ recordLid' = recordLid /\ Entry' = Entry
         /\ marred \subseteq marred' /\ marred' \subseteq marred \cup {"torn"}
         /\ LidTypes' /\ Places'
<1>1. /\ set[n].pc = "take"
      /\ set' = [set EXCEPT ![n].pc = "clear", ![n].prev = baseLid[Turn(n)]]
      /\ baseLid' = [baseLid EXCEPT ![Turn(n)] = set[n].lid]
      /\ recordLid' = recordLid
      /\ IF set[n].lid \in DOMAIN portByLid THEN UNCHANGED <<portByLid, marred>>
         ELSE /\ portByLid' = [k \in 0 .. set[n].lid + Growth - 1 |->
                                 IF k \in DOMAIN portByLid THEN portByLid[k] ELSE NoPort]
              /\ marred' = marred \/ marred' = marred \cup {"torn"}
  BY DEF TakeLid, At
<1>2. /\ set[n].lid \in 1 .. MaxLid /\ set[n].port \in 1 .. NumPorts[n] /\ set[n] \in SetType
      /\ Turn(n) = <<n, set[n].port>> /\ Turn(n) \in Ports /\ set[n].lid \in Nat
  BY <1>1, SetFacts, LidMapAssumption
<1>3. /\ DOMAIN portByLid \subseteq DOMAIN portByLid' /\ set[n].lid \in DOMAIN portByLid'
      /\ Entry' = Entry /\ portByLid' \in [DOMAIN portByLid' -> Ports \cup {NoPort}]
      /\ \E top \in Nat : DOMAIN portByLid' = 0 .. top
      /\ portByLid'[0] = NoPort
  <2>1. PICK top \in Nat : DOMAIN portByLid = 0 .. top
    BY DEF LidTypes
  <2>2. CASE set[n].lid \in DOMAIN portByLid
    <3>1. portByLid' = portByLid
      BY <1>1, <2>2
    <3> QED
      BY <2>1, <2>2, <3>1 DEF LidTypes, Entry
  <2>3. CASE set[n].lid \notin DOMAIN portByLid
    <3>1. PICK new \in Nat : new = set[n].lid + Growth - 1
      BY <1>2, LidMapAssumption
    <3>2. top < set[n].lid /\ set[n].lid <= new
      BY <1>2, <2>1, <2>3, <3>1, LidMapAssumption
    <3>3. portByLid' = [k \in 0 .. new |-> IF k \in DOMAIN portByLid THEN portByLid[k] ELSE NoPort]
      BY <1>1, <2>3, <3>1
    <3>4. /\ DOMAIN portByLid' = 0 .. new /\ DOMAIN portByLid \subseteq DOMAIN portByLid'
          /\ set[n].lid \in DOMAIN portByLid' /\ 0 \in DOMAIN portByLid
      BY <1>2, <2>1, <3>2, <3>3
    <3>5. \A k \in Nat : (IF k \in DOMAIN portByLid' THEN portByLid'[k] ELSE NoPort)
                         = (IF k \in DOMAIN portByLid THEN portByLid[k] ELSE NoPort)
      BY <3>3, <3>4
    <3>6. Entry' = Entry
      BY <3>5 DEF Entry
    <3>7. /\ portByLid' \in [DOMAIN portByLid' -> Ports \cup {NoPort}] /\ portByLid'[0] = NoPort
      BY <3>3, <3>4 DEF LidTypes
    <3> QED
      BY <3>4, <3>6, <3>7
  <2> QED
    BY <2>2, <2>3
<1>4. baseLid[Turn(n)] \in 0 .. MaxLid /\ set[n].lid \in 0 .. MaxLid
  BY <1>2, LidMapAssumption DEF LidTypes
<1>5. set' = [set EXCEPT ![n].pc = "clear", ![n].prev = baseLid[Turn(n)], ![n].port = set[n].port]
  BY <1>1, <1>2 DEF LidTypes, SetType
<1>6. /\ set' \in [Nodes -> SetType] /\ Places' /\ Busy' = Busy
      /\ \A m \in Nodes : m # n => set'[m] = set[m]
      /\ set'[n].pc = "clear" /\ set'[n].prev = baseLid[Turn(n)] /\ set'[n].port = set[n].port
      /\ set'[n].lid = set[n].lid /\ set'[n].record = set[n].record
      /\ Turn(n)' = <<n, set[n].port>>
  BY <1>1, <1>2, <1>3, <1>4, <1>5, SetGoesOn
<1>7. baseLid' \in [Ports -> 0 .. MaxLid]
  BY <1>1, <1>2, <1>4 DEF LidTypes
<1>8. LidTypes'
  BY <1>1, <1>3, <1>6, <1>7 DEF LidTypes
<1>9. marred \subseteq marred' /\ marred' \subseteq marred \cup {"torn"}
  BY <1>1
<1> QED
  BY <1>1, <1>2, <1>3, <1>6, <1>8, <1>9

\* The entry of the LID before is cleared.
LEMMA ClearFacts ==
  ASSUME LidTypes, Places, NEW n \in Nodes, ClearEntry(n)
  PROVE  /\ set[n].pc = "clear" /\ Busy' = Busy
         /\ \A m \in Nodes : m # n => set'[m] = set[m]
         /\ set'[n].pc = "evict" /\ set'[n].record = set[n].record /\ set'[n].lid = set[n].lid
         /\ set'[n].prev = set[n].prev /\ set'[n].port = set[n].port /\ Turn(n)' = Turn(n)
         /\ baseLid' = baseLid /\ recordLid' = recordLid
         /\ Entry' = [Entry EXCEPT ![set[n].prev] = NoPort]
         /\ marred' = marred
         /\ LidTypes' /\ Places'
<1>1. /\ set[n].pc = "clear" /\ set' = [set EXCEPT ![n].pc = "evict"]
      /\ portByLid' = IF set[n].prev \in DOMAIN portByLid
                      THEN [portByLid EXCEPT ![set[n].prev] = NoPort] ELSE portByLid
      /\ baseLid' = baseLid /\ recordLid' = recordLid /\ marred' = marred
  BY DEF ClearEntry, At
<1>2. /\ set[n].lid \in 1 .. MaxLid /\ set[n].port \in 1 .. NumPorts[n] /\ set[n] \in SetType
      /\ Turn(n) = <<n, set[n].port>> /\ set[n].prev \in 0 .. MaxLid /\ set[n].prev \in Nat
      /\ n \in Busy
  BY <1>1, SetFacts, LidMapAssumption
<1>3. set[n].lid \in DOMAIN portByLid
  BY <1>1, <1>2 DEF Places, InTable
<1>4. /\ DOMAIN portByLid' = DOMAIN portByLid
      /\ portByLid' \in [DOMAIN portByLid -> Ports \cup {NoPort}] /\ portByLid'[0] = NoPort
      /\ \A k \in DOMAIN portByLid : portByLid'[k] = IF k = set[n].prev THEN NoPort ELSE portByLid[k]
  BY <1>1 DEF LidTypes
<1>5. Entry' = [Entry EXCEPT ![set[n].prev] = NoPort]
  BY <1>2, <1>4 DEF Entry
<1>6. set' = [set EXCEPT ![n].pc = "evict", ![n].prev = set[n].prev, ![n].port = set[n].port]
  BY <1>1, <1>2 DEF LidTypes, SetType
<1>7. /\ set' \in [Nodes -> SetType] /\ Places' /\ Busy' = Busy
      /\ \A m \in Nodes : m # n => set'[m] = set[m]
      /\ set'[n].pc = "evict" /\ set'[n].prev = set[n].prev /\ set'[n].port = set[n].port
      /\ set'[n].lid = set[n].lid /\ set'[n].record = set[n].record
      /\ Turn(n)' = <<n, set[n].port>>
  <2>1. DOMAIN portByLid \subseteq DOMAIN portByLid' /\ set[n].lid \in DOMAIN portByLid'
    BY <1>3, <1>4
  <2>2. set[n].pc # "idle"
    BY <1>1
  <2> QED
    BY <1>2, <1>6, <2>1, <2>2, SetGoesOn
<1>8. LidTypes'
  BY <1>1, <1>4, <1>7 DEF LidTypes
<1> QED
  BY <1>1, <1>2, <1>5, <1>7, <1>8

\* The owner of the LID loses it, and the next port has its turn.
LEMMA EvictFacts ==
  ASSUME LidTypes, Places, NEW n \in Nodes, EvictOwner(n)
  PROVE  /\ set[n].pc = "evict" /\ Busy' = Busy
         /\ \A m \in Nodes : m # n => set'[m] = set[m]
         /\ set'[n].record = set[n].record /\ set'[n].lid = set[n].lid /\ set'[n].prev = set[n].prev
         /\ \/ /\ n \in Switches /\ set[n].port < NumPorts[n]
               /\ set'[n].pc = "take" /\ set'[n].port = set[n].port + 1
            \/ /\ set'[n].pc = "enter" /\ set'[n].port = set[n].port
               /\ n \in Switches => set[n].port = NumPorts[n]
         /\ Turn(n)' = <<n, set'[n].port>> /\ set'[n].port \in 1 .. NumPorts[n]
         /\ \/ /\ Entry[set[n].lid] \in Ports /\ Entry[set[n].lid] # Turn(n)
               /\ n \in Hcas \/ Entry[set[n].lid][1] # n
               /\ baseLid' = [baseLid EXCEPT ![Entry[set[n].lid]] = 0]
            \/ /\ baseLid' = baseLid
               /\ \/ Entry[set[n].lid] \in {NoPort, Turn(n)}
                  \/ n \in Switches /\ Entry[set[n].lid][1] = n
         /\ recordLid' = recordLid /\ Entry' = Entry
         /\ marred' = marred
         /\ LidTypes' /\ Places'
<1>1. /\ set[n].pc = "evict" /\ portByLid' = portByLid
      /\ LET owner == portByLid[set[n].lid]
             evicted == /\ owner \notin {NoPort, Turn(n)}
                        /\ n \in Hcas \/ owner[1] # n
         IN baseLid' = IF evicted THEN [baseLid EXCEPT ![owner] = 0] ELSE baseLid
      /\ set' = IF Turn(n)[2] < LastPort(n)
                THEN [set EXCEPT ![n].pc = "take", ![n].port = @ + 1]
                ELSE [set EXCEPT ![n].pc = "enter"]
      /\ recordLid' = recordLid /\ marred' = marred
  BY DEF EvictOwner, At
<1>2. /\ set[n].lid \in 1 .. MaxLid /\ set[n].port \in 1 .. NumPorts[n] /\ set[n] \in SetType
      /\ Turn(n) = <<n, set[n].port>> /\ Turn(n)[2] = set[n].port
      /\ set[n].prev \in 0 .. MaxLid /\ set[n].lid \in Nat
      /\ n \in Hcas => LastPort(n) = set[n].port
      /\ n \in Switches => LastPort(n) = NumPorts[n]
      /\ n \in Busy
  BY <1>1, SetFacts, LidMapAssumption
<1>3. set[n].lid \in DOMAIN portByLid /\ set[n].lid \in DOMAIN portByLid'
  BY <1>1, <1>2 DEF Places, InTable
<1>4. Entry' = Entry /\ Entry[set[n].lid] = portByLid[set[n].lid]
  BY <1>1, <1>2, <1>3 DEF Entry
<1>5. PICK owner \in Ports \cup {NoPort} : owner = Entry[set[n].lid]
  BY <1>2, EntryFacts
<1>6. \/ owner \in Ports /\ owner # Turn(n) /\ (n \in Hcas \/ owner[1] # n)
         /\ baseLid' = [baseLid EXCEPT ![owner] = 0]
      \/ baseLid' = baseLid /\ (owner \in {NoPort, Turn(n)} \/ (n \notin Hcas /\ owner[1] = n))
  BY <1>1, <1>4, <1>5
<1>7. (n \in Hcas \/ n \in Switches) /\ NumPorts[n] \in Nat /\ set[n].port \in Nat
  BY <1>2, PortFacts DEF Nodes
<1>8. PICK port \in 1 .. NumPorts[n], pc \in {"take", "enter"} :
        /\ set' = [set EXCEPT ![n].pc = pc, ![n].prev = set[n].prev, ![n].port = port]
        /\ \/ n \in Switches /\ set[n].port < NumPorts[n] /\ pc = "take" /\ port = set[n].port + 1
           \/ pc = "enter" /\ port = set[n].port /\ port = LastPort(n)
  <2>1. CASE set[n].port < LastPort(n)
    <3>1. n \in Switches /\ set[n].port < NumPorts[n] /\ set[n].port + 1 \in 1 .. NumPorts[n]
      BY <1>2, <1>7, <2>1
    <3>2. set' = [set EXCEPT ![n].pc = "take", ![n].port = set[n].port + 1]
      BY <1>1, <1>2, <2>1
    <3>3. set' = [set EXCEPT ![n].pc = "take", ![n].prev = set[n].prev, ![n].port = set[n].port + 1]
      BY <1>2, <3>2 DEF LidTypes, SetType
    <3> QED
      BY <3>1, <3>3
  <2>2. CASE ~(set[n].port < LastPort(n))
    <3>1. set[n].port = LastPort(n)
      BY <1>2, <1>7, <2>2
    <3>2. set' = [set EXCEPT ![n].pc = "enter"]
      BY <1>1, <1>2, <2>2
    <3>3. set' = [set EXCEPT ![n].pc = "enter", ![n].prev = set[n].prev, ![n].port = set[n].port]
      BY <1>2, <3>2 DEF LidTypes, SetType
    <3> QED
      BY <1>2, <3>1, <3>3
  <2> QED
    BY <2>1, <2>2
<1>9. n \in Hcas => port = set[n].port
  BY <1>8, RecordFacts
<1>10. DOMAIN portByLid \subseteq DOMAIN portByLid' /\ set[n].pc # "idle"
  BY <1>1
<1>11. /\ set' \in [Nodes -> SetType] /\ Places' /\ Busy' = Busy
       /\ \A m \in Nodes : m # n => set'[m] = set[m]
       /\ set'[n].pc = pc /\ set'[n].prev = set[n].prev /\ set'[n].port = port
       /\ set'[n].lid = set[n].lid /\ set'[n].record = set[n].record
       /\ Turn(n)' = <<n, port>>
  <2>1. /\ pc \in {"take", "clear", "evict", "enter"}
        /\ pc = "enter" => port = IF n \in Switches THEN NumPorts[n] ELSE set[n].record[2]
    BY <1>8 DEF LastPort
  <2>2. set' = [set EXCEPT ![n].pc = pc, ![n].prev = set[n].prev, ![n].port = port]
    BY <1>8
  <2> QED
    <3>1. PICK prev \in 0 .. MaxLid : prev = set[n].prev
      BY <1>2
    <3>2. /\ set' = [set EXCEPT ![n].pc = pc, ![n].prev = prev, ![n].port = port]
          /\ pc # "take" => set[n].lid \in DOMAIN portByLid'
      BY <1>3, <2>2, <3>1
    <3>3. /\ set' \in [Nodes -> SetType] /\ Places' /\ Busy' = Busy
          /\ \A m \in Nodes : m # n => set'[m] = set[m]
          /\ set'[n].pc = pc /\ set'[n].prev = prev /\ set'[n].port = port
          /\ set'[n].lid = set[n].lid /\ set'[n].record = set[n].record
      <4>1. /\ set' \in [Nodes -> SetType] /\ Places' /\ Busy' = Busy
            /\ set'[n].lid = set[n].lid /\ set'[n].record = set[n].record
        BY <1>9, <1>10, <2>1, <3>2, SetGoesOn
      <4>2. \A m \in Nodes : m # n => set'[m] = set[m]
        BY <1>9, <1>10, <2>1, <3>2, SetGoesOn
      <4>3. set'[n].pc = pc /\ set'[n].prev = prev /\ set'[n].port = port
        BY <3>2 DEF LidTypes, SetType
      <4> QED
        BY <4>1, <4>2, <4>3
    <3> QED
      BY <3>1, <3>3 DEF Turn
<1>12. baseLid' \in [Ports -> 0 .. MaxLid]
  <2>1. 0 \in 0 .. MaxLid
    BY LidMapAssumption
  <2> QED
    BY <1>6, <2>1 DEF LidTypes
<1>13. LidTypes'
  BY <1>1, <1>11, <1>12 DEF LidTypes
<1>14. \/ /\ n \in Switches /\ set[n].port < NumPorts[n]
          /\ set'[n].pc = "take" /\ set'[n].port = set[n].port + 1
       \/ /\ set'[n].pc = "enter" /\ set'[n].port = set[n].port
          /\ n \in Switches => set[n].port = NumPorts[n]
  BY <1>2, <1>8, <1>11
<1>15. \/ /\ Entry[set[n].lid] \in Ports /\ Entry[set[n].lid] # Turn(n)
          /\ n \in Hcas \/ Entry[set[n].lid][1] # n
          /\ baseLid' = [baseLid EXCEPT ![Entry[set[n].lid]] = 0]
       \/ /\ baseLid' = baseLid
          /\ \/ Entry[set[n].lid] \in {NoPort, Turn(n)}
             \/ n \in Switches /\ Entry[set[n].lid][1] = n
  BY <1>5, <1>6, <1>7
<1> QED
  BY <1>1, <1>4, <1>11, <1>13, <1>14, <1>15

\* The table gets its entry, the record its LID, and the Set is over.
LEMMA EnterFacts ==
  ASSUME LidTypes, Places, NEW n \in Nodes, EnterLid(n)
  PROVE  /\ set[n].pc = "enter" /\ Busy' = Busy \ {n} /\ set'[n] = NoSet
         /\ \A m \in Nodes : m # n => set'[m] = set[m]
         /\ n \in Switches => set[n].port = NumPorts[n]
         /\ baseLid' = baseLid
         /\ recordLid' = [recordLid EXCEPT ![set[n].record] = set[n].lid]
         /\ Entry' = [Entry EXCEPT ![set[n].lid] = Turn(n)]
         /\ marred' = marred
         /\ LidTypes' /\ Places'
<1>1. /\ set[n].pc = "enter" /\ set' = [set EXCEPT ![n] = NoSet]
      /\ portByLid' = [portByLid EXCEPT ![set[n].lid] = Turn(n)]
      /\ recordLid' = [recordLid EXCEPT ![set[n].record] = set[n].lid]
      /\ baseLid' = baseLid /\ marred' = marred
  BY DEF EnterLid, At
<1>2. /\ set[n].lid \in 1 .. MaxLid /\ set[n].record \in Records /\ set[n].lid \in Nat
      /\ Turn(n) \in Ports /\ n \in Busy /\ set[n].lid # 0 /\ set[n].lid \in 0 .. MaxLid
      /\ n \in Switches => LastPort(n) = NumPorts[n]
  BY <1>1, SetFacts, LidMapAssumption
<1>3. set[n].lid \in DOMAIN portByLid /\ set[n].port = LastPort(n)
  BY <1>1, <1>2 DEF Places, InTable
<1>4. NoSet \in SetType /\ NoSet.pc = "idle"
  BY LidMapAssumption DEF NoSet, SetType
<1>5. /\ DOMAIN portByLid' = DOMAIN portByLid
      /\ portByLid' \in [DOMAIN portByLid -> Ports \cup {NoPort}] /\ portByLid'[0] = NoPort
      /\ \A k \in DOMAIN portByLid : portByLid'[k] = IF k = set[n].lid THEN Turn(n) ELSE portByLid[k]
  <2>1. portByLid \in [DOMAIN portByLid -> Ports \cup {NoPort}] /\ 0 \in DOMAIN portByLid
        /\ portByLid[0] = NoPort
    BY DEF LidTypes
  <2>2. PICK turn \in Ports, lid \in Nat : turn = Turn(n) /\ lid = set[n].lid
    BY <1>2
  <2>3. portByLid' = [portByLid EXCEPT ![lid] = turn] /\ lid # 0
    BY <1>1, <1>2, <2>2
  <2> QED
    BY <2>1, <2>2, <2>3
<1>6. Entry' = [Entry EXCEPT ![set[n].lid] = Turn(n)]
  BY <1>2, <1>3, <1>5 DEF Entry
<1>7. /\ set' \in [Nodes -> SetType] /\ set'[n] = NoSet
      /\ \A m \in Nodes : m # n => set'[m] = set[m]
  BY <1>1, <1>4 DEF LidTypes
<1>8. Busy' = Busy \ {n}
  BY <1>4, <1>7 DEF Busy
<1>9. recordLid' \in [Records -> 0 .. MaxLid]
  BY <1>1, <1>2 DEF LidTypes
<1>10. LidTypes'
  BY <1>1, <1>5, <1>7, <1>9 DEF LidTypes
<1>11. Places'
  <2>1. ASSUME NEW m \in Nodes, m \notin Busy'
        PROVE  set'[m] = NoSet
    BY <1>7, <1>8, <2>1 DEF Places
  <2>2. ASSUME NEW m \in Busy'
        PROVE  /\ set'[m].record \in Records /\ set'[m].record[1] = m /\ set'[m].lid # 0
               /\ <<m, set'[m].port>> \in PortsOf(m)
               /\ m \in Hcas => set'[m].record = <<m, set'[m].port>>
               /\ set'[m].pc \in {"clear", "evict", "enter"} => set'[m].lid \in DOMAIN portByLid'
               /\ set'[m].pc = "enter" =>
                    set'[m].port = IF m \in Switches THEN NumPorts[m] ELSE set'[m].record[2]
    <3>1. m \in Nodes /\ m \in Busy /\ m # n
      BY <1>8, <2>2 DEF Busy
    <3> QED
      BY <1>5, <1>7, <3>1 DEF Places, Turn, InTable, LastPort
  <2> QED
    BY <2>1, <2>2 DEF Places, Turn, InTable, LastPort
<1> QED
  BY <1>1, <1>2, <1>3, <1>6, <1>7, <1>8, <1>10, <1>11

-----------------------------------------------------------------------------
(* What a step of the Set at one node leaves as it is *)

\* A Set only changes what is about the LIDs in its hand, and these become fewer.
LEMMA HandShrinks ==
  ASSUME LidTypes, LidTypes', Apart, NEW n \in Busy, NEW l \in Nat \ {0}, l = set[n].lid,
         \A m \in Nodes : m # n => set'[m] = set[m],
         \A q \in Ports : \/ baseLid'[q] = baseLid[q]
                          \/ q[1] = n /\ baseLid'[q] \in {0, l}
                          \/ q = Entry[l] /\ baseLid'[q] = 0,
         \A x \in Nat \ {0} : \/ Entry'[x] = Entry[x]
                              \/ x \in InHand[n] /\ Entry'[x] \in PortsOf(n) \cup {NoPort},
         n \in Busy' => set'[n].lid = l /\ set'[n].prev \in {0} \cup InHand[n]
  PROVE  /\ Busy' \subseteq Busy /\ Busy \subseteq Busy' \cup {n}
         /\ l \in InHand[n] /\ (n \in Busy' => InHand'[n] \subseteq InHand[n])
         /\ \A m \in Busy : m # n =>
              /\ InHand'[m] = InHand[m] /\ InHand[m] \cap InHand[n] = {}
              /\ \A x \in InHand[m] : Entry'[x] = Entry[x]
              /\ \A q \in Ports : q[1] = m => baseLid'[q] = baseLid[q]
         /\ Apart'
<1>1. n \in Nodes /\ Busy \subseteq Nodes /\ l \in InHand[n]
  BY HandNow DEF Busy
<1>2. Busy' \subseteq Busy /\ Busy \subseteq Busy' \cup {n}
  BY DEF Busy
<1>3. \A m \in Busy : m # n => InHand[m] \cap InHand[n] = {}
  BY DEF Apart
<1>4. ASSUME NEW m \in Busy, m # n, NEW x \in InHand[m]
      PROVE  Entry'[x] = Entry[x]
  <2>1. x \in Nat \ {0} /\ x \notin InHand[n]
    BY <1>1, <1>3, <1>4, HandNow
  <2> QED
    BY <2>1
<1>5. ASSUME NEW m \in Busy, m # n, NEW q \in Ports, q[1] = m
      PROVE  baseLid'[q] = baseLid[q]
  <2>1. m \in Nodes /\ l \notin InHand[m]
    BY <1>1, <1>3, <1>5
  <2>2. Entry[l] # q
    BY <1>5, <2>1, HandNow
  <2> QED
    BY <1>5, <2>2
<1>6. ASSUME NEW m \in Busy, m # n
      PROVE  InHand'[m] = InHand[m]
  <2>1. m \in Nodes /\ set'[m] = set[m]
    BY <1>1, <1>6
  <2>2. ASSUME NEW x \in InHand[m]
        PROVE  x \in InHand'[m]
    <3>1. Entry'[x] = Entry[x] /\ \A q \in Ports : q[1] = m => baseLid'[q] = baseLid[q]
      BY <1>4, <1>5, <1>6
    <3> QED
      BY <2>1, <2>2, <3>1, HandNow, HandNext
  <2>3. ASSUME NEW x \in InHand'[m]
        PROVE  x \in InHand[m]
    <3>1. \A q \in Ports : q[1] = m => baseLid'[q] = baseLid[q]
      BY <1>5, <1>6
    <3>2. x \in Nat \ {0}
      BY <2>1, <2>3, HandNext
    <3>3. \A q \in Ports : q[1] = m /\ Entry'[x] = q => Entry[x] = q
      BY <1>1, <1>6, <3>2, PortFacts
    <3> QED
      BY <2>1, <2>3, <3>1, <3>3, HandNow, HandNext
  <2> QED
    BY <2>2, <2>3
<1>7. ASSUME n \in Busy', NEW x \in InHand'[n]
      PROVE  x \in InHand[n]
  <2>1. x \in Nat \ {0} /\ set'[n].lid = l /\ set'[n].prev \in {0} \cup InHand[n]
    BY <1>1, <1>7, HandNext
  <2>2. \/ x = l \/ x = set'[n].prev
        \/ \E p \in Ports : p[1] = n /\ (baseLid'[p] = x \/ Entry'[x] = p)
    BY <1>1, <1>7, <2>1, HandNext
  <2>3. ASSUME NEW p \in Ports, p[1] = n, baseLid'[p] = x
        PROVE  x \in InHand[n]
    <3>1. baseLid[p] = x \/ x = l
      BY <2>1, <2>3
    <3> QED
      BY <1>1, <2>1, <2>3, <3>1, HandNow
  <2>4. ASSUME NEW p \in Ports, p[1] = n, Entry'[x] = p
        PROVE  x \in InHand[n]
    <3>1. Entry[x] = p \/ x \in InHand[n]
      BY <2>1, <2>4
    <3> QED
      BY <1>1, <2>1, <2>4, <3>1, HandNow
  <2> QED
    BY <1>1, <2>1, <2>2, <2>3, <2>4
<1>8. Apart'
  <2> SUFFICES ASSUME NEW m \in Busy', NEW k \in Busy', m # k
               PROVE  InHand'[m] \cap InHand'[k] = {}
    BY DEF Apart
  <2>1. m \in Busy /\ k \in Busy
    BY <1>2
  <2>2. InHand'[m] \subseteq InHand[m] /\ InHand'[k] \subseteq InHand[k]
    BY <1>6, <1>7, <2>1
  <2> QED
    BY <2>1, <2>2 DEF Apart
<1> QED
  BY <1>1, <1>2, <1>3, <1>4, <1>5, <1>6, <1>7, <1>8

\* The other Sets in progress are where they were.
LEMMA OthersStaySound ==
  ASSUME LidTypes, LidTypes', Places, Busy \subseteq Sound,
         NEW n \in Busy, NEW l \in Nat \ {0}, l = set[n].lid,
         \A m \in Nodes : m # n => set'[m] = set[m],
         \A q \in Ports : \/ baseLid'[q] = baseLid[q]
                          \/ q[1] = n /\ baseLid'[q] \in {0, l}
                          \/ q = Entry[l] /\ baseLid'[q] = 0,
         \A x \in Nat \ {0} : \/ Entry'[x] = Entry[x]
                              \/ x \in InHand[n] /\ Entry'[x] \in PortsOf(n) \cup {NoPort},
         l \in InHand[n],
         NEW m \in Busy, m # n, InHand'[m] = InHand[m], InHand[m] \cap InHand[n] = {},
         \A x \in InHand[m] : Entry'[x] = Entry[x],
         \A q \in Ports : q[1] = m => baseLid'[q] = baseLid[q]
  PROVE  m \in Sound'
<1>1. m \in Nodes /\ n \in Nodes /\ set'[m] = set[m] /\ Turn(m) = <<m, set[m].port>>
      /\ Turn(m)' = <<m, set[m].port>>
  BY DEF Busy, Turn
<1>2. Foreign(m) /\ (m \in Hcas => HcaPorts(m)) /\ (m \in Switches => SwitchPorts(m))
  BY DEF Sound
<1>3. PICK turn \in Ports : turn = <<m, set[m].port>> /\ turn[1] = m
  BY <1>1, PortFacts DEF Places
<1>4. ASSUME NEW x \in Nat \ {0}, NEW q \in Ports, q[1] = m
      PROVE  /\ Entry'[x] = q <=> Entry[x] = q
             /\ Entry[x] = q => x \in InHand[m]
             /\ baseLid[q] = x => x \in InHand[m]
  <2>1. /\ Entry[x] = q => x \in InHand[m]
        /\ baseLid[q] = x => x \in InHand[m]
    BY <1>1, <1>4, HandNow
  <2>2. Entry'[x] = q => Entry[x] = q
    BY <1>1, <1>4, PortFacts
  <2> QED
    BY <2>1, <2>2
<1>5. Foreign(m)'
  <2> SUFFICES ASSUME NEW x \in InHand[m], NEW q \in Ports, q[1] # m
               PROVE  /\ Entry'[x] = q => x = set[m].lid /\ q[1] \in Hcas /\ baseLid'[q] \in {0, x}
                      /\ baseLid'[q] = x => /\ x = set[m].lid /\ q[1] \in Hcas /\ Entry'[x] = q
                                            /\ set[m].pc # "enter"
                                            /\ ~(set[m].pc = "take" /\ baseLid'[turn] = x)
                                            /\ ~(set[m].pc = "clear" /\ set[m].prev = x)
    BY <1>1, <1>3 DEF Foreign
  <2>1. x \in Nat \ {0} /\ x \notin InHand[n] /\ x # l
    BY <1>1, HandNow
  <2>2. Entry'[x] = Entry[x]
    OBVIOUS
  <2>3. /\ Entry[x] = q => x = set[m].lid /\ q[1] \in Hcas /\ baseLid[q] \in {0, x}
        /\ baseLid[q] = x => /\ x = set[m].lid /\ q[1] \in Hcas /\ Entry[x] = q
                             /\ set[m].pc # "enter"
                             /\ ~(set[m].pc = "take" /\ baseLid[turn] = x)
                             /\ ~(set[m].pc = "clear" /\ set[m].prev = x)
    BY <1>1, <1>2, <1>3 DEF Foreign
  <2>4. baseLid'[q] = x => baseLid[q] = x
    BY <2>1
  <2>5. Entry[x] = q => baseLid'[q] \in {0, x}
    <3>1. Entry[x] = q => q[1] # n
      BY <1>1, <2>1, HandNow
    <3> QED
      BY <2>3, <3>1
  <2>6. baseLid'[turn] = baseLid[turn]
    BY <1>3
  <2> QED
    BY <2>2, <2>3, <2>4, <2>5, <2>6
<1>6. ASSUME m \in Hcas
      PROVE  HcaPorts(m)'
  <2> SUFFICES ASSUME NEW q \in PortsOf(m)
               PROVE
    /\ q = turn => set[m].pc = "take" \/ baseLid'[q] = set[m].lid
    /\ q # turn /\ baseLid'[q] = set[m].lid => set[m].pc # "enter"
    /\ \A x \in Nat \ {0} :
         /\ Entry'[x] = q => \/ baseLid'[q] = x
                             \/ q = turn /\ set[m].pc = "clear" /\ x = set[m].prev
                             \/ q # turn /\ set[m].pc = "enter" /\ x = set[m].lid
         /\ baseLid'[q] = x /\ (q # turn \/ set[m].pc = "take") => Entry'[x] = q
         /\ q = turn /\ Entry'[x] = q =>
              set[m].pc = "take" \/ (set[m].pc = "clear" /\ x = set[m].prev)
         /\ q = turn /\ set[m].pc = "clear" /\ x = set[m].prev => Entry'[x] = q
    BY <1>1, <1>3 DEF HcaPorts
  <2>1. q \in Ports /\ q[1] = m /\ baseLid'[q] = baseLid[q]
    BY <1>1, PortFacts
  <2>2. \A x \in Nat \ {0} : Entry'[x] = q <=> Entry[x] = q
    BY <1>4, <2>1
  <2> QED
    BY <1>1, <1>2, <1>3, <1>6, <2>1, <2>2 DEF HcaPorts
<1>7. ASSUME m \in Switches
      PROVE  SwitchPorts(m)'
  <2>1. \A i \in 1 .. NumPorts[m] : baseLid'[<<m, i>>] = baseLid[<<m, i>>]
    BY <1>1, PortFacts
  <2>2. \A x \in Nat \ {0} : Entry'[x] \in PortsOf(m) <=> Entry[x] \in PortsOf(m)
    BY <1>1, <1>4, PortFacts
  <2>3. baseLid'[turn] = baseLid[turn]
    BY <1>3
  <2>4. /\ \A i \in 1 .. NumPorts[m] :
             /\ i < set[m].port \/ (i = set[m].port /\ set[m].pc # "take") =>
                  baseLid[<<m, i>>] = set[m].lid
             /\ i > set[m].port /\ set[m].pc = "take" => baseLid[<<m, i>>] = baseLid[turn]
             /\ i > set[m].port /\ set[m].pc # "take" => baseLid[<<m, i>>] = set[m].prev
        /\ \A x \in Nat \ {0} :
             Entry[x] \in PortsOf(m) /\ x # set[m].lid =>
               \/ set[m].pc = "take" /\ x = baseLid[turn]
               \/ set[m].pc = "clear" /\ x = set[m].prev
    BY <1>1, <1>2, <1>3, <1>7 DEF SwitchPorts
  <2>5. /\ \A i \in 1 .. NumPorts[m] :
             /\ i < set[m].port \/ (i = set[m].port /\ set[m].pc # "take") =>
                  baseLid'[<<m, i>>] = set[m].lid
             /\ i > set[m].port /\ set[m].pc = "take" => baseLid'[<<m, i>>] = baseLid'[turn]
             /\ i > set[m].port /\ set[m].pc # "take" => baseLid'[<<m, i>>] = set[m].prev
        /\ \A x \in Nat \ {0} :
             Entry'[x] \in PortsOf(m) /\ x # set[m].lid =>
               \/ set[m].pc = "take" /\ x = baseLid'[turn]
               \/ set[m].pc = "clear" /\ x = set[m].prev
    BY <2>1, <2>2, <2>3, <2>4
  <2> QED
    BY <1>1, <1>3, <2>5 DEF SwitchPorts
<1> QED
  BY <1>1, <1>5, <1>6, <1>7 DEF Sound

\* The table still agrees with the ports about the LIDs that no Set touches, those that the
\* Set has let go among them; and other nodes have no more to do with its LIDs than before.
LEMMA RestStays ==
  ASSUME LidTypes, LidTypes', Places, Settled, OwnPorts,
         NEW n \in Busy, NEW l \in Nat \ {0}, l = set[n].lid,
         \A q \in Ports : \/ baseLid'[q] = baseLid[q]
                          \/ q[1] = n /\ baseLid'[q] \in {0, l}
                          \/ q = Entry[l] /\ baseLid'[q] = 0,
         \A x \in Nat \ {0} : \/ Entry'[x] = Entry[x]
                              \/ x \in InHand[n] /\ Entry'[x] \in PortsOf(n) \cup {NoPort},
         l \in InHand[n],
         Busy' \subseteq Busy, Busy \subseteq Busy' \cup {n},
         n \in Busy' => set'[n].lid = l /\ InHand'[n] \subseteq InHand[n],
         \A m \in Busy : m # n => InHand'[m] = InHand[m]
  PROVE  /\ \A x \in Nat \ {0} :
              (\A m \in Busy' : x \notin InHand'[m]) /\ (n \in Busy' \/ x \notin InHand[n]) =>
                \A p \in Ports :
                  /\ Entry'[x] = p => baseLid'[p] = x
                  /\ baseLid'[p] = x => /\ Entry'[x] \in PortsOf(p[1])
                                        /\ p[1] \in Hcas => Entry'[x] = p
         /\ \A s \in Switches : s # n => \A q \in PortsOf(s) : baseLid'[q] = baseLid[q]
         /\ n \in Busy' =>
              \A x \in InHand'[n], q \in Ports : q[1] # n =>
                /\ Entry'[x] = q => x = l /\ q[1] \in Hcas /\ baseLid'[q] \in {0, x}
                /\ baseLid'[q] = x => baseLid[q] = x /\ x = l /\ q[1] \in Hcas /\ Entry[x] = q
<1>1. n \in Nodes /\ Foreign(n)
  BY DEF Busy, OwnPorts, Sound
<1>2. \A x \in InHand[n], q \in Ports : q[1] # n =>
        /\ Entry[x] = q => x = l /\ q[1] \in Hcas /\ baseLid[q] \in {0, x}
        /\ baseLid[q] = x => x = l /\ q[1] \in Hcas /\ Entry[x] = q
  BY <1>1 DEF Foreign
<1>3. \A x \in InHand[n] : x \in Nat \ {0}
  BY <1>1, HandNow
<1>4. ASSUME NEW x \in Nat \ {0}, x \notin InHand[n], \A m \in Busy' : x \notin InHand'[m],
             NEW p \in Ports
      PROVE  /\ Entry'[x] = p => baseLid'[p] = x
             /\ baseLid'[p] = x => /\ Entry'[x] \in PortsOf(p[1])
                                   /\ p[1] \in Hcas => Entry'[x] = p
  <2>1. \A m \in Busy : x \notin InHand[m]
    BY <1>4
  <2>2. /\ Entry[x] = p => baseLid[p] = x
        /\ baseLid[p] = x => Entry[x] \in PortsOf(p[1]) /\ (p[1] \in Hcas => Entry[x] = p)
    BY <2>1 DEF Settled
  <2>3. Entry'[x] = Entry[x] /\ x # l
    BY <1>4
  <2>4. baseLid'[p] = x => baseLid[p] = x
    BY <1>4, <2>3
  <2>5. Entry[x] = p => baseLid'[p] = baseLid[p]
    <3> SUFFICES ASSUME Entry[x] = p PROVE baseLid'[p] = baseLid[p]
      OBVIOUS
    <3>1. p[1] # n /\ baseLid[p] = x
      BY <1>1, <1>4, <2>2, HandNow
    <3>2. p # Entry[l]
      BY <1>2, <1>3, <2>3, <3>1
    <3> QED
      BY <3>1, <3>2
  <2> QED
    BY <2>2, <2>3, <2>4, <2>5
<1>5. ASSUME NEW x \in Nat \ {0}, x \in InHand[n], n \in Busy', x \notin InHand'[n],
             NEW p \in Ports
      PROVE  Entry'[x] # p /\ baseLid'[p] # x
  <2>1. x # l /\ (p[1] = n => Entry'[x] # p /\ baseLid'[p] # x)
    BY <1>1, <1>5, HandNext
  <2>2. CASE p[1] # n
    <3>1. Entry[x] # p /\ baseLid[p] # x
      BY <1>2, <1>5, <2>1, <2>2
    <3>2. Entry'[x] # p
      BY <1>1, <1>5, <2>2, <3>1, PortFacts
    <3> QED
      BY <1>5, <2>1, <2>2, <3>1, <3>2
  <2> QED
    BY <2>1, <2>2
<1>6. ASSUME NEW s \in Switches, s # n, NEW q \in PortsOf(s)
      PROVE  baseLid'[q] = baseLid[q]
  <2>1. s \in Nodes /\ s \notin Hcas
    BY RecordFacts DEF Nodes
  <2>2. q \in Ports /\ q[1] = s
    BY <2>1, PortFacts
  <2>3. q # Entry[l]
    BY <1>2, <1>6, <2>1, <2>2
  <2> QED
    BY <1>6, <2>2, <2>3
<1>7. ASSUME n \in Busy', NEW x \in InHand'[n], NEW q \in Ports, q[1] # n
      PROVE  /\ Entry'[x] = q => x = l /\ q[1] \in Hcas /\ baseLid'[q] \in {0, x}
             /\ baseLid'[q] = x => baseLid[q] = x /\ x = l /\ q[1] \in Hcas /\ Entry[x] = q
  <2>1. x \in InHand[n] /\ x \in Nat \ {0}
    BY <1>3, <1>7
  <2>2. Entry'[x] = q => Entry[x] = q
    BY <1>1, <1>7, <2>1, PortFacts
  <2>3. baseLid'[q] = baseLid[q] \/ baseLid'[q] = 0
    BY <1>7
  <2> QED
    BY <1>2, <1>7, <2>1, <2>2, <2>3
<1> QED
  <2>1. ASSUME NEW x \in Nat \ {0}, \A m \in Busy' : x \notin InHand'[m],
               n \in Busy' \/ x \notin InHand[n], NEW p \in Ports
        PROVE  /\ Entry'[x] = p => baseLid'[p] = x
               /\ baseLid'[p] = x => /\ Entry'[x] \in PortsOf(p[1])
                                     /\ p[1] \in Hcas => Entry'[x] = p
    <3>1. CASE x \notin InHand[n]
      BY <1>4, <2>1, <3>1
    <3>2. CASE x \in InHand[n]
      BY <1>5, <2>1, <3>2
    <3> QED
      BY <3>1, <3>2
  <2> QED
    BY <1>6, <1>7, <2>1

\* What a step of the Set at node n leaves to be shown: that it is sound itself.
LEMMA StepFrame ==
  ASSUME LidTypes, LidTypes', Places, Apart, Settled, OwnPorts,
         NEW n \in Busy, NEW l \in Nat \ {0}, l = set[n].lid,
         \A m \in Nodes : m # n => set'[m] = set[m],
         \A q \in Ports : \/ baseLid'[q] = baseLid[q]
                          \/ q[1] = n /\ baseLid'[q] \in {0, l}
                          \/ q = Entry[l] /\ baseLid'[q] = 0,
         \A x \in Nat \ {0} : \/ Entry'[x] = Entry[x]
                              \/ x \in InHand[n] /\ Entry'[x] \in PortsOf(n) \cup {NoPort},
         n \in Busy' => set'[n].lid = l /\ set'[n].prev \in {0} \cup InHand[n]
  PROVE  /\ Apart' /\ Busy \ {n} \subseteq Sound'
         /\ Busy' \subseteq Busy /\ Busy \subseteq Busy' \cup {n}
         /\ l \in InHand[n]
         /\ \A x \in Nat \ {0} :
              (\A m \in Busy' : x \notin InHand'[m]) /\ (n \in Busy' \/ x \notin InHand[n]) =>
                \A p \in Ports :
                  /\ Entry'[x] = p => baseLid'[p] = x
                  /\ baseLid'[p] = x => /\ Entry'[x] \in PortsOf(p[1])
                                        /\ p[1] \in Hcas => Entry'[x] = p
         /\ \A s \in Switches : s # n => \A q \in PortsOf(s) : baseLid'[q] = baseLid[q]
         /\ n \in Busy' =>
              /\ InHand'[n] \subseteq InHand[n]
              /\ \A x \in InHand'[n], q \in Ports : q[1] # n =>
                   /\ Entry'[x] = q => x = l /\ q[1] \in Hcas /\ baseLid'[q] \in {0, x}
                   /\ baseLid'[q] = x => baseLid[q] = x /\ x = l /\ q[1] \in Hcas /\ Entry[x] = q
<1>1. /\ Busy' \subseteq Busy /\ Busy \subseteq Busy' \cup {n}
      /\ l \in InHand[n] /\ (n \in Busy' => InHand'[n] \subseteq InHand[n])
      /\ \A m \in Busy : m # n =>
           /\ InHand'[m] = InHand[m] /\ InHand[m] \cap InHand[n] = {}
           /\ \A x \in InHand[m] : Entry'[x] = Entry[x]
           /\ \A q \in Ports : q[1] = m => baseLid'[q] = baseLid[q]
      /\ Apart'
  BY HandShrinks
<1>2. ASSUME NEW m \in Busy, m # n
      PROVE  m \in Sound'
  <2>1. /\ InHand'[m] = InHand[m] /\ InHand[m] \cap InHand[n] = {}
        /\ \A x \in InHand[m] : Entry'[x] = Entry[x]
        /\ \A q \in Ports : q[1] = m => baseLid'[q] = baseLid[q]
    BY <1>1, <1>2
  <2> QED
    BY <1>1, <1>2, <2>1, OthersStaySound DEF OwnPorts
<1>3. /\ \A x \in Nat \ {0} :
              (\A m \in Busy' : x \notin InHand'[m]) /\ (n \in Busy' \/ x \notin InHand[n]) =>
                \A p \in Ports :
                  /\ Entry'[x] = p => baseLid'[p] = x
                  /\ baseLid'[p] = x => /\ Entry'[x] \in PortsOf(p[1])
                                        /\ p[1] \in Hcas => Entry'[x] = p
      /\ \A s \in Switches : s # n => \A q \in PortsOf(s) : baseLid'[q] = baseLid[q]
      /\ n \in Busy' =>
           \A x \in InHand'[n], q \in Ports : q[1] # n =>
             /\ Entry'[x] = q => x = l /\ q[1] \in Hcas /\ baseLid'[q] \in {0, x}
             /\ baseLid'[q] = x => baseLid[q] = x /\ x = l /\ q[1] \in Hcas /\ Entry[x] = q
  <2>1. n \in Busy' => set'[n].lid = l /\ InHand'[n] \subseteq InHand[n]
    BY <1>1
  <2>2. \A m \in Busy : m # n => InHand'[m] = InHand[m]
    BY <1>1
  <2>3. Busy' \subseteq Busy /\ Busy \subseteq Busy' \cup {n} /\ l \in InHand[n]
    BY <1>1
  <2> QED
    BY <2>1, <2>2, <2>3, RestStays
<1> QED
  BY <1>1, <1>2, <1>3

\* A step after which the Set is still in progress, and sound.
LEMMA StepOn ==
  ASSUME NEW n \in Busy, Busy' = Busy, OwnPorts, n \in Sound', Busy \ {n} \subseteq Sound',
         \A x \in Nat \ {0} :
           (\A m \in Busy' : x \notin InHand'[m]) /\ (n \in Busy' \/ x \notin InHand[n]) =>
             \A p \in Ports :
               /\ Entry'[x] = p => baseLid'[p] = x
               /\ baseLid'[p] = x => /\ Entry'[x] \in PortsOf(p[1])
                                     /\ p[1] \in Hcas => Entry'[x] = p,
         \A s \in Switches : s # n => \A q \in PortsOf(s) : baseLid'[q] = baseLid[q]
  PROVE  Settled' /\ OwnPorts'
<1>1. Settled'
  BY DEF Settled
<1>2. OwnPorts'
  <2>1. Busy' \subseteq Sound'
    OBVIOUS
  <2>2. ASSUME NEW s \in Switches, s \notin Busy', NEW p \in PortsOf(s), NEW q \in PortsOf(s)
        PROVE  baseLid'[p] = baseLid'[q]
    <3>1. s # n /\ s \notin Busy
      BY <2>2
    <3> QED
      BY <3>1 DEF OwnPorts
  <2> QED
    BY <2>1, <2>2 DEF OwnPorts
<1> QED
  BY <1>1, <1>2

\* A port gets its LID.
LEMMA TakeMap ==
  ASSUME LidTypes, Places, Apart, Settled, OwnPorts, NEW n \in Nodes, TakeLid(n)
  PROVE  Apart' /\ Settled' /\ OwnPorts'
<1>1. /\ set[n].pc = "take" /\ Busy' = Busy
      /\ \A m \in Nodes : m # n => set'[m] = set[m]
      /\ set'[n].pc = "clear" /\ set'[n].lid = set[n].lid
      /\ set'[n].prev = baseLid[Turn(n)] /\ set'[n].port = set[n].port
      /\ baseLid' = [baseLid EXCEPT ![Turn(n)] = set[n].lid]
      /\ Entry' = Entry /\ LidTypes'
  BY TakeFacts
<1>2. /\ n \in Busy /\ set[n].lid \in Nat \ {0} /\ Turn(n) = <<n, set[n].port>>
      /\ Turn(n) \in Ports /\ Turn(n)[1] = n /\ set[n].port \in 1 .. NumPorts[n]
  BY <1>1, SetFacts, LidMapAssumption
<1> PICK l \in Nat \ {0} : l = set[n].lid
  BY <1>2
<1> PICK turn \in Ports : turn = Turn(n) /\ turn[1] = n /\ turn = <<n, set[n].port>>
  BY <1>2
<1> PICK i \in 1 .. NumPorts[n] : i = set[n].port
  BY <1>2
<1>3. /\ Foreign(n) /\ (n \in Hcas => HcaPorts(n)) /\ (n \in Switches => SwitchPorts(n))
  BY <1>2 DEF OwnPorts, Sound
<1>4. /\ baseLid \in [Ports -> Nat] /\ baseLid'[turn] = l
      /\ \A q \in Ports : q # turn => baseLid'[q] = baseLid[q]
  <2>1. baseLid \in [Ports -> Nat]
    BY LidMapAssumption DEF LidTypes
  <2>2. baseLid' = [baseLid EXCEPT ![turn] = l]
    BY <1>1
  <2> QED
    BY <2>1, <2>2
<1>a. /\ set'[n].pc = "clear" /\ set'[n].lid = l /\ set'[n].prev = baseLid[turn]
      /\ set'[n].port = i /\ Turn(n)' = turn
  BY <1>1 DEF Turn
<1>5. set'[n].prev \in {0} \cup InHand[n]
  <2>1. PICK x \in Nat : x = baseLid[turn]
    BY <1>4
  <2>2. x = 0 \/ x \in InHand[n]
    BY <2>1, HandNow
  <2> QED
    BY <1>a, <2>1, <2>2
<1>6. /\ Apart' /\ Busy \ {n} \subseteq Sound'
      /\ \A x \in Nat \ {0} :
           (\A m \in Busy' : x \notin InHand'[m]) /\ (n \in Busy' \/ x \notin InHand[n]) =>
             \A p \in Ports :
               /\ Entry'[x] = p => baseLid'[p] = x
               /\ baseLid'[p] = x => /\ Entry'[x] \in PortsOf(p[1])
                                     /\ p[1] \in Hcas => Entry'[x] = p
      /\ \A s \in Switches : s # n => \A q \in PortsOf(s) : baseLid'[q] = baseLid[q]
      /\ InHand'[n] \subseteq InHand[n]
      /\ \A x \in InHand'[n], q \in Ports : q[1] # n =>
           /\ Entry'[x] = q => x = l /\ q[1] \in Hcas /\ baseLid'[q] \in {0, x}
           /\ baseLid'[q] = x => baseLid[q] = x /\ x = l /\ q[1] \in Hcas /\ Entry[x] = q
  <2>1. \A q \in Ports : \/ baseLid'[q] = baseLid[q]
                         \/ q[1] = n /\ baseLid'[q] \in {0, l}
                         \/ q = Entry[l] /\ baseLid'[q] = 0
    BY <1>4
  <2>2. \A x \in Nat \ {0} : \/ Entry'[x] = Entry[x]
                             \/ x \in InHand[n] /\ Entry'[x] \in PortsOf(n) \cup {NoPort}
    BY <1>1
  <2>3. n \in Busy' => set'[n].lid = l /\ set'[n].prev \in {0} \cup InHand[n]
    BY <1>1, <1>5
  <2>4. n \in Busy /\ n \in Busy' /\ LidTypes' /\ \A m \in Nodes : m # n => set'[m] = set[m]
    BY <1>1, <1>2
  <2> QED
    BY <2>1, <2>2, <2>3, <2>4, StepFrame
<1>7. Foreign(n)'
  <2> SUFFICES ASSUME NEW x \in InHand'[n], NEW q \in Ports, q[1] # n
               PROVE  /\ Entry'[x] = q => x = l /\ q[1] \in Hcas /\ baseLid'[q] \in {0, x}
                      /\ baseLid'[q] = x => /\ x = l /\ q[1] \in Hcas /\ Entry'[x] = q
                                            /\ baseLid[turn] # x
    BY <1>a DEF Foreign
  <2>1. x \in InHand[n]
    BY <1>6
  <2>2. baseLid[q] = x => baseLid[turn] # x
    BY <1>1, <1>3, <2>1 DEF Foreign
  <2> QED
    BY <1>1, <1>6, <2>2
<1>8. ASSUME n \in Hcas
      PROVE  HcaPorts(n)'
  <2> SUFFICES ASSUME NEW q \in PortsOf(n)
               PROVE
                 /\ q = turn => baseLid'[q] = l
                 /\ \A x \in Nat \ {0} :
                      /\ Entry'[x] = q => baseLid'[q] = x \/ (q = turn /\ x = baseLid[turn])
                      /\ baseLid'[q] = x /\ q # turn => Entry'[x] = q
                      /\ q = turn /\ Entry'[x] = q => x = baseLid[turn]
                      /\ q = turn /\ x = baseLid[turn] => Entry'[x] = q
    BY <1>1 DEF HcaPorts, Turn
  <2>1. q \in Ports
    BY PortFacts
  <2>2. \A x \in Nat \ {0} : Entry[x] = q <=> baseLid[q] = x
    BY <1>1, <1>3, <1>8 DEF HcaPorts
  <2> QED
    BY <1>1, <1>4, <2>1, <2>2
<1>9. ASSUME n \in Switches
      PROVE  SwitchPorts(n)'
  <2>1. /\ \A j \in 1 .. NumPorts[n] :
             /\ j < i => baseLid[<<n, j>>] = l
             /\ j > i => baseLid[<<n, j>>] = baseLid[turn]
        /\ \A x \in Nat \ {0} : Entry[x] \in PortsOf(n) /\ x # l => x = baseLid[turn]
    BY <1>1, <1>3, <1>9 DEF SwitchPorts
  <2>2. \A j \in 1 .. NumPorts[n] : <<n, j>> \in Ports /\ (<<n, j>> = turn <=> j = i)
    BY PortFacts
  <2>3. /\ \A j \in 1 .. NumPorts[n] :
             /\ j < i \/ j = i => baseLid'[<<n, j>>] = l
             /\ j > i => baseLid'[<<n, j>>] = baseLid[turn]
        /\ \A x \in Nat \ {0} : Entry'[x] \in PortsOf(n) /\ x # l => x = baseLid[turn]
    <3>1. \A j \in 1 .. NumPorts[n] : j \in Int
      OBVIOUS
    <3> QED
      BY <1>1, <1>4, <2>1, <2>2, <3>1
  <2> QED
    BY <1>1, <2>3 DEF SwitchPorts
<1>10. n \in Sound'
  BY <1>7, <1>8, <1>9 DEF Sound
<1>11. Settled' /\ OwnPorts'
  BY <1>1, <1>2, <1>6, <1>10, StepOn
<1> QED
  BY <1>6, <1>11

\* The entry of the LID before is cleared.
LEMMA ClearMap ==
  ASSUME LidTypes, Places, Apart, Settled, OwnPorts, NEW n \in Nodes, ClearEntry(n)
  PROVE  Apart' /\ Settled' /\ OwnPorts'
<1>1. /\ set[n].pc = "clear" /\ Busy' = Busy
      /\ \A m \in Nodes : m # n => set'[m] = set[m]
      /\ set'[n].pc = "evict" /\ set'[n].lid = set[n].lid
      /\ set'[n].prev = set[n].prev /\ set'[n].port = set[n].port
      /\ baseLid' = baseLid /\ Entry' = [Entry EXCEPT ![set[n].prev] = NoPort] /\ LidTypes'
  BY ClearFacts
<1>2. /\ n \in Busy /\ set[n].lid \in Nat \ {0} /\ Turn(n) = <<n, set[n].port>>
      /\ Turn(n) \in Ports /\ Turn(n)[1] = n /\ set[n].port \in 1 .. NumPorts[n]
      /\ set[n].prev \in Nat
  BY <1>1, SetFacts, LidMapAssumption
<1> PICK l \in Nat \ {0} : l = set[n].lid
  BY <1>2
<1> PICK turn \in Ports : turn = Turn(n) /\ turn[1] = n /\ turn = <<n, set[n].port>>
  BY <1>2
<1> PICK i \in 1 .. NumPorts[n] : i = set[n].port
  BY <1>2
<1> PICK prev \in Nat : prev = set[n].prev
  BY <1>2
<1>3. /\ Foreign(n) /\ (n \in Hcas => HcaPorts(n)) /\ (n \in Switches => SwitchPorts(n))
  BY <1>2 DEF OwnPorts, Sound
<1>4. \A x \in Nat : Entry'[x] = IF x = prev THEN NoPort ELSE Entry[x]
  BY <1>1, EntryFacts
<1>5. prev \in {0} \cup InHand[n]
  BY HandNow
<1>6. /\ set'[n].pc = "evict" /\ set'[n].lid = l /\ set'[n].prev = prev
      /\ set'[n].port = i /\ Turn(n)' = turn
  BY <1>1 DEF Turn
<1>7. /\ Apart' /\ Busy \ {n} \subseteq Sound'
      /\ \A x \in Nat \ {0} :
           (\A m \in Busy' : x \notin InHand'[m]) /\ (n \in Busy' \/ x \notin InHand[n]) =>
             \A p \in Ports :
               /\ Entry'[x] = p => baseLid'[p] = x
               /\ baseLid'[p] = x => /\ Entry'[x] \in PortsOf(p[1])
                                     /\ p[1] \in Hcas => Entry'[x] = p
      /\ \A s \in Switches : s # n => \A q \in PortsOf(s) : baseLid'[q] = baseLid[q]
      /\ InHand'[n] \subseteq InHand[n]
      /\ \A x \in InHand'[n], q \in Ports : q[1] # n =>
           /\ Entry'[x] = q => x = l /\ q[1] \in Hcas /\ baseLid'[q] \in {0, x}
           /\ baseLid'[q] = x => baseLid[q] = x /\ x = l /\ q[1] \in Hcas /\ Entry[x] = q
  <2>1. \A q \in Ports : \/ baseLid'[q] = baseLid[q]
                         \/ q[1] = n /\ baseLid'[q] \in {0, l}
                         \/ q = Entry[l] /\ baseLid'[q] = 0
    BY <1>1
  <2>2. \A x \in Nat \ {0} : \/ Entry'[x] = Entry[x]
                             \/ x \in InHand[n] /\ Entry'[x] \in PortsOf(n) \cup {NoPort}
    BY <1>4, <1>5
  <2>3. n \in Busy' => set'[n].lid = l /\ set'[n].prev \in {0} \cup InHand[n]
    BY <1>5, <1>6
  <2>4. n \in Busy /\ n \in Busy' /\ LidTypes' /\ \A m \in Nodes : m # n => set'[m] = set[m]
    BY <1>1, <1>2
  <2> QED
    BY <2>1, <2>2, <2>3, <2>4, StepFrame
<1>8. Foreign(n)'
  <2> SUFFICES ASSUME NEW x \in InHand'[n], NEW q \in Ports, q[1] # n
               PROVE  /\ Entry'[x] = q => x = l /\ q[1] \in Hcas /\ baseLid'[q] \in {0, x}
                      /\ baseLid'[q] = x => /\ x = l /\ q[1] \in Hcas /\ Entry'[x] = q
    BY <1>6 DEF Foreign
  <2>1. x \in InHand[n] /\ x \in Nat
    BY <1>7, HandNow
  <2>2. baseLid[q] = x => prev # x
    BY <1>1, <1>3, <2>1 DEF Foreign
  <2> QED
    BY <1>1, <1>4, <1>7, <2>1, <2>2
<1>9. ASSUME n \in Hcas
      PROVE  HcaPorts(n)'
  <2> SUFFICES ASSUME NEW q \in PortsOf(n)
               PROVE
                 /\ q = turn => baseLid'[q] = l
                 /\ \A x \in Nat \ {0} :
                      /\ Entry'[x] = q => baseLid'[q] = x
                      /\ baseLid'[q] = x /\ q # turn => Entry'[x] = q
                      /\ q = turn => Entry'[x] # q
    BY <1>6 DEF HcaPorts
  <2>1. q \in Ports /\ q # NoPort
    BY PortFacts
  <2>2. /\ q = turn => baseLid[q] = l
        /\ \A x \in Nat \ {0} : q # turn => (Entry[x] = q <=> baseLid[q] = x)
        /\ \A x \in Nat \ {0} : q = turn => (Entry[x] = q <=> x = prev)
    BY <1>1, <1>3, <1>9 DEF HcaPorts
  <2>3. prev # 0 => Entry[prev] = turn
    <3>1. turn \in PortsOf(n)
      BY PortFacts
    <3> QED
      BY <1>1, <1>3, <1>9, <3>1 DEF HcaPorts
  <2> QED
    BY <1>1, <1>4, <2>1, <2>2, <2>3
<1>10. ASSUME n \in Switches
       PROVE  SwitchPorts(n)'
  <2>1. /\ \A j \in 1 .. NumPorts[n] :
             /\ j < i \/ j = i => baseLid[<<n, j>>] = l
             /\ j > i => baseLid[<<n, j>>] = prev
        /\ \A x \in Nat \ {0} : Entry[x] \in PortsOf(n) /\ x # l => x = prev
    BY <1>1, <1>3, <1>10 DEF SwitchPorts
  <2>2. \A x \in Nat \ {0} : Entry'[x] \in PortsOf(n) => x = l
    BY <1>4, <2>1, PortFacts
  <2> QED
    BY <1>1, <1>6, <2>1, <2>2 DEF SwitchPorts
<1>11. n \in Sound'
  BY <1>8, <1>9, <1>10 DEF Sound
<1>12. Settled' /\ OwnPorts'
  BY <1>1, <1>2, <1>7, <1>11, StepOn
<1> QED
  BY <1>7, <1>12

\* The owner loses the LID.
LEMMA EvictMap ==
  ASSUME LidTypes, Places, Apart, Settled, OwnPorts, NEW n \in Nodes, EvictOwner(n)
  PROVE  Apart' /\ Settled' /\ OwnPorts'
<1>1. /\ set[n].pc = "evict" /\ Busy' = Busy
      /\ \A m \in Nodes : m # n => set'[m] = set[m]
      /\ set'[n].lid = set[n].lid /\ set'[n].prev = set[n].prev
      /\ \/ /\ n \in Switches /\ set[n].port < NumPorts[n]
            /\ set'[n].pc = "take" /\ set'[n].port = set[n].port + 1
         \/ /\ set'[n].pc = "enter" /\ set'[n].port = set[n].port
            /\ n \in Switches => set[n].port = NumPorts[n]
      /\ Turn(n)' = <<n, set'[n].port>> /\ set'[n].port \in 1 .. NumPorts[n]
      /\ \/ /\ Entry[set[n].lid] \in Ports /\ Entry[set[n].lid] # Turn(n)
            /\ n \in Hcas \/ Entry[set[n].lid][1] # n
            /\ baseLid' = [baseLid EXCEPT ![Entry[set[n].lid]] = 0]
         \/ /\ baseLid' = baseLid
            /\ \/ Entry[set[n].lid] \in {NoPort, Turn(n)}
               \/ n \in Switches /\ Entry[set[n].lid][1] = n
      /\ Entry' = Entry /\ LidTypes'
  BY EvictFacts
<1>2. /\ n \in Busy /\ set[n].lid \in Nat \ {0} /\ Turn(n) = <<n, set[n].port>>
      /\ Turn(n) \in Ports /\ Turn(n)[1] = n /\ set[n].port \in 1 .. NumPorts[n]
      /\ set[n].prev \in Nat
  BY <1>1, SetFacts, LidMapAssumption
<1> PICK l \in Nat \ {0} : l = set[n].lid
  BY <1>2
<1> PICK turn \in Ports : turn = Turn(n) /\ turn[1] = n /\ turn = <<n, set[n].port>>
  BY <1>2
<1> PICK i \in 1 .. NumPorts[n] : i = set[n].port
  BY <1>2
<1> PICK prev \in Nat : prev = set[n].prev
  BY <1>2
<1> PICK owner \in Ports \cup {NoPort} : owner = Entry[l]
  BY EntryFacts
<1>3. /\ Foreign(n) /\ (n \in Hcas => HcaPorts(n)) /\ (n \in Switches => SwitchPorts(n))
  BY <1>2 DEF OwnPorts, Sound
<1>4. /\ \A q \in Ports : q # owner => baseLid'[q] = baseLid[q]
      /\ \A q \in Ports : q = owner /\ q # turn /\ (n \in Hcas \/ q[1] # n) => baseLid'[q] = 0
      /\ \A q \in Ports : q = owner /\ ~(q # turn /\ (n \in Hcas \/ q[1] # n)) => baseLid'[q] = baseLid[q]
  <2>1. baseLid \in [Ports -> 0 .. MaxLid]
    BY DEF LidTypes
  <2>2. \/ owner \in Ports /\ owner # turn /\ (n \in Hcas \/ owner[1] # n)
           /\ baseLid' = [baseLid EXCEPT ![owner] = 0]
        \/ /\ baseLid' = baseLid
           /\ owner \in {NoPort, turn} \/ (n \in Switches /\ owner[1] = n)
    BY <1>1
  <2>3. n \in Switches => n \notin Hcas
    BY RecordFacts
  <2> QED
    BY <2>1, <2>2, <2>3, PortFacts
<1>5. prev \in {0} \cup InHand[n]
  BY HandNow
<1>6. set'[n].lid = l /\ set'[n].prev = prev
  BY <1>1
<1>7. /\ Apart' /\ Busy \ {n} \subseteq Sound'
      /\ \A x \in Nat \ {0} :
           (\A m \in Busy' : x \notin InHand'[m]) /\ (n \in Busy' \/ x \notin InHand[n]) =>
             \A p \in Ports :
               /\ Entry'[x] = p => baseLid'[p] = x
               /\ baseLid'[p] = x => /\ Entry'[x] \in PortsOf(p[1])
                                     /\ p[1] \in Hcas => Entry'[x] = p
      /\ \A s \in Switches : s # n => \A q \in PortsOf(s) : baseLid'[q] = baseLid[q]
      /\ InHand'[n] \subseteq InHand[n]
      /\ \A x \in InHand'[n], q \in Ports : q[1] # n =>
           /\ Entry'[x] = q => x = l /\ q[1] \in Hcas /\ baseLid'[q] \in {0, x}
           /\ baseLid'[q] = x => baseLid[q] = x /\ x = l /\ q[1] \in Hcas /\ Entry[x] = q
  <2>1. \A q \in Ports : \/ baseLid'[q] = baseLid[q]
                         \/ q[1] = n /\ baseLid'[q] \in {0, l}
                         \/ q = Entry[l] /\ baseLid'[q] = 0
    BY <1>4
  <2>2. \A x \in Nat \ {0} : \/ Entry'[x] = Entry[x]
                             \/ x \in InHand[n] /\ Entry'[x] \in PortsOf(n) \cup {NoPort}
    BY <1>1
  <2>3. n \in Busy' => set'[n].lid = l /\ set'[n].prev \in {0} \cup InHand[n]
    BY <1>5, <1>6
  <2>4. n \in Busy /\ n \in Busy' /\ LidTypes' /\ \A m \in Nodes : m # n => set'[m] = set[m]
    BY <1>1, <1>2
  <2> QED
    BY <2>1, <2>2, <2>3, <2>4, StepFrame
<1>8. Foreign(n)'
  <2> SUFFICES ASSUME NEW x \in InHand'[n], NEW q \in Ports, q[1] # n
               PROVE  /\ Entry'[x] = q => x = l /\ q[1] \in Hcas /\ baseLid'[q] \in {0, x}
                      /\ baseLid'[q] # x
    BY <1>6 DEF Foreign
  <2>1. x # 0
    BY <1>7, HandNow
  <2> QED
    BY <1>4, <1>7, <2>1
<1>9. ASSUME n \in Hcas
      PROVE  HcaPorts(n)'
  <2>1. set'[n].pc = "enter" /\ Turn(n)' = turn
    BY <1>1, <1>9, RecordFacts
  <2> SUFFICES ASSUME NEW q \in PortsOf(n)
               PROVE
                 /\ q = turn => baseLid'[q] = l
                 /\ q # turn => baseLid'[q] # l
                 /\ \A x \in Nat \ {0} :
                      /\ Entry'[x] = q => baseLid'[q] = x \/ (q # turn /\ x = l)
                      /\ baseLid'[q] = x /\ q # turn => Entry'[x] = q
                      /\ q = turn => Entry'[x] # q
    BY <1>6, <2>1 DEF HcaPorts
  <2>2. q \in Ports /\ q # NoPort
    BY PortFacts
  <2>3. /\ q = turn => baseLid[q] = l
        /\ \A x \in Nat \ {0} : q # turn => (Entry[x] = q <=> baseLid[q] = x)
        /\ \A x \in Nat \ {0} : q = turn => Entry[x] # q
    BY <1>1, <1>3, <1>9 DEF HcaPorts
  <2>4. q # turn /\ baseLid[q] = l => q = owner
    BY <2>3
  <2>5. q # turn /\ q = owner => baseLid[q] = l /\ baseLid'[q] = 0
    BY <1>4, <1>9, <2>2, <2>3
  <2> QED
    BY <1>1, <1>4, <2>2, <2>3, <2>4, <2>5
<1>10. ASSUME n \in Switches
       PROVE  SwitchPorts(n)'
  <2>1. /\ \A j \in 1 .. NumPorts[n] :
             /\ j < i \/ j = i => baseLid[<<n, j>>] = l
             /\ j > i => baseLid[<<n, j>>] = prev
        /\ \A x \in Nat \ {0} : Entry[x] \in PortsOf(n) => x = l
    BY <1>1, <1>3, <1>10 DEF SwitchPorts
  <2>2. \A j \in 1 .. NumPorts[n] : baseLid'[<<n, j>>] = baseLid[<<n, j>>]
    <3>1. n \notin Hcas /\ \A j \in 1 .. NumPorts[n] : <<n, j>> \in Ports /\ <<n, j>>[1] = n
      BY <1>10, RecordFacts, PortFacts
    <3> QED
      BY <1>4, <3>1
  <2>3. NumPorts[n] \in Nat /\ i \in Nat
    <3>1. NumPorts[n] \in Nat \ {0}
      BY PortFacts
    <3> QED
      BY <3>1
  <2>4. CASE set'[n].pc = "take" /\ i < NumPorts[n] /\ set'[n].port = i + 1
    <3>1. Turn(n)' = <<n, i + 1>> /\ i + 1 \in 1 .. NumPorts[n]
      BY <1>1, <2>3, <2>4
    <3>2. \A j \in 1 .. NumPorts[n] :
             /\ j < i + 1 => baseLid'[<<n, j>>] = l
             /\ j > i + 1 => baseLid'[<<n, j>>] = baseLid'[<<n, i + 1>>]
      BY <2>1, <2>2, <2>3, <3>1
    <3> QED
      BY <1>1, <1>6, <2>1, <2>4, <3>1, <3>2 DEF SwitchPorts
  <2>5. CASE set'[n].pc = "enter" /\ set'[n].port = i /\ i = NumPorts[n]
    <3>1. \A j \in 1 .. NumPorts[n] : ~(j > i) /\ baseLid'[<<n, j>>] = l
      BY <2>1, <2>2, <2>3, <2>5
    <3> QED
      BY <1>1, <1>6, <2>1, <2>5, <3>1 DEF SwitchPorts
  <2> QED
    BY <1>1, <1>10, <2>4, <2>5
<1>11. n \in Sound'
  BY <1>8, <1>9, <1>10 DEF Sound
<1>12. Settled' /\ OwnPorts'
  BY <1>1, <1>2, <1>7, <1>11, StepOn
<1> QED
  BY <1>7, <1>12

\* The table leads to the port, and the Set is over.
LEMMA EnterMap ==
  ASSUME LidTypes, Places, Apart, Settled, OwnPorts, NEW n \in Nodes, EnterLid(n)
  PROVE  Apart' /\ Settled' /\ OwnPorts'
<1>1. /\ set[n].pc = "enter" /\ Busy' = Busy \ {n}
      /\ \A m \in Nodes : m # n => set'[m] = set[m]
      /\ n \in Switches => set[n].port = NumPorts[n]
      /\ baseLid' = baseLid /\ Entry' = [Entry EXCEPT ![set[n].lid] = Turn(n)] /\ LidTypes'
  BY EnterFacts
<1>2. /\ n \in Busy /\ set[n].lid \in Nat \ {0} /\ Turn(n) = <<n, set[n].port>>
      /\ Turn(n) \in Ports /\ Turn(n)[1] = n /\ set[n].port \in 1 .. NumPorts[n]
  BY <1>1, SetFacts, LidMapAssumption
<1> PICK l \in Nat \ {0} : l = set[n].lid
  BY <1>2
<1> PICK turn \in Ports : turn = Turn(n) /\ turn[1] = n /\ turn = <<n, set[n].port>>
  BY <1>2
<1>3. /\ Foreign(n) /\ (n \in Hcas => HcaPorts(n)) /\ (n \in Switches => SwitchPorts(n))
  BY <1>2 DEF OwnPorts, Sound
<1>4. \A x \in Nat : Entry'[x] = IF x = l THEN turn ELSE Entry[x]
  BY <1>1, EntryFacts
<1>5. turn \in PortsOf(n)
  BY PortFacts
<1>6. /\ Apart' /\ Busy \ {n} \subseteq Sound' /\ l \in InHand[n]
      /\ \A x \in Nat \ {0} :
           (\A m \in Busy' : x \notin InHand'[m]) /\ (n \in Busy' \/ x \notin InHand[n]) =>
             \A p \in Ports :
               /\ Entry'[x] = p => baseLid'[p] = x
               /\ baseLid'[p] = x => /\ Entry'[x] \in PortsOf(p[1])
                                     /\ p[1] \in Hcas => Entry'[x] = p
      /\ \A s \in Switches : s # n => \A q \in PortsOf(s) : baseLid'[q] = baseLid[q]
  <2>1. \A q \in Ports : \/ baseLid'[q] = baseLid[q]
                         \/ q[1] = n /\ baseLid'[q] \in {0, l}
                         \/ q = Entry[l] /\ baseLid'[q] = 0
    BY <1>1
  <2>2. \A x \in Nat \ {0} : \/ Entry'[x] = Entry[x]
                             \/ x \in InHand[n] /\ Entry'[x] \in PortsOf(n) \cup {NoPort}
    <3>1. l \in InHand[n]
      BY HandNow
    <3> QED
      BY <1>4, <1>5, <3>1
  <2>3. n \in Busy' => set'[n].lid = l /\ set'[n].prev \in {0} \cup InHand[n]
    BY <1>1
  <2>4. n \in Busy /\ LidTypes' /\ \A m \in Nodes : m # n => set'[m] = set[m]
    BY <1>1, <1>2
  <2> QED
    BY <2>1, <2>2, <2>3, <2>4, StepFrame
<1>7. \A x \in InHand[n], q \in Ports : q[1] # n =>
        /\ Entry[x] = q => x = l
        /\ baseLid[q] # x
  BY <1>1, <1>3 DEF Foreign
<1>8. ASSUME n \in Hcas, NEW q \in Ports, q[1] = n
      PROVE  /\ q = turn => baseLid[q] = l
             /\ q # turn => baseLid[q] # l
             /\ \A x \in Nat \ {0} : Entry[x] = q => q # turn /\ (baseLid[q] = x \/ x = l)
             /\ \A x \in Nat \ {0} : baseLid[q] = x /\ q # turn => Entry[x] = q
  <2>1. q \in PortsOf(n)
    BY <1>8, PortFacts
  <2> QED
    BY <1>1, <1>3, <1>8, <2>1 DEF HcaPorts
<1>9. ASSUME n \in Switches
      PROVE  /\ \A q \in Ports : q[1] = n => baseLid[q] = l
             /\ \A x \in Nat \ {0} : Entry[x] \in PortsOf(n) => x = l
  <2>1. /\ \A j \in 1 .. NumPorts[n] :
             j < set[n].port \/ j = set[n].port => baseLid[<<n, j>>] = l
        /\ \A x \in Nat \ {0} : Entry[x] \in PortsOf(n) => x = l
    BY <1>1, <1>3, <1>9 DEF SwitchPorts
  <2>2. NumPorts[n] \in Nat \ {0} /\ set[n].port = NumPorts[n]
    BY <1>1, <1>9, PortFacts
  <2>3. \A j \in 1 .. NumPorts[n] : baseLid[<<n, j>>] = l
    BY <2>1, <2>2
  <2>4. \A q \in Ports : q[1] = n => q = <<n, q[2]>> /\ q[2] \in 1 .. NumPorts[n]
    BY PortFacts
  <2> QED
    BY <2>1, <2>3, <2>4
<1>10. n \in Hcas \/ (n \in Switches /\ n \notin Hcas)
  BY RecordFacts
<1>11. ASSUME NEW x \in InHand[n], NEW p \in Ports
       PROVE  /\ Entry'[x] = p => baseLid'[p] = x
              /\ baseLid'[p] = x => /\ Entry'[x] \in PortsOf(p[1])
                                    /\ p[1] \in Hcas => Entry'[x] = p
  <2>1. x \in Nat \ {0}
    BY HandNow
  <2>2. CASE x = l
    <3>1. Entry'[x] = turn
      BY <1>4, <2>2
    <3>2. baseLid[turn] = l
      BY <1>8, <1>9, <1>10
    <3>3. baseLid[p] = l => p[1] = n
      BY <1>6, <1>7
    <3>4. baseLid[p] = l /\ n \in Hcas => p = turn
      BY <1>8, <3>3
    <3> QED
      BY <1>1, <1>5, <1>10, <2>2, <3>1, <3>2, <3>3, <3>4
  <2>3. CASE x # l
    <3>1. Entry'[x] = Entry[x]
      BY <1>4, <2>1, <2>3
    <3>2. CASE p[1] # n
      BY <1>1, <1>7, <2>3, <3>1, <3>2
    <3>3. CASE p[1] = n /\ n \in Hcas
      <4>1. /\ Entry[x] = p => baseLid[p] = x
            /\ baseLid[p] = x => Entry[x] = p
        BY <1>8, <2>1, <2>3, <3>3
      <4>2. p \in PortsOf(n)
        BY <3>3, PortFacts
      <4> QED
        BY <1>1, <3>1, <3>3, <4>1, <4>2
    <3>4. CASE p[1] = n /\ n \in Switches
      <4>1. baseLid[p] # x
        BY <1>9, <2>3, <3>4
      <4>2. p \in PortsOf(n)
        BY <3>4, PortFacts
      <4>3. Entry[x] # p
        BY <1>9, <2>1, <2>3, <3>4, <4>2
      <4> QED
        BY <1>1, <3>1, <4>1, <4>3
    <3> QED
      BY <1>10, <3>2, <3>3, <3>4
  <2> QED
    BY <2>2, <2>3
<1>12. Settled'
  <2> SUFFICES ASSUME NEW x \in Nat \ {0}, \A m \in Busy' : x \notin InHand'[m], NEW p \in Ports
               PROVE  /\ Entry'[x] = p => baseLid'[p] = x
                      /\ baseLid'[p] = x => /\ Entry'[x] \in PortsOf(p[1])
                                            /\ p[1] \in Hcas => Entry'[x] = p
    BY DEF Settled
  <2>1. CASE x \in InHand[n]
    BY <1>11, <2>1
  <2>2. CASE x \notin InHand[n]
    BY <1>6, <2>2
  <2> QED
    BY <2>1, <2>2
<1>13. OwnPorts'
  <2>1. Busy' \subseteq Sound'
    BY <1>1, <1>6
  <2>2. ASSUME NEW s \in Switches, s \notin Busy', NEW p \in PortsOf(s), NEW q \in PortsOf(s)
        PROVE  baseLid'[p] = baseLid'[q]
    <3>1. CASE s = n
      <4>1. p \in Ports /\ p[1] = n /\ q \in Ports /\ q[1] = n
        BY <3>1, PortFacts
      <4> QED
        BY <1>1, <1>9, <3>1, <4>1
    <3>2. CASE s # n
      BY <1>1, <2>2, <3>2 DEF OwnPorts
    <3> QED
      BY <3>1, <3>2
  <2> QED
    BY <2>1, <2>2 DEF OwnPorts
<1> QED
  BY <1>6, <1>12, <1>13

\* A Set starts that touches no LID of another, and takes none from a switch.
LEMMA SetLidMap ==
  ASSUME LidTypes, Places, Apart, Settled, OwnPorts,
         NEW n \in Nodes, NEW r \in Records, NEW l \in 1 .. MaxLid, SetLid(n, r, l),
         Marks(n, r, l) \cap {"raced", "robbed"} = {}
  PROVE  Apart' /\ Settled' /\ OwnPorts'
<1>1. /\ n \notin Busy /\ Busy' = Busy \cup {n}
      /\ \A m \in Nodes : m # n => set'[m] = set[m]
      /\ set'[n].pc = "take" /\ set'[n].lid = l /\ set'[n].prev = 0
      /\ set'[n].port \in 1 .. NumPorts[n] /\ Turn(n)' = <<n, set'[n].port>>
      /\ n \in Switches => set'[n].port = 1
      /\ baseLid' = baseLid /\ portByLid' = portByLid /\ Entry' = Entry /\ LidTypes'
  BY SetLidFacts
<1> PICK i \in 1 .. NumPorts[n] : i = set'[n].port
  BY <1>1
<1> PICK turn \in Ports : turn = <<n, i>> /\ turn[1] = n
  BY PortFacts
<1>2. l \in Nat \ {0} /\ Busy \subseteq Nodes /\ turn \in PortsOf(n)
  BY LidMapAssumption, PortFacts DEF Busy
<1>3. ASSUME NEW m \in Busy
      PROVE  /\ m # n /\ InHand[m] \cap (LidsOf(n) \cup {l}) = {}
             /\ InHand'[m] = InHand[m]
  <2>1. m \in Nodes \ {n} /\ set[m].pc # "idle"
    BY <1>1 DEF Busy
  <2>2. Touched(m) \cap (LidsOf(n) \cup {l}) = {}
    BY <2>1 DEF Marks
  <2>3. InHand[m] = Touched(m)
    BY <2>1 DEF InHand
  <2>4. InHand'[m] = InHand[m]
    BY <1>1, <2>1 DEF InHand, Touched, LidsOf
  <2> QED
    BY <2>1, <2>2, <2>3, <2>4
<1>4. ASSUME NEW m \in Busy, NEW x \in InHand[m]
      PROVE  x # l /\ \A p \in Ports : p[1] = n => baseLid[p] # x /\ Entry[x] # p
  <2>1. x \notin LidsOf(n) /\ x # l /\ x \in Nat
    BY <1>2, <1>3, HandNow
  <2>2. \A p \in PortsOf(n) : baseLid[p] # x
    BY <2>1 DEF LidsOf
  <2>3. x \in DOMAIN portByLid => portByLid[x][1] # n
    BY <2>1 DEF LidsOf
  <2>4. Entry[x][1] # n
    BY <2>1, <2>3, EntryFacts, PortFacts
  <2> QED
    BY <2>1, <2>2, <2>4, PortFacts
<1>5. \A p \in Ports : p[1] \in Switches /\ p[1] # n => baseLid[p] # l
  BY DEF Marks
<1>6. \A x \in InHand'[n] : /\ x \in Nat \ {0} /\ \A m \in Busy : x \notin InHand[m]
                            /\ x = l \/ \E p \in Ports : p[1] = n /\ (baseLid[p] = x \/ Entry[x] = p)
  BY <1>1, <1>4, HandNext
<1>7. Apart'
  <2> SUFFICES ASSUME NEW m \in Busy', NEW k \in Busy', m # k, NEW x \in InHand'[m], x \in InHand'[k]
               PROVE  FALSE
    BY DEF Apart
  <2>1. CASE m = n
    BY <1>1, <1>3, <1>6, <2>1
  <2>2. CASE k = n
    BY <1>1, <1>3, <1>6, <2>2
  <2>3. CASE m # n /\ k # n
    BY <1>1, <1>3, <2>3 DEF Apart
  <2> QED
    BY <2>1, <2>2, <2>3
<1>8. Settled'
  BY <1>1, <1>3 DEF Settled
<1>9. ASSUME NEW x \in Nat \ {0}, \A m \in Busy : x \notin InHand[m], NEW p \in Ports
      PROVE  /\ Entry[x] = p => baseLid[p] = x
             /\ baseLid[p] = x => Entry[x] \in PortsOf(p[1]) /\ (p[1] \in Hcas => Entry[x] = p)
  BY <1>9 DEF Settled
<1>10. Foreign(n)'
  <2> SUFFICES ASSUME NEW x \in InHand'[n], NEW q \in Ports, q[1] # n
               PROVE  /\ Entry[x] = q => x = l /\ q[1] \in Hcas /\ baseLid[q] \in {0, x}
                      /\ baseLid[q] = x => /\ x = l /\ q[1] \in Hcas /\ Entry[x] = q
                                           /\ baseLid[turn] # x
    BY <1>1 DEF Foreign
  <2>1. /\ x \in Nat \ {0} /\ \A m \in Busy : x \notin InHand[m]
        /\ x = l \/ \E p \in Ports : p[1] = n /\ (baseLid[p] = x \/ Entry[x] = p)
    BY <1>6
  <2>2. \A p \in Ports : p[1] = n /\ (baseLid[p] = x \/ Entry[x] = p) => Entry[x] \in PortsOf(n)
    BY <1>9, <2>1, PortFacts
  <2>3. /\ Entry[x] = q => baseLid[q] = x
        /\ baseLid[q] = x => Entry[x] \in PortsOf(q[1]) /\ (q[1] \in Hcas => Entry[x] = q)
    BY <1>9, <2>1
  <2>4. Entry[x] \in PortsOf(n) => baseLid[q] # x /\ Entry[x] # q
    BY <2>3, PortFacts
  <2>5. q[1] \in Nodes /\ (q[1] \in Switches <=> q[1] \notin Hcas)
    BY PortFacts, RecordFacts
  <2>6. CASE baseLid[q] = x
    <3>1. Entry[x] \notin PortsOf(n)
      BY <2>4, <2>6
    <3>2. x = l /\ baseLid[turn] # x
      BY <2>1, <2>2, <3>1
    <3> QED
      BY <1>5, <2>3, <2>5, <2>6, <3>2
  <2>7. CASE baseLid[q] # x
    BY <2>3, <2>7
  <2> QED
    BY <2>6, <2>7
<1>11. ASSUME n \in Hcas
       PROVE  HcaPorts(n)'
  <2> SUFFICES ASSUME NEW q \in PortsOf(n), NEW x \in Nat \ {0}
               PROVE  Entry[x] = q <=> baseLid[q] = x
    BY <1>1 DEF HcaPorts
  <2>1. q \in Ports /\ q[1] = n
    BY PortFacts
  <2>2. CASE \A m \in Busy : x \notin InHand[m]
    BY <1>9, <1>11, <2>1, <2>2
  <2>3. CASE \E m \in Busy : x \in InHand[m]
    BY <1>4, <2>1, <2>3
  <2> QED
    BY <2>2, <2>3
<1>12. ASSUME n \in Switches
       PROVE  SwitchPorts(n)'
  <2>1. i = 1 /\ \A j \in 1 .. NumPorts[n] : ~(j < i) /\ baseLid[<<n, j>>] = baseLid[turn]
    <3>1. \A p, q \in PortsOf(n) : baseLid[p] = baseLid[q]
      BY <1>1, <1>12 DEF OwnPorts
    <3>2. \A j \in 1 .. NumPorts[n] : <<n, j>> \in PortsOf(n)
      BY PortFacts
    <3>3. i = 1 /\ \A j \in 1 .. NumPorts[n] : ~(j < i)
      BY <1>1, <1>12
    <3> QED
      BY <1>2, <3>1, <3>2, <3>3
  <2>2. ASSUME NEW x \in Nat \ {0}, Entry[x] \in PortsOf(n)
        PROVE  x = baseLid[turn]
    <3>1. PICK p \in Ports : p = Entry[x] /\ p[1] = n /\ p = <<n, p[2]>> /\ p[2] \in 1 .. NumPorts[n]
      BY <2>2, PortFacts
    <3>2. \A m \in Busy : x \notin InHand[m]
      BY <1>4, <3>1
    <3>3. baseLid[p] = x
      BY <1>9, <3>1, <3>2
    <3> QED
      BY <2>1, <3>1, <3>3
  <2> QED
    BY <1>1, <2>1, <2>2 DEF SwitchPorts
<1>13. ASSUME NEW m \in Busy
       PROVE  m \in Sound'
  <2>1. m \in Nodes /\ set'[m] = set[m] /\ InHand'[m] = InHand[m] /\ Turn(m)' = Turn(m)
    BY <1>1, <1>2, <1>3 DEF Turn
  <2>2. /\ Foreign(m) /\ (m \in Hcas => HcaPorts(m)) /\ (m \in Switches => SwitchPorts(m))
    BY DEF OwnPorts, Sound
  <2>3. Foreign(m)'
    BY <1>1, <2>1, <2>2 DEF Foreign
  <2>4. m \in Hcas => HcaPorts(m)'
    BY <1>1, <2>1, <2>2 DEF HcaPorts
  <2>5. m \in Switches => SwitchPorts(m)'
    BY <1>1, <2>1, <2>2 DEF SwitchPorts
  <2> QED
    BY <2>1, <2>3, <2>4, <2>5 DEF Sound
<1>14. OwnPorts'
  <2>1. n \in Sound'
    BY <1>10, <1>11, <1>12 DEF Sound
  <2>2. Busy' \subseteq Sound'
    BY <1>1, <1>13, <2>1
  <2> QED
    BY <1>1, <2>2 DEF OwnPorts
<1> QED
  BY <1>7, <1>8, <1>14

-----------------------------------------------------------------------------
(* The records *)

\* Where a Set is, an unshared LID is nobody's but its own node's.
LEMMA SetLidRecord ==
  ASSUME LidTypes, Places, Apart, Settled, OwnPorts, Agree, Unshared,
         NEW n \in Nodes, NEW r \in Records, NEW l \in 1 .. MaxLid, SetLid(n, r, l),
         Marks(n, r, l) \cap {"raced", "shared"} = {}
  PROVE  "robbed" \notin Marks(n, r, l) /\ Agree' /\ Unshared'
<1>1. /\ n \notin Busy /\ r[1] = n /\ Busy' = Busy \cup {n}
      /\ \A m \in Nodes : m # n => set'[m] = set[m]
      /\ set'[n].pc = "take" /\ set'[n].record = r /\ set'[n].lid = l
      /\ set'[n].port \in 1 .. NumPorts[n] /\ (n \in Switches => set'[n].port = 1)
      /\ recordLid' = recordLid /\ baseLid' = baseLid
  BY SetLidFacts
<1>2. \A q \in Records : q # r => recordLid[q] # l
  BY DEF Marks
<1>3. \A m \in Busy : m # n /\ l \notin InHand[m]
  <2> SUFFICES ASSUME NEW m \in Busy PROVE m # n /\ l \notin InHand[m]
    OBVIOUS
  <2>1. m \in Nodes \ {n} /\ set[m].pc # "idle"
    BY <1>1 DEF Busy
  <2>2. Touched(m) \cap (LidsOf(n) \cup {l}) = {}
    BY <2>1 DEF Marks
  <2>3. InHand[m] = Touched(m)
    BY <2>1 DEF InHand
  <2> QED
    BY <2>1, <2>2, <2>3
<1>4. l \in Nat \ {0}
  BY LidMapAssumption
<1>5. ASSUME NEW p \in Ports, p[1] \in Switches \ {n}, baseLid[p] = l
      PROVE  FALSE
  <2>1. PICK m \in Nodes : m = p[1] /\ m # n
    BY <1>5, PortFacts
  <2>2. m \notin Busy
    BY <1>3, <1>4, <1>5, <2>1, HandNow
  <2>3. PICK q \in Records : q = <<m, 0>>
    BY <1>5, <2>1, RecordFacts
  <2>4. q[2] = 0 /\ q[1] = m /\ q # r
    BY <1>1, <2>1, <2>3
  <2>5. set[m] = NoSet
    BY <2>2 DEF Places
  <2>6. set[q[1]].record # q
    BY <2>4, <2>5, PortFacts DEF NoSet
  <2>7. recordLid[q] = baseLid[p]
    BY <2>1, <2>4, <2>6 DEF Agree
  <2> QED
    BY <1>2, <1>5, <2>4, <2>7
<1>6. "robbed" \notin Marks(n, r, l)
  BY <1>5 DEF Marks
<1>7. Agree'
  <2> SUFFICES ASSUME NEW q \in Records, NEW p \in Ports, q = p \/ (q[2] = 0 /\ p[1] = q[1])
               PROVE  \/ recordLid[q] = baseLid[p]
                      \/ set'[q[1]].record = q /\ (p[2] < set'[q[1]].port
                           \/ (p[2] = set'[q[1]].port /\ set'[q[1]].pc # "take"))
    BY <1>1 DEF Agree
  <2>1. q[1] \in Nodes
    BY RecordFacts
  <2>2. \/ recordLid[q] = baseLid[p]
        \/ set[q[1]].record = q /\ (p[2] < set[q[1]].port
             \/ (p[2] = set[q[1]].port /\ set[q[1]].pc # "take"))
    BY DEF Agree
  <2>3. CASE q[1] = n
    <3>1. set[n] = NoSet
      BY <1>1 DEF Places
    <3> QED
      BY <2>2, <2>3, <3>1, PortFacts DEF NoSet
  <2>4. CASE q[1] # n
    BY <1>1, <2>1, <2>2, <2>4
  <2> QED
    BY <2>3, <2>4
<1>8. Unshared'
  <2> SUFFICES ASSUME NEW m \in Busy', NEW q \in Records, q # set'[m].record
               PROVE  recordLid[q] # set'[m].lid
    BY <1>1 DEF Unshared
  <2>1. CASE m = n
    BY <1>1, <1>2, <2>1
  <2>2. CASE m # n
    <3>1. m \in Busy /\ m \in Nodes /\ set'[m] = set[m]
      BY <1>1, <2>2 DEF Busy
    <3> QED
      BY <3>1 DEF Unshared
  <2> QED
    BY <2>1, <2>2
<1> QED
  BY <1>6, <1>7, <1>8

\* The records agree with the ports at every step of a Set.
LEMMA StepRecord ==
  ASSUME LidTypes, Places, Apart, Settled, OwnPorts, Agree, Unshared,
         NEW n \in Nodes, TakeLid(n) \/ ClearEntry(n) \/ EvictOwner(n) \/ EnterLid(n)
  PROVE  Agree' /\ Unshared'
<1>1. set[n].pc # "idle"
  BY DEF TakeLid, ClearEntry, EvictOwner, EnterLid, At
<1>2. /\ n \in Busy /\ set[n].lid \in Nat \ {0} /\ Turn(n) = <<n, set[n].port>>
      /\ Turn(n) \in Ports /\ Turn(n)[1] = n /\ Turn(n)[2] = set[n].port
      /\ set[n].port \in 1 .. NumPorts[n]
      /\ set[n].record \in Records /\ set[n].record[1] = n
      /\ n \in Hcas => set[n].record = Turn(n)
      /\ n \in Switches => set[n].record = <<n, 0>>
      /\ set[n].lid \in InHand[n]
  BY <1>1, SetFacts, LidMapAssumption
<1>3. /\ Foreign(n) /\ (n \in Hcas => HcaPorts(n)) /\ (n \in Switches => SwitchPorts(n))
  BY <1>2 DEF OwnPorts, Sound
<1> PICK l \in Nat \ {0} : l = set[n].lid
  BY <1>2
<1> PICK turn \in Ports : turn = Turn(n) /\ turn[1] = n /\ turn = <<n, set[n].port>> /\ turn[2] = set[n].port
  BY <1>2
<1> PICK rec \in Records : rec = set[n].record /\ rec[1] = n
  BY <1>2
<1>4. ASSUME NEW q \in Records, NEW p \in Ports, q = p \/ (q[2] = 0 /\ p[1] = q[1])
      PROVE  /\ p[1] = q[1] /\ q[1] \in Nodes /\ p[2] \in Nat /\ set[q[1]].port \in Nat
             /\ q = p <=> q[1] \in Hcas
             /\ q[1] = n /\ n \in Switches => q = rec
             /\ q[1] = n /\ n \in Hcas /\ q = rec => p = turn
             /\ \/ recordLid[q] = baseLid[p]
                \/ set[q[1]].record = q /\ (p[2] < set[q[1]].port
                     \/ (p[2] = set[q[1]].port /\ set[q[1]].pc # "take"))
  <2>1. p[1] = q[1] /\ q[1] \in Nodes /\ p[2] \in Nat
    BY <1>4, PortFacts, RecordFacts
  <2>2. set[q[1]].port \in Nat
    BY <2>1 DEF LidTypes, SetType
  <2>3. q = p => p[2] # 0
    BY PortFacts
  <2>4. q = p <=> q[1] \in Hcas
    BY <1>4, <2>1, <2>3, RecordFacts
  <2>5. q[1] = n /\ n \in Switches => q = rec
    BY <1>2, RecordFacts
  <2>6. q[1] = n /\ n \in Hcas /\ q = rec => p = turn
    BY <1>2, <2>4
  <2> QED
    BY <1>4, <2>1, <2>2, <2>4, <2>5, <2>6 DEF Agree
<1>5. CASE TakeLid(n)
  <2>1. /\ set[n].pc = "take" /\ Busy' = Busy
        /\ \A m \in Nodes : m # n => set'[m] = set[m]
        /\ set'[n].pc = "clear" /\ set'[n].record = rec /\ set'[n].lid = l
        /\ set'[n].port = set[n].port
        /\ baseLid' = [baseLid EXCEPT ![turn] = l] /\ recordLid' = recordLid
    BY <1>5, TakeFacts
  <2>2. \A p \in Ports : p # turn => baseLid'[p] = baseLid[p]
    BY <2>1 DEF LidTypes
  <2>3. Agree'
    <3> SUFFICES ASSUME NEW q \in Records, NEW p \in Ports, q = p \/ (q[2] = 0 /\ p[1] = q[1])
                 PROVE  \/ recordLid[q] = baseLid'[p]
                        \/ set'[q[1]].record = q /\ (p[2] < set'[q[1]].port
                             \/ (p[2] = set'[q[1]].port /\ set'[q[1]].pc # "take"))
      BY <2>1 DEF Agree
    <3>1. CASE p = turn
      <4>1. q = rec /\ p[2] = set[n].port /\ q[1] = n
        <5>1. q[1] = n
          BY <1>4, <3>1
        <5>2. n \in Hcas => q = rec
          BY <1>2, <1>4, <3>1, <5>1
        <5> QED
          BY <1>4, <3>1, <5>1, <5>2, RecordFacts
      <4> QED
        BY <2>1, <4>1
    <3>2. CASE p # turn /\ q[1] = n
      BY <1>4, <2>1, <2>2, <3>2
    <3>3. CASE p # turn /\ q[1] # n
      BY <1>4, <2>1, <2>2, <3>3
    <3> QED
      BY <3>1, <3>2, <3>3
  <2>4. Unshared'
    <3> SUFFICES ASSUME NEW m \in Busy, NEW q \in Records, q # set'[m].record
                 PROVE  recordLid[q] # set'[m].lid
      BY <2>1 DEF Unshared
    <3>1. m \in Nodes /\ set'[m].record = set[m].record /\ set'[m].lid = set[m].lid
      BY <2>1 DEF Busy
    <3> QED
      BY <3>1 DEF Unshared
  <2> QED
    BY <2>3, <2>4
<1>6. CASE ClearEntry(n)
  <2>1. /\ set[n].pc = "clear" /\ Busy' = Busy
        /\ \A m \in Nodes : m # n => set'[m] = set[m]
        /\ set'[n].pc = "evict" /\ set'[n].record = rec /\ set'[n].lid = l
        /\ set'[n].port = set[n].port
        /\ baseLid' = baseLid /\ recordLid' = recordLid
    BY <1>6, ClearFacts
  <2>2. Agree'
    <3> SUFFICES ASSUME NEW q \in Records, NEW p \in Ports, q = p \/ (q[2] = 0 /\ p[1] = q[1])
                 PROVE  \/ recordLid[q] = baseLid[p]
                        \/ set'[q[1]].record = q /\ (p[2] < set'[q[1]].port
                             \/ (p[2] = set'[q[1]].port /\ set'[q[1]].pc # "take"))
      BY <2>1 DEF Agree
    <3>1. CASE q[1] = n
      BY <1>4, <2>1, <3>1
    <3>2. CASE q[1] # n
      BY <1>4, <2>1, <3>2
    <3> QED
      BY <3>1, <3>2
  <2>3. Unshared'
    <3> SUFFICES ASSUME NEW m \in Busy, NEW q \in Records, q # set'[m].record
                 PROVE  recordLid[q] # set'[m].lid
      BY <2>1 DEF Unshared
    <3>1. m \in Nodes /\ set'[m].record = set[m].record /\ set'[m].lid = set[m].lid
      BY <2>1 DEF Busy
    <3> QED
      BY <3>1 DEF Unshared
  <2> QED
    BY <2>2, <2>3
<1>7. CASE EvictOwner(n)
  <2>1. /\ set[n].pc = "evict" /\ Busy' = Busy
        /\ \A m \in Nodes : m # n => set'[m] = set[m]
        /\ set'[n].record = rec /\ set'[n].lid = l
        /\ \/ set'[n].pc = "take" /\ set'[n].port = set[n].port + 1
           \/ set'[n].pc = "enter" /\ set'[n].port = set[n].port
        /\ recordLid' = recordLid
        /\ \/ /\ Entry[l] \in Ports /\ Entry[l] # turn
              /\ n \in Hcas \/ Entry[l][1] # n
              /\ baseLid' = [baseLid EXCEPT ![Entry[l]] = 0]
           \/ baseLid' = baseLid
    <3>1. /\ set[n].pc = "evict" /\ Busy' = Busy
          /\ \A m \in Nodes : m # n => set'[m] = set[m]
          /\ set'[n].record = set[n].record /\ set'[n].lid = set[n].lid
          /\ recordLid' = recordLid
      BY <1>7, EvictFacts
    <3>2. \/ set'[n].pc = "take" /\ set'[n].port = set[n].port + 1
          \/ set'[n].pc = "enter" /\ set'[n].port = set[n].port
      BY <1>7, EvictFacts
    <3>3. \/ /\ Entry[set[n].lid] \in Ports /\ Entry[set[n].lid] # Turn(n)
             /\ n \in Hcas \/ Entry[set[n].lid][1] # n
             /\ baseLid' = [baseLid EXCEPT ![Entry[set[n].lid]] = 0]
          \/ baseLid' = baseLid
      BY <1>7, EvictFacts
    <3> QED
      BY <3>1, <3>2, <3>3
  <2>2. baseLid' = baseLid
    <3> SUFFICES ASSUME NEW o \in Ports, o = Entry[l], o # turn, n \in Hcas \/ o[1] # n,
                        baseLid' = [baseLid EXCEPT ![o] = 0]
                 PROVE  baseLid[o] = 0
      <4>1. baseLid \in [Ports -> 0 .. MaxLid]
        BY DEF LidTypes
      <4>2. CASE baseLid' = baseLid
        BY <4>2
      <4>3. CASE \E o \in Ports : /\ o = Entry[l] /\ o # turn /\ (n \in Hcas \/ o[1] # n)
                                  /\ baseLid' = [baseLid EXCEPT ![o] = 0]
        BY <4>1, <4>3
      <4> QED
        BY <2>1, <4>2, <4>3
    <3>1. /\ o[1] \in Hcas /\ baseLid[o] \in {0, l}
      <4>1. CASE o[1] # n
        BY <1>2, <1>3, <4>1 DEF Foreign
      <4>2. CASE o[1] = n
        <5>1. o \in PortsOf(n) /\ n \in Hcas
          BY <4>2, PortFacts
        <5> QED
          BY <1>2, <1>3, <2>1, <4>2, <5>1 DEF HcaPorts
      <4> QED
        BY <4>1, <4>2
    <3>2. o \in Records /\ o # rec
      <4>1. n \in Hcas => rec = turn
        BY <1>2
      <4>2. n \notin Hcas => o[1] # n
        OBVIOUS
      <4> QED
        BY <3>1, <4>1, <4>2, RecordFacts
    <3>3. recordLid[o] # l
      BY <1>2, <3>2 DEF Unshared
    <3>4. CASE recordLid[o] = baseLid[o]
      BY <3>1, <3>3, <3>4
    <3>5. CASE recordLid[o] # baseLid[o]
      <4>1. set[o[1]].record = o
        BY <3>2, <3>5 DEF Agree
      <4>2. o[1] # n
        BY <3>2, <4>1
      <4>3. PICK m \in Nodes : m = o[1] /\ m # n
        BY <4>2, PortFacts
      <4>4. m \in Busy
        BY <4>1, <4>3, PortFacts DEF Places, NoSet
      <4>5. l \in InHand[m]
        BY <4>3, HandNow
      <4> QED
        BY <1>2, <4>3, <4>4, <4>5 DEF Apart
    <3> QED
      BY <3>4, <3>5
  <2>3. Agree'
    <3> SUFFICES ASSUME NEW q \in Records, NEW p \in Ports, q = p \/ (q[2] = 0 /\ p[1] = q[1])
                 PROVE  \/ recordLid[q] = baseLid[p]
                        \/ set'[q[1]].record = q /\ (p[2] < set'[q[1]].port
                             \/ (p[2] = set'[q[1]].port /\ set'[q[1]].pc # "take"))
      BY <2>1, <2>2 DEF Agree
    <3>1. CASE q[1] = n
      <4>1. /\ p[2] \in Nat /\ set[n].port \in Nat
            /\ \/ recordLid[q] = baseLid[p]
               \/ set[n].record = q /\ (p[2] < set[n].port \/ p[2] = set[n].port)
        BY <1>4, <3>1
      <4> QED
        BY <2>1, <3>1, <4>1
    <3>2. CASE q[1] # n
      BY <1>4, <2>1, <3>2
    <3> QED
      BY <3>1, <3>2
  <2>4. Unshared'
    <3> SUFFICES ASSUME NEW m \in Busy, NEW q \in Records, q # set'[m].record
                 PROVE  recordLid[q] # set'[m].lid
      BY <2>1 DEF Unshared
    <3>1. m \in Nodes /\ set'[m].record = set[m].record /\ set'[m].lid = set[m].lid
      BY <2>1 DEF Busy
    <3> QED
      BY <3>1 DEF Unshared
  <2> QED
    BY <2>3, <2>4
<1>8. CASE EnterLid(n)
  <2>1. /\ set[n].pc = "enter" /\ Busy' = Busy \ {n} /\ set'[n] = NoSet
        /\ \A m \in Nodes : m # n => set'[m] = set[m]
        /\ n \in Switches => set[n].port = NumPorts[n]
        /\ baseLid' = baseLid /\ recordLid' = [recordLid EXCEPT ![rec] = l]
    BY <1>8, EnterFacts
  <2>2. recordLid'[rec] = l /\ \A q \in Records : q # rec => recordLid'[q] = recordLid[q]
    BY <2>1 DEF LidTypes
  <2>3. Agree'
    <3> SUFFICES ASSUME NEW q \in Records, NEW p \in Ports, q = p \/ (q[2] = 0 /\ p[1] = q[1])
                 PROVE  \/ recordLid'[q] = baseLid[p]
                        \/ set'[q[1]].record = q /\ (p[2] < set'[q[1]].port
                             \/ (p[2] = set'[q[1]].port /\ set'[q[1]].pc # "take"))
      BY <2>1 DEF Agree
    <3>1. CASE q = rec /\ n \in Hcas
      <4>1. p = turn /\ turn \in PortsOf(n)
        BY <1>4, <3>1, PortFacts
      <4>2. baseLid[turn] = l
        BY <1>3, <2>1, <3>1, <4>1 DEF HcaPorts
      <4> QED
        BY <2>2, <3>1, <4>1, <4>2
    <3>2. CASE q = rec /\ n \in Switches
      <4>1. p[1] = n /\ p = <<p[1], p[2]>> /\ p[2] \in 1 .. NumPorts[p[1]]
        BY <1>4, <3>2, PortFacts
      <4>2. NumPorts[n] \in Nat \ {0}
        BY PortFacts
      <4>3. \A j \in 1 .. NumPorts[n] : baseLid[<<n, j>>] = l
        <5>1. \A j \in 1 .. NumPorts[n] :
                j < set[n].port \/ j = set[n].port => baseLid[<<n, j>>] = l
          BY <1>3, <2>1, <3>2 DEF SwitchPorts
        <5> QED
          BY <2>1, <3>2, <4>2, <5>1
      <4> QED
        BY <2>2, <3>2, <4>1, <4>3
    <3>3. CASE q # rec /\ q[1] = n
      BY <1>4, <2>2, <3>3
    <3>4. CASE q # rec /\ q[1] # n
      BY <1>4, <2>1, <2>2, <3>4
    <3> QED
      BY <3>1, <3>2, <3>3, <3>4 DEF Nodes
  <2>4. Unshared'
    <3> SUFFICES ASSUME NEW m \in Busy', NEW q \in Records, q # set'[m].record
                 PROVE  recordLid'[q] # set'[m].lid
      BY DEF Unshared
    <3>1. m \in Busy /\ m # n /\ m \in Nodes /\ set'[m] = set[m]
      BY <2>1 DEF Busy
    <3>2. recordLid[q] # set[m].lid
      BY <3>1 DEF Unshared
    <3>3. l # set[m].lid
      <4>1. set[m].pc # "idle"
        BY <3>1 DEF Busy
      <4>2. set[m].lid \in InHand[m]
        BY <3>1, <4>1, SetFacts
      <4>3. InHand[m] \cap InHand[n] = {}
        BY <1>2, <3>1 DEF Apart
      <4> QED
        BY <1>2, <4>2, <4>3
    <3> QED
      BY <2>2, <3>1, <3>2, <3>3
  <2> QED
    BY <2>3, <2>4
<1> QED
  BY <1>5, <1>6, <1>7, <1>8

-----------------------------------------------------------------------------
(* The theorems *)

\* Every step keeps the invariant.
LEMMA LidStep == LidInv /\ [Next]_vars => LidInv'
<1> SUFFICES ASSUME LidInv, [Next]_vars PROVE LidInv'
  OBVIOUS
<1>1. LidTypes /\ Places /\ MapInv /\ RecordInv
  BY DEF LidInv
<1>2. ASSUME NEW n \in Nodes, NEW r \in Records, NEW l \in 1 .. MaxLid, SetLid(n, r, l)
      PROVE  LidInv'
  <2>1. LidTypes' /\ Places' /\ marred' = marred \cup Marks(n, r, l)
    BY <1>1, <1>2, SetLidFacts
  <2>2. MapInv'
    <3> SUFFICES ASSUME marred' \cap {"raced", "robbed"} = {}
                 PROVE  Apart' /\ Settled' /\ OwnPorts'
      BY DEF MapInv
    <3>1. /\ marred \cap {"raced", "robbed"} = {}
          /\ Marks(n, r, l) \cap {"raced", "robbed"} = {}
      BY <2>1
    <3> QED
      BY <1>1, <1>2, <3>1, SetLidMap DEF MapInv
  <2>3. RecordInv'
    <3> SUFFICES ASSUME marred' \cap {"raced", "shared"} = {}
                 PROVE  "robbed" \notin marred' /\ Agree' /\ Unshared'
      BY DEF RecordInv
    <3>1. /\ marred \cap {"raced", "shared"} = {}
          /\ Marks(n, r, l) \cap {"raced", "shared"} = {}
      BY <2>1
    <3>2. /\ "robbed" \notin marred /\ Agree /\ Unshared
          /\ Apart /\ Settled /\ OwnPorts
      BY <1>1, <3>1 DEF RecordInv, MapInv
    <3>3. "robbed" \notin Marks(n, r, l) /\ Agree' /\ Unshared'
      BY <1>1, <1>2, <3>1, <3>2, SetLidRecord
    <3> QED
      BY <2>1, <3>2, <3>3
  <2> QED
    BY <2>1, <2>2, <2>3 DEF LidInv
<1>3. ASSUME NEW n \in Nodes, TakeLid(n) \/ ClearEntry(n) \/ EvictOwner(n) \/ EnterLid(n)
      PROVE  LidInv'
  <2>1. LidTypes' /\ Places' /\ marred \subseteq marred' /\ marred' \subseteq marred \cup {"torn"}
    <3>1. CASE TakeLid(n)
      BY <1>1, <3>1, TakeFacts
    <3>2. CASE ClearEntry(n)
      BY <1>1, <3>2, ClearFacts
    <3>3. CASE EvictOwner(n)
      <4>1. LidTypes' /\ Places' /\ marred' = marred
        BY <1>1, <3>3, EvictFacts
      <4> QED
        BY <4>1
    <3>4. CASE EnterLid(n)
      BY <1>1, <3>4, EnterFacts
    <3> QED
      BY <1>3, <3>1, <3>2, <3>3, <3>4
  <2>2. MapInv'
    <3> SUFFICES ASSUME marred' \cap {"raced", "robbed"} = {}
                 PROVE  Apart' /\ Settled' /\ OwnPorts'
      BY DEF MapInv
    <3>1. Apart /\ Settled /\ OwnPorts
      BY <1>1, <2>1 DEF MapInv
    <3> QED
      BY <1>1, <1>3, <3>1, TakeMap, ClearMap, EvictMap, EnterMap
  <2>3. RecordInv'
    <3> SUFFICES ASSUME marred' \cap {"raced", "shared"} = {}
                 PROVE  "robbed" \notin marred' /\ Agree' /\ Unshared'
      BY DEF RecordInv
    <3>1. /\ "robbed" \notin marred /\ Agree /\ Unshared
          /\ Apart /\ Settled /\ OwnPorts
      BY <1>1, <2>1 DEF RecordInv, MapInv
    <3>2. Agree' /\ Unshared'
      BY <1>1, <1>3, <3>1, StepRecord
    <3> QED
      BY <2>1, <3>1, <3>2
  <2> QED
    BY <2>1, <2>2, <2>3 DEF LidInv
<1>4. CASE UNCHANGED vars
  <2>1. /\ LidTypes' <=> LidTypes
        /\ Busy' = Busy /\ Entry' = Entry /\ InHand' = InHand
    BY <1>4 DEF vars, LidTypes, Busy, Entry, InHand, Touched, LidsOf
  <2>2. Sound' = Sound
    BY <1>4, <2>1 DEF vars, Sound, Foreign, HcaPorts, SwitchPorts, Turn
  <2>3. Places' <=> Places
    BY <1>4, <2>1 DEF vars, Places, Turn, InTable, LastPort
  <2>4. MapInv' <=> MapInv
    BY <1>4, <2>1, <2>2 DEF vars, MapInv, Apart, Settled, OwnPorts
  <2>5. RecordInv' <=> RecordInv
    BY <1>4, <2>1 DEF vars, RecordInv, Agree, Unshared
  <2> QED
    BY <1>1, <2>1, <2>3, <2>4, <2>5 DEF LidInv
<1> QED
  BY <1>2, <1>3, <1>4, Zenon DEF Next

\* The invariant of the Sets, at every state.
THEOREM LidMapCorrect == Spec => []LidInv
  BY LidInit, LidStep, PTL DEF Spec

\* The table of ports by LID is the inverse of the LIDs of the ports whenever no Set is in
\* progress, however many ran at once, unless two of them touched one LID or a switch lost
\* its LID to another node.
THEOREM MapIsInverse == Spec => []MapInverse
<1>1. LidInv => MapInverse
  <2> SUFFICES ASSUME LidInv, Quiet, marred \cap {"raced", "robbed"} = {}
               PROVE
    /\ \A l \in 1 .. MaxLid, n \in Nodes :
         (\E p \in PortsOf(n) : baseLid[p] = l) <=>
           (l \in DOMAIN portByLid /\ portByLid[l] \in PortsOf(n) /\ baseLid[portByLid[l]] = l)
    /\ \A l \in DOMAIN portByLid, p \in Ports :
         p[1] \in Hcas /\ l # 0 => (portByLid[l] = p <=> baseLid[p] = l)
    /\ \A s \in Switches : Cardinality({baseLid[p] : p \in PortsOf(s)}) = 1
    BY DEF MapInverse
  <2>1. Busy = {} /\ LidTypes /\ Settled /\ OwnPorts
    BY DEF Quiet, At, Busy, LidInv, MapInv
  <2>2. ASSUME NEW x \in Nat \ {0}, NEW p \in Ports
        PROVE  /\ Entry[x] = p => baseLid[p] = x
               /\ baseLid[p] = x => Entry[x] \in PortsOf(p[1]) /\ (p[1] \in Hcas => Entry[x] = p)
    BY <2>1 DEF Settled
  <2>3. \A x \in Nat : Entry[x] = IF x \in DOMAIN portByLid THEN portByLid[x] ELSE NoPort
    BY <2>1, EntryFacts
  <2>4. ASSUME NEW l \in 1 .. MaxLid, NEW n \in Nodes
        PROVE  (\E p \in PortsOf(n) : baseLid[p] = l) <=>
                 (l \in DOMAIN portByLid /\ portByLid[l] \in PortsOf(n) /\ baseLid[portByLid[l]] = l)
    <3>1. l \in Nat \ {0}
      BY LidMapAssumption
    <3>2. ASSUME NEW p \in PortsOf(n), baseLid[p] = l
          PROVE  l \in DOMAIN portByLid /\ portByLid[l] \in PortsOf(n) /\ baseLid[portByLid[l]] = l
      <4>1. p \in Ports /\ p[1] = n
        BY PortFacts
      <4>2. Entry[l] \in PortsOf(n)
        BY <2>2, <3>1, <3>2, <4>1
      <4>3. NoPort \notin PortsOf(n) /\ Entry[l] \in Ports
        BY <4>2, PortFacts
      <4> QED
        BY <2>2, <2>3, <3>1, <4>2, <4>3
    <3> QED
      BY <3>2
  <2>5. ASSUME NEW l \in DOMAIN portByLid, NEW p \in Ports, p[1] \in Hcas, l # 0
        PROVE  portByLid[l] = p <=> baseLid[p] = l
    <3>1. l \in Nat \ {0}
      BY <2>1, <2>5 DEF LidTypes
    <3> QED
      BY <2>2, <2>3, <2>5, <3>1
  <2>6. ASSUME NEW s \in Switches
        PROVE  Cardinality({baseLid[p] : p \in PortsOf(s)}) = 1
    <3>1. s \in Nodes
      BY DEF Nodes
    <3>2. <<s, 1>> \in PortsOf(s)
      BY <3>1, PortFacts
    <3>3. \A p \in PortsOf(s) : baseLid[p] = baseLid[<<s, 1>>]
      BY <2>1, <3>2 DEF OwnPorts
    <3>4. {baseLid[p] : p \in PortsOf(s)} = {baseLid[<<s, 1>>]}
      BY <3>2, <3>3
    <3> QED
      BY <3>4, FS_Singleton
  <2> QED
    BY <2>4, <2>5, <2>6
<1> QED
  BY <1>1, LidMapCorrect, PTL

\* The LID in the record of a port is the LID of the port whenever no Set is in progress,
\* as long as no two Sets touched one LID and none was given to a port while another had it.
THEOREM RecordsAgree == Spec => []RecordAgrees
<1>1. LidInv => RecordAgrees
  <2> SUFFICES ASSUME LidInv, Quiet, marred \cap {"raced", "shared"} = {},
                      NEW r \in Records, NEW p \in Ports, r = p \/ (r[2] = 0 /\ p[1] = r[1])
               PROVE  recordLid[r] = baseLid[p]
    BY DEF RecordAgrees
  <2>1. r[1] \in Nodes /\ r # NoPort
    BY RecordFacts, PortFacts
  <2>2. Agree /\ Places /\ Busy = {}
    BY DEF Quiet, At, Busy, LidInv, RecordInv
  <2>3. set[r[1]].record # r
    BY <2>1, <2>2 DEF Places, NoSet
  <2> QED
    BY <2>2, <2>3 DEF Agree
<1> QED
  BY <1>1, LidMapCorrect, PTL

===============================================================================
