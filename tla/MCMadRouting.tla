------------------------------ MODULE MCMadRouting ------------------------------
(* Small fabrics of two switches with an HCA each. *)
EXTENDS MadRouting, TLC

CONSTANTS s1, s2, h1, h2

\* Each cable once, then from its other end too.
BothWays(c) == c @@ [q \in {c[p] : p \in DOMAIN c} |-> CHOOSE p \in DOMAIN c : c[p] = q]

\* An HCA at each of two switches.
LineCable ==
  BothWays((<<h1, 1>> :> <<s1, 1>>) @@ (<<h2, 1>> :> <<s2, 1>>) @@ (<<s1, 2>> :> <<s2, 2>>))

\* Two cables between the switches, with other numbers at each end.
LoopCable ==
  BothWays((<<h1, 1>> :> <<s1, 1>>) @@ (<<h2, 1>> :> <<s2, 1>>) @@
           (<<s1, 2>> :> <<s2, 3>>) @@ (<<s1, 3>> :> <<s2, 2>>))

\* A cable from a switch back to itself.
SelfCable ==
  BothWays((<<h1, 1>> :> <<s1, 1>>) @@ (<<s1, 2>> :> <<s1, 3>>) @@ (<<h2, 1>> :> <<s2, 1>>))

\* An HCA at one of two switches with two cables between them.
TwinCable ==
  BothWays((<<h1, 1>> :> <<s1, 1>>) @@ (<<s1, 2>> :> <<s2, 2>>) @@ (<<s1, 3>> :> <<s2, 3>>) @@
           (<<h2, 1>> :> <<s2, 1>>))

Fabrics == {LineCable, SelfCable, LoopCable, TwinCable}
Loop == {LoopCable}
Still == {LineCable, SelfCable}

MCLidOf ==
  [p \in (Hcas \X {1}) \cup (Switches \X {0}) |->
     CASE p[1] = h1 -> 1 [] p[1] = h2 -> 2 [] p[1] = s1 -> 3 [] p[1] = s2 -> 4]

\* Every forwarding table there is, with entries for ports without a cable too; for the
\* twin cables tables that lead to h1, to h2 or round in circles.  MADs by LID that find
\* nothing are enough on the fabric of the directed routes.
MCTables ==
  [c \in Fabrics |->
     CASE c \in Still -> [Switches -> [Lids -> PortNums \cup {0, Unassigned}]]
       [] c = TwinCable -> {[s \in Switches |-> [l \in Lids |-> IF s = s1 THEN a ELSE b]] : a, b \in {1, 2, 3}}
       [] OTHER -> {[s \in Switches |-> [l \in Lids |-> Unassigned]]}]

MCLinkStates ==
  [c \in Fabrics |->
     IF c \in Still THEN {"down", "init", "active"} ELSE {"down", "active"}]

MCMaxPath == [c \in Fabrics |-> IF c = LoopCable THEN 3 ELSE 0]
================================================================================
