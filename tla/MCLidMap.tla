-------------------------------- MODULE MCLidMap --------------------------------
(* A small fabric: every node has two ports. *)
EXTENDS LidMap, TLC

CONSTANTS s1, s2, h1

MCNumPorts == [n \in Nodes |-> 2]

SwitchSymmetry == Permutations(Switches)
=================================================================================
