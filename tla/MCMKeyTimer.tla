------------------------------ MODULE MCMKeyTimer ------------------------------
(* Two nodes with one port each. *)
EXTENDS MKeyTimer, TLC

CONSTANTS n1, n2, p1, p2

MCNodes == {n1, n2}
MCPorts == {p1, p2}
MCNodeOf == (p1 :> n1) @@ (p2 :> n2)
================================================================================
