------------------------------ MODULE MCSimServer ------------------------------
(* Small instances of the server; the identities are interchangeable. *)
EXTENDS SimServer, TLC

Symmetry ==
  Permutations(Threads) \cup Permutations(Socks) \cup Permutations(Conns)
    \cup Permutations(Workers)
================================================================================
