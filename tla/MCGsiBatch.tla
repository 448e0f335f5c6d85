------------------------------ MODULE MCGsiBatch ------------------------------
(* Small instances of the synchronous MAD batches. *)
EXTENDS GsiBatch, TLC

ThreadSymmetry == Permutations(Workers) \cup Permutations(Addrs)
===============================================================================
