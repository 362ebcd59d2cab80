---------------------------- MODULE MCNetOutbound ----------------------------
(* NetOutbound for TLC: vm_ids, processes and addresses are interchangeable.  *)
EXTENDS NetOutbound, TLC

Symmetry == Permutations(Vms) \cup Permutations(Procs) \cup Permutations(Addrs)
=============================================================================
