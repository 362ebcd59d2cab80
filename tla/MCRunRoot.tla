----------------------------- MODULE MCRunRoot -----------------------------
(* Model values and symmetry for checking RunRoot on small instances.      *)
EXTENDS RunRoot, TLC

\* Launches of the vm_id and m80 processes are interchangeable.
Symmetry == Permutations(Handles) \cup Permutations(Procs)
=============================================================================
