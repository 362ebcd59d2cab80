----------------------------- MODULE MCWarmPool -----------------------------
(* Model values and symmetry for checking WarmPool on small instances.     *)
EXTENDS WarmPool, TLC

\* Callers, workers, slots and CPU ranges are interchangeable.
Symmetry == Permutations(Callers) \cup Permutations(Workers)
              \cup Permutations(Slots) \cup Permutations(Ranges)
=============================================================================
