--------------------------- MODULE MCStateStore ---------------------------
(* Instances of StateStore for TLC. *)
EXTENDS StateStore, TLC

CONSTANTS dome, scheduler, t1, t2, k1, k2

\* Threads and keys are interchangeable.
Symmetry == Permutations(Threads) \cup Permutations(Keys)
=============================================================================
