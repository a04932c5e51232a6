-------------------------- MODULE MCOrderLifecycle --------------------------
(* A small instance of OrderLifecycle for TLC. *)
EXTENDS OrderLifecycle, TLC

Symmetry == Permutations(Orders) \cup Permutations(Staff) \cup Permutations(Hooks)
=============================================================================
