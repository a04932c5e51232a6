---------------------------- MODULE MCAccountData ----------------------------
(* A small instance of AccountData for TLC. *)
EXTENDS AccountData, TLC

Symmetry == Permutations(Workers)
=============================================================================
