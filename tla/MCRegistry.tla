------------------------------ MODULE MCRegistry ------------------------------
(* Registry for TLC. *)
EXTENDS Registry, TLC

Symmetry == Permutations(ProviderNames) \cup Permutations(ProviderIDs)
              \cup Permutations(Selections) \cup Permutations(URLs)
=============================================================================
