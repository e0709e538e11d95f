----------------------------- MODULE MCLiveConfig -----------------------------
(* LiveConfig for TLC. *)
EXTENDS LiveConfig, TLC

Symmetry == Permutations(PoolIDs)
=============================================================================
