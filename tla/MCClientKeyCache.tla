--------------------------- MODULE MCClientKeyCache ---------------------------
(* ClientKeyCache with two keys, two requests and two admins. *)
EXTENDS ClientKeyCache, TLC

Symmetry == Permutations(Keys) \cup Permutations(Requests) \cup Permutations(Admins)
=============================================================================
