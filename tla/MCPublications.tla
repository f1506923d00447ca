--------------------------- MODULE MCPublications ---------------------------
(* TLC instances of Publications. *)
EXTENDS Publications, TLC

Symmetry == Permutations(Callers) \cup Permutations(Keys)
==============================================================================
