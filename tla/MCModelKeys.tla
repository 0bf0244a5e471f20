----------------------------- MODULE MCModelKeys -----------------------------
(* ModelKeys on small instances: ids of one kind and sessions are alike. *)
EXTENDS ModelKeys, TLC

Symmetry == Permutations(Models) \cup Permutations(Keys) \cup Permutations(Sessions)
=============================================================================
