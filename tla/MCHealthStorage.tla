--------------------------- MODULE MCHealthStorage ---------------------------
(* The health records on small instances: the cfg gives the bounds.  The    *)
(* properties name no particular resource, so resources may be permuted.    *)
EXTENDS HealthQueries, TLC

Symmetry == Permutations(Resources)
=============================================================================
