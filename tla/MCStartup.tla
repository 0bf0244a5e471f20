------------------------------ MODULE MCStartup ------------------------------
(* Startup on two platforms with two health records each, next to the record *)
(* of a platform that is gone.  Platforms may be permuted.                   *)
EXTENDS Startup, TLC

MCOldHealths == {Platforms \X {1, 2} \cup {<<Ghost, 1>>}}
Symmetry == Permutations(Platforms)
=============================================================================
