----------------------------- MODULE MCBatchTask -----------------------------
(* BatchTask on small instances: the cfg files give the bounds. *)
EXTENDS BatchTask
=============================================================================
