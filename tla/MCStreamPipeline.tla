--------------------------- MODULE MCStreamPipeline ---------------------------
(* Model-checking instances of StreamPipeline. *)
EXTENDS StreamPipeline

\* The two ways in which the stream handlers differ: who sends [DONE], and who
\* releases the connection after a panic.
TwoRoutes == {[protocol |-> "chat", mode |-> "native"],
              [protocol |-> "anthropic", mode |-> "compat"]}
=============================================================================
