---------------------------- MODULE MCStatistics ----------------------------
EXTENDS Statistics

CONSTANTS m1, unknown, none, null, any, p1, p2

(* A success with a total, one whose provider gave only a part and whose    *)
(* request had no model name, and a failure that left no tokens.            *)
MCRows ==
  {[ok |-> TRUE, model |-> m1, platform |-> p1,
    prompt |-> 1, completion |-> 2, total |-> 3, firstByte |-> 4],
   [ok |-> TRUE, model |-> none, platform |-> p2,
    prompt |-> 2, completion |-> null, total |-> null, firstByte |-> 9],
   [ok |-> FALSE, model |-> unknown, platform |-> p2,
    prompt |-> null, completion |-> null, total |-> null, firstByte |-> null]}

(* A range that leaves logs behind, and one of several points.              *)
MCRanges == {[granularity |-> 2, points |-> 1], [granularity |-> 2, points |-> 2]}
=============================================================================
