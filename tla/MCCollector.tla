----------------------------- MODULE MCCollector -----------------------------
EXTENDS Collector, TLC

CONSTANTS r1, r2, r3
==============================================================================
