------------------------------ MODULE MCShutdown ------------------------------
EXTENDS Shutdown, TLC

CONSTANTS r1

MCRequests == {r1}
MCGoroutines == MCRequests \cup {main, worker}
MCLasting == {app, gin, svc}
=============================================================================
