\* Three requests on a ring of three seconds while the clock runs for seven.
SPECIFICATION FairSpec
CONSTANTS
  r1 = r1
  r2 = r2
  r3 = r3
  Requests = {r1, r2, r3}
  Window = 3
  MaxTime = 7
  MaxBack = 2
INVARIANTS
  RingInv
PROPERTIES
  RingCatchesUp
CHECK_DEADLOCK FALSE
