\* Two requests interleave, no statement fails.
SPECIFICATION Spec
CONSTANTS
  Sessions = {s1, s2}
  Models = {m1, m2}
  Keys = {k1, k2}
  NoKey = NoKey
  MaxBatch = 2
  MaxFaults = 0
SYMMETRY Symmetry
INVARIANTS KeylessAreHeld DeletedStaysDeleted
CHECK_DEADLOCK FALSE
