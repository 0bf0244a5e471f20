\* One request at a time, two failing statements or crashes.
SPECIFICATION Spec
CONSTANTS
  Sessions = {s1}
  Models = {m1, m2, m3}
  Keys = {k1, k2}
  NoKey = NoKey
  MaxBatch = 3
  MaxFaults = 2
SYMMETRY Symmetry
INVARIANTS TablesAgree
PROPERTIES FailedDeleteRestores
CHECK_DEADLOCK FALSE
