\* SQLite: two requests over three endpoints, batches of two, and a lookup.
SPECIFICATION LookupSpec
CONSTANTS
  Sessions = {s1, s2}
  MaxId = 3
  MaxBatch = 2
  Serialized = TRUE
INVARIANTS AtMostOneDefault LookupFailsOnlyIfAsked
PROPERTIES DeleteHandsDefaultOn
CHECK_DEADLOCK FALSE
