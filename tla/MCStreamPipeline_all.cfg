\* One stream of three events, over a route that sends [DONE] or one that
\* releases early, next to a counted call and one that is not.
SPECIFICATION Spec
CONSTANTS
  Streams = {s1}
  Calls = {c1, c2}
  Routes <- TwoRoutes
  CountedCalls = {c1}
  MaxEvents = 3
INVARIANTS WireIsWellFormed DoneMeansAll StuckOnlyIfCut ErrorIsReported GaugeCounts
PROPERTIES RequestEnds
CHECK_DEADLOCK FALSE
