\* Up to three logs, hours of two ticks, ranges of two hours.
SPECIFICATION Spec
CONSTANTS
  m1 = m1
  unknown = unknown
  none = none
  null = null
  any = any
  p1 = p1
  p2 = p2
  Rows <- MCRows
  Null = null
  Unknown = unknown
  NoName = none
  NoModel = any
  Models = {m1, unknown}
  Hour = 2
  Ranges <- MCRanges
  Durations = {2}
  DefaultDuration = 4
  TopN = 2
  Few = 2
  LowerPercent = 34
  UpperPercent = 67
  PageSize = 2
  Pages = 2
  MaxLogs = 3
  MaxTime = 4
  MaxAge = 1
INVARIANTS
  DashboardInv
  StatusAgreesWithDashboard
  RankInv
  ListCountIsHonest
CHECK_DEADLOCK FALSE
