\* A request, the worker and main over a midnight.
SPECIFICATION ShutdownSpec
CONSTANTS
  r1 = r1
  main = main
  worker = worker
  app = app
  gin = gin
  svc = svc
  Requests <- MCRequests
  Goroutines <- MCGoroutines
  Lasting <- MCLasting
  Derived <- MCRequests
  MaxDay = 1
INVARIANTS
  DatabaseOutlivesItsUsers
PROPERTIES
  LostOnlyAtMidnight
  ShutdownEnds
CHECK_DEADLOCK FALSE
