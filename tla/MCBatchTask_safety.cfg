\* Three tasks through a channel of two: requests can be rejected and a
\* restart can find more unfinished rows than fit.
SPECIFICATION Spec
CONSTANTS
  MaxTasks = 3
  QueueSize = 2
  MaxBoots = 2
  Readers = {r1}
  Faulty = {1}
  PollAnyId = TRUE
INVARIANTS QueueDiscipline EffectAccounting NoLostTask CacheHonest
PROPERTIES ImplementsLedger
CHECK_DEADLOCK FALSE
