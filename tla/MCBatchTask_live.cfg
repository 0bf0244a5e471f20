\* No database failures and a channel that fits every row; polling only ids
\* that were handed out.
SPECIFICATION FairSpec
CONSTANTS
  MaxTasks = 3
  QueueSize = 3
  MaxBoots = 3
  Readers = {r1}
  Faulty = {}
  PollAnyId = FALSE
INVARIANTS FinishedIsReported
PROPERTIES AcceptedTaskFinishes
CHECK_DEADLOCK FALSE
