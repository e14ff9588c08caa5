SPECIFICATION FairSpec
CONSTANTS
  Callers = {"worker", "collector"}
  Kinds = {"spv", "snapshot"}
  QueueCap = 4
  ResultsCap = 3
  FirstContact = FALSE
  MaxCalls = 3
  MaxRefresh = 0
  MaxDrops = 1
  MaxLate = 0
  MaxFaults = 0
INVARIANTS OwnAnswer AwaitedIsKept
PROPERTY EventuallyExecuted
