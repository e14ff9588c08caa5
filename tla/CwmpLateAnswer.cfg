SPECIFICATION Spec
CONSTANTS
  Callers = {"worker"}
  Kinds = {"spv", "query"}
  QueueCap = 3
  ResultsCap = 3
  FirstContact = FALSE
  MaxCalls = 2
  MaxRefresh = 0
  MaxDrops = 1
  MaxLate = 1
  MaxFaults = 0
INVARIANTS OwnAnswer
