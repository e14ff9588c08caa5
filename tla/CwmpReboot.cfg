SPECIFICATION Spec
CONSTANTS
  Callers = {"worker"}
  Kinds = {"spv", "reboot"}
  QueueCap = 3
  ResultsCap = 2
  FirstContact = TRUE
  MaxCalls = 2
  MaxRefresh = 1
  MaxDrops = 2
  MaxLate = 1
  MaxFaults = 1
INVARIANTS TypeOK RebootAtMostOnce
