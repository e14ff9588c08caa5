SPECIFICATION FairSpec
CONSTANTS
  Paths = {1}
  Devices = {"cpe1"}
  DeviceOf <- OneDevice
  PerFile = 2
  MaxDeferTicks = 1
  ResolveRetryTicks = 2
  MaxParseRetries = 2
  RewriteCheckTicks = 2
  EventLimit = 1
  LedgerModes = {TRUE, FALSE}
  MaxVer = 2
  MaxFaults = 2
  MaxCrashes = 1
  MaxAtc = 0
INVARIANTS TypeOK MarkedIsQueued SeenAccounted
PROPERTIES NoReparse EventuallyIngested
