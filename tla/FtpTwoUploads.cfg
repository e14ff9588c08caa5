SPECIFICATION Spec
CONSTANTS
  Paths = {1, 2}
  Devices = {"cpe1"}
  DeviceOf <- OneDevice
  PerFile = 2
  MaxDeferTicks = 1
  ResolveRetryTicks = 2
  MaxParseRetries = 2
  RewriteCheckTicks = 2
  EventLimit = 1
  LedgerModes = {TRUE}
  MaxVer = 1
  MaxFaults = 1
  MaxCrashes = 1
  MaxAtc = 1
INVARIANTS MarkedIsQueued AtcAtMostOnce AtcKept
