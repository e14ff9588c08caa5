SPECIFICATION FairUpSpec
CONSTANTS
  Paths = {1}
  Devices = {"cpe1"}
  DeviceOf <- OneDevice
  PerFile = 2
  MaxDeferTicks = 1
  ResolveRetryTicks = 2
  MaxParseRetries = 2
  RewriteCheckTicks = 2
  EventLimit = 1
  LedgerModes = {TRUE}
  MaxVer = 1
  MaxFaults = 1
  MaxCrashes = 1
  MaxAtc = 0
  Sizes = {2, 5}
  Rejectable = {FALSE, TRUE}
  MaxBytes = 4
  DrainLimit = 2
  Attempts = 1
  MaxRows = 8
  MaxOutages = 1
  MaxDelFaults = 0
  MaxMetrics = 1
INVARIANTS LinkOK RecordedIsCarried LinesInOrder
PROPERTY EventuallyArrives
