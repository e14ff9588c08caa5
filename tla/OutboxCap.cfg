SPECIFICATION FairSpec
CONSTANTS
  Sizes = {1, 2, 3, 5}
  Rejectable = {FALSE, TRUE}
  MaxBytes = 4
  DrainLimit = 2
  Attempts = 3
  MaxRows = 5
  MaxOutages = 4
  MaxFaults = 1
  MaxCrashes = 1
INVARIANTS TypeOK PayloadUnderCap NothingLost StrictFifo
PROPERTIES ShortestRun DeliversInOrder EventuallyLeaves
