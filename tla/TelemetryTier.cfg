SPECIFICATION FairSpec
CONSTANTS
  Alarms = {"a", "b", "c"}
  Tables <- FiveTables
  None = None
  MaxAlarmRows = 2
  QueueCap = 1
  MaxEvents = 3
  MaxTroubles = 1
INVARIANTS TypeOK SampleIsOneRead PctAtMost100
PROPERTY EventuallyReported
