SPECIFICATION FairSpec
CONSTANTS
  Devices = {d1, d2}
  Hosts = {h1, h2}
  None = None
  QueueCap = 1
  MaxSessionTasks = 2
  MaxRestarts = 1
  MaxDrops = 1
INVARIANTS TypeOK OwnTasksOnly AloneIsNeverAnother RoutedRight
PROPERTY FleetHeals
