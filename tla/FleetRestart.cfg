SPECIFICATION Spec
CONSTANTS
  Devices = {d1, d2}
  Hosts = {h1, h2}
  None = None
  QueueCap = 1
  MaxSessionTasks = 2
  MaxRestarts = 1
  MaxDrops = 1
INVARIANT IsolatedBehindOneIP
