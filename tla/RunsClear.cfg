SPECIFICATION FairSpec
CONSTANTS
  x1 = x1  x2 = x2  x3 = x3  c1 = c1  d1 = d1  d2 = d2
  None = None
  Externals = {x1, c1}
  CronRuns = {c1}
  DeviceRuns = {d1}
  MaxSlots = 1
  MaxStarts = 3
  MayLose = TRUE
  MayAge = TRUE
  MayAbort = TRUE
CHECK_DEADLOCK FALSE
PROPERTY ActivityClears
