SPECIFICATION Spec
CONSTANTS
  x1 = x1  x2 = x2  x3 = x3  c1 = c1  d1 = d1  d2 = d2
  None = None
  Externals = {x1, x2, c1}
  CronRuns = {c1}
  DeviceRuns = {d1}
  MaxSlots = 2
  MaxStarts = 4
  MayLose = FALSE
  MayAge = FALSE
  MayAbort = FALSE
CHECK_DEADLOCK FALSE
SYMMETRY Symmetry
INVARIANT TypeOK
INVARIANT SlotsDistinct
INVARIANT CountCovers
INVARIANT BusyWhileTracked
INVARIANT IdleWhenAllEnded
PROPERTY EvictedAreOldest
