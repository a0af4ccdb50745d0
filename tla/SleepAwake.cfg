SPECIFICATION SleepSpec
CONSTANTS
  Wakers = {"main", "knob", "gateway"}  HushInSleep = TRUE  MaxPresses = 2
CHECK_DEADLOCK FALSE
INVARIANT AwakeIsWhole
