SPECIFICATION AssistantSpec
CONSTANTS
  main = main  knob = knob
  r1 = r1  r2 = r2  e1 = e1
  None = None
  Tasks <- TheTasks
  Requests = {r1}
  Externals = {}
  MaxAborts = 2
  MaxDrops = 0
  MaxRejects = 0
  MayFail = FALSE
  Inputs = {"click", "touch"}
  MaxInputs = 2
  AutoRead = TRUE
  MayOutrun = FALSE
CHECK_DEADLOCK FALSE
INVARIANT TouchCancels
