SPECIFICATION AssistantSpec
CONSTANTS
  main = main  knob = knob
  r1 = r1  r2 = r2  e1 = e1
  None = None
  Tasks <- TheTasks
  Requests = {r1}
  Externals = {e1}
  MaxAborts = 0
  MaxDrops = 1
  MaxRejects = 1
  MayFail = TRUE
  Inputs = {"wake", "cancel"}
  MaxInputs = 2
  AutoRead = TRUE
  MayOutrun = TRUE
CHECK_DEADLOCK FALSE
INVARIANT CancelHonoured
