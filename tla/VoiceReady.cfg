SPECIFICATION AssistantFairSpec
CONSTANTS
  main = main  knob = knob
  r1 = r1  r2 = r2  e1 = e1
  None = None
  Tasks <- TheTasks
  Requests <- TwoRequests
  Externals = {}
  MaxAborts = 3
  MaxDrops = 0
  MaxRejects = 0
  MayFail = FALSE
  Inputs = {"wake", "cancel", "touch", "play", "details"}
  MaxInputs = 3
  AutoRead = TRUE
  MayOutrun = FALSE
CHECK_DEADLOCK FALSE
PROPERTY ReadyAgain
