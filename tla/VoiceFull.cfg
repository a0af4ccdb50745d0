SPECIFICATION AssistantSpec
CONSTANTS
  main = main  knob = knob
  r1 = r1  r2 = r2  e1 = e1
  None = None
  Tasks <- TheTasks
  Requests = {r1}
  Externals = {}
  MaxAborts = 3
  MaxDrops = 0
  MaxRejects = 0
  MayFail = FALSE
  Inputs = {"click", "spin", "wake"}
  MaxInputs = 3
  AutoRead = TRUE
  MayOutrun = TRUE
CHECK_DEADLOCK FALSE
INVARIANT AssistantTypeOK
INVARIANT NoChatWhileRecording
