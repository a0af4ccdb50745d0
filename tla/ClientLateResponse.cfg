SPECIFICATION Spec
CONSTANTS
  main = main  knob = knob  serial = serial
  r1 = r1  r2 = r2  r3 = r3  e1 = e1
  None = None
  Tasks = {main}
  Requests <- TwoRequests
  Externals = {}
  MaxAborts = 1
  MaxDrops = 0
  MaxRejects = 0
  MayFail = FALSE
CHECK_DEADLOCK FALSE
PROPERTY LateResponseIgnored
