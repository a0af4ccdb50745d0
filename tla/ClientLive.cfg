SPECIFICATION FairSpec
CONSTANTS
  main = main  knob = knob  serial = serial
  r1 = r1  r2 = r2  r3 = r3  e1 = e1
  None = None
  Tasks = {main}
  Requests <- TwoRequests
  Externals = {}
  MaxAborts = 0
  MaxDrops = 3
  MaxRejects = 2
  MayFail = FALSE
CHECK_DEADLOCK FALSE
INVARIANT OwnAnswer
INVARIANT OneInFlight
PROPERTY Answered
PROPERTY Reconnects
