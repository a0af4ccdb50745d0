SPECIFICATION Spec
CONSTANTS
  main = main  knob = knob  serial = serial
  r1 = r1  r2 = r2  r3 = r3  e1 = e1
  None = None
  Tasks = {main, serial}
  Requests <- TwoRequests
  Externals = {e1}
  MaxAborts = 1
  MaxDrops = 1
  MaxRejects = 0
  MayFail = TRUE
CHECK_DEADLOCK FALSE
SYMMETRY Symmetry
INVARIANT TypeOK
INVARIANT AtMostOneAnswer
INVARIANT CallbackMeansBusy
PROPERTY AbandonedStaysSilent
