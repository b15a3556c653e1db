SPECIFICATION Spec
CONSTANTS
  r1 = r1
  r2 = r2
  w1 = w1
  w2 = w2
  NoMessage = NoMessage
  Req = {r1}
  Reader = {w1}
  Message <- MCMessage
  MaxOutputs <- MCMaxOutputs
  MaxFaults = 1
PROPERTIES
  StopReturns
CHECK_DEADLOCK FALSE
