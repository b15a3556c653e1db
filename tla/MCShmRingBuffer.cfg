SPECIFICATION Spec
CONSTANTS
  NReader = 3
  MaxChunks = 2
  MaxMessages = 4
INVARIANTS
  RingTypeOK
  NoTornRead
PROPERTIES
  ImplementsBroadcast
  EnqueueReturns
CHECK_DEADLOCK FALSE
