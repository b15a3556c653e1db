SPECIFICATION Spec
CONSTANTS
  NoKey = NoKey
  MaxBlocks = 9
  BlockSize = 2
  ReplayAlignment = 4
  Chunk = 8
  Shares = {6, 7, 8}
  Capacity = 2
  Policy = "admission64"
  RestoreMode = "hybrid64"
  Hash <- MCHash
  Depth <- MCDepth
INVARIANTS
  StepsAdvance
  TargetsAreCaptured
  ColdCutsAreKept
PROPERTY PrefillFinishes
CHECK_DEADLOCK FALSE
