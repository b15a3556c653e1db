SPECIFICATION Spec
CONSTANTS
  b1 = b1
  b2 = b2
  b3 = b3
  b4 = b4
  s1 = s1
  s2 = s2
  NoEntry = NoEntry
  NoBlock = NoBlock
  NoHash = NoHash
  NoKey = NoKey
  Text <- MCText
  Hash <- MCHash
  Depth <- MCDepth
  Obj <- MCObj
  BlockSize = 2
  MaxBlocks = 3
  WatermarkBlocks = 0
  Prompts <- ShortPrompts
  Budget = 4
  MaxSeqs = 2
  MaxSteps = 9
  HybridModel = TRUE
  Policy = "admission64"
  RestoreMode = "hybrid64"
  ReplayAlignment = 4
  Capacity = 3
  MaxText = 6
  Stamps = {}
  Block = {b1, b2, b3}
  SeqId = {s1, s2}
SYMMETRY MCSymmetry
INVARIANTS
  FirstPrefillFromZeros
CHECK_DEADLOCK FALSE
