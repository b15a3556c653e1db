SPECIFICATION TieredSpec
CONSTANTS
  b1 = b1
  b2 = b2
  b3 = b3
  o1 = o1
  o2 = o2
  o3 = o3
  o4 = o4
  h1 = h1
  h2 = h2
  h3 = h3
  h4 = h4
  Block <- MCBlock
  Obj <- MCObj
  Hash <- MCHash
  Depth <- MCDepth
  Capacity = 2
  Stamps = {}
  NoEntry = NoEntry
  NoBlock = NoBlock
  NoHash = NoHash
  NoRestore = NoRestore
SYMMETRY MCSymmetry
INVARIANTS
  TierNeverRaises
  GpuHoldsItsContent
  CpuHoldsItsContent
  MapExactWithTier
