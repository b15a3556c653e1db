SPECIFICATION AllocSpec
CONSTANTS
  b1 = b1
  b2 = b2
  b3 = b3
  o1 = o1
  o2 = o2
  o3 = o3
  h1 = h1
  h2 = h2
  Block <- MCBlock
  Obj <- MCObj
  Hash <- MCHash
  Depth <- MCDepth
  Stamps = {0, 1}
  NoEntry = NoEntry
  NoBlock = NoBlock
  NoHash = NoHash
SYMMETRY MCSymmetry
INVARIANTS
  AllocTypeOK
  RefcountIsHolders
  BlocksPartitioned
  CachedMapExact
  SharedBlocksAgree
PROPERTY CachedInUseStays
