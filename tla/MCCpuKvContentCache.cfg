SPECIFICATION TierSpec
CONSTANTS
  g1 = g1
  g2 = g2
  g3 = g3
  c1 = c1
  c2 = c2
  c3 = c3
  c4 = c4
  GpuBlock <- MCGpuBlock
  ContentHash <- MCContentHash
  Capacity = 3
  NoGpuBlock = NoGpuBlock
  NoContent = NoContent
SYMMETRY MCSymmetry
INVARIANTS
  TierTypeOK
  SlotsExact
  OneRolePerSlot
PROPERTY ResidentsSurviveLookups
