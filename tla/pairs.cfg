SPECIFICATION FairSpec
CONSTANTS
  a1 = a1
  a2 = a2
  r1 = r1
  r2 = r2
  r3 = r3
  Added <- TwoAdded
  Removed <- ThreeRemoved
  MaxDist = 2
  Cutoff = 2
  NoHash = NoHash
INVARIANTS
  TypeOK
  SelectsAPairing
  ClosestFirst
  NearPairsAreTried
PROPERTY
  SelectionEnds
