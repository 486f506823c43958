SPECIFICATION Spec
CONSTANTS
  k1 = k1
  k2 = k2
  Keys <- TwoKeys
  SampleSizes <- Samples
  CacheSizes <- Sizes
  MaxDiffs = 22
  MaxHits = 1
  MaxDepth = 1
  NoKey = NoKey
  MaxTimers = 2
  Main = Main
INVARIANTS
  WindowIsOneSample
  OnlyCurrentIsLive
  SilentAfterStop
PROPERTIES
  TunedAtWindowEdges
  ThreadsEnd
