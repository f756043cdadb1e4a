SPECIFICATION FairSpec
CONSTANTS
  IntMax = 2147483647
  W = 8
  H = 5
  NumThreads = 3
  ExtraLines = 1
  EnsureWppBitEqual = TRUE
  MaxPictures = 2
INVARIANTS
  TypeOK
  DependenciesMet
  ContextsFresh
  RunningExact
  WorkConserving
  GrantReachesWorker
PROPERTIES
  PicturesComplete
  ImplementsWavefront
