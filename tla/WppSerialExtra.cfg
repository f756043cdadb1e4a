SPECIFICATION FairSpec
CONSTANTS
  IntMax = 2147483647
  W = 6
  H = 2
  NumThreads = 1
  ExtraLines = 1
  EnsureWppBitEqual = FALSE
  MaxPictures = 1
PROPERTIES
  PicturesComplete
CHECK_DEADLOCK FALSE
