\* A PPS that has changed is sent twice before the next picture.
CONSTANTS
  SpsIds = {0}
  PpsIds = {0}
  SpsNals <- OneSps
  PpsNals <- OnePps
  MaxMade = 3
  MaxPictures = 4
  MaxUpdates = 2
  SpsChangeAt = {"IDR"}
  PpsChangeAt = {"IDR"}
  PpsFollowsSps = TRUE
  MaxDecPicBuffering = 2
SPECIFICATION Spec
INVARIANTS NoFault
