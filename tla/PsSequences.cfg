\* Two SPSs and two PPSs; the sets change before an IDR picture only, each
\* at most once, and a PPS changes along with its SPS.
CONSTANTS
  SpsIds = {0, 1}
  PpsIds = {0, 1}
  SpsNals <- TwoSizes
  PpsNals <- TwoPps
  MaxMade = 3
  MaxPictures = 3
  MaxUpdates = 1
  SpsChangeAt = {"IDR"}
  PpsChangeAt = {"IDR"}
  PpsFollowsSps = TRUE
  MaxDecPicBuffering = 2
SPECIFICATION Spec
INVARIANTS TypeOK Owned Latest NoFault SlicesRight PcvRight ExitJustified
