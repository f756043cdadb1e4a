CONSTANTS
  MaxDecPicBuffering = 5
  NumReorderPics = 2
  MaxPocLsb = 8
  SkipFrames = 0
  MaxInt = 2147483647
  Starters = {"CRAD"}
  Kinds = {"CRAD", "P2"}
  MaxSegments = 2
  StartPoc = 6
  Losses = 0
  LoneEnds = FALSE
  LowCras = FALSE
  EncoderFrames = {}
  Streams <- MCStreams
SPECIFICATION Spec
INVARIANTS WholePictures
