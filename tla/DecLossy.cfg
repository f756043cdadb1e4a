CONSTANTS
  MaxDecPicBuffering = 3
  NumReorderPics = 1
  MaxPocLsb = 16
  SkipFrames = 0
  MaxInt = 2147483647
  Starters = {"IDR2"}
  Kinds = {"IDR2", "P2", "P4", "B", "EOS", "RSV", "SEI", "AUD"}
  MaxSegments = 3
  StartPoc = 0
  Losses = 1
  LoneEnds = TRUE
  LowCras = FALSE
  EncoderFrames = {}
  Streams <- MCStreams
SPECIFICATION Spec
INVARIANTS PictureOpen
PROPERTIES Terminates
