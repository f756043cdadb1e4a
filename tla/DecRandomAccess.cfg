CONSTANTS
  MaxDecPicBuffering = 4
  NumReorderPics = 2
  MaxPocLsb = 8
  SkipFrames = 0
  MaxInt = 2147483647
  Starters = {"IDR", "CRA2", "BLA"}
  Kinds = {"IDR", "P2", "B", "CRA2", "BLA", "EOS"}
  MaxSegments = 5
  StartPoc = 3
  Losses = 0
  LoneEnds = FALSE
  LowCras = FALSE
  EncoderFrames = {}
  Streams <- MCStreams
SPECIFICATION Spec
INVARIANTS PocRight RefsRightInSequences AllWrittenInPictures
