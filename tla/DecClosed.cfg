CONSTANTS
  MaxDecPicBuffering = 5
  NumReorderPics = 2
  MaxPocLsb = 16
  SkipFrames = 0
  MaxInt = 2147483647
  Starters = {"IDR", "IDRL", "IDR2"}
  Kinds = {"IDR", "IDRN", "IDRL", "IDR2", "P2", "T2", "GOP4", "HIER", "ANCH", "CRA2", "CRAL", "SEI", "EOS"}
  MaxSegments = 3
  StartPoc = 0
  Losses = 0
  LoneEnds = FALSE
  LowCras = FALSE
  EncoderFrames = {3, 18}
  Streams <- MCStreams
SPECIFICATION Spec
INVARIANTS TypeOK NoError PocRight RefsRight WholePictures BumpedEnough BufferBound EveryFrameShown
PROPERTIES ImplementsOutputOrder
