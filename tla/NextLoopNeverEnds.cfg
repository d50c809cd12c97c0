\* The loop of examples/etcdclient.rs, its task polled for other reasons too.
SPECIFICATION FairSpec
CONSTANTS
  HEADER_SIZE = 5
  Sizes = {1}
  Kinds = {"message"}
  MaxFrames = 1
  MaxQueue = 2
  TrailerMaps = {t1}
  NoTrailers = NoTrailers
  OneFramePerChunk = TRUE
  CleanClose = TRUE
  MayReset = FALSE
  Calls = {"next"}
  MayCancel = FALSE
  SpuriousWakes = TRUE
PROPERTY
  LoopEnds
