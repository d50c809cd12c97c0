\* The loop of examples/etcdclient.rs: the task has nothing else to do.
SPECIFICATION FairSpec
CONSTANTS
  HEADER_SIZE = 5
  Sizes = {1}
  Kinds = {"message"}
  MaxFrames = 1
  MaxQueue = 2
  TrailerMaps = {t1}
  NoTrailers = NoTrailers
  OneFramePerChunk = TRUE
  CleanClose = TRUE
  MayReset = FALSE
  Calls = {"next"}
  MayCancel = FALSE
  SpuriousWakes = FALSE
PROPERTY
  EverythingArrives
\* The stall is what the property is about.
CHECK_DEADLOCK FALSE
