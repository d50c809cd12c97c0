\* An application that only calls next, its task polled for other reasons too.
SPECIFICATION FairSpec
CONSTANTS
  HEADER_SIZE = 2
  Sizes = {0, 1}
  Kinds = {"message", "undecodable", "compressed"}
  MaxFrames = 2
  MaxQueue = 2
  TrailerMaps = {t1}
  NoTrailers = NoTrailers
  OneFramePerChunk = FALSE
  CleanClose = FALSE
  MayReset = TRUE
  Calls = {"next"}
  MayCancel = TRUE
  SpuriousWakes = TRUE
PROPERTY
  NextDrainsAtEnd
