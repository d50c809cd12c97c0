\* An application that only calls recv_message, with timeouts.
SPECIFICATION FairSpec
CONSTANTS
  HEADER_SIZE = 2
  Sizes = {0, 1}
  Kinds = {"message", "undecodable", "compressed"}
  MaxFrames = 2
  MaxQueue = 2
  TrailerMaps = {t1}
  NoTrailers = NoTrailers
  OneFramePerChunk = TRUE
  CleanClose = TRUE
  MayReset = TRUE
  Calls = {"recv_message"}
  MayCancel = TRUE
  SpuriousWakes = FALSE
PROPERTIES
  EverythingArrives
  EndIsReported
