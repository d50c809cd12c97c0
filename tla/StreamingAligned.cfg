\* At most one message per chunk, stream closed between messages.
SPECIFICATION Spec
CONSTANTS
  HEADER_SIZE = 5
  Sizes = {0, 1}
  Kinds = {"message", "undecodable", "compressed"}
  MaxFrames = 2
  MaxQueue = 2
  TrailerMaps = {t1}
  NoTrailers = NoTrailers
  OneFramePerChunk = TRUE
  CleanClose = TRUE
  MayReset = TRUE
  Calls = {"recv_message", "next", "recv_trailers"}
  MayCancel = TRUE
  SpuriousWakes = TRUE
PROPERTY
  ImplementsMessageStream
