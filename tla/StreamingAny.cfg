\* Every call, any chunking, truncation, reset, cancellation, spurious wake-ups.
SPECIFICATION Spec
CONSTANTS
  HEADER_SIZE = 2
  Sizes = {0, 1}
  Kinds = {"message", "undecodable", "compressed"}
  MaxFrames = 3
  MaxQueue = 2
  TrailerMaps = {t1}
  NoTrailers = NoTrailers
  OneFramePerChunk = FALSE
  CleanClose = FALSE
  MayReset = TRUE
  Calls = {"recv_message", "next", "recv_trailers"}
  MayCancel = TRUE
  SpuriousWakes = TRUE
INVARIANTS
  TypeOK
  InOrderExactlyOnce
  RecvNeverParksDeaf
PROPERTY
  LagGrowsOnlyByCoalescing
