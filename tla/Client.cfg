\* The four call shapes, over channels of one message.
SPECIFICATION ClientFairSpec
CONSTANTS
  HEADER_SIZE = 2
  Sizes = {1}
  Kinds = {"message", "compressed"}
  MaxFrames = 1
  MaxQueue = 2
  TrailerMaps <- MCTrailerMaps
  NoTrailers = NoTrailers
  OneFramePerChunk = FALSE
  CleanClose = FALSE
  MayReset = TRUE
  Calls = {"recv_message", "recv_trailers"}
  MayCancel = TRUE
  SpuriousWakes = FALSE
  Styles = {"unary", "streaming"}
  HttpStatuses = {200, 503}
  HeadMaps <- MCHeadMaps
  Reserved <- MCNames
  Spelled <- MCNames
  Printable <- MCValues
  NotUtf8 = {}
  Replacement = "replaced"
  Methods = {"unary_unary", "unary_streaming", "streaming_unary", "streaming_streaming"}
  Capacity = 1
  MaxRequests = 2
  All = All
INVARIANTS
  HeadNeedsTheFeed
  SomebodyCanGoOn
PROPERTIES
  EveryCallIsAnswered
  WaitEnds
  TrailersReachTheApplication
  ImplementsRpc
\* A call that is over, or waits for good, does nothing more.
CHECK_DEADLOCK FALSE
