\* Both kinds of response: any head, any body, cancellation.
SPECIFICATION ResponseFairSpec
CONSTANTS
  HEADER_SIZE = 2
  Sizes = {1}
  Kinds = {"message", "undecodable", "compressed"}
  MaxFrames = 2
  MaxQueue = 2
  TrailerMaps <- MCTrailerMaps
  NoTrailers = NoTrailers
  OneFramePerChunk = FALSE
  CleanClose = FALSE
  MayReset = TRUE
  Calls = {"recv_message", "next", "recv_trailers"}
  MayCancel = TRUE
  SpuriousWakes = TRUE
  Styles = {"unary", "streaming"}
  HttpStatuses = {200, 404, 503}
  HeadMaps <- MCHeadMaps
  Reserved <- MCReserved
  Spelled <- MCSpelled
  Printable <- MCPrintable
  NotUtf8 <- MCNotUtf8
  Replacement <- MCReplacement
INVARIANTS
  ResponseTypeOK
  OkMeansServerSaidOk
  ErrorCodeIsTheServers
  MetadataIsTheServers
  UnaryNeverParksDeaf
PROPERTY
  UnaryReturns
\* A call that has returned does nothing more.
CHECK_DEADLOCK FALSE
