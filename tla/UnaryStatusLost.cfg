\* A unary call answered in order by a server that may have no message.
SPECIFICATION ResponseSpec
CONSTANTS
  HEADER_SIZE = 2
  Sizes = {1}
  Kinds = {"message"}
  MaxFrames = 1
  MaxQueue = 2
  TrailerMaps <- MCTrailerMaps
  NoTrailers = NoTrailers
  OneFramePerChunk = FALSE
  CleanClose = TRUE
  MayReset = FALSE
  Calls = {"recv_message", "next", "recv_trailers"}
  MayCancel = FALSE
  SpuriousWakes = FALSE
  Styles = {"unary"}
  HttpStatuses = {200, 404, 503}
  HeadMaps <- MCHeadMaps
  Reserved <- MCReserved
  Spelled <- MCSpelled
  Printable <- MCPrintable
  NotUtf8 <- MCNotUtf8
  Replacement <- MCReplacement
INVARIANT
  ServerErrorIsReported
\* A call that has returned does nothing more.
CHECK_DEADLOCK FALSE
