\* Clients with up to two targets, one of which may be no target of a call.
SPECIFICATION FairSpec
CONSTANTS
  Reserved = {"grpc-status"}
  Spelled <- MCSpelled
  Printable <- MCPrintable
  NotUtf8 = {"bytes"}
  Replacement = "replaced"
  Parsed <- MCTargets
  HasScheme <- MCWithParts
  HasAuthority <- MCTargets
  Paths = {"/Service/Method"}
  UsizeLimit = 4
  Targets <- MCTargets
  MaxTargets = 2
  Methods = {"/Service/Method", "no path"}
  AppNames <- MCAppNames
  AppValues = {"text", "bell"}
  MaxValues = 2
  PeerHeaders <- MCPeerHeaders
  HttpNames <- MCHttpNames
  HttpValues <- MCHttpValues
  None = None
INVARIANTS
  PanicsOnlyIfBypassed
  OnlySoundRequestsLeave
  ServerSeesMetadata
PROPERTY
  RetriesReachALiveServer
\* A client that is refused, and a call that panics, are the end.
CHECK_DEADLOCK FALSE
