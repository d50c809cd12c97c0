------------------------------ MODULE Request -------------------------------
(***************************************************************************)
(* The outgoing half of a call: an application makes a client for some     *)
(* targets, fills the metadata of a request, and makes calls with clones   *)
(* of it.  Each call turns the metadata into the headers of an HTTP        *)
(* request and sends it to a target chosen at random; servers go down and  *)
(* come back.  It composes Metadata and Channel.                           *)
(***************************************************************************)
EXTENDS Metadata, Channel

CONSTANTS
  Targets,      \* targets the application may name
  MaxTargets,   \* bound on how many of them a client is made for
  Methods,      \* paths it may call
  AppNames,     \* names and values it may insert
  AppValues,
  MaxValues,    \* bound on the values it gives one name
  PeerHeaders,  \* headers of responses whose metadata it may pass on
  HttpNames,    \* names and values the http crate accepts
  HttpValues,
  None          \* no request is under way

GrpcProto == "application/grpc+proto"

\* hyper gives only headers that http accepts, and printable text is accepted.
ASSUME RequestAssumption ==
  /\ MaxTargets \in Nat /\ MaxValues \in Nat
  /\ \A headers \in PeerHeaders : \A n \in DOMAIN headers :
       n \in HttpNames /\ headers[n] \in Seq(HttpValues)
  /\ Printable \subseteq HttpValues
  /\ GrpcProto \in Printable
  /\ "content-type" \in (HttpNames \cap Spelled) \ Reserved

\* Targets at which there may be a server.
Servers == {target \in Targets : Usable(target)}

TargetLists == UNION {[1 .. n -> Targets] : n \in 0 .. MaxTargets}
ValueLists == UNION {[1 .. n -> AppValues] : n \in 0 .. MaxValues}

VARIABLES
  state,     \* "start", "refused", "idle", "waiting", "answered", "failed", "panicked"
  uris,      \* of the channel
  metadata,  \* of the request the application holds
  altered,   \* names whose values it has set through get_mut (history)
  request,   \* the HTTP request under way: target, headers, metadata it was made of
  up         \* those of Servers that are up

vars == <<state, uris, metadata, altered, request, up>>

Init ==
  /\ state = "start"
  /\ uris = <<>>
  /\ metadata = NewMap
  /\ altered = {}
  /\ request = None
  /\ up = Servers

-----------------------------------------------------------------------------
(* The application.                                                        *)

\* Client::new and Request::new
New(targets) ==
  /\ state = "start"
  /\ IF ValidTargets(targets)
     THEN state' = "idle" /\ uris' = targets
     ELSE state' = "refused" /\ UNCHANGED uris
  /\ UNCHANGED <<metadata, altered, request, up>>

\* metadata_mut, and what can be done with it.
EditMetadata ==
  /\ state = "idle"
  /\ \/ \E n \in AppNames, v \in AppValues :
          /\ Len(Values(metadata, n)) < MaxValues
          /\ metadata' = Insert(metadata, n, v) /\ UNCHANGED altered
     \/ \E n \in DOMAIN metadata :
          \/ /\ \E values \in ValueLists : metadata' = SetValues(metadata, n, values)
             /\ altered' = altered \cup {n}
          \/ metadata' = Remove(metadata, n) /\ altered' = altered \ {n}
     \/ \E headers \in PeerHeaders :
          \* The metadata of a response becomes that of the request.
          metadata' = MergeHttpHeader(NewMap, headers) /\ altered' = {}
  /\ UNCHANGED <<state, uris, request, up>>

-----------------------------------------------------------------------------
(* The call.                                                               *)

\* into_http_request: the builder keeps the first header it refuses as an error,
\* which body(..).unwrap() panics at.
Buildable(map) ==
  \A entry \in Iter(map) : \A i \in 1 .. Len(entry[2]) :
    entry[1] \in HttpNames /\ entry[2][i] \in HttpValues

\* Names of which the loop over the map adds a header.
Sent(map) == {entry[1] : entry \in {e \in Iter(map) : e[2] # <<>>}}

\* The value the request has of its own, before any of the metadata.
OwnValues(name) == IF name = "content-type" THEN <<GrpcProto>> ELSE <<>>

\* Slip: the content type is set, not added to.
HttpHeadersOwnType(map) ==
  [n \in {"content-type"} \cup Sent(map) |->
     IF n = "content-type" THEN OwnValues(n) ELSE map[n]]

HttpHeaders(map) ==
  [n \in {"content-type"} \cup Sent(map) |-> OwnValues(n) \o Values(map, n)]

\* A call with a clone of the request, up to its first await.
Call(method, random) ==
  /\ state = "idle"
  /\ LET uri == uris[Chosen(uris, random)]
     IN  \/ /\ ~Buildable(metadata) \/ ~HasParts(uri)
            /\ state' = "panicked"
            /\ UNCHANGED request
         \/ /\ Buildable(metadata) /\ HasParts(uri)
            /\ method \notin Paths
            /\ state' = "failed"
            /\ UNCHANGED request
         \/ /\ Buildable(metadata) /\ HasParts(uri)
            /\ method \in Paths
            /\ state' = "waiting"
            /\ request' = [target   |-> uri,
                           headers  |-> HttpHeaders(metadata),
                           metadata |-> metadata]
  /\ UNCHANGED <<uris, metadata, altered, up>>

\* The request reaches a server that is up, and fails with one that is not.
Outcome ==
  /\ state = "waiting"
  /\ state' = IF request.target \in up THEN "answered" ELSE "failed"
  /\ request' = None
  /\ UNCHANGED <<uris, metadata, altered, up>>

\* The application goes on, with the request it has cloned.
Continue ==
  /\ state \in {"answered", "failed"}
  /\ state' = "idle"
  /\ UNCHANGED <<uris, metadata, altered, request, up>>

\* A server goes down or comes back.
Toggle(target) ==
  /\ up' = IF target \in up THEN up \ {target} ELSE up \cup {target}
  /\ UNCHANGED <<state, uris, metadata, altered, request>>

Next ==
  \/ \E targets \in TargetLists : New(targets)
  \/ EditMetadata
  \/ \E method \in Methods, random \in 0 .. UsizeLimit - 1 : Call(method, random)
  \/ Outcome
  \/ Continue
  \/ \E target \in Servers : Toggle(target)

Spec == Init /\ [][Next]_vars

\* Calls are made again and again, and random::<usize> gives every number again
\* and again.
CallWith(i) ==
  \E method \in Methods \cap Paths, random \in 0 .. UsizeLimit - 1 :
    state = "idle" /\ Chosen(uris, random) = i /\ Call(method, random)

FairSpec ==
  /\ Spec
  /\ WF_vars(Outcome) /\ WF_vars(Continue)
  /\ \A i \in 1 .. MaxTargets : SF_vars(CallWith(i))

-----------------------------------------------------------------------------
(* Properties.                                                             *)

\* A call panics only if the application has gone round the tests of insert, with
\* get_mut, or has used them to insert a name that http does not know, such as the
\* empty one: never because of metadata it was given by a server, whatever the
\* server sent, and never at an expect of Channel::call.
PanicsOnlyIfBypassed ==
  state = "panicked" => \E n \in DOMAIN metadata : n \in altered \/ n \notin HttpNames

\* What leaves for a server is what a server may expect: it goes to a target the
\* application has named in full, says first of all that it is gRPC, and carries none
\* of the headers that only gRPC may set, however the metadata was put together.
OnlySoundRequestsLeave ==
  request # None =>
    /\ \E i \in 1 .. Len(uris) : request.target = uris[i]
    /\ Usable(request.target)
    /\ request.headers["content-type"][1] = GrpcProto
    /\ DOMAIN request.headers \cap Reserved = {}
    /\ \A n \in DOMAIN request.headers : n \in HttpNames
    /\ \A n \in DOMAIN request.headers : \A i \in 1 .. Len(request.headers[n]) :
         request.headers[n][i] \in HttpValues

\* A server that reads the headers with the same map finds under each name the values
\* the application has put there that are printable, in their order and each as often
\* as it was put there. Only the content type is preceded by gRPC's own, which
\* the application can add to but not take away: one that it has taken over from a
\* response arrives twice.
ServerSeesMetadata ==
  request # None =>
    LET seen == MergeHttpHeader(NewMap, request.headers)
    IN  \A n \in DOMAIN seen \cup DOMAIN request.metadata :
          Values(seen, n) = OwnValues(n) \o Only(Values(request.metadata, n), Printable)

\* Nothing is retried and a call can fail although another target is up, but an
\* application that calls again and again does reach a target that stays up.
RetriesReachALiveServer ==
  \A target \in Servers :
    <>[](target \in up /\ \E i \in 1 .. Len(uris) : uris[i] = target)
      => <>(state = "panicked") \/ []<>(state = "answered")
=============================================================================
