------------------------------ MODULE Response ------------------------------
(***************************************************************************)
(* Response::new_unary and Response::new_streaming of src/grpc.rs: what    *)
(* becomes of the response to a call once its head has arrived.  new_unary *)
(* drives the receiving half itself (recv_message, then recv_trailers);    *)
(* new_streaming hands it to the application.                              *)
(***************************************************************************)
EXTENDS Streaming, Status, Metadata

CONSTANTS
  Styles,        \* "unary" or "streaming": how the call is made
  HttpStatuses,  \* HTTP status codes the server may answer with
  HeadMaps       \* headers the server may answer with

ASSUME ResponseAssumption ==
  /\ Styles \subseteq {"unary", "streaming"}
  /\ HttpStatuses \subseteq 100 .. 599
  /\ \A map \in HeadMaps \cup TrailerMaps : \A name \in DOMAIN map :
       map[name] \in Seq(Seq(Byte))
  /\ "grpc-status" \in Reserved
  /\ {"recv_message", "recv_trailers"} \subseteq Calls

VARIABLES
  style,    \* which constructor runs
  http,     \* HTTP status of the response
  headers,  \* parts.headers
  metadata, \* of the Response, once it is returned
  phase,    \* how far the constructor is, or how it returned
  code,     \* code of the Status it returned, if phase is "err"
  origin,   \* what that Status was made from
  answer    \* headers and trailers the server has sent, and whether the
            \* application has been given the trailers of a stream (history)

responseVars == <<style, http, headers, metadata, phase, code, origin, answer>>
allVars == <<vars, responseVars>>

Phases == {"head", "message", "trailers", "ok", "stream", "err", "dropped"}
Origins == {"none", "call", "http", "body", "missing", "headers"}
Returned == {"ok", "stream", "err", "dropped"}

ResponseTypeOK ==
  /\ TypeOK
  /\ style \in Styles
  /\ http \in HttpStatuses
  /\ DOMAIN headers \subseteq
       (UNION {DOMAIN h : h \in HeadMaps}) \cup (UNION {DOMAIN t : t \in TrailerMaps})
  /\ DOMAIN metadata \subseteq Spelled \ Reserved
  /\ phase \in Phases
  /\ code \in Code
  /\ origin \in Origins
  /\ answer \in [head: HeadMaps, trailers: TrailerMaps \cup {NoTrailers}, given: BOOLEAN]

ResponseInit ==
  /\ Init
  /\ style \in Styles
  /\ http \in HttpStatuses
  /\ headers \in HeadMaps
  /\ metadata = NewMap
  /\ phase = "head"
  /\ code = Ok
  /\ origin = "none"
  /\ answer = [head |-> headers, trailers |-> NoTrailers, given |-> FALSE]

-----------------------------------------------------------------------------
(* The two constructors.  They differ once the head has been checked.      *)

\* Slip: the code is looked up one too high.
FailNext(c, from) ==
  /\ phase' = "err"
  /\ code' = c + 4
  /\ origin' = from

Fail(c, from) ==
  /\ phase' = "err"
  /\ code' = c
  /\ origin' = from

HeadAccepted == http = 200 \/ IsOk(FromHttpStatus(http))

RejectHead ==
  /\ phase = "head"
  /\ ~HeadAccepted
  /\ Fail(FromHttpStatus(http), "http")
  /\ UNCHANGED <<vars, style, http, headers, metadata, answer>>

\* new_streaming returns at once; nothing looks for a status in the headers.
NewStreaming ==
  /\ phase = "head"
  /\ style = "streaming"
  /\ HeadAccepted
  /\ phase' = "stream"
  /\ metadata' = MergeHttpHeader(NewMap, headers)
  /\ UNCHANGED <<vars, style, http, headers, code, origin, answer>>

\* new_unary awaits the first message ...
NewUnary ==
  /\ phase = "head"
  /\ style = "unary"
  /\ HeadAccepted
  /\ Start("recv_message")
  /\ phase' = "message"
  /\ UNCHANGED <<style, http, headers, metadata, code, origin, answer>>

\* ... which must exist ...
\* Slip: a body without a message is waited on.
NoMessageWaits ==
  /\ phase = "message"
  /\ call = "idle"
  /\ result = "end"
  /\ Start("recv_message")
  /\ UNCHANGED responseVars

NoMessage ==
  /\ phase = "message"
  /\ call = "idle"
  /\ result = "end"
  /\ Fail(Internal, "missing")
  /\ UNCHANGED <<vars, style, http, headers, metadata, answer>>

\* ... then the trailers ...
FirstMessage ==
  /\ phase = "message"
  /\ call = "idle"
  /\ result = "message"
  /\ Start("recv_trailers")
  /\ phase' = "trailers"
  /\ UNCHANGED <<style, http, headers, metadata, code, origin, answer>>

\* ... and returns early with whatever either of them fails with.
BodyStatus(r) == IF r = "compressed" THEN Unimplemented ELSE Internal

BodyError ==
  /\ phase \in {"message", "trailers"}
  /\ call = "idle"
  /\ result \in {"undecodable", "compressed", "transport"}
  /\ Fail(BodyStatus(result), "body")
  /\ UNCHANGED <<vars, style, http, headers, metadata, answer>>

\* Slip: a header keeps its value against a trailer of the same name.
ExtendKeeps(h, t) ==
  [name \in DOMAIN h \cup DOMAIN t |-> IF name \in DOMAIN h THEN h[name] ELSE t[name]]

\* HeaderMap::extend: the values of a trailer replace those of a header of the
\* same name.
Extend(h, t) ==
  [name \in DOMAIN h \cup DOMAIN t |-> IF name \in DOMAIN t THEN t[name] ELSE h[name]]

\* Slip: a status that cannot be read is taken for Unknown.
ConcludeUnknown ==
  /\ phase = "trailers"
  /\ TrailersReady
  /\ headers' = IF trailers = NoTrailers THEN headers ELSE Extend(headers, trailers)
  /\ LET status == FromHeaderMap(headers')
     IN  IF status.ok /\ IsOk(status.code)
         THEN /\ phase' = "ok" /\ UNCHANGED <<code, origin>>
              /\ metadata' = MergeHttpHeader(NewMap, headers')
         ELSE /\ UNCHANGED metadata
              /\ Fail(IF status.ok THEN status.code ELSE Unknown, "headers")
  /\ UNCHANGED <<style, http, answer>>

\* With the trailers at hand, new_unary goes on to its end without awaiting.
Conclude ==
  /\ phase = "trailers"
  /\ TrailersReady
  /\ headers' = IF trailers = NoTrailers THEN headers ELSE Extend(headers, trailers)
  /\ LET status == FromHeaderMap(headers')
     IN  IF status.ok /\ IsOk(status.code)
         THEN /\ phase' = "ok" /\ UNCHANGED <<code, origin>>
              /\ metadata' = MergeHttpHeader(NewMap, headers')
         ELSE /\ UNCHANGED metadata
              /\ Fail(status.code, "headers")
  /\ UNCHANGED <<style, http, answer>>

\* The caller drops the future of a unary call.
DropCall ==
  /\ phase \in {"message", "trailers"}
  /\ Cancel
  /\ phase' = "dropped"
  /\ UNCHANGED <<style, http, headers, metadata, code, origin, answer>>

-----------------------------------------------------------------------------
(* The parts it is composed of.                                            *)

\* The body is dropped with the constructor that fails or returns a message.
BodyAlive == phase \notin {"ok", "err", "dropped"}

ServerStep ==
  /\ BodyAlive
  /\ \/ /\ \/ \E kind \in Kinds, size \in Sizes : Write(kind, size)
           \/ \E e \in flushed .. Total : Arrive(e)
           \/ Reset
        /\ UNCHANGED answer
     \/ \E t \in TrailerMaps \cup {NoTrailers} :
          Finish(t) /\ answer' = [answer EXCEPT !.trailers = t]
  /\ UNCHANGED <<streamVars, style, http, headers, metadata, phase, code, origin>>

\* The awaits of new_unary, and the calls of the application on a stream.
LibraryStep ==
  /\ \/ RecvMessage \/ PollNext
     \/ TrailersFailed \/ TrailersPending
     \/ phase = "stream" /\ TrailersReady
  /\ answer' = [answer EXCEPT !.given = @ \/ result' = "trailers"]
  /\ UNCHANGED <<style, http, headers, metadata, phase, code, origin>>

Application ==
  /\ \/ phase = "stream" /\ \E c \in Calls : Start(c)
     \/ phase = "stream" /\ Cancel
     \/ BodyAlive /\ Spurious
  /\ UNCHANGED responseVars

Constructor ==
  \/ RejectHead \/ NewStreaming \/ NewUnary
  \/ NoMessage \/ FirstMessage \/ BodyError \/ Conclude

ResponseNext == ServerStep \/ LibraryStep \/ Application \/ Constructor \/ DropCall

ResponseSpec == ResponseInit /\ [][ResponseNext]_allVars

\* The task that awaits new_unary is polled when it can run.
ResponseFairSpec == ResponseSpec /\ WF_allVars(LibraryStep \/ Constructor)

\* An application that asks for the trailers of a stream again and again.
AskTrailers ==
  /\ phase = "stream"
  /\ Start("recv_trailers")
  /\ UNCHANGED responseVars

-----------------------------------------------------------------------------
(* Properties.                                                             *)

\* The status the server has given the call: that of the trailers, or that of
\* the headers when the trailers have none.
ServerStatus ==
  IF answer.trailers # NoTrailers /\ Has(answer.trailers, "grpc-status")
  THEN FromHeaderMap(answer.trailers)
  ELSE FromHeaderMap(answer.head)

\* A unary call succeeds only if the whole first message arrived and parsed, the
\* stream ended in order, and the server's last word on the call is OK: an OK in
\* the headers does not outlive an error in the trailers.
OkMeansServerSaidOk ==
  phase = "ok" =>
    /\ http = 200
    /\ got = <<1>> /\ wire[1].end <= received
    /\ bodyEnd = "eof"
    /\ ServerStatus = OkResult(Ok)

\* A unary call that got its message and the end of the stream fails with the
\* code the server gave, or with Internal when the server gave none it can read.
ErrorCodeIsTheServers ==
  phase = "err" /\ origin = "headers" =>
    /\ got = <<1>>
    /\ ServerStatus # OkResult(Ok)
    /\ code = ServerStatus.code

\* The metadata of a response is what the server has said last, for every name that
\* is not gRPC's own: a trailer hides a header of its name, what is not printable
\* is gone, and no status reaches the application as metadata.
MetadataIsTheServers ==
  phase \in {"ok", "stream"} =>
    LET last(name) ==
          IF phase = "ok" /\ answer.trailers # NoTrailers /\ Has(answer.trailers, name)
          THEN answer.trailers[name]
          ELSE Values(answer.head, name)
    IN  \A name \in Spelled :
          Values(metadata, name) =
            IF name \in Reserved THEN <<>> ELSE Only(last(name), Printable)

\* A unary call that sleeps, for its message or for the trailers, is known to a body
\* that has nothing for it, and the next event of the stream wakes it. The only one
\* that is not is kept from the trailers by a chunk behind its first message.
UnaryNeverParksDeaf ==
  phase \in {"message", "trailers"} /\ parked =>
    \/ waker /\ NothingYet
    \/ phase = "trailers" /\ DataReady

\* Once the stream has ended, a unary call returns, unless a chunk that arrived
\* behind its first message keeps the body from giving the trailers: then it
\* hangs for good.
UnaryReturns ==
  style = "unary" /\ bodyEnd # "open"
    ~> phase \in Returned \/ (phase = "trailers" /\ DataReady)

\* On a streaming call the status is the application's business: new_streaming
\* keeps nothing of it. Trailers the server sent are given to an application that
\* reads up to the end and asks for them, whatever it has asked for before.
TrailersReachTheApplication ==
  phase = "stream" /\ ended /\ answer.trailers # NoTrailers ~> answer.given

\* "status from header and trailer": a unary call whose stream ends in order and
\* on which the server has given an error status fails with that status.
ServerErrorIsReported ==
  phase = "err" /\ origin \in {"missing", "headers"} =>
    LET status == ServerStatus
    IN  status.ok /\ status.code # Ok => code = status.code
=============================================================================
