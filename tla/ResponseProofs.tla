---------------------------- MODULE ResponseProofs --------------------------
(***************************************************************************)
(* Proofs about Response: for any heads, trailers, bodies and bounds.      *)
(***************************************************************************)
EXTENDS Response, StreamingProofs, MetadataProofs

-----------------------------------------------------------------------------
(* The inductive invariant.                                                *)

\* What the private Streaming of new_unary has done by the time of each phase.
UnaryInv ==
  /\ phase = "head" => call = "idle" /\ taken = 0 /\ got = <<>>
  /\ phase = "message" =>
       /\ call \in {"idle", "recv_message"}
       /\ call = "recv_message" => taken = 0 /\ got = <<>>
       /\ call = "idle" /\ result = "message" => got = <<1>>
  /\ phase = "trailers" => call \in {"idle", "recv_trailers"} /\ got = <<1>>
  /\ phase \in {"ok", "err", "dropped"} => call = "idle"

\* Until new_unary takes them, headers and trailers are those the server has sent.
HistoryInv ==
  /\ phase \in {"head", "message", "trailers"} =>
       headers = answer.head /\ trailers = answer.trailers
  /\ phase \in {"message", "trailers"} => http = 200

VerdictInv ==
  OkMeansServerSaidOk /\ ErrorCodeIsTheServers /\ MetadataIsTheServers

OwnInv == ResponseTypeOK /\ UnaryInv /\ HistoryInv /\ VerdictInv
RespInv == Inv /\ OwnInv

-----------------------------------------------------------------------------
(* Statuses and metadata.                                                  *)

\* Whatever is in the headers, the code made of them is one of the seventeen.
LEMMA CodeOfHeaders ==
  ASSUME NEW h
  PROVE  FromHeaderMap(h).code \in Code
<1>1. \A v : TryFrom(v).code \in Code
  BY DEF TryFrom, OkResult, ErrResult, Code, Internal
<1>2. ErrResult(Internal).code \in Code
  BY DEF ErrResult, Code, Internal
<1>3. \A b : FromBytes(b).code \in Code
  BY <1>1, <1>2 DEF FromBytes
<1> QED
  BY <1>2, <1>3 DEF FromHeaderMap

\* The two tests of new_unary pass one result only.
LEMMA OkIsOneResult ==
  ASSUME NEW h
  PROVE  LET status == FromHeaderMap(h)
         IN  (status.ok /\ IsOk(status.code)) <=> status = OkResult(Ok)
<1> DEFINE Sound(r) == r.ok /\ IsOk(r.code) <=> r = OkResult(Ok)
<1>1. Sound(ErrResult(Internal)) /\ \A v : Sound(OkResult(v))
  BY DEF OkResult, ErrResult, IsOk
<1>2. \A v : TryFrom(v) = OkResult(v) \/ TryFrom(v) = ErrResult(Internal)
  BY DEF TryFrom
<1>3. \A v : Sound(TryFrom(v))
  BY <1>1, <1>2
<1> HIDE DEF Sound
<1>4. \A b : Sound(FromBytes(b))
  BY <1>1, <1>3 DEF FromBytes
<1>5. Sound(FromHeaderMap(h))
  BY <1>1, <1>4 DEF FromHeaderMap
<1> QED
  BY <1>5 DEF Sound

\* An HTTP status is accepted only if it is 200, and what is made of another is a code.
LEMMA HttpCodes ==
  ASSUME http \in HttpStatuses
  PROVE  FromHttpStatus(http) \in Code /\ (HeadAccepted => http = 200)
BY ResponseAssumption
   DEF FromHttpStatus, HeadAccepted, IsOk, Code, Ok, Unknown, PermissionDenied, Unimplemented,
       Internal, Unavailable, Unauthenticated

\* The trailers have the last word on the status.
LEMMA LastWord ==
  ASSUME NEW h, NEW t
  PROVE  FromHeaderMap(Extend(h, t)) =
           IF Has(t, "grpc-status") THEN FromHeaderMap(t) ELSE FromHeaderMap(h)
<1>1. /\ DOMAIN Extend(h, t) = DOMAIN h \cup DOMAIN t
      /\ \A n \in DOMAIN h \cup DOMAIN t :
           Extend(h, t)[n] = IF n \in DOMAIN t THEN t[n] ELSE h[n]
  BY DEF Extend
<1> HIDE DEF Extend
<1> QED
  BY <1>1 DEF FromHeaderMap, Has, First

\* A header map of byte sequences.
HeaderMap(h) == \A n \in DOMAIN h : h[n] \in Seq(Seq(Byte))

\* The metadata made of some headers.
LEMMA MetadataOf ==
  ASSUME NEW h, HeaderMap(h)
  PROVE  LET m == MergeHttpHeader(NewMap, h)
         IN  /\ DOMAIN m \subseteq Spelled \ Reserved
             /\ \A n \in Spelled :
                  /\ n \in Reserved => Values(m, n) = <<>>
                  /\ n \notin Reserved => Values(m, n) = Only(Values(h, n), Printable)
<1> DEFINE m == MergeHttpHeader(NewMap, h)
<1>1. /\ DOMAIN m \subseteq Spelled \ Reserved
      /\ \A n \in DOMAIN h : n \in Spelled \ Reserved =>
           Values(m, n) = Only(h[n], Printable)
      /\ \A n : n \notin DOMAIN h \/ n \notin Spelled \ Reserved => Values(m, n) = <<>>
  BY MergeGives DEF Clean, HeaderMap
<1> HIDE DEF m
<1>2. ASSUME NEW n \in Spelled \ Reserved
      PROVE  Values(m, n) = Only(Values(h, n), Printable)
  <2>1. CASE n \in DOMAIN h
    BY <1>1, <2>1 DEF Values
  <2>2. CASE n \notin DOMAIN h
    <3>1. Values(m, n) = <<>> /\ Values(h, n) = <<>>
      BY <1>1, <2>2 DEF Values
    <3> QED
      BY <3>1, OnlyOfNone
  <2> QED
    BY <2>1, <2>2
<1>3. ASSUME NEW n \in Spelled, n \in Reserved PROVE Values(m, n) = <<>>
  BY <1>1, <1>3
<1> QED
  BY <1>1, <1>2, <1>3 DEF m

\* Headers extended with trailers.
LEMMA ValuesOfBoth ==
  ASSUME NEW h, NEW t, NEW n
  PROVE  /\ Has(t, n) => Values(Extend(h, t), n) = t[n]
         /\ ~Has(t, n) => Values(Extend(h, t), n) = Values(h, n)
         /\ HeaderMap(h) /\ HeaderMap(t) => HeaderMap(Extend(h, t))
<1>1. /\ DOMAIN Extend(h, t) = DOMAIN h \cup DOMAIN t
      /\ \A m \in DOMAIN h \cup DOMAIN t :
           Extend(h, t)[m] = IF m \in DOMAIN t THEN t[m] ELSE h[m]
  BY DEF Extend
<1> HIDE DEF Extend
<1> QED
  BY <1>1 DEF Values, Has, HeaderMap

-----------------------------------------------------------------------------
(* The invariant is inductive.                                             *)

LEMMA RespInit == ResponseInit => RespInv
<1> SUFFICES ASSUME ResponseInit PROVE RespInv
  OBVIOUS
<1>1. Inv
  BY InvInit DEF ResponseInit
<1>2. /\ call = "idle" /\ taken = 0 /\ got = <<>> /\ trailers = NoTrailers
      /\ phase = "head" /\ origin = "none" /\ headers = answer.head
      /\ answer.trailers = NoTrailers
  BY DEF ResponseInit, Init, BodyInit
<1>3. ResponseTypeOK
  BY <1>1 DEF ResponseInit, Inv, ResponseTypeOK, NewMap, Phases, Origins, Code, Ok
<1>4. UnaryInv /\ HistoryInv
  BY <1>2 DEF UnaryInv, HistoryInv
<1>5. VerdictInv
  BY <1>2 DEF VerdictInv, OkMeansServerSaidOk, ErrorCodeIsTheServers, MetadataIsTheServers
<1> QED
  BY <1>1, <1>3, <1>4, <1>5 DEF RespInv, OwnInv

\* Every step of the response is a step of the receiving half or leaves it alone.
LEMMA StreamingStep == ResponseNext => [Next]_vars
<1> SUFFICES ASSUME ResponseNext PROVE [Next]_vars
  OBVIOUS
<1>1. CASE ServerStep
  BY <1>1 DEF ServerStep, Next, Server
<1>2. CASE LibraryStep
  BY <1>2 DEF LibraryStep, Next, RecvMessage, PollNext
<1>3. CASE Application
  BY <1>3 DEF Application, Next
<1>4. CASE Constructor
  BY <1>4, ResponseAssumption
     DEF Constructor, RejectHead, NewStreaming, NewUnary, NoMessage, FirstMessage,
         BodyError, Conclude, Next
<1>5. CASE DropCall
  BY <1>5 DEF DropCall, Next
<1> QED
  BY <1>1, <1>2, <1>3, <1>4, <1>5 DEF ResponseNext

\* A step to an outcome that claims nothing about the server.
LEMMA FailsSoberly ==
  ASSUME RespInv, Inv', call' = "idle",
         phase' \in {"err", "dropped"},
         origin' \in Origins, code' \in Code,
         phase' = "err" => origin' # "headers",
         UNCHANGED <<style, http, headers, metadata, answer>>
  PROVE  RespInv'
<1>1. ResponseTypeOK'
  BY DEF RespInv, OwnInv, Inv, ResponseTypeOK, Phases
<1>2. UnaryInv' /\ HistoryInv' /\ VerdictInv'
  BY DEF UnaryInv, HistoryInv, VerdictInv, OkMeansServerSaidOk, ErrorCodeIsTheServers,
         MetadataIsTheServers
<1> QED
  BY <1>1, <1>2 DEF RespInv, OwnInv

LEMMA ServerKeeps == RespInv /\ Inv' /\ ServerStep => RespInv'
<1> SUFFICES ASSUME RespInv, Inv', ServerStep PROVE RespInv'
  OBVIOUS
<1>1. /\ phase \in {"head", "message", "trailers", "stream"}
      /\ UNCHANGED <<received, taken, got, call, result, ended>>
      /\ UNCHANGED <<style, http, headers, metadata, phase, code, origin>>
  BY DEF RespInv, OwnInv, ResponseTypeOK, Phases, ServerStep, BodyAlive, streamVars
<1> DEFINE Follows ==
      /\ answer' \in [head: HeadMaps, trailers: TrailerMaps \cup {NoTrailers}, given: BOOLEAN]
      /\ answer'.head = answer.head
      /\ trailers = answer.trailers => trailers' = answer'.trailers
<1>2. Follows
  <2>1. answer \in [head: HeadMaps, trailers: TrailerMaps \cup {NoTrailers}, given: BOOLEAN]
    BY DEF RespInv, OwnInv, ResponseTypeOK
  <2>2. CASE UNCHANGED answer /\ UNCHANGED trailers
    BY <2>1, <2>2
  <2>3. ASSUME NEW t \in TrailerMaps \cup {NoTrailers},
               Finish(t), answer' = [answer EXCEPT !.trailers = t]
        PROVE  Follows
    BY <2>1, <2>3 DEF Finish
  <2> QED
    BY <2>2, <2>3 DEF ServerStep, Write, Arrive, Reset
<1>3. ResponseTypeOK'
  BY <1>1, <1>2 DEF RespInv, OwnInv, ResponseTypeOK, Inv
<1>4. UnaryInv'
  BY <1>1 DEF RespInv, OwnInv, UnaryInv
<1>5. HistoryInv'
  BY <1>1, <1>2 DEF RespInv, OwnInv, HistoryInv
<1>6. VerdictInv'
  BY <1>1, <1>2 DEF RespInv, OwnInv, VerdictInv, OkMeansServerSaidOk, ErrorCodeIsTheServers,
                    MetadataIsTheServers
<1> QED
  BY <1>3, <1>4, <1>5, <1>6 DEF RespInv, OwnInv

\* recv_message has got nothing before it returns, and then at most the first message.
LEMMA FirstReturn ==
  ASSUME TypeOK, RecvMessage, taken = 0, got = <<>>
  PROVE  /\ call' = "recv_message" => taken' = 0 /\ got' = <<>>
         /\ call' \in {"idle", "recv_message"}
         /\ call' = "idle" /\ result' = "message" => got' = <<1>>
<1>1. CASE RecvData
  <2> DEFINE d == Decode(received')
  <2>1. Cut(d) /\ call = "recv_message"
        /\ IF d = "none" THEN UNCHANGED <<call, result>> ELSE Return(d)
    BY <1>1 DEF RecvData, Polling
  <2> HIDE DEF d
  <2>2. CASE d = "none"
    BY <2>1, <2>2 DEF Cut
  <2>3. CASE d # "none"
    BY <2>1, <2>3 DEF Cut, Return
  <2> QED
    BY <2>2, <2>3
<1>2. CASE RecvEnd \/ RecvFailed
  BY <1>2 DEF RecvEnd, RecvFailed, Return
<1>3. CASE RecvPending
  BY <1>3 DEF RecvPending, Polling, streamVars
<1> QED
  BY <1>1, <1>2, <1>3 DEF RecvMessage

LEMMA LibraryKeeps == RespInv /\ Inv' /\ LibraryStep => RespInv'
<1> SUFFICES ASSUME RespInv, Inv', LibraryStep PROVE RespInv'
  OBVIOUS
<1>1. UNCHANGED <<style, http, headers, metadata, phase, code, origin>>
  BY DEF LibraryStep
<1>2. /\ answer \in [head: HeadMaps, trailers: TrailerMaps \cup {NoTrailers}, given: BOOLEAN]
      /\ answer' = [answer EXCEPT !.given = @ \/ result' = "trailers"]
  BY DEF LibraryStep, RespInv, OwnInv, ResponseTypeOK
<1>3. /\ answer' \in [head: HeadMaps, trailers: TrailerMaps \cup {NoTrailers}, given: BOOLEAN]
      /\ answer'.head = answer.head /\ answer'.trailers = answer.trailers
  BY <1>2
<1>4. call \in CallKinds /\ phase \in {"message", "trailers", "stream"}
  <2>1. call \in CallKinds
    BY DEF LibraryStep, RecvMessage, RecvData, RecvEnd, RecvFailed, RecvPending,
           PollNext, NextData, NextEnd, NextFailed, NextPending,
           TrailersReady, TrailersFailed, TrailersPending, Polling, CallKinds
  <2> QED
    BY <2>1 DEF RespInv, OwnInv, UnaryInv, ResponseTypeOK, Phases, CallKinds
<1>5. ResponseTypeOK'
  BY <1>1, <1>3 DEF RespInv, OwnInv, ResponseTypeOK, Inv
<1>6. VerdictInv'
  BY <1>1, <1>3, <1>4 DEF RespInv, OwnInv, VerdictInv, OkMeansServerSaidOk,
                          ErrorCodeIsTheServers, MetadataIsTheServers
<1>7. CASE phase = "message"
  <2>1. call = "recv_message" /\ taken = 0 /\ got = <<>>
    BY <1>4, <1>7 DEF RespInv, OwnInv, UnaryInv, CallKinds
  <2>2. RecvMessage
    BY <1>7, <2>1 DEF LibraryStep, PollNext, NextData, NextEnd, NextFailed, NextPending,
                      TrailersFailed, TrailersPending, Polling
  <2>3. UnaryInv'
    BY <1>1, <1>7, <2>1, <2>2, FirstReturn DEF RespInv, Inv, UnaryInv
  <2>4. trailers' = trailers
    BY <2>2 DEF RecvMessage, RecvData, RecvEnd, RecvFailed, RecvPending, bodyVars
  <2>5. HistoryInv'
    BY <1>1, <1>3, <2>4 DEF RespInv, OwnInv, HistoryInv
  <2> QED
    BY <1>5, <1>6, <2>3, <2>5 DEF RespInv, OwnInv
<1>8. CASE phase = "trailers"
  <2>1. call = "recv_trailers" /\ got = <<1>>
    BY <1>4, <1>8 DEF RespInv, OwnInv, UnaryInv, CallKinds
  <2>2. TrailersFailed \/ TrailersPending
    BY <1>8, <2>1 DEF LibraryStep, RecvMessage, RecvData, RecvEnd, RecvFailed, RecvPending,
                      PollNext, NextData, NextEnd, NextFailed, NextPending, Polling
  <2>3. got' = got /\ trailers' = trailers /\ call' \in {"idle", "recv_trailers"}
    BY <2>1, <2>2 DEF TrailersFailed, TrailersPending, Return, bodyVars, streamVars
  <2>4. UnaryInv' /\ HistoryInv'
    BY <1>1, <1>3, <1>8, <2>1, <2>3 DEF RespInv, OwnInv, UnaryInv, HistoryInv
  <2> QED
    BY <1>5, <1>6, <2>4 DEF RespInv, OwnInv
<1>9. CASE phase = "stream"
  BY <1>1, <1>5, <1>6, <1>9 DEF RespInv, OwnInv, UnaryInv, HistoryInv
<1> QED
  BY <1>4, <1>7, <1>8, <1>9

LEMMA ApplicationKeeps == RespInv /\ Inv' /\ Application => RespInv'
<1> SUFFICES ASSUME RespInv, Inv', Application PROVE RespInv'
  OBVIOUS
<1>1. /\ UNCHANGED <<style, http, headers, metadata, phase, code, origin, answer>>
      /\ phase = "stream" \/ (BodyAlive /\ Spurious)
  BY DEF Application, responseVars
<1>2. ResponseTypeOK'
  BY <1>1 DEF RespInv, OwnInv, ResponseTypeOK, Inv
<1>3. VerdictInv'
  BY <1>1 DEF RespInv, OwnInv, VerdictInv, OkMeansServerSaidOk, ErrorCodeIsTheServers,
              MetadataIsTheServers, ServerStatus, BodyAlive
<1>4. UnaryInv' /\ HistoryInv'
  BY <1>1 DEF RespInv, OwnInv, UnaryInv, HistoryInv, Spurious, streamVars
<1> QED
  BY <1>2, <1>3, <1>4 DEF RespInv, OwnInv

LEMMA HeadKeeps == RespInv /\ Inv' /\ (RejectHead \/ NewStreaming \/ NewUnary) => RespInv'
<1> SUFFICES ASSUME RespInv, Inv', RejectHead \/ NewStreaming \/ NewUnary PROVE RespInv'
  OBVIOUS
<1>1. /\ phase = "head" /\ http \in HttpStatuses /\ call = "idle"
      /\ taken = 0 /\ got = <<>> /\ headers = answer.head /\ trailers = answer.trailers
  BY DEF RespInv, OwnInv, ResponseTypeOK, UnaryInv, HistoryInv, RejectHead, NewStreaming,
         NewUnary
<1>2. CASE RejectHead
  <2>1. /\ phase' = "err" /\ origin' = "http" /\ code' = FromHttpStatus(http)
        /\ UNCHANGED <<style, http, headers, metadata, answer>> /\ call' = call
    BY <1>2 DEF RejectHead, Fail, vars, streamVars
  <2> QED
    BY <1>1, <2>1, HttpCodes, FailsSoberly DEF Origins
<1>3. CASE NewStreaming
  <2>1. /\ phase' = "stream" /\ metadata' = MergeHttpHeader(NewMap, answer.head)
        /\ UNCHANGED <<style, http, headers, code, origin, answer>>
    BY <1>1, <1>3 DEF NewStreaming
  <2>2. MetadataIsTheServers' /\ DOMAIN metadata' \subseteq Spelled \ Reserved
    <3>1. answer.head \in HeadMaps
      BY <1>1 DEF RespInv, OwnInv, ResponseTypeOK
    <3>2. HeaderMap(answer.head)
      BY <3>1, ResponseAssumption DEF HeaderMap
    <3>3. /\ DOMAIN metadata' \subseteq Spelled \ Reserved
          /\ \A n \in Spelled :
               /\ n \in Reserved => Values(metadata', n) = <<>>
               /\ n \notin Reserved =>
                    Values(metadata', n) = Only(Values(answer.head, n), Printable)
      BY <2>1, <3>2, MetadataOf
    <3> QED
      BY <2>1, <3>3 DEF MetadataIsTheServers
  <2>3. ResponseTypeOK' /\ UnaryInv' /\ HistoryInv'
    BY <2>1, <2>2 DEF RespInv, OwnInv, Inv, ResponseTypeOK, UnaryInv, HistoryInv, Phases
  <2>4. VerdictInv'
    BY <2>1, <2>2 DEF VerdictInv, OkMeansServerSaidOk, ErrorCodeIsTheServers
  <2> QED
    BY <2>3, <2>4 DEF RespInv, OwnInv
<1>4. CASE NewUnary
  <2>1. /\ phase' = "message" /\ http = 200 /\ call' = "recv_message"
        /\ UNCHANGED <<taken, got, trailers>>
        /\ UNCHANGED <<style, http, headers, metadata, code, origin, answer>>
    BY <1>1, <1>4, HttpCodes DEF NewUnary, Start, bodyVars
  <2>2. ResponseTypeOK' /\ UnaryInv' /\ HistoryInv'
    BY <1>1, <2>1 DEF RespInv, OwnInv, Inv, ResponseTypeOK, UnaryInv, HistoryInv, Phases
  <2>3. VerdictInv'
    BY <2>1 DEF VerdictInv, OkMeansServerSaidOk, ErrorCodeIsTheServers, MetadataIsTheServers
  <2> QED
    BY <2>2, <2>3 DEF RespInv, OwnInv
<1> QED
  BY <1>2, <1>3, <1>4

LEMMA BodyKeeps == RespInv /\ Inv' /\ (NoMessage \/ FirstMessage \/ BodyError) => RespInv'
<1> SUFFICES ASSUME RespInv, Inv', NoMessage \/ FirstMessage \/ BodyError PROVE RespInv'
  OBVIOUS
<1>1. CASE NoMessage \/ BodyError
  <2>1. /\ phase' = "err" /\ origin' \in {"missing", "body"} /\ code' \in Code
        /\ UNCHANGED <<style, http, headers, metadata, answer>> /\ call' = "idle"
    BY <1>1 DEF NoMessage, BodyError, Fail, BodyStatus, vars, streamVars, Code, Internal,
                Unimplemented
  <2> QED
    BY <2>1, FailsSoberly DEF Origins
<1>2. CASE FirstMessage
  <2>1. /\ phase = "message" /\ phase' = "trailers" /\ got = <<1>>
        /\ call' = "recv_trailers" /\ UNCHANGED <<got, trailers>>
        /\ UNCHANGED <<style, http, headers, metadata, code, origin, answer>>
    BY <1>2 DEF FirstMessage, Start, bodyVars, RespInv, OwnInv, UnaryInv
  <2>2. ResponseTypeOK' /\ UnaryInv' /\ HistoryInv'
    BY <2>1 DEF RespInv, OwnInv, Inv, ResponseTypeOK, UnaryInv, HistoryInv, Phases
  <2>3. VerdictInv'
    BY <2>1 DEF VerdictInv, OkMeansServerSaidOk, ErrorCodeIsTheServers, MetadataIsTheServers
  <2> QED
    BY <2>2, <2>3 DEF RespInv, OwnInv
<1> QED
  BY <1>1, <1>2

LEMMA ConcludeKeeps == RespInv /\ Inv' /\ Conclude => RespInv'
<1> SUFFICES ASSUME RespInv, Inv', Conclude PROVE RespInv'
  OBVIOUS
<1> DEFINE all == IF trailers = NoTrailers THEN headers ELSE Extend(headers, trailers)
           status == FromHeaderMap(headers')
<1>1. /\ phase = "trailers" /\ http = 200 /\ got = <<1>>
      /\ headers = answer.head /\ trailers = answer.trailers
      /\ headers \in HeadMaps /\ trailers \in TrailerMaps \cup {NoTrailers}
  BY DEF Conclude, RespInv, OwnInv, UnaryInv, HistoryInv, ResponseTypeOK
<1>2. /\ headers' = all /\ UNCHANGED <<style, http, answer>>
      /\ call' = "idle" /\ bodyEnd = "eof" /\ UNCHANGED <<wire, bodyEnd, got, received, taken>>
  BY DEF Conclude, TrailersReady, AtEnd, Return
<1>3. status = ServerStatus /\ status.code \in Code
  BY <1>1, <1>2, LastWord, CodeOfHeaders DEF ServerStatus
<1>4. DOMAIN headers' \subseteq
        (UNION {DOMAIN h : h \in HeadMaps}) \cup (UNION {DOMAIN t : t \in TrailerMaps})
  <2>1. CASE trailers = NoTrailers
    BY <1>1, <1>2, <2>1
  <2>2. CASE trailers # NoTrailers
    <3>1. headers' = Extend(headers, trailers) /\ trailers \in TrailerMaps
      BY <1>1, <1>2, <2>2
    <3>2. DOMAIN headers' = DOMAIN headers \cup DOMAIN trailers
      BY <3>1 DEF Extend
    <3>3. DOMAIN headers \in {DOMAIN h : h \in HeadMaps}
      BY <1>1
    <3>4. DOMAIN trailers \in {DOMAIN t : t \in TrailerMaps}
      BY <3>1
    <3> QED
      BY <3>2, <3>3, <3>4
  <2> QED
    BY <2>1, <2>2
<1>5. /\ got' = <<1>> /\ wire'[1].end <= received' /\ ServerStatus' = ServerStatus
  <2>1. /\ got \in Seq(Nat) /\ Len(got) = 1 /\ got[1] = 1
    BY <1>1
  <2>2. 1 \in 1 .. taken
    BY <2>1 DEF RespInv, Inv, InOrderExactlyOnce
  <2>3. wire[1].end <= received
    BY <2>2 DEF RespInv, Inv, InOrderExactlyOnce
  <2> QED
    BY <1>1, <1>2, <2>3 DEF ServerStatus
<1>0. status = OkResult(Ok) <=> status.ok /\ IsOk(status.code)
  BY OkIsOneResult
<1> HIDE DEF status
<1>6. CASE status = OkResult(Ok)
  <2>1. phase' = "ok" /\ UNCHANGED <<code, origin>>
        /\ metadata' = MergeHttpHeader(NewMap, headers')
    BY <1>0, <1>6 DEF Conclude, status
  <2>0. HeaderMap(answer.head) /\ HeaderMap(headers')
    <3>1. HeaderMap(answer.head)
      BY <1>1, ResponseAssumption DEF HeaderMap
    <3>2. trailers # NoTrailers => HeaderMap(trailers)
      BY <1>1, ResponseAssumption DEF HeaderMap
    <3> QED
      BY <1>1, <1>2, <3>1, <3>2, ValuesOfBoth
  <2>2. /\ DOMAIN metadata' \subseteq Spelled \ Reserved
        /\ \A n \in Spelled :
             /\ n \in Reserved => Values(metadata', n) = <<>>
             /\ n \notin Reserved => Values(metadata', n) = Only(Values(headers', n), Printable)
    BY <2>0, <2>1, MetadataOf
  <2>3. \A n :
          /\ answer.trailers # NoTrailers /\ Has(answer.trailers, n) =>
               Values(headers', n) = answer.trailers[n]
          /\ ~(answer.trailers # NoTrailers /\ Has(answer.trailers, n)) =>
               Values(headers', n) = Values(answer.head, n)
    BY <1>1, <1>2, ValuesOfBoth
  <2>4. MetadataIsTheServers'
    BY <1>2, <2>1, <2>2, <2>3 DEF MetadataIsTheServers
  <2>5. OkMeansServerSaidOk'
    BY <1>1, <1>2, <1>3, <1>5, <1>6 DEF OkMeansServerSaidOk
  <2>6. VerdictInv'
    BY <2>1, <2>4, <2>5 DEF VerdictInv, ErrorCodeIsTheServers
  <2>7. ResponseTypeOK' /\ UnaryInv' /\ HistoryInv'
    BY <1>2, <1>4, <2>1, <2>2
    DEF RespInv, OwnInv, Inv, ResponseTypeOK, UnaryInv, HistoryInv, Phases
  <2> QED
    BY <2>6, <2>7 DEF RespInv, OwnInv
<1>7. CASE status # OkResult(Ok)
  <2>1. /\ phase' = "err" /\ code' = status.code /\ origin' = "headers"
        /\ UNCHANGED metadata
    BY <1>0, <1>7 DEF Conclude, status, Fail
  <2>2. VerdictInv'
    BY <1>3, <1>5, <1>7, <2>1 DEF VerdictInv, OkMeansServerSaidOk, ErrorCodeIsTheServers,
                                  MetadataIsTheServers
  <2>3. ResponseTypeOK' /\ UnaryInv' /\ HistoryInv'
    BY <1>2, <1>3, <1>4, <2>1 DEF RespInv, OwnInv, Inv, ResponseTypeOK, UnaryInv, HistoryInv,
                                  Phases, Origins
  <2> QED
    BY <2>2, <2>3 DEF RespInv, OwnInv
<1> QED
  BY <1>6, <1>7

LEMMA RespNext == RespInv /\ [ResponseNext]_allVars => RespInv'
<1> SUFFICES ASSUME RespInv, [ResponseNext]_allVars PROVE RespInv'
  OBVIOUS
<1>1. Inv'
  BY StreamingStep, InvNext DEF RespInv, allVars
<1>2. CASE ServerStep
  BY <1>1, <1>2, ServerKeeps
<1>3. CASE LibraryStep
  BY <1>1, <1>3, LibraryKeeps
<1>4. CASE Application
  BY <1>1, <1>4, ApplicationKeeps
<1>5. CASE Constructor
  BY <1>1, <1>5, HeadKeeps, BodyKeeps, ConcludeKeeps DEF Constructor
<1>6. CASE DropCall
  <2>1. /\ phase' = "dropped" /\ call' = "idle"
        /\ UNCHANGED <<style, http, headers, metadata, code, origin, answer>>
    BY <1>6 DEF DropCall, Cancel, Return
  <2> QED
    BY <1>1, <2>1, FailsSoberly DEF RespInv, OwnInv, ResponseTypeOK
<1>7. CASE UNCHANGED allVars
  <2>1. /\ UNCHANGED <<style, http, headers, metadata, phase, code, origin, answer>>
        /\ UNCHANGED <<wire, flushed, queue, bodyEnd, trailers, waker, parked>>
        /\ UNCHANGED <<received, taken, got, call, result, ended>>
    BY <1>7 DEF allVars, responseVars, vars, bodyVars, streamVars
  <2>2. ResponseTypeOK' /\ UnaryInv' /\ HistoryInv'
    BY <1>1, <2>1 DEF RespInv, OwnInv, Inv, ResponseTypeOK, UnaryInv, HistoryInv
  <2>3. VerdictInv'
    BY <2>1 DEF RespInv, OwnInv, VerdictInv, OkMeansServerSaidOk, ErrorCodeIsTheServers,
                MetadataIsTheServers, ServerStatus
  <2> QED
    BY <1>1, <2>2, <2>3 DEF RespInv, OwnInv
<1> QED
  BY <1>2, <1>3, <1>4, <1>5, <1>6, <1>7 DEF ResponseNext

LEMMA RespInvariance == ResponseSpec => []RespInv
BY RespInit, RespNext, PTL DEF ResponseSpec

-----------------------------------------------------------------------------
(* The theorems.                                                           *)

\* Every variable of a response keeps its type; the code of a status is one of
\* the seventeen.
THEOREM ResponseTypeCorrect == ResponseSpec => []ResponseTypeOK
<1>1. RespInv => ResponseTypeOK
  BY DEF RespInv, OwnInv
<1> QED
  BY <1>1, RespInvariance, PTL

\* A unary call succeeds only with the whole first message, the end of the stream
\* and the server's OK.
THEOREM OkIsTheServers == ResponseSpec => []OkMeansServerSaidOk
<1>1. RespInv => OkMeansServerSaidOk
  BY DEF RespInv, OwnInv, VerdictInv
<1> QED
  BY <1>1, RespInvariance, PTL

\* An error made of the headers is the server's, code and all.
THEOREM ErrorIsTheServers == ResponseSpec => []ErrorCodeIsTheServers
<1>1. RespInv => ErrorCodeIsTheServers
  BY DEF RespInv, OwnInv, VerdictInv
<1> QED
  BY <1>1, RespInvariance, PTL

\* The metadata of a response is what the server has said last, less what is
\* gRPC's own or not printable.
THEOREM MetadataOfTheServer == ResponseSpec => []MetadataIsTheServers
<1>1. RespInv => MetadataIsTheServers
  BY DEF RespInv, OwnInv, VerdictInv
<1> QED
  BY <1>1, RespInvariance, PTL

-----------------------------------------------------------------------------
(* Wake-ups.                                                               *)

\* A task that sleeps in recv_trailers is known to the body or kept by a chunk.
TrailersSleep ==
  parked /\ call = "recv_trailers" => (waker /\ NothingYet) \/ DataReady

LEMMA TrailersSleepKept ==
  ASSUME Inv, TrailersSleep, Next
  PROVE  TrailersSleep'
<1>1. CASE Server /\ UNCHANGED streamVars
  <2>1. call' = call
    BY <1>1 DEF streamVars
  <2>2. ASSUME NEW kind \in Kinds, NEW size \in Sizes, Write(kind, size)
        PROVE  TrailersSleep'
    BY <2>1, <2>2 DEF Write, TrailersSleep, NothingYet, DataReady
  <2>3. ASSUME Wake, queue' = queue \/ queue' # <<>>
        PROVE  TrailersSleep'
    <3>1. parked' => parked /\ ~waker
      BY <2>3, Zenon DEF Wake
    <3>2. parked' /\ call = "recv_trailers" => DataReady
      BY <3>1 DEF TrailersSleep
    <3> QED
      BY <2>1, <2>3, <3>2 DEF TrailersSleep, DataReady
  <2>4. ASSUME NEW e \in flushed .. Total, Arrive(e)
        PROVE  Wake /\ queue' # <<>>
    <3>1. queue \in Seq(Nat)
      BY DEF Inv, TypeOK, BodyTypeOK
    <3> QED
      BY <2>4, <3>1 DEF Arrive
  <2> QED
    BY <1>1, <2>2, <2>3, <2>4 DEF Server, Finish, Reset
<1>2. CASE RecvMessage \/ PollNext
  <2>1. call' # "recv_trailers"
    BY <1>2 DEF RecvMessage, RecvData, RecvEnd, RecvFailed, RecvPending,
                PollNext, NextData, NextEnd, NextFailed, NextPending,
                Polling, Return, Yield, streamVars
  <2> QED
    BY <2>1 DEF TrailersSleep
<1>3. CASE RecvTrailers
  BY <1>3 DEF RecvTrailers, TrailersReady, TrailersFailed, TrailersPending, Return,
              ParkAwake, ParkDeaf, NothingYet, DataReady, TrailersSleep
<1>4. ASSUME NEW c \in Calls, Start(c)
      PROVE  TrailersSleep'
  BY <1>4 DEF Start, bodyVars, Inv, WakerInv, TrailersSleep
<1>5. CASE Cancel \/ Spurious
  BY <1>5 DEF Cancel, Spurious, TrailersSleep
<1> QED
  BY <1>1, <1>2, <1>3, <1>4, <1>5 DEF Next, RecvMessage, PollNext, RecvTrailers

\* A unary call that sleeps will be woken by whatever the server does next, unless a
\* chunk behind its first message keeps it from the trailers.
THEOREM UnaryNoLostWakeUp == ResponseSpec => []UnaryNeverParksDeaf
<1>1. ResponseInit => TrailersSleep
  BY DEF ResponseInit, Init, BodyInit, TrailersSleep
<1>2. RespInv /\ TrailersSleep /\ [ResponseNext]_allVars => TrailersSleep'
  <2> SUFFICES ASSUME RespInv, TrailersSleep, [Next]_vars PROVE TrailersSleep'
    BY StreamingStep DEF allVars
  <2>1. CASE Next
    BY <2>1, TrailersSleepKept DEF RespInv
  <2>2. CASE UNCHANGED vars
    BY <2>2 DEF vars, bodyVars, streamVars, TrailersSleep, NothingYet, DataReady
  <2> QED
    BY <2>1, <2>2
<1>3. RespInv /\ TrailersSleep => UnaryNeverParksDeaf
  <2> SUFFICES ASSUME RespInv, TrailersSleep, phase \in {"message", "trailers"}, parked
               PROVE  (waker /\ NothingYet) \/ (phase = "trailers" /\ DataReady)
    BY DEF UnaryNeverParksDeaf
  <2>1. call # "idle"
    BY DEF RespInv, Inv, WakerInv
  <2>2. CASE phase = "message"
    BY <2>1, <2>2 DEF RespInv, OwnInv, UnaryInv, Inv, RecvNeverParksDeaf
  <2>3. CASE phase = "trailers"
    BY <2>1, <2>3 DEF RespInv, OwnInv, UnaryInv, TrailersSleep
  <2> QED
    BY <2>2, <2>3
<1> QED
  BY <1>1, <1>2, <1>3, RespInvariance, PTL DEF ResponseSpec
=============================================================================
