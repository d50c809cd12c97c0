------------------------------ MODULE Streaming -----------------------------
(***************************************************************************)
(* Streaming<T> of src/grpc.rs: the receiving half of a call.  It collects *)
(* the chunks of the body in buf and cuts length-prefixed messages out of  *)
(* it.  The application awaits recv_message, next (poll_next, through      *)
(* message_stream) and recv_trailers, one call at a time since all of them *)
(* take &mut self, and may drop a call that is pending.                    *)
(*                                                                         *)
(* buf holds the bytes from Consumed to received.                          *)
(***************************************************************************)
EXTENDS Body, FiniteSets

CONSTANTS
  Calls,          \* the calls the application makes
  MayCancel,      \* the application drops pending calls (select!, timeout)
  SpuriousWakes   \* something else wakes the task while it is parked

CallKinds == {"recv_message", "next", "recv_trailers"}

ASSUME StreamingAssumption ==
  /\ Calls \subseteq CallKinds
  /\ MayCancel \in BOOLEAN
  /\ SpuriousWakes \in BOOLEAN

VARIABLES
  received,  \* offset up to which the body was copied into buf
  taken,     \* frames cut out of buf
  got,       \* frames handed to the application as messages, in order
  call,      \* the call in progress, or "idle"
  result,    \* what the last call returned
  ended      \* recv_message has returned Ok(None)

streamVars == <<received, taken, got, call, result, ended>>
vars == <<bodyVars, streamVars>>

\* What decode returns: None, a message, or one of its two errors.
Decodings == FrameKinds \cup {"none"}
Results == FrameKinds \cup
  {"new", "cancelled", "transport", "end", "trailers", "no_trailers"}

Consumed == IF taken = 0 THEN 0 ELSE wire[taken].end

TypeOK ==
  /\ BodyTypeOK
  /\ received \in Nat
  /\ taken \in 0 .. Len(wire)
  /\ got \in Seq(Nat)
  /\ call \in CallKinds \cup {"idle"}
  /\ result \in Results
  /\ ended \in BOOLEAN

Init ==
  /\ BodyInit
  /\ received = 0
  /\ taken = 0
  /\ got = <<>>
  /\ call = "idle"
  /\ result = "new"
  /\ ended = FALSE

-----------------------------------------------------------------------------
(* ProstDecoder::decode on a buffer that ends at offset r.                 *)

\* Slip: only the prefix is waited for, not the payload.
DecodeEarly(r) ==
  IF r - Consumed < HEADER_SIZE THEN "none" ELSE wire[taken + 1].kind

Decode(r) ==
  LET f == wire[taken + 1]
  IN  IF \/ r - Consumed < HEADER_SIZE
         \/ f.kind # "compressed" /\ r < f.end
      THEN "none"
      ELSE f.kind

\* Slip: the frame is advanced past once more after the payload is split off.
CutTwice(d) ==
  /\ taken' = IF d \in {"message", "undecodable"} THEN taken + 2 ELSE taken
  /\ got' = IF d = "message" THEN Append(got, taken + 1) ELSE got

\* decode advances past a whole frame before it parses the payload, so a
\* payload that does not parse is gone; a compressed frame stays in buf.
Cut(d) ==
  /\ taken' = IF d \in {"message", "undecodable"} THEN taken + 1 ELSE taken
  /\ got' = IF d = "message" THEN Append(got, taken + 1) ELSE got

\* The body yields its first waiting chunk, which is appended to buf.
TakeChunk ==
  /\ DataReady
  /\ received' = Head(queue)
  /\ queue' = Tail(queue)

Return(r) ==
  /\ call' = "idle"
  /\ result' = r

Polling(c) == call = c /\ ~parked

-----------------------------------------------------------------------------
(* recv_message: one iteration of its loop, from one poll of the body to   *)
(* the next.                                                               *)

\* Slip: an incomplete frame suspends the loop, as in poll_message.
RecvDataParks ==
  /\ Polling("recv_message")
  /\ TakeChunk
  /\ LET d == Decode(received')
     IN  /\ Cut(d)
         /\ IF d = "none" THEN ParkDeaf /\ UNCHANGED <<call, result>>
                          ELSE Return(d) /\ UNCHANGED <<waker, parked>>
  /\ UNCHANGED <<wire, flushed, bodyEnd, trailers, ended>>

\* Slip: a chunk that does not start with a prefix is only collected.
RecvDataCollects ==
  /\ Polling("recv_message")
  /\ TakeChunk
  /\ UNCHANGED <<taken, got, call, result>>
  /\ UNCHANGED <<wire, flushed, bodyEnd, trailers, waker, parked, ended>>

RecvData ==
  /\ Polling("recv_message")
  /\ TakeChunk
  /\ LET d == Decode(received')
     IN  /\ Cut(d)
         /\ IF d = "none" THEN UNCHANGED <<call, result>> ELSE Return(d)
  /\ UNCHANGED <<wire, flushed, bodyEnd, trailers, waker, parked, ended>>

\* Slip: the end of the body is waited out.
RecvEndParks ==
  /\ Polling("recv_message")
  /\ AtEnd
  /\ ParkDeaf
  /\ UNCHANGED <<wire, flushed, queue, bodyEnd, trailers, streamVars>>

\* Slip: the trailers are dropped with the last of the data.
RecvEndDropsTrailers ==
  /\ Polling("recv_message")
  /\ AtEnd
  /\ Return("end")
  /\ ended' = TRUE
  /\ trailers' = NoTrailers
  /\ UNCHANGED <<wire, flushed, queue, bodyEnd, waker, parked, received, taken, got>>

\* The body has ended: Ok(None), without another look at buf.
RecvEnd ==
  /\ Polling("recv_message")
  /\ AtEnd
  /\ Return("end")
  /\ ended' = TRUE
  /\ UNCHANGED <<bodyVars, received, taken, got>>

\* Slip: an error of the body is taken for its end.
RecvFailedEnds ==
  /\ Polling("recv_message")
  /\ AtReset
  /\ Return("end")
  /\ ended' = TRUE
  /\ UNCHANGED <<bodyVars, received, taken, got>>

RecvFailed ==
  /\ Polling("recv_message")
  /\ AtReset
  /\ Return("transport")
  /\ UNCHANGED <<bodyVars, received, taken, got, ended>>

\* Slip: the wake-up is left to somebody else.
RecvPendingDeaf ==
  /\ Polling("recv_message")
  /\ NothingYet
  /\ ParkDeaf
  /\ UNCHANGED <<wire, flushed, queue, bodyEnd, trailers, streamVars>>

RecvPending ==
  /\ Polling("recv_message")
  /\ NothingYet
  /\ ParkAwake
  /\ UNCHANGED <<wire, flushed, queue, bodyEnd, trailers, streamVars>>

-----------------------------------------------------------------------------
(* poll_next, which is poll_message: one poll of the stream.               *)

\* Both arms that reach decode turn its None into Poll::Pending, although the
\* body was ready and registered no waker.
Yield(d) ==
  /\ Cut(d)
  /\ IF d = "none"
     THEN ParkDeaf /\ UNCHANGED <<call, result>>
     ELSE Return(d) /\ UNCHANGED <<waker, parked>>

NextData ==
  /\ Polling("next")
  /\ TakeChunk
  /\ Yield(Decode(received'))
  /\ UNCHANGED <<wire, flushed, bodyEnd, trailers, ended>>

\* Slip: at the end of the body buf is not looked at again.
NextEndParks ==
  /\ Polling("next")
  /\ AtEnd
  /\ ParkDeaf
  /\ UNCHANGED <<wire, flushed, queue, bodyEnd, trailers, streamVars>>

\* The body has ended: decode what is left in buf.
NextEnd ==
  /\ Polling("next")
  /\ AtEnd
  /\ Yield(Decode(received))
  /\ UNCHANGED <<wire, flushed, queue, bodyEnd, trailers, received, ended>>

NextFailed ==
  /\ Polling("next")
  /\ AtReset
  /\ Return("transport")
  /\ UNCHANGED <<bodyVars, received, taken, got, ended>>

NextPending ==
  /\ Polling("next")
  /\ NothingYet
  /\ ParkAwake
  /\ UNCHANGED <<wire, flushed, queue, bodyEnd, trailers, streamVars>>

-----------------------------------------------------------------------------
(* recv_trailers: the body gives its trailers once, and only when no chunk *)
(* is waiting; with a chunk in the way it returns Pending, and nobody is   *)
(* told when the chunk is gone.                                            *)

TrailersReady ==
  /\ Polling("recv_trailers")
  /\ AtEnd
  /\ Return(IF trailers = NoTrailers THEN "no_trailers" ELSE "trailers")
  /\ trailers' = NoTrailers
  /\ UNCHANGED <<wire, flushed, queue, bodyEnd, waker, parked,
                 received, taken, got, ended>>

TrailersFailed ==
  /\ Polling("recv_trailers")
  /\ AtReset
  /\ Return("transport")
  /\ UNCHANGED <<bodyVars, received, taken, got, ended>>

\* Slip: the trailers are looked for, and the wake-up is left to somebody else.
TrailersPendingDeaf ==
  /\ Polling("recv_trailers")
  /\ NothingYet \/ DataReady
  /\ ParkDeaf
  /\ UNCHANGED <<wire, flushed, queue, bodyEnd, trailers, streamVars>>

TrailersPending ==
  /\ Polling("recv_trailers")
  /\ \/ NothingYet /\ ParkAwake
     \/ DataReady /\ ParkDeaf
  /\ UNCHANGED <<wire, flushed, queue, bodyEnd, trailers, streamVars>>

-----------------------------------------------------------------------------
(* The application and its executor.                                       *)

Start(c) ==
  /\ call = "idle"
  /\ call' = c
  /\ UNCHANGED <<bodyVars, received, taken, got, result, ended>>

\* The future of the call is dropped while it is pending.
Cancel ==
  /\ MayCancel
  /\ call # "idle"
  /\ parked
  /\ parked' = FALSE
  /\ Return("cancelled")
  /\ UNCHANGED <<wire, flushed, queue, bodyEnd, trailers, waker,
                 received, taken, got, ended>>

\* The task runs again for a reason that has nothing to do with the body.
Spurious ==
  /\ SpuriousWakes
  /\ parked
  /\ parked' = FALSE
  /\ UNCHANGED <<wire, flushed, queue, bodyEnd, trailers, waker, streamVars>>

RecvMessage == RecvData \/ RecvEnd \/ RecvFailed \/ RecvPending
PollNext == NextData \/ NextEnd \/ NextFailed \/ NextPending
RecvTrailers == TrailersReady \/ TrailersFailed \/ TrailersPending

Library == RecvMessage \/ PollNext \/ RecvTrailers

Next ==
  \/ Server /\ UNCHANGED streamVars
  \/ RecvData \/ RecvEnd \/ RecvFailed \/ RecvPending
  \/ NextData \/ NextEnd \/ NextFailed \/ NextPending
  \/ TrailersReady \/ TrailersFailed \/ TrailersPending
  \/ \E c \in Calls : Start(c)
  \/ Cancel
  \/ Spurious

Spec == Init /\ [][Next]_vars

\* A runnable task is eventually polled, and the application calls again.
Fairness ==
  /\ WF_vars(Library)
  /\ WF_vars(\E c \in Calls : Start(c))
  /\ WF_vars(Spurious)

FairSpec == Spec /\ Fairness

-----------------------------------------------------------------------------
(* Properties.                                                             *)

\* The head of buf is a compressed frame, which decode never gets past.
Wedged == taken < Len(wire) /\ wire[taken + 1].kind = "compressed"

\* Frames that are whole in buf and not cut out of it yet.
Lag == {i \in taken + 1 .. Len(wire) : wire[i].end <= received}

\* Whatever the chunking, and however recv_message, next, recv_trailers and
\* dropped calls are mixed, the application gets the messages that parse, each
\* once and in order, never one whose bytes have not all arrived, never one
\* from behind a compressed frame, and none is skipped up to the last one taken.
InOrderExactlyOnce ==
  /\ \A j, k \in 1 .. Len(got) : j < k => got[j] < got[k]
  /\ \A j \in 1 .. Len(got) :
       /\ got[j] \in 1 .. taken
       /\ wire[got[j]].kind = "message"
  /\ \A i \in 1 .. taken :
       /\ wire[i].end <= received
       /\ wire[i].kind # "compressed"
       /\ wire[i].kind = "message" => \E j \in 1 .. Len(got) : got[j] = i

\* A task that waits in recv_message is known to the body, which has nothing
\* for it: the next event of the stream wakes it.  (next has no such property.)
RecvNeverParksDeaf ==
  parked /\ call = "recv_message" => waker /\ NothingYet

\* The frames the step completes in buf.
Completed ==
  {i \in 1 .. Len(wire) : received < wire[i].end /\ wire[i].end <= received'}

LagStep ==
  Cardinality(Lag') > Cardinality(Lag) /\ ~Wedged => Cardinality(Completed) > 1

\* A message is left behind in buf only when one chunk completes several: every
\* call that reads a chunk cuts one frame, so a chunk that completes at most
\* one frame never makes the backlog grow.
LagGrowsOnlyByCoalescing == [][LagStep]_vars

-----------------------------------------------------------------------------
(* What the stream promises when no chunk carries bytes of two messages    *)
(* and the server closes it at the end of a message: OneFramePerChunk and  *)
(* CleanClose.                                                             *)

Promise == INSTANCE MessageStream WITH
  sent   <- [i \in DOMAIN wire |-> wire[i].kind],
  closed <- bodyEnd = "eof",
  cursor <- taken,
  handed <- got,
  over   <- ended

\* Under both conditions the receiving half implements the message stream: in
\* particular Ok(None) from recv_message means that every message was handed
\* over, whichever calls were mixed, dropped or woken in between.
ImplementsMessageStream == Promise!StreamSpec

\* Frame i has reached the body as a whole.
Here(i) == i <= Len(wire) /\ wire[i].end <= flushed

\* With recv_message as its only call, an application that keeps calling gets
\* every message that has arrived, timeouts and lost connections included:
\* what stops it is only a compressed frame in front.
EverythingArrives ==
  \A i \in 1 .. MaxFrames : Here(i) ~> (taken >= i \/ Wedged)

\* ... and it is told that the stream has ended.
EndIsReported == bodyEnd = "eof" ~> ended

\* With next as its only call, an application whose task keeps being polled for
\* other reasons gets, once the server has ended the stream, every message that
\* arrived, whatever the chunks: poll_message still cuts frames at the end of
\* the body, where recv_message gives up.
NextDrainsAtEnd ==
  \A i \in 1 .. MaxFrames :
    (Here(i) /\ bodyEnd = "eof") ~> (taken >= i \/ Wedged)

\* A loop `while let Some(m) = stream.next().await` leaves when the server has
\* ended the stream.
LoopEnds == bodyEnd = "eof" ~> result = "end"
=============================================================================
