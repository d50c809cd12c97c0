-------------------------------- MODULE Body --------------------------------
(***************************************************************************)
(* The response body of one call as liegrpc uses it: hyper's Body over an  *)
(* HTTP/2 stream, together with the server that fills it and the task that *)
(* polls it.  None of this code is under src/; it is modelled from the     *)
(* three calls src/grpc.rs makes on it (data, poll_data, trailers).        *)
(*                                                                         *)
(* Bytes are offsets.  The server writes one contiguous byte stream, so a  *)
(* buffer or a chunk is determined by the offset at which it ends; a frame *)
(* records the offset at which it ends and what its bytes decode to.       *)
(***************************************************************************)
EXTENDS Naturals, Sequences

CONSTANTS
  HEADER_SIZE,       \* length of the frame prefix: flag byte and u32 length
  Sizes,             \* payload sizes the server may use
  Kinds,             \* kinds of frame the server may write
  MaxFrames,         \* bound on the number of frames of the stream
  MaxQueue,          \* bound on the DATA frames waiting in the body
  TrailerMaps,       \* trailers the server may send
  NoTrailers,        \* the stream ends without trailers
  OneFramePerChunk,  \* no DATA frame carries bytes of two messages
  CleanClose,        \* the stream ends at the end of a message
  MayReset           \* the stream may be reset or the connection lost

\* What becomes of a frame once it is whole: its payload parses, it does not, or
\* its flag byte asks for compression.
FrameKinds == {"message", "undecodable", "compressed"}

ASSUME BodyAssumption ==
  /\ HEADER_SIZE \in Nat \ {0}
  /\ Sizes \subseteq Nat
  /\ Kinds \subseteq FrameKinds
  /\ MaxFrames \in Nat
  /\ MaxQueue \in Nat
  /\ OneFramePerChunk \in BOOLEAN
  /\ CleanClose \in BOOLEAN
  /\ MayReset \in BOOLEAN

VARIABLES
  wire,      \* frames the server has written, in order
  flushed,   \* offset up to which the bytes have reached the body
  queue,     \* DATA frames not read yet, each the offset at which it ends
  bodyEnd,   \* "open", or how the stream ended: "eof" or "reset"
  trailers,  \* trailers not taken yet
  waker,     \* the body holds the waker of the polling task
  parked     \* the task returned Pending and waits for a wake-up

bodyVars == <<wire, flushed, queue, bodyEnd, trailers, waker, parked>>

Frame == [kind: FrameKinds, end: Nat]

Total == IF wire = <<>> THEN 0 ELSE wire[Len(wire)].end

BodyTypeOK ==
  /\ wire \in Seq(Frame)
  /\ flushed \in Nat
  /\ queue \in Seq(Nat)
  /\ bodyEnd \in {"open", "eof", "reset"}
  /\ trailers \in TrailerMaps \cup {NoTrailers}
  /\ waker \in BOOLEAN
  /\ parked \in BOOLEAN

BodyInit ==
  /\ wire = <<>>
  /\ flushed = 0
  /\ queue = <<>>
  /\ bodyEnd = "open"
  /\ trailers = NoTrailers
  /\ waker = FALSE
  /\ parked = FALSE

-----------------------------------------------------------------------------
(* The server and the connection.                                          *)

\* An event on the stream takes the registered waker, if any, and wakes it.
Wake ==
  /\ waker' = FALSE
  /\ parked' = (parked /\ ~waker)

\* The server writes the next frame of the stream.
Write(kind, size) ==
  /\ bodyEnd = "open"
  /\ Len(wire) < MaxFrames
  /\ wire' = Append(wire, [kind |-> kind, end |-> Total + HEADER_SIZE + size])
  /\ UNCHANGED <<flushed, queue, bodyEnd, trailers, waker, parked>>

\* A DATA frame reaches the body: the bytes from flushed up to offset e. It
\* need not respect the message boundaries, and it may be empty.
Arrive(e) ==
  /\ bodyEnd = "open"
  /\ Len(queue) < MaxQueue
  /\ e \in flushed .. Total
  /\ OneFramePerChunk =>
       \A i \in 1 .. Len(wire) : ~(flushed < wire[i].end /\ wire[i].end < e)
  /\ flushed' = e
  /\ queue' = Append(queue, e)
  /\ Wake
  /\ UNCHANGED <<wire, bodyEnd, trailers>>

\* The server ends the stream, with or without trailers.
Finish(t) ==
  /\ bodyEnd = "open"
  /\ CleanClose => flushed = Total
  /\ bodyEnd' = "eof"
  /\ trailers' = t
  /\ Wake
  /\ UNCHANGED <<wire, flushed, queue>>

\* RST_STREAM, GOAWAY or a lost connection.
Reset ==
  /\ MayReset
  /\ bodyEnd = "open"
  /\ bodyEnd' = "reset"
  /\ Wake
  /\ UNCHANGED <<wire, flushed, queue, trailers>>

Server ==
  \/ \E kind \in Kinds, size \in Sizes : Write(kind, size)
  \/ \E e \in flushed .. Total : Arrive(e)
  \/ \E t \in TrailerMaps \cup {NoTrailers} : Finish(t)
  \/ Reset

-----------------------------------------------------------------------------
(* What a poll of the body finds.  Frames that arrived before the end of   *)
(* the stream are read before it; an error is reported by every later poll.*)

DataReady  == queue # <<>>
AtEnd      == queue = <<>> /\ bodyEnd = "eof"
AtReset    == queue = <<>> /\ bodyEnd = "reset"
NothingYet == queue = <<>> /\ bodyEnd = "open"

\* The body returns Pending and keeps the waker of the task.
ParkAwake ==
  /\ parked' = TRUE
  /\ waker' = TRUE

\* The task returns Pending although the body registered nothing.
ParkDeaf ==
  /\ parked' = TRUE
  /\ UNCHANGED waker
=============================================================================
