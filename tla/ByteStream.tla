----------------------------- MODULE ByteStream -----------------------------
(***************************************************************************)
(* A stream of frames as bytes: one side encodes messages, the bytes reach *)
(* the buffer of the other in chunks, and are decoded there.  It relates   *)
(* the bytes of Codec to the offsets of Streaming.                         *)
(***************************************************************************)
EXTENDS Codec

CONSTANTS
  Payloads,    \* payloads that are sent
  MaxFrames,   \* bound on the number of frames
  MaxChunk     \* bound on the bytes of a chunk

ASSUME ByteStreamAssumption ==
  /\ Payloads \subseteq Seq(Byte)
  /\ MaxFrames \in Nat
  /\ MaxChunk \in Nat

VARIABLES
  frames,     \* frames sent: kind, payload and the offset of their end (history)
  bytes,      \* all bytes sent (history)
  received,   \* how many of them were appended to buf
  buf,        \* BytesMut of the receiver
  taken,      \* frames taken off buf
  decoded     \* messages that decode has returned

vars == <<frames, bytes, received, buf, taken, decoded>>

Init ==
  /\ frames = <<>>
  /\ bytes = <<>>
  /\ received = 0
  /\ buf = <<>>
  /\ taken = 0
  /\ decoded = <<>>

\* A frame with the given first byte is put on the stream.
Put(kind, payload, image) ==
  /\ Len(frames) < MaxFrames
  /\ bytes' = bytes \o image
  /\ frames' = Append(frames, [kind |-> kind, payload |-> payload, end |-> Len(bytes')])
  /\ UNCHANGED <<received, buf, taken, decoded>>

Send(payload) ==
  Put(IF payload \in Undecodable THEN "undecodable" ELSE "message",
      payload, Encode(payload))

\* A peer that compresses sets the flag byte.
SendCompressed(payload) ==
  Put("compressed", payload, [Encode(payload) EXCEPT ![1] = 1])

\* The next n bytes of the stream are appended to buf.
Receive(n) ==
  /\ received + n <= Len(bytes)
  /\ buf' = buf \o SubSeq(bytes, received + 1, received + n)
  /\ received' = received + n
  /\ UNCHANGED <<frames, bytes, taken, decoded>>

\* decode is called.
Take ==
  LET d == Decode(buf)
  IN  /\ d.kind \in {"message", "undecodable"}
      /\ buf' = d.rest
      /\ taken' = taken + 1
      /\ decoded' = IF d.kind = "message" THEN Append(decoded, d.payload) ELSE decoded
      /\ UNCHANGED <<frames, bytes, received>>

Next ==
  \/ \E payload \in Payloads : Send(payload) \/ SendCompressed(payload)
  \/ \E n \in 1 .. MaxChunk : Receive(n)
  \/ Take

Spec == Init /\ [][Next]_vars

-----------------------------------------------------------------------------

\* The receiving half of Streaming over the same frames.
Offsets == INSTANCE Streaming WITH
  HEADER_SIZE <- HeaderSize, Sizes <- {Len(p) : p \in Payloads},
  Kinds <- {"message", "undecodable", "compressed"}, MaxQueue <- 1,
  TrailerMaps <- {}, NoTrailers <- <<>>, OneFramePerChunk <- FALSE,
  CleanClose <- FALSE, MayReset <- FALSE, Calls <- {}, MayCancel <- FALSE,
  SpuriousWakes <- FALSE,
  wire <- [i \in DOMAIN frames |-> [kind |-> frames[i].kind, end |-> frames[i].end]],
  flushed <- received, queue <- <<>>, bodyEnd <- "open", trailers <- <<>>,
  waker <- FALSE, parked <- FALSE, got <- <<>>, call <- "idle",
  result <- "new", ended <- FALSE

\* Every length fits into its field.
LengthsFit == \A i \in DOMAIN frames : Len(frames[i].payload) < LengthLimit

\* Offsets say everything about the bytes: at every moment, decode finds in buf
\* what Streaming's Decode finds at the offset received.
OffsetsTellAll == LengthsFit => Decode(buf).kind = Offsets!Decode(received)

\* The payloads of the messages among some frames, in order.
MessagesOf(fs) ==
  LET among[n \in 0 .. Len(fs)] ==
        IF n = 0 THEN <<>>
        ELSE IF fs[n].kind = "message" THEN Append(among[n - 1], fs[n].payload)
        ELSE among[n - 1]
  IN  among[Len(fs)]

\* What was encoded is what is decoded, whatever the chunks: the messages returned
\* are the payloads of the frames taken that parse, in order, and what is in buf is
\* what follows the last of them.
DecodesWhatWasEncoded ==
  LengthsFit =>
    /\ decoded = MessagesOf(SubSeq(frames, 1, taken))
    /\ buf = SubSeq(bytes, Offsets!Consumed + 1, received)
=============================================================================
