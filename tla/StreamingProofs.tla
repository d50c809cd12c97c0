--------------------------- MODULE StreamingProofs --------------------------
(***************************************************************************)
(* Proofs about Streaming: for every header size, payload size, number of  *)
(* frames and of waiting chunks.                                           *)
(***************************************************************************)
EXTENDS Streaming, FiniteSetTheorems, TLAPS

-----------------------------------------------------------------------------
(* The inductive invariant.                                                *)

\* A frame ends at least a header behind the one before it.
FramesInv ==
  \A i \in 1 .. Len(wire) :
    /\ HEADER_SIZE <= wire[i].end
    /\ \A j \in 1 .. Len(wire) : i < j => wire[i].end + HEADER_SIZE <= wire[j].end

\* The waiting chunks lead, one after the other, from what was received to what
\* has reached the body, which is no more than was written.
QueueInv ==
  /\ received <= flushed
  /\ flushed <= Total
  /\ \A k \in 1 .. Len(queue) : received <= queue[k] /\ queue[k] <= flushed
  /\ \A k, l \in 1 .. Len(queue) : k < l => queue[k] <= queue[l]
  /\ IF queue = <<>> THEN received = flushed ELSE queue[Len(queue)] = flushed

\* The body keeps a waker only while it has nothing to report, and only a call
\* in progress is parked.
WakerInv ==
  /\ waker => NothingYet
  /\ parked => call # "idle"

Inv ==
  /\ TypeOK
  /\ FramesInv
  /\ QueueInv
  /\ InOrderExactlyOnce
  /\ WakerInv
  /\ RecvNeverParksDeaf

-----------------------------------------------------------------------------
(* What decode finds, and what cutting it off does to the invariant.       *)

\* The elements of wire are frames.
LEMMA FramesTyped ==
  ASSUME TypeOK
  PROVE  \A i \in 1 .. Len(wire) : wire[i].end \in Nat /\ wire[i].kind \in FrameKinds
<1>1. \A i \in 1 .. Len(wire) : wire[i] \in Frame
  BY DEF TypeOK, BodyTypeOK
<1> QED
  BY <1>1 DEF Frame

\* Every frame written so far ends at or before Total, and Consumed lies between
\* 0 and received.
LEMMA Bounds ==
  ASSUME TypeOK, FramesInv, QueueInv, InOrderExactlyOnce
  PROVE  /\ Total \in Nat /\ Consumed \in Nat
         /\ \A i \in 1 .. Len(wire) : wire[i].end \in Nat /\ wire[i].end <= Total
         /\ Consumed <= received /\ received <= Total
<1>1. \A i \in 1 .. Len(wire) : wire[i].end \in Nat /\ wire[i].kind \in FrameKinds
  BY FramesTyped
<1>2. wire # <<>> => Len(wire) \in 1 .. Len(wire)
  BY DEF TypeOK, BodyTypeOK
<1>3. Total \in Nat
  BY <1>1, <1>2 DEF Total
<1>4. ASSUME NEW i \in 1 .. Len(wire) PROVE wire[i].end <= Total
  <2>1. wire # <<>> /\ Len(wire) \in 1 .. Len(wire)
    BY <1>2 DEF TypeOK, BodyTypeOK
  <2>2. i < Len(wire) => wire[i].end + HEADER_SIZE <= wire[Len(wire)].end
    BY <2>1 DEF FramesInv
  <2>3. i = Len(wire) \/ i < Len(wire)
    BY <2>1
  <2> QED
    BY <1>1, <2>1, <2>2, <2>3, BodyAssumption DEF Total
<1>5. Consumed \in Nat /\ Consumed <= received
  BY <1>1 DEF TypeOK, Consumed, InOrderExactlyOnce
<1>6. received <= Total
  BY <1>3 DEF TypeOK, BodyTypeOK, QueueInv
<1> QED
  BY <1>1, <1>3, <1>4, <1>5, <1>6

\* decode on a buffer that ends at r returns something only for the next frame,
\* consumes that frame only when it is whole, and otherwise tells that it is not.
LEMMA Decoding ==
  ASSUME TypeOK, FramesInv, QueueInv, InOrderExactlyOnce,
         NEW r \in Nat, Consumed <= r, r <= Total
  PROVE  /\ Decode(r) \in Decodings
         /\ Decode(r) # "none" =>
              taken < Len(wire) /\ Decode(r) = wire[taken + 1].kind
         /\ Decode(r) \in {"message", "undecodable"} => wire[taken + 1].end <= r
         /\ (/\ Decode(r) = "none"
             /\ taken < Len(wire)
             /\ wire[taken + 1].kind # "compressed") => r < wire[taken + 1].end
         /\ taken < Len(wire) => Consumed + HEADER_SIZE <= wire[taken + 1].end
<1>1. \A i \in 1 .. Len(wire) : wire[i].end \in Nat /\ wire[i].kind \in FrameKinds
  BY FramesTyped
<1>2. taken \in Nat /\ Len(wire) \in Nat /\ taken <= Len(wire) /\ Consumed \in Nat
  BY Bounds DEF TypeOK, BodyTypeOK
<1>3. taken = Len(wire) => Consumed = Total
  BY <1>2 DEF Consumed, Total, TypeOK, BodyTypeOK
<1>4. r - Consumed >= HEADER_SIZE => taken < Len(wire)
  BY <1>2, <1>3, BodyAssumption
<1>5. ASSUME taken < Len(wire) PROVE Consumed + HEADER_SIZE <= wire[taken + 1].end
  BY <1>1, <1>2, <1>5, BodyAssumption DEF Consumed, FramesInv
<1>6. taken < Len(wire) => taken + 1 \in 1 .. Len(wire)
  BY <1>2
<1>7. Decode(r) # "none" =>
        r - Consumed >= HEADER_SIZE /\ Decode(r) = wire[taken + 1].kind
  BY <1>2, BodyAssumption DEF Decode
<1>8. Decode(r) \in Decodings
  BY <1>1, <1>4, <1>6, <1>7 DEF Decodings
<1>9. Decode(r) \in {"message", "undecodable"} => wire[taken + 1].end <= r
  BY <1>1, <1>2, <1>4, <1>6, <1>7 DEF Decode
<1>10. ASSUME Decode(r) = "none", taken < Len(wire), wire[taken + 1].kind # "compressed"
       PROVE  r < wire[taken + 1].end
  <2>1. wire[taken + 1].kind # "none" /\ wire[taken + 1].end \in Nat
    BY <1>1, <1>6, <1>10 DEF FrameKinds
  <2>2. r - Consumed < HEADER_SIZE \/ r < wire[taken + 1].end
    BY <1>10, <2>1 DEF Decode
  <2> QED
    BY <1>2, <1>5, <1>10, <2>1, <2>2, BodyAssumption
<1> QED
  BY <1>4, <1>5, <1>7, <1>8, <1>9, <1>10

\* Cutting off what decode finds keeps the order and the completeness of what
\* was handed over.
LEMMA CutKeepsOrder ==
  ASSUME TypeOK, FramesInv, QueueInv, InOrderExactlyOnce,
         NEW r \in Nat, received <= r, r <= Total,
         received' = r, wire' = wire, Cut(Decode(r))
  PROVE  /\ taken' \in 0 .. Len(wire')
         /\ got' \in Seq(Nat)
         /\ InOrderExactlyOnce'
         /\ Decode(r) \in Decodings
<1> DEFINE d == Decode(r)
           f == taken + 1
<1>1. /\ \A i \in 1 .. Len(wire) : wire[i].end \in Nat
      /\ taken \in Nat /\ Len(wire) \in Nat /\ taken <= Len(wire) /\ received \in Nat
      /\ got \in Seq(Nat)
  BY FramesTyped DEF TypeOK, BodyTypeOK
<1>2. Consumed <= r /\ Consumed \in Nat
  BY <1>1, Bounds
<1>3. /\ d \in Decodings
      /\ d # "none" => taken < Len(wire) /\ d = wire[f].kind
      /\ d \in {"message", "undecodable"} => wire[f].end <= r
  BY <1>2, Decoding
<1>4. CASE d = "message"
  <2>1. /\ taken' = f /\ got' = Append(got, f)
        /\ f \in 1 .. Len(wire) /\ wire[f].kind = "message" /\ wire[f].end <= r
    BY <1>1, <1>3, <1>4 DEF Cut
  <2>2. got' \in Seq(Nat) /\ Len(got') = Len(got) + 1 /\ Len(got) \in Nat
    BY <1>1, <2>1
  <2>3. /\ \A j \in 1 .. Len(got) : got'[j] = got[j] /\ got[j] \in 1 .. taken
        /\ got'[Len(got) + 1] = f
    BY <1>1, <2>1 DEF InOrderExactlyOnce
  <2>4. \A j, k \in 1 .. Len(got') : j < k => got'[j] < got'[k]
    <3> SUFFICES ASSUME NEW j \in 1 .. Len(got'), NEW k \in 1 .. Len(got'), j < k
                 PROVE  got'[j] < got'[k]
      OBVIOUS
    <3>1. j \in 1 .. Len(got)
      BY <2>2
    <3>2. CASE k = Len(got) + 1
      BY <1>1, <2>3, <3>1, <3>2
    <3>3. CASE k \in 1 .. Len(got)
      BY <2>3, <3>1, <3>3 DEF InOrderExactlyOnce
    <3> QED
      BY <2>2, <3>2, <3>3
  <2>5. \A j \in 1 .. Len(got') :
          got'[j] \in 1 .. taken' /\ wire'[got'[j]].kind = "message"
    <3> SUFFICES ASSUME NEW j \in 1 .. Len(got')
                 PROVE  got'[j] \in 1 .. taken' /\ wire'[got'[j]].kind = "message"
      OBVIOUS
    <3>1. CASE j = Len(got) + 1
      BY <1>1, <2>1, <2>3, <3>1
    <3>2. CASE j \in 1 .. Len(got)
      <4>1. got'[j] \in 1 .. taken /\ wire[got'[j]].kind = "message"
        BY <2>3, <3>2 DEF InOrderExactlyOnce
      <4> QED
        BY <1>1, <2>1, <4>1
    <3> QED
      BY <2>2, <3>1, <3>2
  <2>6. ASSUME NEW i \in 1 .. taken'
        PROVE  /\ wire'[i].end <= received'
               /\ wire'[i].kind # "compressed"
               /\ wire'[i].kind = "message" => \E j \in 1 .. Len(got') : got'[j] = i
    <3>1. CASE i = f
      <4>1. Len(got) + 1 \in 1 .. Len(got')
        BY <2>2
      <4> QED
        BY <2>1, <2>3, <3>1, <4>1
    <3>2. CASE i \in 1 .. taken
      <4>1. /\ wire[i].end <= received /\ wire[i].kind # "compressed"
            /\ wire[i].kind = "message" => \E j \in 1 .. Len(got) : got[j] = i
        BY <3>2 DEF InOrderExactlyOnce
      <4>2. wire[i].end \in Nat
        BY <1>1, <3>2
      <4>3. wire[i].kind = "message" => \E j \in 1 .. Len(got') : got'[j] = i
        <5>1. \A j \in 1 .. Len(got) : j \in 1 .. Len(got') /\ got'[j] = got[j]
          BY <2>2, <2>3
        <5> QED
          BY <4>1, <5>1, Zenon
      <4>4. wire[i].end <= received'
        BY <1>1, <4>1, <4>2
      <4> QED
        BY <1>1, <4>1, <4>3, <4>4
    <3> QED
      BY <1>1, <2>1, <3>1, <3>2
  <2>7. InOrderExactlyOnce'
    BY <2>4, <2>5, <2>6 DEF InOrderExactlyOnce
  <2> QED
    BY <1>1, <1>3, <2>1, <2>2, <2>7
<1>5. CASE d # "message"
  <2>1. got' = got
    BY <1>5 DEF Cut
  <2>2. taken' \in 0 .. Len(wire) /\ taken <= taken'
    BY <1>1, <1>3 DEF Cut
  <2>3. \A i \in 1 .. taken' : i \in 1 .. taken \/
          (i = f /\ f \in 1 .. Len(wire) /\ wire[f].kind = "undecodable" /\ wire[f].end <= r)
    BY <1>1, <1>3, <1>5 DEF Cut
  <2>4. \A j \in 1 .. Len(got') : got'[j] \in 1 .. taken'
    BY <1>1, <2>1, <2>2 DEF InOrderExactlyOnce
  <2>5. ASSUME NEW i \in 1 .. taken'
        PROVE  /\ wire'[i].end <= received'
               /\ wire'[i].kind # "compressed"
               /\ wire'[i].kind = "message" => \E j \in 1 .. Len(got') : got'[j] = i
    <3>1. CASE i \in 1 .. taken
      BY <1>1, <2>1, <3>1 DEF InOrderExactlyOnce
    <3>2. CASE i \notin 1 .. taken
      BY <2>3, <3>2
    <3> QED
      BY <3>1, <3>2
  <2> QED
    BY <1>1, <1>3, <2>1, <2>2, <2>4, <2>5 DEF InOrderExactlyOnce
<1> QED
  BY <1>4, <1>5

-----------------------------------------------------------------------------
(* The invariant holds initially and is kept by every step.                *)

LEMMA InvInit == Init => Inv
<1> SUFFICES ASSUME Init PROVE Inv
  OBVIOUS
<1>1. wire = <<>> /\ queue = <<>> /\ got = <<>> /\ taken = 0 /\ received = 0 /\ flushed = 0
  BY DEF Init, BodyInit
<1>2. TypeOK
  <2>1. wire \in Seq(Frame) /\ queue \in Seq(Nat) /\ got \in Seq(Nat)
    BY <1>1
  <2>2. BodyTypeOK
    <3>1. waker \in BOOLEAN /\ parked \in BOOLEAN
      BY DEF Init, BodyInit
    <3>2. bodyEnd \in {"open", "eof", "reset"} /\ trailers \in TrailerMaps \cup {NoTrailers}
      BY DEF Init, BodyInit
    <3> QED
      BY <1>1, <2>1, <3>1, <3>2 DEF BodyTypeOK
  <2>3. taken \in 0 .. Len(wire) /\ received \in Nat
    BY <1>1
  <2> QED
    BY <2>1, <2>2, <2>3 DEF Init, TypeOK, Results
<1>3. FramesInv /\ QueueInv /\ InOrderExactlyOnce
  <2>1. Len(wire) = 0 /\ Len(queue) = 0 /\ Len(got) = 0
    BY <1>1
  <2>2. Total = 0 /\ received <= flushed /\ flushed <= Total
    BY <1>1 DEF Total
  <2> QED
    BY <1>1, <2>1, <2>2 DEF FramesInv, QueueInv, InOrderExactlyOnce
<1>4. WakerInv /\ RecvNeverParksDeaf
  BY DEF Init, BodyInit, WakerInv, RecvNeverParksDeaf
<1> QED
  BY <1>2, <1>3, <1>4 DEF Inv

\* The server appends a frame: nothing that was there moves.
LEMMA WriteKeepsInv ==
  ASSUME Inv, NEW kind \in Kinds, NEW size \in Sizes,
         Write(kind, size), UNCHANGED streamVars
  PROVE  Inv'
<1> DEFINE n == Len(wire) + 1
<1>1. /\ wire \in Seq(Frame) /\ Len(wire) \in Nat
      /\ \A i \in 1 .. Len(wire) : wire[i].end \in Nat /\ wire[i].end <= Total
      /\ Total \in Nat
  BY Bounds, FramesTyped DEF Inv, TypeOK, BodyTypeOK
<1>2. /\ [kind |-> kind, end |-> Total + HEADER_SIZE + size] \in Frame
      /\ size \in Nat /\ HEADER_SIZE \in Nat /\ HEADER_SIZE > 0
  BY <1>1, BodyAssumption DEF Frame
<1>3. /\ wire' \in Seq(Frame) /\ Len(wire') = n
      /\ \A i \in 1 .. Len(wire) : wire'[i] = wire[i]
      /\ wire'[n].end = Total + HEADER_SIZE + size
  BY <1>1, <1>2 DEF Write
<1>4. TypeOK'
  BY <1>1, <1>3 DEF Inv, TypeOK, BodyTypeOK, Write, streamVars
<1>5. FramesInv'
  <2> SUFFICES ASSUME NEW i \in 1 .. Len(wire')
               PROVE  /\ HEADER_SIZE <= wire'[i].end
                      /\ \A j \in 1 .. Len(wire') :
                           i < j => wire'[i].end + HEADER_SIZE <= wire'[j].end
    BY DEF FramesInv
  <2>1. CASE i = n
    BY <1>1, <1>2, <1>3, <2>1
  <2>2. CASE i \in 1 .. Len(wire)
    <3>1. HEADER_SIZE <= wire'[i].end
      BY <1>3, <2>2 DEF Inv, FramesInv
    <3>2. ASSUME NEW j \in 1 .. Len(wire'), i < j
          PROVE  wire'[i].end + HEADER_SIZE <= wire'[j].end
      <4>1. CASE j = n
        BY <1>1, <1>2, <1>3, <2>2, <4>1
      <4>2. CASE j \in 1 .. Len(wire)
        BY <1>3, <2>2, <3>2, <4>2 DEF Inv, FramesInv
      <4> QED
        BY <1>1, <1>3, <4>1, <4>2
    <3> QED
      BY <3>1, <3>2
  <2> QED
    BY <1>1, <1>3, <2>1, <2>2
<1>6. QueueInv'
  <2>1. Total' = Total + HEADER_SIZE + size
    BY <1>1, <1>3 DEF Total
  <2>2. Total <= Total'
    BY <1>1, <1>2, <2>1
  <2>3. flushed <= Total'
    BY <1>1, <1>2, <2>1 DEF Inv, QueueInv, TypeOK, BodyTypeOK
  <2> QED
    BY <2>3 DEF Inv, QueueInv, Write, streamVars
<1>7. InOrderExactlyOnce'
  <2>1. taken' = taken /\ got' = got /\ received' = received
    BY DEF streamVars
  <2>2. \A i \in 1 .. taken : wire'[i] = wire[i]
    <3>1. taken \in Nat /\ taken <= Len(wire)
      BY <1>1 DEF Inv, TypeOK
    <3> QED
      BY <1>1, <1>3, <3>1
  <2> QED
    BY <2>1, <2>2 DEF Inv, InOrderExactlyOnce
<1>8. WakerInv' /\ RecvNeverParksDeaf'
  BY DEF Inv, WakerInv, RecvNeverParksDeaf, NothingYet, Write, streamVars
<1> QED
  BY <1>4, <1>5, <1>6, <1>7, <1>8 DEF Inv

\* A chunk reaches the body behind those that wait there, and wakes the task.
LEMMA ArriveKeepsInv ==
  ASSUME Inv, NEW e \in flushed .. Total, Arrive(e), UNCHANGED streamVars
  PROVE  Inv'
<1>1. /\ e \in Nat /\ flushed <= e /\ e <= Total /\ flushed \in Nat /\ Total \in Nat
      /\ queue \in Seq(Nat) /\ received \in Nat /\ received <= flushed
  <2>1. Total \in Nat
    BY Bounds DEF Inv
  <2>2. /\ flushed \in Nat /\ queue \in Seq(Nat)
        /\ received \in Nat /\ received <= flushed
    BY DEF Inv, TypeOK, BodyTypeOK, QueueInv
  <2> QED
    BY <2>1, <2>2
<1>2. /\ queue' \in Seq(Nat) /\ Len(queue') = Len(queue) + 1 /\ Len(queue) \in Nat
      /\ \A k \in 1 .. Len(queue) : queue'[k] = queue[k] /\ queue[k] \in Nat
      /\ queue'[Len(queue) + 1] = e /\ queue' # <<>>
  BY <1>1 DEF Arrive
<1>3. wire' = wire /\ taken' = taken /\ got' = got /\ received' = received /\ flushed' = e
  BY DEF Arrive, streamVars
<1>4. TypeOK'
  BY <1>1, <1>2, <1>3 DEF Inv, TypeOK, BodyTypeOK, Arrive, Wake, streamVars
<1>5. QueueInv'
  <2>1. Total' = Total
    BY <1>3 DEF Total
  <2>2. \A k \in 1 .. Len(queue') : received <= queue'[k] /\ queue'[k] <= e
    <3> SUFFICES ASSUME NEW k \in 1 .. Len(queue')
                 PROVE  received <= queue'[k] /\ queue'[k] <= e
      OBVIOUS
    <3>1. CASE k = Len(queue) + 1
      BY <1>1, <1>2, <3>1
    <3>2. CASE k \in 1 .. Len(queue)
      <4>1. received <= queue[k] /\ queue[k] <= flushed
        BY <3>2 DEF Inv, QueueInv
      <4>2. queue'[k] = queue[k] /\ queue[k] \in Nat
        BY <1>2, <3>2
      <4> QED
        BY <1>1, <4>1, <4>2
    <3> QED
      BY <1>2, <3>1, <3>2
  <2>3. \A k, l \in 1 .. Len(queue') : k < l => queue'[k] <= queue'[l]
    <3> SUFFICES ASSUME NEW k \in 1 .. Len(queue'), NEW l \in 1 .. Len(queue'), k < l
                 PROVE  queue'[k] <= queue'[l]
      OBVIOUS
    <3>1. CASE l = Len(queue) + 1
      BY <1>2, <2>2, <3>1
    <3>2. CASE l \in 1 .. Len(queue)
      <4>1. k \in 1 .. Len(queue)
        BY <1>2, <3>2
      <4> QED
        BY <1>2, <3>2, <4>1 DEF Inv, QueueInv
    <3> QED
      BY <1>2, <3>1, <3>2
  <2> QED
    BY <1>1, <1>2, <1>3, <2>1, <2>2, <2>3 DEF QueueInv
<1>6. FramesInv' /\ InOrderExactlyOnce'
  BY <1>3 DEF Inv, FramesInv, InOrderExactlyOnce
<1>7. WakerInv' /\ RecvNeverParksDeaf'
  BY DEF Inv, WakerInv, RecvNeverParksDeaf, NothingYet, Arrive, Wake, streamVars
<1> QED
  BY <1>4, <1>5, <1>6, <1>7 DEF Inv

\* Steps that read no chunk, write no frame and cut none: what they leave alone.
LEMMA DataUnchanged ==
  ASSUME Inv, UNCHANGED <<wire, flushed, queue, received, taken, got>>
  PROVE  /\ FramesInv' /\ QueueInv' /\ InOrderExactlyOnce'
         /\ wire' \in Seq(Frame) /\ flushed' \in Nat /\ queue' \in Seq(Nat)
         /\ received' \in Nat /\ taken' \in 0 .. Len(wire') /\ got' \in Seq(Nat)
<1>1. wire' = wire /\ flushed' = flushed /\ queue' = queue
  OBVIOUS
<1>2. received' = received /\ taken' = taken /\ got' = got
  OBVIOUS
<1>3. FramesInv' /\ QueueInv'
  BY <1>1, <1>2 DEF Inv, FramesInv, QueueInv, Total
<1>4. InOrderExactlyOnce'
  BY <1>1, <1>2 DEF Inv, InOrderExactlyOnce
<1> QED
  BY <1>1, <1>2, <1>3, <1>4 DEF Inv, TypeOK, BodyTypeOK

\* The end of the stream, in order or not, wakes the task that waits for it.
LEMMA EndKeepsInv ==
  ASSUME Inv, UNCHANGED streamVars,
         Reset \/ \E t \in TrailerMaps \cup {NoTrailers} : Finish(t)
  PROVE  Inv'
<1>1. /\ UNCHANGED <<wire, flushed, queue, received, taken, got, call, result, ended>>
      /\ bodyEnd' \in {"eof", "reset"}
      /\ trailers' \in TrailerMaps \cup {NoTrailers}
      /\ Wake
  BY DEF Reset, Finish, streamVars, Inv, TypeOK, BodyTypeOK
<1>2. TypeOK'
  BY <1>1, DataUnchanged DEF Inv, TypeOK, BodyTypeOK, Wake
<1>3. WakerInv' /\ RecvNeverParksDeaf'
  BY <1>1 DEF Inv, WakerInv, RecvNeverParksDeaf, Wake
<1> QED
  BY <1>1, <1>2, <1>3, DataUnchanged DEF Inv

LEMMA ServerKeepsInv == Inv /\ Server /\ UNCHANGED streamVars => Inv'
<1> SUFFICES ASSUME Inv, Server, UNCHANGED streamVars PROVE Inv'
  OBVIOUS
<1>1. CASE \E kind \in Kinds, size \in Sizes : Write(kind, size)
  BY <1>1, WriteKeepsInv
<1>2. CASE \E e \in flushed .. Total : Arrive(e)
  BY <1>2, ArriveKeepsInv
<1>3. CASE Reset \/ \E t \in TrailerMaps \cup {NoTrailers} : Finish(t)
  BY <1>3, EndKeepsInv
<1> QED
  BY <1>1, <1>2, <1>3 DEF Server

\* The body's first chunk moves to buf.
LEMMA TakeChunkKeepsQueue ==
  ASSUME Inv, TakeChunk, UNCHANGED <<wire, flushed>>
  PROVE  /\ QueueInv' /\ FramesInv'
         /\ queue' \in Seq(Nat)
         /\ received' \in Nat /\ received <= received' /\ received' <= Total
<1>1. /\ queue \in Seq(Nat) /\ queue # <<>> /\ flushed \in Nat /\ received \in Nat
      /\ received' = queue[1] /\ queue' = Tail(queue)
  BY DEF Inv, TypeOK, BodyTypeOK, TakeChunk, DataReady
<1>2. /\ Len(queue) \in Nat /\ Len(queue) >= 1
      /\ queue' \in Seq(Nat) /\ Len(queue') = Len(queue) - 1
      /\ \A k \in 1 .. Len(queue') : queue'[k] = queue[k + 1]
      /\ \A k \in 1 .. Len(queue) : queue[k] \in Nat
  BY <1>1
<1>3. Total \in Nat /\ Total' = Total /\ flushed <= Total
  BY Bounds DEF Total, Inv, QueueInv
<1>4. \A k \in 1 .. Len(queue) :
        received <= queue[k] /\ queue[1] <= queue[k] /\ queue[k] <= flushed
  BY <1>1, <1>2 DEF Inv, QueueInv
<1>5. received' \in Nat /\ received <= received' /\ received' <= flushed
  BY <1>1, <1>2, <1>4
<1>6. \A k \in 1 .. Len(queue') : received' <= queue'[k] /\ queue'[k] <= flushed
  BY <1>1, <1>2, <1>4
<1>7. \A k, l \in 1 .. Len(queue') : k < l => queue'[k] <= queue'[l]
  <2> SUFFICES ASSUME NEW k \in 1 .. Len(queue'), NEW l \in 1 .. Len(queue'), k < l
               PROVE  queue'[k] <= queue'[l]
    OBVIOUS
  <2>1. k + 1 \in 1 .. Len(queue) /\ l + 1 \in 1 .. Len(queue) /\ k + 1 < l + 1
    BY <1>2
  <2>2. queue[k + 1] <= queue[l + 1]
    BY <2>1 DEF Inv, QueueInv
  <2> QED
    BY <1>2, <2>2
<1>8. IF queue' = <<>> THEN received' = flushed ELSE queue'[Len(queue')] = flushed
  <2>1. queue[Len(queue)] = flushed
    BY <1>1 DEF Inv, QueueInv
  <2>2. CASE Len(queue) = 1
    BY <1>1, <1>2, <2>1, <2>2
  <2>3. CASE Len(queue) > 1
    <3>1. Len(queue') \in 1 .. Len(queue') /\ Len(queue') + 1 = Len(queue)
      BY <1>2, <2>3
    <3> QED
      BY <1>2, <2>1, <3>1
  <2> QED
    BY <1>2, <2>2, <2>3
<1>9. QueueInv'
  BY <1>3, <1>5, <1>6, <1>7, <1>8 DEF QueueInv
<1>10. FramesInv'
  BY DEF Inv, FramesInv
<1> QED
  BY <1>2, <1>3, <1>5, <1>9, <1>10 DEF Inv, TypeOK, BodyTypeOK

\* A chunk is read and what decode then finds is cut off.
LEMMA ReadAndCut ==
  ASSUME Inv, TakeChunk, UNCHANGED <<wire, flushed>>, Cut(Decode(received'))
  PROVE  /\ FramesInv' /\ QueueInv' /\ InOrderExactlyOnce'
         /\ wire' \in Seq(Frame) /\ flushed' \in Nat /\ queue' \in Seq(Nat)
         /\ received' \in Nat /\ taken' \in 0 .. Len(wire') /\ got' \in Seq(Nat)
         /\ Decode(received') \in Decodings
<1>1. /\ FramesInv' /\ QueueInv' /\ queue' \in Seq(Nat)
      /\ received' \in Nat /\ received <= received' /\ received' <= Total
  BY TakeChunkKeepsQueue
<1>2. /\ InOrderExactlyOnce' /\ Decode(received') \in Decodings
      /\ taken' \in 0 .. Len(wire') /\ got' \in Seq(Nat)
  BY <1>1, CutKeepsOrder DEF Inv
<1> QED
  BY <1>1, <1>2 DEF Inv, TypeOK, BodyTypeOK

\* The body has ended and what decode finds in buf is cut off.
LEMMA CutAtEnd ==
  ASSUME Inv, UNCHANGED <<wire, flushed, queue, received>>, Cut(Decode(received))
  PROVE  /\ FramesInv' /\ QueueInv' /\ InOrderExactlyOnce'
         /\ wire' \in Seq(Frame) /\ flushed' \in Nat /\ queue' \in Seq(Nat)
         /\ received' \in Nat /\ taken' \in 0 .. Len(wire') /\ got' \in Seq(Nat)
         /\ Decode(received) \in Decodings
<1>1. received \in Nat /\ received <= received /\ received <= Total
  BY Bounds DEF Inv, TypeOK
<1>2. /\ InOrderExactlyOnce' /\ Decode(received) \in Decodings
      /\ taken' \in 0 .. Len(wire') /\ got' \in Seq(Nat)
  BY <1>1, CutKeepsOrder DEF Inv
<1>3. FramesInv' /\ QueueInv'
  BY DEF Inv, FramesInv, QueueInv, Total
<1> QED
  BY <1>1, <1>2, <1>3 DEF Inv, TypeOK, BodyTypeOK

LEMMA RecvMessageKeepsInv == Inv /\ RecvMessage => Inv'
<1> USE DEF Polling, Results, Decodings, CallKinds
<1> SUFFICES ASSUME Inv, RecvMessage PROVE Inv'
  OBVIOUS
<1>1. CASE RecvData
  <2>1. /\ TakeChunk /\ Cut(Decode(received'))
        /\ UNCHANGED <<wire, flushed, bodyEnd, trailers, waker, parked, ended>>
        /\ ~parked
        /\ IF Decode(received') = "none" THEN UNCHANGED <<call, result>>
                                         ELSE Return(Decode(received'))
    BY <1>1 DEF RecvData
  <2>2. TypeOK'
    BY <2>1, ReadAndCut DEF Inv, TypeOK, BodyTypeOK, Return
  <2>3. WakerInv' /\ RecvNeverParksDeaf'
    BY <2>1 DEF Inv, WakerInv, RecvNeverParksDeaf, NothingYet, TakeChunk, DataReady
  <2> QED
    BY <2>1, <2>2, <2>3, ReadAndCut DEF Inv
<1>2. CASE RecvEnd \/ RecvFailed
  <2>1. /\ UNCHANGED <<bodyVars, received, taken, got>>
        /\ ~parked
        /\ \E r \in {"end", "transport"} : Return(r)
        /\ ended' \in BOOLEAN
    BY <1>2 DEF RecvEnd, RecvFailed, Inv, TypeOK
  <2>2. TypeOK'
    BY <2>1, DataUnchanged DEF Inv, TypeOK, BodyTypeOK, Return, bodyVars
  <2>3. WakerInv' /\ RecvNeverParksDeaf'
    BY <2>1 DEF Inv, WakerInv, RecvNeverParksDeaf, NothingYet, bodyVars
  <2> QED
    BY <2>1, <2>2, <2>3, DataUnchanged DEF Inv, bodyVars
<1>3. CASE RecvPending
  <2>1. /\ UNCHANGED <<wire, flushed, queue, bodyEnd, trailers, streamVars>>
        /\ parked' = TRUE /\ waker' = TRUE /\ NothingYet /\ call = "recv_message"
    BY <1>3 DEF RecvPending, ParkAwake
  <2>2. TypeOK'
    BY <2>1, DataUnchanged DEF Inv, TypeOK, BodyTypeOK, streamVars
  <2>3. WakerInv' /\ RecvNeverParksDeaf'
    BY <2>1 DEF WakerInv, RecvNeverParksDeaf, NothingYet, streamVars
  <2> QED
    BY <2>1, <2>2, <2>3, DataUnchanged DEF Inv, streamVars
<1> QED
  BY <1>1, <1>2, <1>3 DEF RecvMessage

LEMMA PollNextKeepsInv == Inv /\ PollNext => Inv'
<1> USE DEF Polling, Results, Decodings, CallKinds
<1> SUFFICES ASSUME Inv, PollNext PROVE Inv'
  OBVIOUS
<1>1. CASE NextData
  <2>1. /\ TakeChunk /\ Cut(Decode(received'))
        /\ UNCHANGED <<wire, flushed, bodyEnd, trailers, waker, ended>>
        /\ ~parked /\ call = "next"
        /\ \/ UNCHANGED call /\ UNCHANGED result /\ parked' = TRUE
           \/ Decode(received') # "none" /\ Return(Decode(received')) /\ UNCHANGED parked
    BY <1>1 DEF NextData, Yield, ParkDeaf
  <2>2. TypeOK'
    <3>1. Decode(received') \in Decodings
      BY <2>1, ReadAndCut
    <3>2. call' \in CallKinds \cup {"idle"} /\ result' \in Results
      BY <2>1, <3>1 DEF Inv, TypeOK, Return
    <3>3. parked' \in BOOLEAN
      BY <2>1 DEF Inv, TypeOK, BodyTypeOK
    <3> QED
      BY <2>1, <3>2, <3>3, ReadAndCut DEF Inv, TypeOK, BodyTypeOK
  <2>3. WakerInv' /\ RecvNeverParksDeaf'
    BY <2>1 DEF Inv, WakerInv, RecvNeverParksDeaf, NothingYet, TakeChunk, DataReady, Return
  <2> QED
    BY <2>1, <2>2, <2>3, ReadAndCut DEF Inv
<1>2. CASE NextEnd
  <2>1. /\ Cut(Decode(received))
        /\ UNCHANGED <<wire, flushed, queue, bodyEnd, trailers, waker, received, ended>>
        /\ ~parked /\ call = "next"
        /\ \/ UNCHANGED call /\ UNCHANGED result /\ parked' = TRUE
           \/ Decode(received) # "none" /\ Return(Decode(received)) /\ UNCHANGED parked
    BY <1>2 DEF NextEnd, Yield, ParkDeaf
  <2>2. TypeOK'
    <3>1. Decode(received) \in Decodings
      BY <2>1, CutAtEnd
    <3>2. call' \in CallKinds \cup {"idle"} /\ result' \in Results
      BY <2>1, <3>1 DEF Inv, TypeOK, Return
    <3>3. parked' \in BOOLEAN
      BY <2>1 DEF Inv, TypeOK, BodyTypeOK
    <3> QED
      BY <2>1, <3>2, <3>3, CutAtEnd DEF Inv, TypeOK, BodyTypeOK
  <2>3. WakerInv' /\ RecvNeverParksDeaf'
    BY <2>1 DEF Inv, WakerInv, RecvNeverParksDeaf, NothingYet, Return
  <2> QED
    BY <2>1, <2>2, <2>3, CutAtEnd DEF Inv
<1>3. CASE NextFailed
  <2>1. UNCHANGED <<bodyVars, received, taken, got, ended>> /\ ~parked /\ Return("transport")
    BY <1>3 DEF NextFailed
  <2>2. TypeOK'
    BY <2>1, DataUnchanged DEF Inv, TypeOK, BodyTypeOK, Return, bodyVars
  <2>3. WakerInv' /\ RecvNeverParksDeaf'
    BY <2>1 DEF Inv, WakerInv, RecvNeverParksDeaf, NothingYet, bodyVars
  <2> QED
    BY <2>1, <2>2, <2>3, DataUnchanged DEF Inv, bodyVars
<1>4. CASE NextPending
  <2>1. /\ UNCHANGED <<wire, flushed, queue, bodyEnd, trailers, streamVars>>
        /\ parked' = TRUE /\ waker' = TRUE /\ NothingYet /\ call = "next"
    BY <1>4 DEF NextPending, ParkAwake
  <2>2. TypeOK'
    BY <2>1, DataUnchanged DEF Inv, TypeOK, BodyTypeOK, streamVars
  <2>3. WakerInv' /\ RecvNeverParksDeaf'
    BY <2>1 DEF WakerInv, RecvNeverParksDeaf, NothingYet, streamVars
  <2> QED
    BY <2>1, <2>2, <2>3, DataUnchanged DEF Inv, streamVars
<1> QED
  BY <1>1, <1>2, <1>3, <1>4 DEF PollNext

LEMMA RecvTrailersKeepsInv == Inv /\ RecvTrailers => Inv'
<1> USE DEF Polling, Results, CallKinds
<1> SUFFICES ASSUME Inv, RecvTrailers PROVE Inv'
  OBVIOUS
<1>1. CASE TrailersReady \/ TrailersFailed
  <2>1. /\ UNCHANGED <<wire, flushed, queue, bodyEnd, waker, parked,
                       received, taken, got, ended>>
        /\ ~parked
        /\ \E r \in {"trailers", "no_trailers", "transport"} : Return(r)
        /\ trailers' \in {trailers, NoTrailers}
    BY <1>1 DEF TrailersReady, TrailersFailed, bodyVars
  <2>2. TypeOK'
    BY <2>1, DataUnchanged DEF Inv, TypeOK, BodyTypeOK, Return
  <2>3. WakerInv' /\ RecvNeverParksDeaf'
    BY <2>1 DEF Inv, WakerInv, RecvNeverParksDeaf, NothingYet
  <2> QED
    BY <2>1, <2>2, <2>3, DataUnchanged DEF Inv
<1>2. CASE TrailersPending
  <2>1. /\ UNCHANGED <<wire, flushed, queue, bodyEnd, trailers, streamVars>>
        /\ parked' = TRUE /\ call = "recv_trailers"
        /\ (waker' = TRUE /\ NothingYet) \/ UNCHANGED waker
    BY <1>2 DEF TrailersPending, ParkAwake, ParkDeaf
  <2>2. TypeOK'
    BY <2>1, DataUnchanged DEF Inv, TypeOK, BodyTypeOK, streamVars
  <2>3. WakerInv' /\ RecvNeverParksDeaf'
    BY <2>1 DEF Inv, WakerInv, RecvNeverParksDeaf, NothingYet, streamVars
  <2> QED
    BY <2>1, <2>2, <2>3, DataUnchanged DEF Inv, streamVars
<1> QED
  BY <1>1, <1>2 DEF RecvTrailers

LEMMA ApplicationKeepsInv ==
  Inv /\ ((\E c \in Calls : Start(c)) \/ Cancel \/ Spurious) => Inv'
<1> USE DEF Results, CallKinds
<1>1. ASSUME Inv, NEW c \in Calls, Start(c) PROVE Inv'
  <2>1. /\ UNCHANGED <<bodyVars, received, taken, got, result, ended>>
        /\ call = "idle" /\ call' \in CallKinds
    BY <1>1, StreamingAssumption DEF Start
  <2>2. TypeOK'
    BY <1>1, <2>1, DataUnchanged DEF Inv, TypeOK, BodyTypeOK, bodyVars
  <2>3. WakerInv' /\ RecvNeverParksDeaf'
    BY <1>1, <2>1 DEF Inv, WakerInv, RecvNeverParksDeaf, NothingYet, bodyVars
  <2> QED
    BY <1>1, <2>1, <2>2, <2>3, DataUnchanged DEF Inv, bodyVars
<1>2. ASSUME Inv, Cancel \/ Spurious PROVE Inv'
  <2>1. /\ UNCHANGED <<wire, flushed, queue, bodyEnd, trailers, waker,
                       received, taken, got, ended>>
        /\ parked' = FALSE
        /\ Return("cancelled") \/ (UNCHANGED call /\ UNCHANGED result)
    BY <1>2 DEF Cancel, Spurious, streamVars
  <2>2. TypeOK'
    BY <1>2, <2>1, DataUnchanged DEF Inv, TypeOK, BodyTypeOK, Return
  <2>3. WakerInv' /\ RecvNeverParksDeaf'
    BY <1>2, <2>1 DEF Inv, WakerInv, RecvNeverParksDeaf, NothingYet
  <2> QED
    BY <1>2, <2>1, <2>2, <2>3, DataUnchanged DEF Inv
<1> QED
  BY <1>1, <1>2

LEMMA InvNext == Inv /\ [Next]_vars => Inv'
<1> SUFFICES ASSUME Inv, [Next]_vars PROVE Inv'
  OBVIOUS
<1>1. CASE Server /\ UNCHANGED streamVars
  BY <1>1, ServerKeepsInv
<1>2. CASE RecvMessage
  BY <1>2, RecvMessageKeepsInv
<1>3. CASE PollNext
  BY <1>3, PollNextKeepsInv
<1>4. CASE RecvTrailers
  BY <1>4, RecvTrailersKeepsInv
<1>5. CASE (\E c \in Calls : Start(c)) \/ Cancel \/ Spurious
  BY <1>5, ApplicationKeepsInv
<1>6. CASE UNCHANGED vars
  <2>1. UNCHANGED <<wire, flushed, queue, bodyEnd, trailers, waker, parked>>
        /\ UNCHANGED <<received, taken, got, call, result, ended>>
    BY <1>6 DEF vars, bodyVars, streamVars
  <2>2. TypeOK'
    BY <2>1 DEF Inv, TypeOK, BodyTypeOK
  <2>3. WakerInv' /\ RecvNeverParksDeaf'
    BY <2>1 DEF Inv, WakerInv, RecvNeverParksDeaf, NothingYet
  <2> QED
    BY <2>1, <2>2, <2>3, DataUnchanged DEF Inv
<1> QED
  BY <1>1, <1>2, <1>3, <1>4, <1>5, <1>6 DEF Next, RecvMessage, PollNext, RecvTrailers

LEMMA Invariance == Spec => []Inv
BY InvInit, InvNext, PTL DEF Spec

-----------------------------------------------------------------------------
(* The theorems.                                                           *)

\* Every variable keeps its type; in particular no frame is cut out of buf that
\* the server has not written.
THEOREM TypeCorrect == Spec => []TypeOK
<1>1. Inv => TypeOK
  BY DEF Inv
<1> QED
  BY <1>1, Invariance, PTL

\* For every chunking of the body and every mix of recv_message, next,
\* recv_trailers and dropped calls, the messages come in order, each once, whole,
\* none from behind a compressed frame and none skipped.
THEOREM InOrder == Spec => []InOrderExactlyOnce
<1>1. Inv => InOrderExactlyOnce
  BY DEF Inv
<1> QED
  BY <1>1, Invariance, PTL

\* A task that waits in recv_message has its waker with the body, and the body
\* has nothing for it.
THEOREM NoLostWakeUp == Spec => []RecvNeverParksDeaf
<1>1. Inv => RecvNeverParksDeaf
  BY DEF Inv
<1> QED
  BY <1>1, Invariance, PTL

-----------------------------------------------------------------------------
(* The backlog in buf.                                                     *)

\* Lag is a set of numbers of frames, so it is finite.
LEMMA LagFinite ==
  ASSUME TypeOK
  PROVE  IsFiniteSet(Lag) /\ Cardinality(Lag) \in Nat
<1>1. Len(wire) \in Int /\ taken + 1 \in Int
  BY DEF TypeOK, BodyTypeOK
<1>2. IsFiniteSet(taken + 1 .. Len(wire))
  BY <1>1, FS_Interval
<1>3. Lag \in SUBSET (taken + 1 .. Len(wire))
  BY DEF Lag
<1> QED
  BY <1>2, <1>3, FS_Subset, FS_CardinalityType

\* A step after which the backlog is contained in the one before.
LEMMA LagShrinks ==
  ASSUME TypeOK, Lag' \subseteq Lag
  PROVE  LagStep
<1>1. IsFiniteSet(Lag) /\ Cardinality(Lag) \in Nat /\ Lag' \in SUBSET Lag
  BY LagFinite
<1>2. IsFiniteSet(Lag') /\ Cardinality(Lag') <= Cardinality(Lag)
  BY <1>1, FS_Subset
<1>3. Cardinality(Lag') \in Nat
  BY <1>2, FS_CardinalityType
<1> QED
  BY <1>1, <1>2, <1>3 DEF LagStep

\* A chunk is read: every frame it completes joins the backlog, and one leaves it.
LEMMA LagAfterRead ==
  ASSUME Inv, TakeChunk, Cut(Decode(received')), UNCHANGED <<wire, flushed>>
  PROVE  LagStep
<1> DEFINE d == Decode(received')
           n == taken + 1
<1>1. /\ received \in Nat /\ received' \in Nat /\ received' <= Total
      /\ Consumed <= received'
      /\ taken \in Nat /\ Len(wire) \in Nat /\ taken <= Len(wire)
      /\ \A i \in 1 .. Len(wire) : wire[i].end \in Nat
  <2>1. received' \in Nat /\ received <= received' /\ received' <= Total
    BY TakeChunkKeepsQueue
  <2>2. Consumed \in Nat /\ Consumed <= received
    BY Bounds DEF Inv
  <2> QED
    BY <2>1, <2>2, FramesTyped DEF Inv, TypeOK, BodyTypeOK
<1>2. /\ d \in Decodings
      /\ d # "none" => taken < Len(wire) /\ d = wire[n].kind
      /\ d \in {"message", "undecodable"} => wire[n].end <= received'
      /\ d = "none" /\ taken < Len(wire) /\ wire[n].kind # "compressed" =>
           received' < wire[n].end
  BY <1>1, Decoding DEF Inv
<1>3. CASE d = "compressed"
  BY <1>2, <1>3 DEF LagStep, Wedged
<1>4. CASE d = "none" /\ ~Wedged
  <2>1. taken' = taken
    BY <1>4 DEF Cut
  <2>2. ASSUME NEW i \in n .. Len(wire) PROVE ~(wire[i].end <= received')
    <3>1. taken < Len(wire) /\ i \in 1 .. Len(wire) /\ n \in 1 .. Len(wire)
      BY <1>1
    <3>2. received' < wire[n].end
      BY <1>2, <1>4, <3>1 DEF Wedged
    <3>3. n < i => wire[n].end + HEADER_SIZE <= wire[i].end
      BY <3>1 DEF Inv, FramesInv
    <3>4. n < i \/ n = i
      BY <1>1, <3>1
    <3> QED
      BY <1>1, <3>1, <3>2, <3>3, <3>4, BodyAssumption
  <2>3. Lag' \subseteq Lag
    BY <2>1, <2>2 DEF Lag
  <2> QED
    BY <2>3, LagShrinks DEF Inv
<1>5. CASE d = "none" /\ Wedged
  BY <1>5 DEF LagStep
<1>6. CASE d \in {"message", "undecodable"}
  <2>1. /\ taken' = n /\ n \in 1 .. Len(wire) /\ wire[n].end <= received'
    BY <1>1, <1>2, <1>6 DEF Cut
  <2>2. n \in Lag \cup Completed
    BY <1>1, <2>1 DEF Lag, Completed
  <2>3. Lag' \in SUBSET ((Lag \cup Completed) \ {n})
    <3> SUFFICES ASSUME NEW i \in Lag' PROVE i \in (Lag \cup Completed) \ {n}
      OBVIOUS
    <3>1. i \in n + 1 .. Len(wire) /\ wire[i].end <= received'
      BY <2>1 DEF Lag
    <3>2. i \in n .. Len(wire) /\ i \in 1 .. Len(wire) /\ i # n
      BY <1>1, <3>1
    <3> QED
      BY <1>1, <3>1, <3>2 DEF Lag, Completed
  <2>4. IsFiniteSet(Lag) /\ Cardinality(Lag) \in Nat
    BY LagFinite DEF Inv
  <2>5. IsFiniteSet(Completed) /\ Cardinality(Completed) \in Nat
    <3>1. IsFiniteSet(1 .. Len(wire))
      BY <1>1, FS_Interval
    <3>2. Completed \in SUBSET (1 .. Len(wire))
      BY DEF Completed
    <3> QED
      BY <3>1, <3>2, FS_Subset, FS_CardinalityType
  <2>6. /\ IsFiniteSet(Lag \cup Completed) /\ Cardinality(Lag \cup Completed) \in Nat
        /\ Cardinality(Lag \cup Completed) <= Cardinality(Lag) + Cardinality(Completed)
    <3>1. /\ IsFiniteSet(Lag \cup Completed)
          /\ Cardinality(Lag \cup Completed) =
               Cardinality(Lag) + Cardinality(Completed) - Cardinality(Lag \cap Completed)
      BY <2>4, <2>5, FS_Union
    <3>2. Lag \cap Completed \in SUBSET Lag
      OBVIOUS
    <3>3. IsFiniteSet(Lag \cap Completed)
      BY <2>4, <3>2, FS_Subset
    <3>4. Cardinality(Lag \cap Completed) \in Nat /\ Cardinality(Lag \cup Completed) \in Nat
      BY <3>1, <3>3, FS_CardinalityType
    <3> QED
      BY <2>4, <2>5, <3>1, <3>4
  <2>7. /\ IsFiniteSet((Lag \cup Completed) \ {n})
        /\ Cardinality((Lag \cup Completed) \ {n}) = Cardinality(Lag \cup Completed) - 1
    BY <2>2, <2>6, FS_RemoveElement
  <2>8. Cardinality(Lag') <= Cardinality(Lag \cup Completed) - 1 /\ Cardinality(Lag') \in Nat
    <3>1. IsFiniteSet(Lag') /\ Cardinality(Lag') <= Cardinality((Lag \cup Completed) \ {n})
      BY <2>3, <2>7, FS_Subset
    <3> QED
      BY <2>7, <3>1, FS_CardinalityType
  <2>9. Cardinality(Lag') > Cardinality(Lag) => Cardinality(Completed) > 1
    BY <2>4, <2>5, <2>6, <2>8
  <2> QED
    BY <2>9 DEF LagStep
<1> QED
  BY <1>2, <1>3, <1>4, <1>5, <1>6 DEF Decodings, FrameKinds

\* A frame that is written is not in buf yet.
LEMMA LagAfterWrite ==
  ASSUME Inv, NEW kind \in Kinds, NEW size \in Sizes,
         Write(kind, size), UNCHANGED streamVars
  PROVE  Lag' \subseteq Lag
<1> DEFINE m == Len(wire) + 1
<1>1. /\ wire \in Seq(Frame) /\ Len(wire) \in Nat /\ Total \in Nat
      /\ received \in Nat /\ received <= Total /\ taken \in Nat
  BY Bounds DEF Inv, TypeOK, BodyTypeOK
<1>2. /\ [kind |-> kind, end |-> Total + HEADER_SIZE + size] \in Frame
      /\ size \in Nat /\ HEADER_SIZE \in Nat /\ HEADER_SIZE > 0
  BY <1>1, BodyAssumption DEF Frame
<1>3. /\ Len(wire') = m /\ \A i \in 1 .. Len(wire) : wire'[i] = wire[i]
      /\ wire'[m].end = Total + HEADER_SIZE + size
  BY <1>1, <1>2 DEF Write
<1>4. ~(wire'[m].end <= received)
  BY <1>1, <1>2, <1>3
<1>5. taken' = taken /\ received' = received
  BY DEF streamVars
<1> SUFFICES ASSUME NEW i \in Lag' PROVE i \in Lag
  OBVIOUS
<1>6. i \in taken + 1 .. m /\ wire'[i].end <= received
  BY <1>3, <1>5 DEF Lag
<1>7. i # m
  BY <1>4, <1>6
<1>8. i \in taken + 1 .. Len(wire) /\ i \in 1 .. Len(wire)
  BY <1>1, <1>6, <1>7
<1> QED
  BY <1>3, <1>6, <1>8 DEF Lag

\* No call leaves more messages behind in buf than it finds, but for one that reads
\* a chunk which completes several.
THEOREM Backlog == Spec => LagGrowsOnlyByCoalescing
<1>1. ASSUME Inv, [Next]_vars PROVE [LagStep]_vars
  <2>1. CASE UNCHANGED streamVars /\ \E kind \in Kinds, size \in Sizes : Write(kind, size)
    BY <1>1, <2>1, LagAfterWrite, LagShrinks DEF Inv
  <2>2. CASE RecvData \/ NextData
    BY <1>1, <2>2, LagAfterRead DEF RecvData, NextData, Yield
  <2>3. CASE NextEnd
    <3>1. Cut(Decode(received)) /\ UNCHANGED <<wire, received>> /\ taken \in Nat
      BY <1>1, <2>3 DEF NextEnd, Yield, Inv, TypeOK
    <3>2. taken' \in {taken, taken + 1}
      BY <3>1 DEF Cut
    <3>3. Lag' \subseteq Lag
      BY <3>1, <3>2 DEF Lag
    <3> QED
      BY <1>1, <3>3, LagShrinks DEF Inv
  <2>4. CASE UNCHANGED <<wire, received, taken>>
    <3>1. Lag' \subseteq Lag
      BY <2>4 DEF Lag
    <3> QED
      BY <1>1, <3>1, LagShrinks DEF Inv
  <2>5. \/ UNCHANGED streamVars /\ \E kind \in Kinds, size \in Sizes : Write(kind, size)
        \/ RecvData \/ NextData \/ NextEnd
        \/ UNCHANGED <<wire, received, taken>>
    <3>1. CASE Server /\ UNCHANGED streamVars
      BY <3>1 DEF Server, Arrive, Finish, Reset, streamVars
    <3>2. CASE RecvEnd \/ RecvFailed \/ RecvPending \/ NextFailed \/ NextPending
      BY <3>2 DEF RecvEnd, RecvFailed, RecvPending, NextFailed, NextPending,
                  bodyVars, streamVars
    <3>3. CASE TrailersReady \/ TrailersFailed \/ TrailersPending
      BY <3>3 DEF TrailersReady, TrailersFailed, TrailersPending, bodyVars, streamVars
    <3>4. CASE (\E c \in Calls : Start(c)) \/ Cancel \/ Spurious
      BY <3>4 DEF Start, Cancel, Spurious, bodyVars, streamVars
    <3>5. CASE UNCHANGED vars
      BY <3>5 DEF vars, bodyVars, streamVars
    <3> QED
      BY <1>1, <3>1, <3>2, <3>3, <3>4, <3>5 DEF Next
  <2> QED
    BY <2>1, <2>2, <2>3, <2>4, <2>5
<1>2. Inv /\ [Next]_vars => [LagStep]_vars
  BY <1>1
<1> QED
  BY <1>2, Invariance, PTL DEF Spec, LagGrowsOnlyByCoalescing
=============================================================================
