------------------------- MODULE StreamingRefinement ------------------------
(***************************************************************************)
(* Proof that Streaming implements MessageStream when no chunk carries     *)
(* bytes of two messages and the server ends the stream at the end of a    *)
(* message.                                                                *)
(***************************************************************************)
EXTENDS StreamingProofs

-----------------------------------------------------------------------------
(* The invariant of an aligned body.                                       *)

\* No waiting chunk reaches past the end of a frame it completes.
ChunkInv ==
  \A k \in 1 .. Len(queue), i \in 1 .. Len(wire) :
    ~ /\ (IF k = 1 THEN received ELSE queue[k - 1]) < wire[i].end
      /\ wire[i].end < queue[k]

\* Every frame that is whole in buf has been cut out of it, but for a
\* compressed one in front.
LagFree == taken < Len(wire) /\ ~Wedged => received < wire[taken + 1].end

\* Once recv_message has said that the stream is over, nothing is left of it.
EndedInv ==
  /\ bodyEnd = "eof" => flushed = Total
  /\ ended => AtEnd /\ (taken = Len(wire) \/ Wedged)

AlignedInv == ChunkInv /\ LagFree /\ EndedInv

LEMMA AlignedInit == Init => AlignedInv
<1> SUFFICES ASSUME Init PROVE AlignedInv
  OBVIOUS
<1>1. /\ wire = <<>> /\ queue = <<>> /\ taken = 0 /\ bodyEnd = "open" /\ ended = FALSE
      /\ Len(wire) = 0 /\ Len(queue) = 0
  BY DEF Init, BodyInit
<1> QED
  BY <1>1 DEF AlignedInv, ChunkInv, LagFree, EndedInv

\* A frame the server writes ends behind everything that has arrived.
LEMMA WriteKeepsAligned ==
  ASSUME Inv, AlignedInv, NEW kind \in Kinds, NEW size \in Sizes,
         Write(kind, size), UNCHANGED streamVars
  PROVE  AlignedInv'
<1> DEFINE n == Len(wire) + 1
<1>1. /\ wire \in Seq(Frame) /\ Len(wire) \in Nat /\ Total \in Nat
      /\ flushed \in Nat /\ received \in Nat /\ received <= flushed /\ flushed <= Total
      /\ taken \in Nat /\ taken <= Len(wire)
  BY Bounds DEF Inv, TypeOK, BodyTypeOK, QueueInv
<1>2. /\ [kind |-> kind, end |-> Total + HEADER_SIZE + size] \in Frame
      /\ size \in Nat /\ HEADER_SIZE \in Nat /\ HEADER_SIZE > 0
  BY <1>1, BodyAssumption DEF Frame
<1>3. /\ Len(wire') = n
      /\ \A i \in 1 .. Len(wire) : wire'[i] = wire[i]
      /\ wire'[n].end = Total + HEADER_SIZE + size
      /\ Total < wire'[n].end
  BY <1>1, <1>2 DEF Write
<1>4. /\ queue' = queue /\ received' = received /\ taken' = taken
      /\ bodyEnd = "open" /\ bodyEnd' = "open" /\ ended' = ended
  BY DEF Write, streamVars
<1>5. ChunkInv'
  <2> SUFFICES ASSUME NEW k \in 1 .. Len(queue), NEW i \in 1 .. n
               PROVE  ~ /\ (IF k = 1 THEN received ELSE queue[k - 1]) < wire'[i].end
                        /\ wire'[i].end < queue[k]
    BY <1>3, <1>4 DEF ChunkInv
  <2>1. CASE i = n
    <3>1. queue[k] \in Nat /\ queue[k] <= flushed
      BY DEF Inv, QueueInv, TypeOK, BodyTypeOK
    <3> QED
      BY <1>1, <1>2, <1>3, <2>1, <3>1
  <2>2. CASE i \in 1 .. Len(wire)
    BY <1>3, <2>2 DEF AlignedInv, ChunkInv
  <2> QED
    BY <1>1, <2>1, <2>2
<1>6. LagFree'
  <2>1. CASE taken = Len(wire)
    BY <1>1, <1>2, <1>3, <1>4, <2>1 DEF LagFree
  <2>2. CASE taken < Len(wire)
    <3>1. wire'[taken + 1] = wire[taken + 1] /\ taken < Len(wire')
      BY <1>1, <1>3, <2>2
    <3> QED
      BY <1>4, <2>2, <3>1 DEF AlignedInv, LagFree, Wedged
  <2> QED
    BY <1>1, <2>1, <2>2
<1>7. EndedInv'
  BY <1>4 DEF AlignedInv, EndedInv, AtEnd
<1> QED
  BY <1>5, <1>6, <1>7 DEF AlignedInv

LEMMA ArriveKeepsAligned ==
  ASSUME OneFramePerChunk, Inv, AlignedInv,
         NEW e \in flushed .. Total, Arrive(e), UNCHANGED streamVars
  PROVE  AlignedInv'
<1>1. /\ queue \in Seq(Nat) /\ Len(queue) \in Nat
      /\ IF queue = <<>> THEN received = flushed ELSE queue[Len(queue)] = flushed
      /\ \A i \in 1 .. Len(wire) : ~(flushed < wire[i].end /\ wire[i].end < e)
  BY DEF Inv, TypeOK, BodyTypeOK, QueueInv, Arrive
<1>2. e \in Nat
  <2>1. flushed \in Nat /\ Total \in Nat
    BY Bounds DEF Inv, TypeOK, BodyTypeOK
  <2> QED
    BY <2>1
<1>3. /\ Len(queue') = Len(queue) + 1
      /\ \A k \in 1 .. Len(queue) : queue'[k] = queue[k]
      /\ queue'[Len(queue) + 1] = e
  BY <1>1, <1>2 DEF Arrive
<1>4. /\ wire' = wire /\ received' = received /\ taken' = taken
      /\ bodyEnd = "open" /\ bodyEnd' = "open" /\ ended' = ended
  BY DEF Arrive, streamVars
<1>5. ChunkInv'
  <2> SUFFICES ASSUME NEW k \in 1 .. Len(queue'), NEW i \in 1 .. Len(wire)
               PROVE  ~ /\ (IF k = 1 THEN received ELSE queue'[k - 1]) < wire[i].end
                        /\ wire[i].end < queue'[k]
    BY <1>4 DEF ChunkInv
  <2>1. CASE k = Len(queue) + 1
    <3>1. (IF k = 1 THEN received ELSE queue'[k - 1]) = flushed
      <4>1. CASE queue = <<>>
        BY <1>1, <2>1, <4>1
      <4>2. CASE queue # <<>>
        <5>1. k # 1 /\ k - 1 = Len(queue) /\ Len(queue) \in 1 .. Len(queue)
          BY <1>1, <2>1, <4>2
        <5> QED
          BY <1>1, <1>3, <4>2, <5>1
      <4> QED
        BY <4>1, <4>2
    <3> QED
      BY <1>1, <1>3, <2>1, <3>1
  <2>2. CASE k \in 1 .. Len(queue)
    <3>1. k # 1 => k - 1 \in 1 .. Len(queue)
      BY <1>1, <2>2
    <3>2. queue'[k] = queue[k] /\ (k # 1 => queue'[k - 1] = queue[k - 1])
      BY <1>3, <2>2, <3>1
    <3> QED
      BY <2>2, <3>2 DEF AlignedInv, ChunkInv
  <2> QED
    BY <1>1, <1>3, <2>1, <2>2
<1>6. LagFree' /\ EndedInv'
  BY <1>4 DEF AlignedInv, LagFree, EndedInv, Wedged, AtEnd
<1> QED
  BY <1>5, <1>6 DEF AlignedInv

\* The stream ends with all that was written, or with an error.
LEMMA EndKeepsAligned ==
  ASSUME CleanClose, Inv, AlignedInv, UNCHANGED streamVars,
         Reset \/ \E t \in TrailerMaps \cup {NoTrailers} : Finish(t)
  PROVE  AlignedInv'
<1>1. /\ UNCHANGED <<wire, flushed, queue>> /\ UNCHANGED streamVars
      /\ bodyEnd = "open"
      /\ bodyEnd' = "eof" => flushed = Total
  BY DEF Reset, Finish
<1>2. ChunkInv' /\ LagFree'
  BY <1>1 DEF AlignedInv, ChunkInv, LagFree, Wedged, streamVars
<1>3. EndedInv'
  BY <1>1 DEF AlignedInv, EndedInv, AtEnd, Total, streamVars
<1> QED
  BY <1>2, <1>3 DEF AlignedInv

\* The chunk that is read completes the next frame at most up to its end, so what
\* is left in buf once that frame is cut out is no whole frame.
LEMMA ReadKeepsAligned ==
  ASSUME Inv, AlignedInv, TakeChunk, Cut(Decode(received')),
         UNCHANGED <<wire, flushed, bodyEnd, ended>>
  PROVE  AlignedInv'
<1> DEFINE d == Decode(received')
           f == taken + 1
<1>1. /\ queue \in Seq(Nat) /\ queue # <<>> /\ received \in Nat
      /\ received' = queue[1] /\ queue' = Tail(queue)
      /\ received' \in Nat /\ received <= received' /\ received' <= Total
  BY TakeChunkKeepsQueue DEF Inv, TypeOK, BodyTypeOK, TakeChunk, DataReady
<1>2. /\ Len(queue) \in Nat /\ Len(queue) >= 1 /\ Len(queue') = Len(queue) - 1
      /\ \A k \in 1 .. Len(queue') : queue'[k] = queue[k + 1]
  BY <1>1
<1>3. /\ \A i \in 1 .. Len(wire) : wire[i].end \in Nat
      /\ taken \in Nat /\ Len(wire) \in Nat /\ taken <= Len(wire)
      /\ Consumed \in Nat /\ Consumed <= received
  BY FramesTyped, Bounds DEF Inv, TypeOK, BodyTypeOK
<1>4. ChunkInv'
  <2> SUFFICES ASSUME NEW k \in 1 .. Len(queue'), NEW i \in 1 .. Len(wire)
               PROVE  ~ /\ (IF k = 1 THEN received' ELSE queue'[k - 1]) < wire[i].end
                        /\ wire[i].end < queue'[k]
    BY DEF ChunkInv
  <2>1. k + 1 \in 1 .. Len(queue) /\ k + 1 # 1 /\ (k + 1) - 1 = k
    BY <1>2
  <2>2. ~(queue[k] < wire[i].end /\ wire[i].end < queue[k + 1])
    BY <2>1 DEF AlignedInv, ChunkInv
  <2>3. k # 1 => k - 1 \in 1 .. Len(queue') /\ (k - 1) + 1 = k
    BY <1>2
  <2>4. (IF k = 1 THEN received' ELSE queue'[k - 1]) = queue[k]
    BY <1>1, <1>2, <2>3
  <2> QED
    BY <1>2, <2>2, <2>4
<1>5. LagFree'
  <2> SUFFICES ASSUME taken' < Len(wire), ~(wire[taken' + 1].kind = "compressed")
               PROVE  received' < wire[taken' + 1].end
    BY DEF LagFree, Wedged
  <2>1. Consumed <= received'
    BY <1>1, <1>3
  <2>2. /\ d \in Decodings
        /\ d # "none" => taken < Len(wire) /\ d = wire[f].kind
        /\ d \in {"message", "undecodable"} => wire[f].end <= received'
        /\ d = "none" /\ taken < Len(wire) /\ wire[f].kind # "compressed" =>
             received' < wire[f].end
    BY <1>1, <2>1, Decoding DEF Inv
  <2>3. CASE d \in {"message", "undecodable"}
    <3>1. taken' = f /\ f \in 1 .. Len(wire) /\ f + 1 \in 1 .. Len(wire) /\ f < f + 1
      BY <1>3, <2>2, <2>3 DEF Cut
    <3>2. wire[f].kind # "compressed"
      BY <2>2, <2>3
    <3>3. received < wire[f].end
      BY <1>3, <2>2, <2>3, <3>2 DEF AlignedInv, LagFree, Wedged
    <3>4. ~(received < wire[f].end /\ wire[f].end < received')
      BY <1>1, <1>2, <3>1 DEF AlignedInv, ChunkInv
    <3>5. received' \in Nat /\ wire[f].end \in Nat /\ wire[f + 1].end \in Nat
      BY <1>1, <1>3, <3>1, Zenon
    <3>6. received' <= wire[f].end
      BY <1>1, <3>3, <3>4, <3>5
    <3>7. wire[f].end + HEADER_SIZE <= wire[f + 1].end
      BY <3>1 DEF Inv, FramesInv
    <3>8. HEADER_SIZE \in Nat \ {0}
      BY BodyAssumption
    <3>9. received' < wire[f + 1].end
      BY <3>5, <3>6, <3>7, <3>8
    <3> QED
      BY <3>1, <3>9
  <2>4. CASE d \notin {"message", "undecodable"}
    <3>1. taken' = taken
      BY <2>4 DEF Cut
    <3>2. d = "none"
      BY <2>2, <2>4, <3>1 DEF Decodings, FrameKinds
    <3> QED
      BY <2>2, <3>1, <3>2
  <2> QED
    BY <2>3, <2>4
<1>6. EndedInv'
  <2>1. ended' = FALSE /\ Total' = Total
    BY <1>1 DEF AlignedInv, EndedInv, AtEnd, Total, Inv, TypeOK
  <2> QED
    BY <2>1 DEF AlignedInv, EndedInv
<1> QED
  BY <1>4, <1>5, <1>6 DEF AlignedInv

\* What is left in buf at the end of the body is no whole frame, unless it is
\* compressed: next cuts nothing.
LEMMA NothingToCut ==
  ASSUME Inv, AlignedInv
  PROVE  Decode(received) \notin {"message", "undecodable"}
<1>1. /\ received \in Nat /\ received <= Total /\ Consumed <= received
      /\ \A i \in 1 .. Len(wire) : wire[i].end \in Nat
      /\ taken \in Nat /\ Len(wire) \in Nat
  BY FramesTyped, Bounds DEF Inv, TypeOK, BodyTypeOK
<1> SUFFICES ASSUME Decode(received) \in {"message", "undecodable"} PROVE FALSE
  OBVIOUS
<1>2. /\ taken < Len(wire) /\ wire[taken + 1].kind # "compressed"
      /\ wire[taken + 1].end <= received
  BY <1>1, Decoding DEF Inv
<1>3. received < wire[taken + 1].end
  BY <1>2 DEF AlignedInv, LagFree, Wedged
<1> QED
  BY <1>1, <1>2, <1>3

\* recv_message says that the stream is over: nothing is left in buf.
LEMMA RecvEndKeepsAligned ==
  ASSUME Inv, AlignedInv, RecvEnd
  PROVE  AlignedInv' /\ (taken = Len(wire) \/ Wedged)
<1>1. /\ UNCHANGED <<wire, flushed, queue, bodyEnd, received, taken>>
      /\ queue = <<>> /\ bodyEnd = "eof"
  BY DEF RecvEnd, AtEnd, bodyVars
<1>2. received = Total
  BY <1>1 DEF Inv, QueueInv, AlignedInv, EndedInv
<1>3. taken = Len(wire) \/ Wedged
  <2>1. /\ \A i \in 1 .. Len(wire) : wire[i].end \in Nat /\ wire[i].end <= Total
        /\ taken \in Nat /\ Len(wire) \in Nat /\ taken <= Len(wire) /\ Total \in Nat
    BY FramesTyped, Bounds DEF Inv, TypeOK, BodyTypeOK
  <2>2. CASE taken < Len(wire)
    <3>1. taken + 1 \in 1 .. Len(wire)
      BY <2>1, <2>2
    <3>2. wire[taken + 1].end \in Nat /\ wire[taken + 1].end <= received
      BY <1>2, <2>1, <3>1
    <3>3. ~(received < wire[taken + 1].end)
      BY <1>2, <2>1, <3>2
    <3> QED
      BY <2>2, <3>3 DEF AlignedInv, LagFree
  <2> QED
    BY <2>1, <2>2
<1>4. ChunkInv' /\ LagFree'
  BY <1>1 DEF AlignedInv, ChunkInv, LagFree, Wedged
<1>5. EndedInv'
  BY <1>1, <1>3 DEF AlignedInv, EndedInv, AtEnd, Wedged, Total
<1> QED
  BY <1>3, <1>4, <1>5 DEF AlignedInv

\* Steps that leave the data alone leave the invariant alone.
LEMMA OtherKeepsAligned ==
  ASSUME AlignedInv, UNCHANGED <<wire, flushed, queue, bodyEnd, received, taken, ended>>
  PROVE  AlignedInv'
BY DEF AlignedInv, ChunkInv, LagFree, EndedInv, Wedged, AtEnd, Total

-----------------------------------------------------------------------------
(* The steps, sorted by what they do to the state MessageStream sees.      *)

\* Server steps that write no frame, library steps that only park, fail, give
\* trailers, and the steps of the application.
LEMMA Steps ==
  ASSUME Inv, AlignedInv, [Next]_vars
  PROVE  \/ UNCHANGED streamVars /\ \E kind \in Kinds, size \in Sizes : Write(kind, size)
         \/ UNCHANGED streamVars /\ \E e \in flushed .. Total : Arrive(e)
         \/ /\ UNCHANGED streamVars
            /\ Reset \/ \E t \in TrailerMaps \cup {NoTrailers} : Finish(t)
         \/ /\ TakeChunk /\ Cut(Decode(received'))
            /\ UNCHANGED <<wire, flushed, bodyEnd, ended>>
         \/ RecvEnd
         \/ UNCHANGED <<wire, flushed, queue, bodyEnd, received, taken, got, ended>>
<1>1. CASE Server /\ UNCHANGED streamVars
  BY <1>1 DEF Server
<1>2. CASE RecvData \/ NextData
  BY <1>2 DEF RecvData, NextData, Yield
<1>3. CASE NextEnd
  <2>1. Cut(Decode(received)) /\ UNCHANGED <<wire, flushed, queue, bodyEnd, received, ended>>
    BY <1>3 DEF NextEnd, Yield
  <2>2. UNCHANGED <<taken, got>>
    BY <2>1, NothingToCut DEF Cut
  <2> QED
    BY <2>1, <2>2
<1>4. CASE RecvFailed \/ RecvPending \/ NextFailed \/ NextPending
  BY <1>4 DEF RecvFailed, RecvPending, NextFailed, NextPending, bodyVars, streamVars
<1>5. CASE TrailersReady \/ TrailersFailed \/ TrailersPending
  BY <1>5 DEF TrailersReady, TrailersFailed, TrailersPending, bodyVars, streamVars
<1>6. CASE (\E c \in Calls : Start(c)) \/ Cancel \/ Spurious
  BY <1>6 DEF Start, Cancel, Spurious, bodyVars, streamVars
<1>7. CASE UNCHANGED vars
  BY <1>7 DEF vars, bodyVars, streamVars
<1> QED
  BY <1>1, <1>2, <1>3, <1>4, <1>5, <1>6, <1>7 DEF Next

LEMMA AlignedNext ==
  ASSUME OneFramePerChunk, CleanClose, Inv, AlignedInv, [Next]_vars
  PROVE  AlignedInv'
BY Steps, WriteKeepsAligned, ArriveKeepsAligned, EndKeepsAligned, ReadKeepsAligned,
   RecvEndKeepsAligned, OtherKeepsAligned

-----------------------------------------------------------------------------
(* The refinement.                                                         *)

LEMMA RefinesInit == Init => Promise!StreamInit
<1> SUFFICES ASSUME Init PROVE Promise!StreamInit
  OBVIOUS
<1>1. wire = <<>> /\ bodyEnd = "open" /\ taken = 0 /\ got = <<>> /\ ended = FALSE
  BY DEF Init, BodyInit
<1>2. [i \in DOMAIN wire |-> wire[i].kind] = <<>>
  BY <1>1
<1> QED
  BY <1>1, <1>2 DEF Promise!StreamInit

\* The state MessageStream sees is a function of these variables.
LEMMA Stutters ==
  ASSUME UNCHANGED <<wire, taken, got, ended>>, (bodyEnd' = "eof") = (bodyEnd = "eof")
  PROVE  UNCHANGED Promise!streamState
BY DEF Promise!streamState

LEMMA WriteSends ==
  ASSUME Inv, NEW kind \in Kinds, NEW size \in Sizes,
         Write(kind, size), UNCHANGED streamVars
  PROVE  Promise!Send
<1> DEFINE n    == Len(wire) + 1
           sent == [i \in DOMAIN wire |-> wire[i].kind]
           f    == [kind |-> kind, end |-> Total + HEADER_SIZE + size]
<1>1. /\ wire \in Seq(Frame) /\ Len(wire) \in Nat /\ f \in Frame /\ kind \in FrameKinds
  BY Bounds, BodyAssumption DEF Inv, TypeOK, BodyTypeOK, Frame
<1>2. /\ wire' = Append(wire, f) /\ DOMAIN wire' = 1 .. n /\ DOMAIN wire = 1 .. Len(wire)
      /\ \A i \in 1 .. Len(wire) : wire'[i] = wire[i]
      /\ wire'[n].kind = kind
  BY <1>1 DEF Write
<1>3. sent \in Seq(FrameKinds) /\ Len(sent) = Len(wire)
  <2>1. \A i \in 1 .. Len(wire) : wire[i].kind \in FrameKinds
    BY FramesTyped DEF Inv
  <2> QED
    BY <1>1, <1>2, <2>1
<1>4. /\ Append(sent, kind) \in Seq(FrameKinds) /\ DOMAIN Append(sent, kind) = 1 .. n
      /\ \A i \in 1 .. Len(wire) : Append(sent, kind)[i] = wire[i].kind
      /\ Append(sent, kind)[n] = kind
  BY <1>1, <1>2, <1>3
<1>5. [i \in DOMAIN wire' |-> wire'[i].kind] = Append(sent, kind)
  BY <1>1, <1>2, <1>4
<1>6. /\ UNCHANGED <<taken, got, ended>> /\ bodyEnd = "open" /\ bodyEnd' = bodyEnd
  BY DEF Write, streamVars
<1> QED
  BY <1>5, <1>6 DEF Promise!Send

LEMMA ReadTakes ==
  ASSUME Inv, AlignedInv, TakeChunk, Cut(Decode(received')),
         UNCHANGED <<wire, flushed, bodyEnd, ended>>
  PROVE  Promise!Take \/ UNCHANGED Promise!streamState
<1> DEFINE d    == Decode(received')
           f    == taken + 1
           sent == [i \in DOMAIN wire |-> wire[i].kind]
<1>1. /\ received' \in Nat /\ received' <= Total /\ Consumed <= received'
      /\ taken \in Nat /\ Len(wire) \in Nat /\ ended = FALSE
  <2>1. received' \in Nat /\ received <= received' /\ received' <= Total
    BY TakeChunkKeepsQueue
  <2>2. Consumed \in Nat /\ Consumed <= received /\ received \in Nat
    BY Bounds DEF Inv, TypeOK
  <2>3. ended = FALSE
    BY DEF AlignedInv, EndedInv, AtEnd, TakeChunk, DataReady, Inv, TypeOK
  <2> QED
    BY <2>1, <2>2, <2>3 DEF Inv, TypeOK, BodyTypeOK
<1>2. d # "none" => taken < Len(wire) /\ d = wire[f].kind
  BY <1>1, Decoding DEF Inv
<1>3. CASE d \in {"message", "undecodable"}
  <2>1. /\ taken < Len(wire) /\ d = wire[f].kind /\ taken' = f
        /\ got' = IF d = "message" THEN Append(got, f) ELSE got
    BY <1>2, <1>3 DEF Cut
  <2>2. DOMAIN wire = 1 .. Len(wire) /\ f \in 1 .. Len(wire)
    BY <1>1, <2>1 DEF Inv, TypeOK, BodyTypeOK
  <2>3. sent[f] = d /\ DOMAIN sent = 1 .. Len(wire) /\ Len(sent) = Len(wire)
    <3>1. wire \in Seq(Frame) /\ \A i \in 1 .. Len(wire) : wire[i].kind \in FrameKinds
      BY FramesTyped DEF Inv, TypeOK, BodyTypeOK
    <3>2. sent \in Seq(FrameKinds) /\ Len(sent) = Len(wire)
      BY <1>1, <2>2, <3>1
    <3> QED
      BY <2>1, <2>2, <3>2
  <2> QED
    BY <1>1, <1>3, <2>1, <2>3 DEF Promise!Take, Promise!Blocked
<1>4. CASE d \notin {"message", "undecodable"}
  BY <1>4, Stutters DEF Cut
<1> QED
  BY <1>3, <1>4

LEMMA RecvEndEnds ==
  ASSUME Inv, AlignedInv, RecvEnd
  PROVE  Promise!End
<1> DEFINE sent == [i \in DOMAIN wire |-> wire[i].kind]
<1>1. taken = Len(wire) \/ Wedged
  BY RecvEndKeepsAligned
<1>2. /\ wire \in Seq(Frame) /\ DOMAIN wire = 1 .. Len(wire) /\ Len(wire) \in Nat
      /\ taken \in Nat /\ taken <= Len(wire)
      /\ \A i \in 1 .. Len(wire) : wire[i].kind \in FrameKinds
  BY FramesTyped DEF Inv, TypeOK, BodyTypeOK
<1>3. sent \in Seq(FrameKinds) /\ Len(sent) = Len(wire)
  BY <1>2
<1>4. Wedged => taken < Len(sent) /\ sent[taken + 1] = "compressed"
  BY <1>2, <1>3 DEF Wedged
<1>5. /\ UNCHANGED <<wire, bodyEnd, taken, got>>
      /\ bodyEnd = "eof" /\ ended' = TRUE
  BY DEF RecvEnd, AtEnd, bodyVars
<1> QED
  BY <1>1, <1>3, <1>4, <1>5 DEF Promise!End, Promise!Blocked

LEMMA EndCloses ==
  ASSUME UNCHANGED streamVars,
         Reset \/ \E t \in TrailerMaps \cup {NoTrailers} : Finish(t)
  PROVE  Promise!Close \/ UNCHANGED Promise!streamState
<1>1. CASE Reset
  BY <1>1, Stutters DEF Reset, streamVars
<1>2. CASE \E t \in TrailerMaps \cup {NoTrailers} : Finish(t)
  BY <1>2 DEF Finish, streamVars, Promise!Close
<1> QED
  BY <1>1, <1>2

LEMMA RefinesStep ==
  ASSUME Inv, AlignedInv, [Next]_vars
  PROVE  [Promise!StreamNext]_(Promise!streamState)
<1> USE DEF Promise!StreamNext
<1>1. CASE UNCHANGED streamVars /\ \E kind \in Kinds, size \in Sizes : Write(kind, size)
  BY <1>1, WriteSends
<1>2. CASE UNCHANGED streamVars /\ \E e \in flushed .. Total : Arrive(e)
  BY <1>2, Stutters DEF Arrive, streamVars
<1>3. CASE /\ UNCHANGED streamVars
           /\ Reset \/ \E t \in TrailerMaps \cup {NoTrailers} : Finish(t)
  BY <1>3, EndCloses
<1>4. CASE /\ TakeChunk /\ Cut(Decode(received'))
           /\ UNCHANGED <<wire, flushed, bodyEnd, ended>>
  BY <1>4, ReadTakes
<1>5. CASE RecvEnd
  BY <1>5, RecvEndEnds
<1>6. CASE UNCHANGED <<wire, flushed, queue, bodyEnd, received, taken, got, ended>>
  BY <1>6, Stutters
<1> QED
  BY <1>1, <1>2, <1>3, <1>4, <1>5, <1>6, Steps

\* When no DATA frame carries bytes of two messages and the server ends the
\* stream between messages, recv_message, next and recv_trailers together
\* implement the message stream: whatever is mixed, dropped or woken, messages are
\* handed over one by one, and Ok(None) means that none is left.
THEOREM Refinement ==
  ASSUME OneFramePerChunk, CleanClose
  PROVE  Spec => ImplementsMessageStream
<1>1. Init => AlignedInv /\ Promise!StreamInit
  BY AlignedInit, RefinesInit
<1>2. Inv /\ AlignedInv /\ [Next]_vars => AlignedInv'
  BY AlignedNext
<1>3. Inv /\ AlignedInv /\ [Next]_vars => [Promise!StreamNext]_(Promise!streamState)
  BY RefinesStep
<1> QED
  BY <1>1, <1>2, <1>3, Invariance, PTL
     DEF Spec, ImplementsMessageStream, Promise!StreamSpec
=============================================================================
