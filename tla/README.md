# liegrpc: specification and proofs

liegrpc is a small gRPC client on top of hyper. This directory holds TLA+ modules for its own logic, the
TLC configurations that check them on small instances, and TLAPS proofs for all instances. Paths such as
`src/grpc.rs` are paths of the repository.

## 1. Inventory

| component | source | state | operations |
|---|---|---|---|
| Streaming | `src/grpc.rs` 215-300 | `body`, `buf` | `recv_message`, `poll_message`/`poll_next` (`next`), `recv_trailers` |
| Response | `src/grpc.rs` 93-213 | message, metadata | `new_unary`, `new_streaming`, accessors |
| Request | `src/grpc.rs` 22-91 | message, metadata | `into_unary`, `into_stream`, `into_http_request` |
| Codec | `src/codec.rs` | none | `encode`, `decode` of length-prefixed messages |
| Status | `src/status.rs` | none | `Code::from_bytes`, `from_str`, `try_from`; `Status::from_http_status`, `from_header_map` |
| Metadata | `src/metadata.rs` | map from names to values | `insert`, `get_mut`, `remove`, `merge_http_header` |
| Channel | `src/channel.rs` | targets, hyper client | `new`, `call` |
| Client | `src/client.rs` | channel | the four call shapes |
| Examples | `examples/*.rs` | - | a unary call, a watch on an etcd server |

How they interact. A `Client` method encodes the request (`Request`, `Codec`, `Metadata`), sends it to a
randomly chosen target (`Channel`) and hands the HTTP response to a `Response` constructor. `new_unary`
checks the HTTP status, receives one message and the trailers through a private `Streaming`, and makes a
`Status` of headers and trailers. `new_streaming` checks the HTTP status only and gives the `Streaming` to
the application, which awaits `recv_message`, `next` and `recv_trailers` in any order, one at a time since
all of them take `&mut self`, and may drop the future of a call at its await point. A request stream is read by
hyper, concurrently with everything else, from the time the call is made.

What is hard in this code is at two boundaries. On the response's side, between the task of the application and the
connection, which fills the body concurrently:

- messages and DATA frames have different boundaries, and `buf` carries bytes from one call to the next;
- three calls read the same body and the same `buf`, each with its own idea of what to do when a message is
  incomplete and when the body has ended;
- a task that returns `Pending` sleeps until a waker it has registered is called;
- the server may end the stream anywhere, with or without trailers, or reset it;
- the status of a call may come from the HTTP status, the headers or the trailers.

On the request's side, between what is checked and what is sent, and between those who wait for each other:

- metadata is checked when it is inserted, but can be changed later, and `into_http_request` unwraps;
- targets are checked when the channel is made, and `call` expects what was checked;
- a call returns only with the head of the response, so that an application, a bounded channel and a
  server can each wait for the other.

Nothing is persisted, and no call is retried. What each component owes its user: `Streaming`, every message
that arrives, in order, once, and an honest end; `Response`, the server's verdict on the call and its metadata;
`Status`, the code the server wrote; `Codec`, that what is encoded is what is decoded; `Metadata`, that what it
accepts can be sent; `Channel`, that a call goes to a configured target; `Client`, one outcome for each call, with
the server's verdict behind it.

## 2. Modules

| module | models | form |
|---|---|---|
| `Body` | hyper's body as `src/grpc.rs` uses it, the server that fills it, the waker | variables and actions, extended by `Streaming`; external |
| `Streaming` | `Streaming<T>` with `ProstDecoder::decode` | one action per branch of each poll |
| `MessageStream` | what a message stream promises | abstract specification |
| `Codec` | `encode`, `decode` on bytes | operators |
| `ByteStream` | frames encoded on one side, received in chunks and decoded on the other | small specification |
| `Status` | codes and statuses | operators |
| `StatusParsing` | the two parsers of a code on every header value | small specification |
| `Metadata` | `MetadataMap` | operators on maps |
| `Channel` | target validation and choice | operators |
| `Request` | `Request<T>` and the part of `Channel::call` before its await, over `Metadata` and `Channel` | specification, one action per operation |
| `Response` | `new_unary`, `new_streaming` over `Streaming`, `Status` and `Metadata` | one action per stretch between two awaits |
| `Client` | the four methods of `GrpcClient`, request stream, hyper and server, over `Response` | specification of one call |
| `Rpc` | what a call promises | abstract specification |
| `MCResponse`, `MCByteStream`, `MCRequest`, `MCClient` | header maps, payloads, targets, names for TLC | constants |
| `*Proofs`, `StreamingRefinement` | - | theorems, section 5 |

**Bytes are offsets.** The server writes one contiguous byte stream `wire`, a sequence of frames each with
the offset at which it ends. A chunk and `buf` are determined by their ends: `queue` holds the ends of the
chunks that wait in the body, `received` the end of `buf`, and `buf` begins at `Consumed`, the end of the last
frame that was cut out. `Decode(r)` then has exactly the tests of `decode`: five bytes of prefix, the flag byte,
the payload. The contents of a payload matter only in whether it parses, hence the three kinds of frame,
`message`, `undecodable` and `compressed`. `wire` is never shortened, so it is also the history the properties
speak of.

`Codec` has the bytes themselves: a byte has `ByteBase` values (256 in the code), the length field four bytes, and
`ToBigEndian` drops what does not fit, as `len as u32` does. `ByteStream` ties the two together: beside the
bytes it keeps the frames with their ends, instantiates `Streaming` over these, and `OffsetsTellAll` says that
`decode` on the bytes and `Decode` on the offsets always have the same result. A payload too long for its field is
outside this (`LengthsFit`): the code announces a wrong length, and the rest of the stream is lost.

**Steps.** A step of `recv_message` is one iteration of its loop: a poll of the body and what the code does
with the answer (`RecvData`, `RecvEnd`, `RecvFailed`, `RecvPending`). A step of `next` is one `poll_next`
(`NextData`, `NextEnd`, `NextFailed`, `NextPending`), a step of `recv_trailers` one poll (`TrailersReady`,
`TrailersFailed`, `TrailersPending`). `Start` begins a call, `Cancel` drops the future of a parked one. Between
two such steps the server may do anything. In `Response`, `Conclude` is the whole end of `new_unary`, from the
trailers to its result, since nothing is awaited in between. In `Request` and `Client`, `Call` is everything up to the
await in `Channel::call`.

**Wake-ups.** `parked` says that the task has returned `Pending`, `waker` that the body holds its waker. Every
event on the stream (`Arrive`, `Finish`, `Reset`) takes the waker and wakes the task. hyper's body registers it
when it has nothing to report; when it is ready it does not, so a `Pending` made by liegrpc itself (`ParkDeaf`,
`src/grpc.rs:274`) sleeps until something else polls the task, which is `Spurious`. h2's `poll_trailers` has
such a `Pending` too, when DATA frames wait in front of the trailers.

**Environment switches.** `OneFramePerChunk` and `CleanClose` restrict the server, `MayReset`, `MayCancel` and
`SpuriousWakes` restrict the rest of the world, and `Calls` the application. The runs and theorems say which
they need.

**Metadata.** A map, be it a `MetadataMap` or the header map of the http crate, gives each of its names a sequence of
values, in the order they were put there and each as often. Names and values are elements of
sets: `Spelled` and `Printable` are what the tests of `insert` let through, `HttpNames` and `HttpValues` what
the http crate does, `NotUtf8` what `from_utf8_lossy` replaces. A name can lose all its values through `get_mut` and
stay in the map. `merge_http_header` tries `insert` with every value and skips what it refuses, so `MergeHttpHeader`
keeps of each header what `Taken` leaves, in its order. Both directions of a call use it, and what is put into a request
goes out in the same way: `HttpHeaders` puts gRPC's content type in front of whatever the metadata has under that name,
since the builder adds and never replaces. Metadata taken over from a response therefore sends a content type twice.

**Request.** The application of `Request` makes a client for a list of targets, edits the metadata it holds, and makes
calls with clones of it. `altered` is a history of the names it has changed through `get_mut`, behind the tests of
`insert`; `SetValues` may give such a name any values at all. `request` is the HTTP request under way, with the
metadata it was made of. `up` is the set of targets whose server can be reached, and `Toggle` changes it at any time.
The three ways a call can end before its await are the three alternatives of `Call`: a panic at the `unwrap` in
`into_http_request` or at an `expect` in `Channel::call`, `InvalidArgument` for a method that is no path, or a
request on its way.

**Response.** `phase` is the position in the constructor, `answer` a history of what the server sent,
independent of `headers`, which `new_unary` overwrites with trailers. `HeadAccepted` has both tests of the
code, although `from_http_status` says OK only of 200. `code` and `origin` are the status returned and where
it was made; `metadata` is what the application reads.

**Client.** One call, from the first message of its request. `plan` fixes what application and server are going to
do: which of the four methods is called (`method`), how many messages there are (`count`), whether the
sender is dropped at the end (`closes`), who feeds (`by`: the caller, before the call, as `examples/etcdclient.rs`
does, or a task of its own, meanwhile), whether the method is a path, and what the server waits for before it
sends the head (`need`: a number of messages, or `All`, the end of the request). The channel between application and
request stream holds `Capacity` messages, those offered (`fed`) less those hyper has taken (`sent`). hyper takes them
only once the call is made (`Pump`), also while the response is being read. The guards of these steps have names
(`CanOffer`, `CanPump`, ...), because a property speaks of them. `Respond` is a step of `Response`,
whose variables rest until the head is there. `Call` stands for all four methods: they differ in what `Shapes` says
of each, whether the request is one message or a stream (`feed`) and which constructor the response is given to
(`style`).

`Rpc` is what is left of a call without channels, bodies and header maps: messages to the server, its answer
when it has enough, its verdict, and one outcome, which is never taken back and which claims no more than the
verdict allows. In the refinement mapping the verdict is the status the server has given by the end of the stream, and
the outcome is read from `phase` and `origin`.

**Slips.** Definitions whose comment begins with *Slip* are faulty variants of the definition below them.
Nothing uses them; replacing the definition by its slip must break the property it is listed with in
`PROJECT.json`.

## 3. Runs

| run | configuration | checks | shows |
|---|---|---|---|
| `streaming_any` | all calls, any chunking, truncation, reset, cancellation, spurious wake-ups; 3 frames | `TypeOK`, `InOrderExactlyOnce`, `RecvNeverParksDeaf`, `LagGrowsOnlyByCoalescing` | safety of the receiving half without any assumption on the server |
| `streaming_aligned` | the same with `OneFramePerChunk`, `CleanClose`, prefix of 5 bytes | `ImplementsMessageStream` | refinement of `MessageStream` |
| `recv_loop` | only `recv_message`, with cancellation and reset, aligned server | `EverythingArrives`, `EndIsReported` | liveness with no help but the body's own wake-ups |
| `next_loop` | only `next`, any chunking, spurious wake-ups | `NextDrainsAtEnd` | `next` still cuts frames at the end of the body |
| `next_loop_stalls` | only `next`, one message, nothing else wakes the task | `EverythingArrives` violated | finding 1 |
| `next_loop_never_ends` | only `next`, one message, spurious wake-ups | `LoopEnds` violated | finding 2 |
| `request` | lists of up to two targets, one of them unusable; names http refuses, reserved ones and `content-type`; values that cannot be sent; metadata passed on from responses; servers that go down and come back | `PanicsOnlyIfBypassed`, `OnlySoundRequestsLeave`, `ServerSeesMetadata`, `RetriesReachALiveServer` | what panics, what leaves, what the server reads, and whom repeated calls reach |
| `response` | `new_unary` and `new_streaming` with an application that reads the stream; every pair of headers and trailers, any body, cancellation, spurious wake-ups | `ResponseTypeOK`, `OkMeansServerSaidOk`, `ErrorCodeIsTheServers`, `MetadataIsTheServers`, `UnaryNeverParksDeaf`, `UnaryReturns` | the result of a unary call is the server's verdict, the metadata of both is the server's, and what alone keeps a unary call from returning |
| `unary_status_lost` | a server that may send no message | `ServerErrorIsReported` violated | finding 3 |
| `client` | the four call shapes, every plan with up to two messages over a channel of one, resets, cancellation | `HeadNeedsTheFeed`, `SomebodyCanGoOn`, `WaitEnds`, `EveryCallIsAnswered`, `TrailersReachTheApplication`, `ImplementsRpc` | exactly which calls wait for good, that no other waits in a circle or for ever, that the status of a streaming call can be had, and refinement of `Rpc` |
| `byte_stream` | every payload, compressed or not, any chunking; 3 frames | `OffsetsTellAll`, `DecodesWhatWasEncoded` | the bytes are decoded as they were encoded, and the offsets of `Streaming` predict every result of `decode` |
| `status_parsing` | header values up to 3 bytes over 18 bytes | `AcceptsNumeralsOnly`, `FromStrAgrees`, `FromStrIsThisLenient` | what each of the two parsers of a status code accepts, as what, and that all the rest is refused |

**Bounds.** `MaxFrames` bounds the messages of a stream, `MaxQueue` the chunks that wait in the body. Two frames
are enough for a chunk that completes one message and holds part of the next, three for a chunk that completes
two and begins a third, or for a frame behind a compressed frame behind a message. With two chunks waiting
there is one behind the one being read; chunks may be empty and may cut a prefix or a payload at every
offset. The prefix has two bytes in most runs, so that it can still be cut in two, and five, as in the code,
where the state space allows; nothing but its being positive matters, as the proofs show. Payloads have no or one byte.
`ByteStream` has bytes of two values, so that the length field of four bytes holds 0 to 15 and the run reaches the
greatest length that fits and the first that does not; chunks may hold a whole stream of such frames.
`StatusParsing` has the digits, the bytes next to them in ASCII, signs, space, a letter and both ends of the
byte range, and lengths on both sides of the two `from_bytes` knows. Three digits are the least that may exceed a `u8`, and
the least with two zeros, or a sign and a zero, in front.

In `Request`, `MaxTargets` is two: one target that is down and one that is up, or one that was refused. The random
number has `UsizeLimit` values, four, so that each target is the choice of more than one of them. There is a
name and a value on each side of every test, and an application gives a name at most `MaxValues` values, two: none, one,
one twice, or two in either order. A response it passes on may have one more, with one that is dropped in between. Only
targets a server can have (`Servers`) go up and down.
In `Client`, `Capacity` is one, as in the example, and `MaxRequests` two: one message that fits, one that does not.
The stream of the response has one frame, since what more frames do is the subject of the other runs. The head
says OK, and the trailers say OK, say NotFound, or are missing: the verdict may be the head's or the trailers', and
may be unlike the head's.

**Fairness.** `Fairness` has weak fairness of the library's steps: the executor polls a task that is runnable,
and a task is runnable exactly when it is not parked. `Start` is fair because the application of these runs
is a loop. `Spurious` is fair only where the run enables it, to say that the task is polled for other reasons
again and again. The server is never assumed fair in sending its response: it may stop writing at any time, and the
properties begin with what has arrived. In `Response`, `DropCall` is never fair.

`ClientFairSpec` states what a call depends on: the application offers, closes and calls while it can, hyper sends
what is in the channel, and the server sends the head once it has what it waits for. The last is an assumption on the
environment, without which no call could be said to be answered. Asking for trailers has strong fairness, since the
application's other calls disable it in between. The `FairSpec` of `Request` says that calls are made again and again
and that `rand::random` gives every residue again and again; strong fairness for each target, because a call is
possible only in between others.

Runs with `CHECK_DEADLOCK FALSE` are those in which a call that has returned or waits for good, a stalled loop, a
client that is refused, or a header of full length has no next step.

## 4. Findings

1. `src/grpc.rs:274`: `poll_message` turns "no whole message yet" into `Poll::Pending` although the body was
   ready, so no waker is registered. A message in two DATA frames, the first of which is read on its own, is not delivered, and the
   watch loop of `examples/etcdclient.rs:1327` sleeps on.
2. The same line is reached at the end of the body: the stream never yields `None`, and the same loop never
   leaves.
3. `src/grpc.rs:143`: `new_unary` gives up with Internal when there is no message, before it reads the status.
   An error answered without a message, the usual form, loses its status: in the run the last word of the server, in
   trailers or, if those have no status, in the headers, is NotFound, and the caller gets Internal.

Behaviour that the properties state as it is, rather than contradict:

- `recv_message` polls the body before it looks at `buf`, and does not look at `buf` when the body has ended: of two
  messages in one chunk the second stays in `buf` until another chunk comes, and is lost behind `Ok(None)` if none
  does. Only such a chunk leaves a message behind (`LagGrowsOnlyByCoalescing`); the refinement and the liveness of
  `recv_message` exclude it by `OneFramePerChunk`, and no property catches the loss itself;
- a truncated body ends like a complete one (`CleanClose`), and a compressed frame blocks the stream (`Wedged`);
- data behind the first message of a unary call makes it wait for trailers for good (`UnaryReturns`), and nothing
  else makes it sleep without a waker (`UnaryNeverParksDeaf`);
- on a streaming call the status is for the application to ask for; `TrailersReachTheApplication` is about one that
  reads to the end and asks then;
- `from_str` takes a plus sign and leading zeros, which `from_bytes` refuses (`FromStrIsThisLenient`);
- a value set through `get_mut` that is no header value, and a name that is inserted and that http refuses, which the
  empty one is, make the next call panic at `src/grpc.rs:90` (`PanicsOnlyIfBypassed`). Nothing else can, and in
  particular nothing a server has sent can;
- content types that the application has in its metadata are sent behind gRPC's own, so that one taken over from a
  response goes out twice (`ServerSeesMetadata`);
- a call to a target that is down fails although another is up; only calling again helps
  (`RetriesReachALiveServer`);
- a caller that feeds the channel itself can offer no more than it holds, and a server that waits for what only comes after
  its head is waited for by the caller for good (`Fits`, in `HeadNeedsTheFeed` and `EveryCallIsAnswered`). The example
  offers one message to a channel of one.

An observation without a run: the message made at `src/status.rs:141` for an HTTP error says that the `grpc-status`
header is missing; at that point nobody has looked for it.

## 5. Proofs

TLAPS checks everything below for every value of the constants that satisfies the named assumptions of the modules
(`BodyAssumption`, `StreamingAssumption`, `MetadataAssumption`, ...): any positive prefix length, any payload sizes,
any number of frames, chunks, targets, names, values and messages. Every invariant and every action property of the
passing runs is proved, and so are the two refinements; the liveness properties, which are not, are named at the
end of this section.

`StreamingProofs` proves `Spec => []Inv`, where `Inv` is

- `TypeOK`, `InOrderExactlyOnce` and `RecvNeverParksDeaf` themselves,
- `FramesInv`: frames end at least a prefix apart. Without it `decode` could find a prefix where no frame is;
- `QueueInv`: `received`, the waiting chunks, `flushed` and `Total` are in this order, and the chunks are
  contiguous. It makes the chunk that is read end behind `received` and before the end of what was written, so
  that a frame `Decode` finds has been written (`TypeOK`) and has arrived (`InOrderExactlyOnce`);
- `WakerInv`: the body holds a waker only while it has nothing to report, so reading a chunk cannot leave a
  stale one behind, and only a call in progress is parked.

`Decoding` says what `Decode` returns and `CutKeepsOrder` what cutting it off preserves; each action then has a
lemma or a case of its own. The theorems are `TypeCorrect`, `InOrder` and `NoLostWakeUp`.

`Backlog` (`Spec => LagGrowsOnlyByCoalescing`) follows from the same invariant by counting: after a read, the
backlog is part of the old one and the frames the chunk completed, less the frame that was cut out
(`LagAfterRead`); every other step keeps it or takes from it (`LagShrinks`).

`StreamingRefinement` proves `Refinement`: `ASSUME OneFramePerChunk, CleanClose PROVE Spec =>
ImplementsMessageStream`. The mapping forgets chunks, buffers, calls and wake-ups: `sent` is the kinds of `wire`,
`cursor` is `taken`, `over` is `ended`. The additional invariant `AlignedInv` says that no waiting chunk reaches
past the end of a frame it completes (`ChunkInv`), that therefore every frame that is whole in `buf` has been cut out
(`LagFree`), and that the end of the body is the end of what was written (`EndedInv`). `LagFree` is what makes
`Ok(None)` honest: `recv_message` does not look at `buf` when the body ends, and only because nothing whole can be
in it is nothing lost. `next` can then cut nothing at the end of the body either (`NothingToCut`).

`MetadataProofs` says what the operations of a map give: `MergeGives`, that an empty map into which headers are merged has
of each name that is spelled right and not gRPC's own exactly the printable values, in their order and each as often as it
is there. It serves both directions: the metadata of a response, and what a server sees of a request. `Only`, which filters
a sequence, is a recursive function; `OnlyIsLast`, `OnlyKeeps` and `OnlyInFront` say what it gives, by the induction
described below, and `TakenIs` that replacing what is not UTF-8 before the tests makes no difference to what is kept.

`RequestProofs` proves `NoOtherPanic`, `SoundRequests` and `MetadataArrives` from `ReqInv`. Its parts are
`MetadataInv` (what was not altered is printable, nothing is reserved: the tests of `insert` hold for as long as the
entry lives), `TargetsInv` (every target of a client that was made is usable, which is why no `expect` fails), and
`RequestInv` (there is a request only while one is waited for). `HeadersAreSound` and `SeenByTheServer` are the two
properties of a request at the moment it is made.

`ResponseProofs` proves `ResponseTypeCorrect`, `OkIsTheServers`, `ErrorIsTheServers` and `MetadataOfTheServer`. Every
step of `Response` is a step or a stutter of `Streaming` (`StreamingStep`), so `Inv` holds again, and with it
`UnaryInv` says what the private `Streaming` of `new_unary` has done by each phase (exactly the first frame was taken
before trailers are awaited), `HistoryInv` that headers and trailers are the server's until they are merged, and
`LastWord` that merging lets the trailers decide. `UnaryNoLostWakeUp` needs one more invariant, `TrailersSleep`: a unary
call that is parked in front of its trailers has its waker with the body, or data waits there. Data that comes
takes the waker and unparks the task, so that the call can be asleep over data only because it polled again and
h2 gave it nothing (`TrailersSleepKept`). While the message is awaited it is `RecvNeverParksDeaf` of `Streaming`.

`ClientProofs` proves `AnswersNeedTheFeed` from `CallInv`, that is `RespInv` with `FeedInv` (offered, waiting and sent
messages count up; the end comes after the last) and `StageInv` (a caller that has called has offered everything
into a channel nobody was reading).

`NoCircularWait` and `FiniteWait` are the part of `EveryCallIsAnswered` that does not need fairness. As long as a call
that `Fits` has no head, one of application, hyper and server has a step to take; for that `StageInv` knows that a
unary request is closed from the start and that a caller who has made the call has nothing left to offer or close,
so a request stream that hyper finds empty is either still fed by a task, or at its end. And each step of a call that
waits lowers `ToDo`. Together: every run of a call without a head is finite, and none ends before the head, unless one
of them refuses its step for good, which is what fairness rules out.

`CallRefinement` is `ClientSpec => ImplementsRpc`: `RespondStep` maps each step
of `Response` to a step of `Rpc` or a stutter. Success and the server's own error need `OkMeansServerSaidOk` and
`ErrorCodeIsTheServers` here, and that the end of the body comes before both.

`StatusProofs` is about byte sequences of every length. `ExactlyTheNumerals` says that `from_bytes` reads the numeral of
each code as that code, and refuses everything else with Internal; `NumeralsBehindZeros` says the same of `from_str` and
the numerals behind any number of zeros and one plus sign. The two halves are stated apart, since Internal is itself a
code and a refusal must not pass for the reading of 13. `Parsing`,
`ParsersAgree` and `Leniency` are the invariants of `StatusParsing` that follow. For `from_str` the number a string of
digits stands for has to be known, which `Decimal` computes by recursion: `DecimalIsLast` says that it is the last of
the numbers the beginnings of the string stand for (`Prefixes`), `ZeroPrefix` that such a beginning is 0 exactly if it
has no digit but zeros, and `OnlyPadding` looks at the last two digits: what stands in front of them is 0 in every
number up to 16.

`CodecProofs` proves, whatever the number of values of a byte, that `decode` takes an encoded message off the front of a
buffer as it was encoded and leaves what follows (`RoundTrip`), and does nothing as long as a byte of it is missing
(`NeverEarly`), for payloads of every length that fits the length field. `BigEndian` is the arithmetic of the length
field, `Image` says where the parts of an encoded message lie, `Announces` that five bytes suffice to know its length.

From these two follow the invariants of `ByteStream`, `Abstraction` (`OffsetsTellAll`) and `StreamRoundTrip`
(`DecodesWhatWasEncoded`), by the inductive invariant `StreamInv`: as long as every length fits,

- `FramesInv`: the bytes are those of the frames, one after the other (`FrameLies(i)`: from the end of frame *i - 1* to
  its own end lies frame *i* as it was encoded, which is its `Form`), and `received` is within them;
- `BufInv`: the frames taken have arrived, `buf` is the bytes from the end of the last of them up to `received`
  (`Waiting`), and `decoded` is the payloads of those that parse.

The lengths matter to `BufInv` alone: without them `decode` loses the boundaries, but the bytes that were sent are still
what they are. Neither property is inductive alone. That `decode` finds the next frame whole exactly when its offset has
been passed needs to know which bytes are at the front of `buf`, and that is `FrameLies` cut off at `received` (`Slice`,
`Decoding`). That `decoded` grows by just the payload taken is `MessagesOfAppend`.

**Induction.** The library's induction theorems take a predicate as a parameter, which the provers cannot give. That
every set of numbers has a least element does not, and `UpTo` makes of it: a set that has 0, and with each number up to
*m* the next, has all of them. Each use of it names the set of those numbers a statement holds of. A recursive function is
met in the same way: that a function with the equations exists and what the last value of each is
(`DecimalIsLast` in `StatusProofs`; `OnlyIsLast` in `MetadataProofs`; `Solvable` and `SolutionsAgree` in `CodecProofs`).
Each of the three modules has an `UpTo`, since they share no other module.

Only model-checked are the liveness properties, since fairness and ENABLED are out of the provers' reach:
`EverythingArrives`, `EndIsReported` and `NextDrainsAtEnd` of `Streaming`, `UnaryReturns` of `Response`,
`RetriesReachALiveServer` of `Request`, `EveryCallIsAnswered` and `TrailersReachTheApplication` of `Client`. What is
proved of them is their safety: `NoLostWakeUp`, `UnaryNoLostWakeUp`, `NoCircularWait` and `FiniteWait`.

## 6. Not modelled, and plan

Not modelled for good:

- the connection pool, TLS and HTTP/2 below hyper's API, and prost's own encoding;
- the texts, details and causes of statuses, and their `Display`;
- indexing a metadata map with a name it does not have, which panics and which nothing in the repository does;
- changes an application makes to a response it has received (`metadata_mut`, `get_mut`), which concern
  nobody else;
- a request message whose encoding fails: encoding into a buffer that grows cannot;
- generated message types of the examples, most of `examples/etcdclient.rs`, which the library treats as opaque;
- the crate root, which declares modules;
- targets whose `usize` has 32 bits, where the sum at `src/codec.rs:91` may overflow.

Left to do: the step from the safety theorems to liveness is argued above, not proved.
