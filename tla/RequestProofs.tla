---------------------------- MODULE RequestProofs ---------------------------
(***************************************************************************)
(* Proofs about Request, for any targets, names, values and headers.       *)
(***************************************************************************)
EXTENDS Request, MetadataProofs

-----------------------------------------------------------------------------
(* The inductive invariant.                                                *)

AnyValue == AppValues \cup Printable

\* Names whose values were set through get_mut are in the map, and every other
\* name has only printable values.
MetadataInv ==
  /\ altered \subseteq DOMAIN metadata
  /\ DOMAIN metadata \subseteq Spelled \ Reserved
  /\ \A n \in DOMAIN metadata : metadata[n] \in Seq(AnyValue)
  /\ \A n \in DOMAIN metadata \ altered : metadata[n] \in Seq(Printable)

\* A client that was made has targets, and each of them is usable.
TargetsInv ==
  state \notin {"start", "refused"} =>
    /\ Len(uris) \in Nat \ {0}
    /\ \A i \in 1 .. Len(uris) : Usable(uris[i])

\* Only a call that waits has a request, which meets both properties.
RequestInv ==
  /\ request # None => state = "waiting"
  /\ OnlySoundRequestsLeave
  /\ ServerSeesMetadata

ReqInv == MetadataInv /\ TargetsInv /\ RequestInv /\ PanicsOnlyIfBypassed

LEMMA ReqInit == Init => ReqInv
BY DEF Init, NewMap, ReqInv, MetadataInv, TargetsInv, RequestInv,
       OnlySoundRequestsLeave, ServerSeesMetadata, PanicsOnlyIfBypassed

\* A step that leaves metadata and request alone and does not panic.
LEMMA Elsewhere ==
  ASSUME ReqInv, UNCHANGED <<uris, metadata, altered>>,
         state' # "panicked",
         state \notin {"start", "refused"} \/ state' = state,
         request' = None \/ UNCHANGED <<request, state>>
  PROVE  ReqInv'
<1>1. MetadataInv' /\ PanicsOnlyIfBypassed'
  BY DEF ReqInv, MetadataInv, PanicsOnlyIfBypassed
<1>2. TargetsInv'
  BY DEF ReqInv, TargetsInv
<1>3. RequestInv'
  BY DEF ReqInv, RequestInv, OnlySoundRequestsLeave, ServerSeesMetadata
<1> QED
  BY <1>1, <1>2, <1>3 DEF ReqInv

LEMMA NewKeeps ==
  ASSUME ReqInv, NEW targets \in TargetLists, New(targets)
  PROVE  ReqInv'
<1>1. Len(targets) \in Nat
  BY RequestAssumption DEF TargetLists
<1>2. /\ state = "start" /\ request = None /\ UNCHANGED <<metadata, altered, request>>
      /\ state' \in {"idle", "refused"}
      /\ state' = "idle" => uris' = targets /\ ValidTargets(targets)
  BY DEF New, ReqInv, RequestInv
<1>3. ValidTargets(targets) =>
        Len(targets) \in Nat \ {0} /\ \A i \in 1 .. Len(targets) : Usable(targets[i])
  <2>1. targets # <<>> => Len(targets) # 0
    BY RequestAssumption DEF TargetLists
  <2> QED
    BY <1>1, <2>1 DEF ValidTargets
<1>4. TargetsInv'
  BY <1>2, <1>3 DEF TargetsInv
<1>5. MetadataInv' /\ RequestInv' /\ PanicsOnlyIfBypassed'
  BY <1>2 DEF ReqInv, MetadataInv, RequestInv, OnlySoundRequestsLeave,
              ServerSeesMetadata, PanicsOnlyIfBypassed
<1> QED
  BY <1>4, <1>5 DEF ReqInv

LEMMA EditKeeps == ReqInv /\ EditMetadata => ReqInv'
<1> SUFFICES ASSUME ReqInv, EditMetadata PROVE ReqInv'
  OBVIOUS
<1>1. state = "idle" /\ request = None /\ UNCHANGED <<state, uris, request>>
  BY DEF EditMetadata, ReqInv, RequestInv
<1>2. MetadataInv'
  <2>0. MetadataInv /\ Printable \subseteq AnyValue
    BY DEF ReqInv, AnyValue
  <2>1. ASSUME NEW n \in AppNames, NEW v \in AppValues,
               metadata' = Insert(metadata, n, v), altered' = altered
        PROVE  MetadataInv'
    <3>1. \A m \in DOMAIN metadata : metadata[m] \in Seq(AnyValue)
      BY <2>0 DEF MetadataInv
    <3>2. /\ DOMAIN metadata \subseteq DOMAIN metadata'
          /\ DOMAIN metadata' \subseteq DOMAIN metadata \cup (Spelled \ Reserved)
          /\ \A m \in DOMAIN metadata' : metadata'[m] \in Seq(AnyValue)
          /\ \A m \in DOMAIN metadata' \ DOMAIN metadata : metadata'[m] \in Seq(Printable)
          /\ \A m \in DOMAIN metadata :
               metadata[m] \in Seq(Printable) => metadata'[m] \in Seq(Printable)
      BY <2>0, <2>1, <3>1, InsertGives
    <3> QED
      BY <2>0, <2>1, <3>2 DEF MetadataInv
  <2>2. ASSUME NEW n \in DOMAIN metadata, NEW values \in ValueLists,
               metadata' = SetValues(metadata, n, values), altered' = altered \cup {n}
        PROVE  MetadataInv'
    <3>1. values \in Seq(AnyValue)
      BY RequestAssumption DEF ValueLists, AnyValue
    <3>2. /\ DOMAIN metadata' = DOMAIN metadata /\ metadata'[n] = values
          /\ \A m \in DOMAIN metadata : m # n => metadata'[m] = metadata[m]
      BY <2>2 DEF SetValues
    <3> QED
      BY <2>0, <2>2, <3>1, <3>2 DEF MetadataInv
  <2>3. ASSUME NEW n \in DOMAIN metadata,
               metadata' = Remove(metadata, n), altered' = altered \ {n}
        PROVE  MetadataInv'
    BY <2>0, <2>3 DEF MetadataInv, Remove
  <2>4. ASSUME NEW headers \in PeerHeaders,
               metadata' = MergeHttpHeader(NewMap, headers), altered' = {}
        PROVE  MetadataInv'
    <3>1. \A n \in DOMAIN headers : headers[n] \in Seq(HttpValues)
      BY RequestAssumption
    <3>2. Clean(metadata')
      BY <2>4, <3>1, MergeGives
    <3>3. \A n \in DOMAIN metadata' : metadata'[n] \in Seq(AnyValue)
      BY <2>0, <3>2, SeqMonotonic DEF Clean
    <3> QED
      BY <2>4, <3>2, <3>3 DEF MetadataInv, Clean
  <2> QED
    BY <2>1, <2>2, <2>3, <2>4 DEF EditMetadata
<1>3. TargetsInv' /\ RequestInv' /\ PanicsOnlyIfBypassed'
  BY <1>1 DEF ReqInv, TargetsInv, RequestInv, OnlySoundRequestsLeave,
              ServerSeesMetadata, PanicsOnlyIfBypassed
<1> QED
  BY <1>2, <1>3 DEF ReqInv

\* Iter leaves no name out and adds none.
LEMMA IterIs ==
  ASSUME NEW map
  PROVE  /\ \A n \in DOMAIN map : <<n, map[n]>> \in Iter(map)
         /\ \A entry \in Iter(map) :
              entry[1] \in DOMAIN map /\ entry[2] = map[entry[1]]
BY DEF Iter

LEMMA SentIs ==
  ASSUME NEW map, NEW n
  PROVE  n \in Sent(map) <=> n \in DOMAIN map /\ map[n] # <<>>
<1>1. ASSUME n \in Sent(map) PROVE n \in DOMAIN map /\ map[n] # <<>>
  <2>1. PICK entry \in Iter(map) : entry[2] # <<>> /\ n = entry[1]
    BY <1>1 DEF Sent
  <2> QED
    BY <2>1, IterIs
<1>2. ASSUME n \in DOMAIN map, map[n] # <<>> PROVE n \in Sent(map)
  <2> DEFINE entry == <<n, map[n]>>
  <2>1. entry \in Iter(map) /\ entry[1] = n /\ entry[2] = map[n]
    BY <1>2, IterIs
  <2> QED
    BY <1>2, <2>1 DEF Sent
<1> QED
  BY <1>1, <1>2

\* What the builder takes, said of the map.
LEMMA BuildableIs ==
  ASSUME NEW map
  PROVE  Buildable(map) <=>
           \A n \in DOMAIN map : \A i \in 1 .. Len(map[n]) :
             n \in HttpNames /\ map[n][i] \in HttpValues
<1>1. ASSUME Buildable(map), NEW n \in DOMAIN map, NEW i \in 1 .. Len(map[n])
      PROVE  n \in HttpNames /\ map[n][i] \in HttpValues
  <2> DEFINE entry == <<n, map[n]>>
  <2>1. entry \in Iter(map) /\ entry[1] = n /\ entry[2] = map[n]
    BY IterIs
  <2> QED
    BY <1>1, <2>1 DEF Buildable
<1>2. ASSUME \A n \in DOMAIN map : \A i \in 1 .. Len(map[n]) :
               n \in HttpNames /\ map[n][i] \in HttpValues
      PROVE  Buildable(map)
  <2>1. \A entry \in Iter(map) :
          entry[1] \in DOMAIN map /\ entry[2] = map[entry[1]]
    BY IterIs
  <2> QED
    BY <1>2, <2>1 DEF Buildable
<1> QED
  BY <1>1, <1>2

\* Metadata that was only inserted, under names that http knows, can be sent.
LEMMA CleanIsBuildable ==
  ASSUME MetadataInv, altered = {}, DOMAIN metadata \subseteq HttpNames
  PROVE  Buildable(metadata)
<1>1. ASSUME NEW n \in DOMAIN metadata, NEW i \in 1 .. Len(metadata[n])
      PROVE  metadata[n][i] \in Printable
  <2>1. metadata[n] \in Seq(Printable)
    BY DEF MetadataInv
  <2> QED
    BY <2>1, ElementOfSeq
<1> QED
  BY <1>1, RequestAssumption, BuildableIs

\* What Values gives of a map of sequences.
LEMMA ValuesInSeq ==
  ASSUME NEW map, NEW T, \A n \in DOMAIN map : map[n] \in Seq(T), NEW n
  PROVE  Values(map, n) \in Seq(T)
BY EmptySeq DEF Values

\* The headers made of some metadata: those that are not the content type are the
\* metadata's, and that is the metadata's behind gRPC's own.
LEMMA HeadersOf ==
  ASSUME NEW map, NEW T, \A n \in DOMAIN map : map[n] \in Seq(T)
  PROVE  LET h == HttpHeaders(map)
         IN  /\ DOMAIN h = {"content-type"} \cup Sent(map)
             /\ h["content-type"] = <<GrpcProto>> \o Values(map, "content-type")
             /\ \A n \in DOMAIN h : n # "content-type" => n \in Sent(map) /\ h[n] = map[n]
<1> DEFINE h == HttpHeaders(map)
<1>1. /\ DOMAIN h = {"content-type"} \cup Sent(map)
      /\ \A n \in DOMAIN h : h[n] = OwnValues(n) \o Values(map, n)
  BY DEF HttpHeaders
<1> HIDE DEF h
<1>2. h["content-type"] = <<GrpcProto>> \o Values(map, "content-type")
  BY <1>1 DEF OwnValues
<1>3. ASSUME NEW n \in DOMAIN h, n # "content-type"
      PROVE  n \in Sent(map) /\ h[n] = map[n]
  <2>1. n \in Sent(map) /\ n \in DOMAIN map
    BY <1>1, <1>3, SentIs
  <2>2. h[n] = <<>> \o map[n]
    BY <1>1, <1>3, <2>1 DEF OwnValues, Values
  <2> QED
    BY <2>1, <2>2, ConcatEmptySeq
<1> QED
  BY <1>1, <1>2, <1>3 DEF h

\* The headers made of metadata that can be sent.
LEMMA HeadersAreSound ==
  ASSUME NEW map, NEW T, \A n \in DOMAIN map : map[n] \in Seq(T), Printable \subseteq T,
         DOMAIN map \subseteq Spelled \ Reserved, Buildable(map)
  PROVE  LET h == HttpHeaders(map)
         IN  /\ h["content-type"][1] = GrpcProto
             /\ DOMAIN h \subseteq Spelled \ Reserved
             /\ \A n \in DOMAIN h : n \in HttpNames /\ h[n] \in Seq(T)
             /\ \A n \in DOMAIN h : \A i \in 1 .. Len(h[n]) : h[n][i] \in HttpValues
<1> DEFINE h == HttpHeaders(map)
           old == Values(map, "content-type")
<1>1. /\ DOMAIN h = {"content-type"} \cup Sent(map)
      /\ h["content-type"] = <<GrpcProto>> \o old
      /\ \A n \in DOMAIN h : n # "content-type" => n \in Sent(map) /\ h[n] = map[n]
  BY HeadersOf
<1> HIDE DEF h
<1>2. /\ GrpcProto \in T /\ GrpcProto \in HttpValues /\ "content-type" \in HttpNames
      /\ "content-type" \in Spelled \ Reserved
  BY RequestAssumption
<1>3. old \in Seq(T) /\ \A i \in 1 .. Len(old) : old[i] \in HttpValues
  <2>1. old \in Seq(T)
    BY ValuesInSeq
  <2>2. CASE "content-type" \in DOMAIN map
    BY <2>1, <2>2, BuildableIs DEF Values
  <2>3. CASE "content-type" \notin DOMAIN map
    BY <2>1, <2>3, EmptySeq DEF Values
  <2> QED
    BY <2>2, <2>3, <2>1
<1> HIDE DEF old
<1>4. /\ h["content-type"][1] = GrpcProto /\ h["content-type"] \in Seq(T)
      /\ \A i \in 1 .. Len(h["content-type"]) : h["content-type"][i] \in HttpValues
  <2> DEFINE all == <<GrpcProto>> \o old
  <2>1. /\ all \in Seq(T) /\ all[1] = GrpcProto /\ Len(all) = Len(old) + 1
        /\ \A i \in 2 .. Len(all) : i - 1 \in 1 .. Len(old) /\ all[i] = old[i - 1]
    BY <1>2, <1>3
  <2> HIDE DEF all
  <2>2. \A i \in 1 .. Len(all) : i = 1 \/ i \in 2 .. Len(all)
    BY <1>3, <2>1
  <2>3. \A i \in 1 .. Len(all) : all[i] \in HttpValues
    BY <1>2, <1>3, <2>1, <2>2
  <2> QED
    BY <1>1, <2>1, <2>3 DEF all
<1>5. ASSUME NEW n \in DOMAIN h, n # "content-type"
      PROVE  /\ n \in HttpNames /\ n \in Spelled \ Reserved /\ h[n] \in Seq(T)
             /\ \A i \in 1 .. Len(h[n]) : h[n][i] \in HttpValues
  <2>1. n \in DOMAIN map /\ map[n] # <<>> /\ h[n] = map[n] /\ map[n] \in Seq(T)
    BY <1>1, <1>5, SentIs
  <2>2. 1 \in 1 .. Len(map[n])
    BY <2>1, EmptySeq
  <2> QED
    BY <2>1, <2>2, BuildableIs
<1>6. DOMAIN h \subseteq Spelled \ Reserved
  BY <1>2, <1>5
<1>7. \A n \in DOMAIN h : n \in HttpNames /\ h[n] \in Seq(T)
  BY <1>2, <1>4, <1>5
<1>8. \A n \in DOMAIN h : \A i \in 1 .. Len(h[n]) : h[n][i] \in HttpValues
  BY <1>4, <1>5
<1> QED
  BY <1>4, <1>6, <1>7, <1>8 DEF h

\* And what a server makes of them.
LEMMA SeenByTheServer ==
  ASSUME NEW map, NEW T, \A n \in DOMAIN map : map[n] \in Seq(T), Printable \subseteq T,
         DOMAIN map \subseteq Spelled \ Reserved, Buildable(map)
  PROVE  LET seen == MergeHttpHeader(NewMap, HttpHeaders(map))
         IN  \A n \in DOMAIN seen \cup DOMAIN map :
               Values(seen, n) = OwnValues(n) \o Only(Values(map, n), Printable)
<1> DEFINE h == HttpHeaders(map)
           seen == MergeHttpHeader(NewMap, h)
<1>1. /\ DOMAIN h = {"content-type"} \cup Sent(map)
      /\ h["content-type"] = <<GrpcProto>> \o Values(map, "content-type")
      /\ \A n \in DOMAIN h : n # "content-type" => n \in Sent(map) /\ h[n] = map[n]
  BY HeadersOf
<1>2. DOMAIN h \subseteq Spelled \ Reserved /\ \A n \in DOMAIN h : h[n] \in Seq(T)
  BY HeadersAreSound
<1> HIDE DEF h
<1>3. /\ DOMAIN seen \subseteq DOMAIN h
      /\ \A n \in DOMAIN h : n \in Spelled \ Reserved =>
           Values(seen, n) = Only(h[n], Printable)
      /\ \A n : n \notin DOMAIN h \/ n \notin Spelled \ Reserved => Values(seen, n) = <<>>
  BY <1>2, MergeGives
<1> HIDE DEF seen
<1>4. GrpcProto \in Printable \cap T
  BY RequestAssumption
<1>5. \A n : Values(map, n) \in Seq(T) /\ Only(Values(map, n), Printable) \in Seq(Printable \cap T)
  BY ValuesInSeq, OnlyKeeps
<1>6. ASSUME NEW n \in DOMAIN seen \cup DOMAIN map
      PROVE  Values(seen, n) = OwnValues(n) \o Only(Values(map, n), Printable)
  <2>1. CASE n = "content-type"
    <3>1. Values(seen, n) = Only(<<GrpcProto>> \o Values(map, n), Printable)
      BY <1>1, <1>2, <1>3, <2>1
    <3>2. Only(<<GrpcProto>> \o Values(map, n), Printable)
            = <<GrpcProto>> \o Only(Values(map, n), Printable)
      BY <1>4, <1>5, OnlyInFront
    <3> QED
      BY <2>1, <3>1, <3>2 DEF OwnValues
  <2>2. ASSUME n # "content-type", n \in DOMAIN h
        PROVE  Values(seen, n) = Only(Values(map, n), Printable)
    BY <1>1, <1>2, <1>3, <2>2, SentIs DEF Values
  <2>3. ASSUME n # "content-type", n \notin DOMAIN h
        PROVE  Values(seen, n) = Only(Values(map, n), Printable)
    <3>1. Values(seen, n) = <<>>
      BY <1>3, <2>3
    <3>2. Values(map, n) = <<>>
      BY <1>1, <1>3, <2>3, SentIs DEF Values
    <3> QED
      BY <3>1, <3>2, OnlyOfNone
  <2>4. n # "content-type" => OwnValues(n) \o Only(Values(map, n), Printable)
                                = Only(Values(map, n), Printable)
    BY <1>5, ConcatEmptySeq DEF OwnValues
  <2> QED
    BY <2>1, <2>2, <2>3, <2>4
<1> QED
  BY <1>6 DEF seen, h

LEMMA ChosenInRange ==
  ASSUME Len(uris) \in Nat \ {0}, NEW random \in Nat
  PROVE  Chosen(uris, random) \in 1 .. Len(uris)
BY DEF Chosen

LEMMA CallKeeps ==
  ASSUME ReqInv, NEW method \in Methods, NEW random \in 0 .. UsizeLimit - 1,
         Call(method, random)
  PROVE  ReqInv'
<1> DEFINE uri == uris[Chosen(uris, random)]
<1>1. /\ state = "idle" /\ request = None /\ UNCHANGED <<uris, metadata, altered>>
      /\ random \in Nat
  BY ChannelAssumption DEF Call, ReqInv, RequestInv
<1>2. /\ Len(uris) \in Nat \ {0} /\ Chosen(uris, random) \in 1 .. Len(uris)
      /\ Usable(uri) /\ HasParts(uri)
  BY <1>1, ChosenInRange DEF ReqInv, TargetsInv, Usable, HasParts
<1>3. MetadataInv' /\ TargetsInv'
  BY <1>1, <1>2 DEF ReqInv, MetadataInv, TargetsInv
<1> HIDE DEF uri
<1>4. CASE ~Buildable(metadata) /\ state' = "panicked" /\ request' = request
  <2>1. \E n \in DOMAIN metadata : n \in altered \/ n \notin HttpNames
    BY <1>4, CleanIsBuildable DEF ReqInv, MetadataInv
  <2>2. PanicsOnlyIfBypassed'
    BY <1>1, <2>1 DEF PanicsOnlyIfBypassed
  <2> QED
    BY <1>1, <1>3, <1>4, <2>2
    DEF ReqInv, RequestInv, OnlySoundRequestsLeave, ServerSeesMetadata
<1>5. CASE state' = "failed" /\ request' = request
  BY <1>1, <1>3, <1>5 DEF ReqInv, RequestInv, OnlySoundRequestsLeave, ServerSeesMetadata,
                          PanicsOnlyIfBypassed
<1>6. CASE /\ Buildable(metadata) /\ state' = "waiting"
           /\ request' = [target |-> uri, headers |-> HttpHeaders(metadata),
                          metadata |-> metadata]
  <2>1. /\ request'.target = uri /\ request'.headers = HttpHeaders(metadata)
        /\ request'.metadata = metadata
    BY <1>6
  <2>2. /\ DOMAIN metadata \subseteq Spelled \ Reserved /\ Printable \subseteq AnyValue
        /\ \A n \in DOMAIN metadata : metadata[n] \in Seq(AnyValue)
    BY DEF ReqInv, MetadataInv, AnyValue
  <2>3. OnlySoundRequestsLeave'
    <3>1. LET h == HttpHeaders(metadata)
          IN  /\ h["content-type"][1] = GrpcProto
              /\ DOMAIN h \subseteq Spelled \ Reserved
              /\ \A n \in DOMAIN h : n \in HttpNames
              /\ \A n \in DOMAIN h : \A i \in 1 .. Len(h[n]) : h[n][i] \in HttpValues
      BY <1>6, <2>2, HeadersAreSound
    <3> QED
      BY <1>1, <1>2, <1>6, <2>1, <3>1 DEF OnlySoundRequestsLeave, uri
  <2>4. ServerSeesMetadata'
    BY <1>6, <2>1, <2>2, SeenByTheServer DEF ServerSeesMetadata
  <2> QED
    BY <1>3, <1>6, <2>3, <2>4 DEF ReqInv, RequestInv, PanicsOnlyIfBypassed
<1> QED
  BY <1>2, <1>4, <1>5, <1>6 DEF Call, uri

LEMMA ReqNext == ReqInv /\ [Next]_vars => ReqInv'
<1> SUFFICES ASSUME ReqInv, [Next]_vars PROVE ReqInv'
  OBVIOUS
<1>1. ASSUME NEW targets \in TargetLists, New(targets) PROVE ReqInv'
  BY <1>1, NewKeeps
<1>2. CASE EditMetadata
  BY <1>2, EditKeeps
<1>3. ASSUME NEW method \in Methods, NEW random \in 0 .. UsizeLimit - 1, Call(method, random)
      PROVE  ReqInv'
  BY <1>3, CallKeeps
<1>4. CASE Outcome
  BY <1>4, Elsewhere DEF Outcome
<1>5. CASE Continue
  BY <1>5, Elsewhere DEF Continue, ReqInv, RequestInv
<1>6. ASSUME NEW target \in Servers, Toggle(target) PROVE ReqInv'
  BY <1>6 DEF Toggle, ReqInv, MetadataInv, TargetsInv, RequestInv,
              OnlySoundRequestsLeave, ServerSeesMetadata, PanicsOnlyIfBypassed
<1>7. CASE UNCHANGED vars
  BY <1>7 DEF vars, ReqInv, MetadataInv, TargetsInv, RequestInv,
              OnlySoundRequestsLeave, ServerSeesMetadata, PanicsOnlyIfBypassed
<1> QED
  BY <1>1, <1>2, <1>3, <1>4, <1>5, <1>6, <1>7 DEF Next

LEMMA ReqInvariance == Spec => []ReqInv
BY ReqInit, ReqNext, PTL DEF Spec

-----------------------------------------------------------------------------
(* The theorems.                                                           *)

\* Whatever servers send and however their metadata is passed on, a call panics
\* only over metadata the application has put there past the tests of insert or
\* under a name that http refuses, and never at an expect of Channel::call.
THEOREM NoOtherPanic == Spec => []PanicsOnlyIfBypassed
<1>1. ReqInv => PanicsOnlyIfBypassed
  BY DEF ReqInv
<1> QED
  BY <1>1, ReqInvariance, PTL

\* Every request that leaves goes to a usable target of the client, says that it
\* is gRPC, and has no header that only gRPC may set.
THEOREM SoundRequests == Spec => []OnlySoundRequestsLeave
<1>1. ReqInv => OnlySoundRequestsLeave
  BY DEF ReqInv, RequestInv
<1> QED
  BY <1>1, ReqInvariance, PTL

\* A server that reads the request with the same map finds exactly the printable
\* values of the application, in their order and each as often as it was put there,
\* and gRPC's content type in front of the application's own.
THEOREM MetadataArrives == Spec => []ServerSeesMetadata
<1>1. ReqInv => ServerSeesMetadata
  BY DEF ReqInv, RequestInv
<1> QED
  BY <1>1, ReqInvariance, PTL
=============================================================================
