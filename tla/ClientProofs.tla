----------------------------- MODULE ClientProofs ---------------------------
(***************************************************************************)
(* Proofs about Client: which calls get an answer, and that a call keeps   *)
(* what Rpc promises, for any capacity, number of requests, server and     *)
(* response.                                                               *)
(***************************************************************************)
EXTENDS Client, ResponseProofs

-----------------------------------------------------------------------------
(* The inductive invariant.                                                *)

\* What was offered, what is in the channel, and what has been sent.
FeedInv ==
  /\ plan \in Plan /\ ReadyToCall(plan)
  /\ fed \in Nat /\ sent \in Nat
  /\ sent <= fed /\ fed <= plan.count /\ fed - sent <= Capacity
  /\ closed => plan.closes /\ fed = plan.count
  /\ Feed(plan) = "unary" => closed
  /\ finished => closed /\ sent = fed

\* Where the call is.  A caller that has made its call has offered everything, into
\* a channel that nobody was reading.
StageInv ==
  /\ stage \in Stages
  /\ stage = "new" => sent = 0
  /\ stage # "new" /\ plan.by = "caller" =>
       fed = plan.count /\ (plan.closes => closed) /\ plan.count <= Capacity
  /\ stage \in {"new", "waiting"} => phase = "head"
  /\ stage = "answered" => IF plan.need = All THEN finished ELSE plan.need <= sent
  /\ stage # "answered" => bodyEnd = "open"

CallInv == RespInv /\ FeedInv /\ StageInv

LEMMA FeedsOfShapes == \A p \in Plan : Feed(p) \in {"unary", "stream"}
BY ClientAssumption DEF Plan, Feed, Shapes

LEMMA CallInit == ClientInit => CallInv
<1> SUFFICES ASSUME ClientInit PROVE CallInv
  OBVIOUS
<1>1. RespInv /\ bodyEnd = "open" /\ phase = "head"
  BY RespInit DEF ClientInit, ResponseInit, Init, BodyInit
<1>2. plan \in Plan /\ ReadyToCall(plan) /\ plan.count \in Nat
  BY ClientAssumption DEF ClientInit, Plan
<1>3. FeedInv
  <2>1. CASE Feed(plan) = "unary"
    <3>1. closed
      BY <2>1, Zenon DEF ClientInit
    <3> QED
      BY <1>2, <2>1, <3>1, ClientAssumption DEF ClientInit, FeedInv, ReadyToCall
  <2>2. CASE Feed(plan) # "unary"
    <3>1. fed = 0 /\ sent = 0 /\ closed = FALSE /\ finished = FALSE
      BY <2>2 DEF ClientInit
    <3>2. 0 <= plan.count /\ 0 - 0 <= Capacity
      BY <1>2, ClientAssumption
    <3> QED
      BY <1>2, <2>2, <3>1, <3>2 DEF FeedInv
  <2> QED
    BY <2>1, <2>2
<1>4. StageInv
  BY <1>1 DEF ClientInit, StageInv, Stages
<1> QED
  BY <1>1, <1>3, <1>4 DEF CallInv

\* Steps of application and request that leave the response alone.
LEMMA RequestKeeps ==
  ASSUME CallInv, Offer \/ Close \/ Pump \/ EndRequest \/ Answer
  PROVE  CallInv'
<1>1. UNCHANGED allVars /\ plan' = plan
  BY DEF Offer, Close, Pump, EndRequest, Answer
<1>2. RespInv'
  BY <1>1, RespNext DEF CallInv
<1>3. phase' = phase /\ bodyEnd' = bodyEnd
  BY <1>1 DEF allVars, vars, bodyVars, responseVars
<1>4. /\ plan \in Plan /\ plan.count \in Nat /\ plan.need \in Nat \cup {All}
      /\ Capacity \in Nat /\ fed \in Nat /\ sent \in Nat
  BY ClientAssumption DEF CallInv, FeedInv, Plan
<1>5. CASE Offer
  BY <1>1, <1>2, <1>3, <1>4, <1>5 DEF CallInv, FeedInv, StageInv, Offer, CanOffer
<1>6. CASE Close
  BY <1>1, <1>2, <1>3, <1>4, <1>6 DEF CallInv, FeedInv, StageInv, Close, CanClose
<1>7. CASE Pump
  <2>1. ~finished
    BY <1>4, <1>7 DEF CallInv, FeedInv, Pump, CanPump
  <2>2. FeedInv'
    BY <1>1, <1>4, <1>7, <2>1 DEF CallInv, FeedInv, Pump, CanPump
  <2>3. StageInv'
    BY <1>1, <1>3, <1>4, <1>7 DEF CallInv, StageInv, Pump, CanPump
  <2> QED
    BY <1>2, <2>2, <2>3 DEF CallInv
<1>8. CASE EndRequest
  BY <1>1, <1>2, <1>3, <1>4, <1>8 DEF CallInv, FeedInv, StageInv, EndRequest, CanEndRequest
<1>9. CASE Answer
  BY <1>1, <1>2, <1>3, <1>4, <1>9 DEF CallInv, FeedInv, StageInv, Answer, CanAnswer, Stages
<1> QED
  BY <1>5, <1>6, <1>7, <1>8, <1>9

\* Steps that end a call whose head has not come.
LEMMA EarlyEndKeeps ==
  ASSUME CallInv, phase = "head", UNCHANGED vars,
         \/ phase' = "dropped" /\ UNCHANGED <<code, origin>>
         \/ phase' = "err" /\ code' \in Code /\ origin' = "call",
         UNCHANGED <<style, http, headers, metadata, answer>>
  PROVE  RespInv' /\ bodyEnd' = bodyEnd
<1>1. Inv' /\ call' = "idle" /\ bodyEnd' = bodyEnd
  BY InvNext DEF CallInv, RespInv, OwnInv, UnaryInv, vars, bodyVars, streamVars
<1>2. code \in Code /\ origin \in Origins /\ "call" \in Origins
  BY DEF CallInv, RespInv, OwnInv, ResponseTypeOK, Origins
<1> QED
  BY <1>1, <1>2, FailsSoberly DEF CallInv

LEMMA CallKeeps ==
  ASSUME CallInv, Call \/ DropWaiting \/ Refuse
  PROVE  CallInv'
<1>1. UNCHANGED <<plan, fed, closed, sent, finished>> /\ UNCHANGED vars
  BY DEF Call, DropWaiting, Refuse
<1>2. FeedInv'
  BY <1>1 DEF CallInv, FeedInv
<1>3. phase = "head" /\ bodyEnd = "open"
  BY DEF CallInv, StageInv, Call, CanCall, DropWaiting, Refuse
<1>4. stage' # "new" /\ stage' # "answered" /\ stage' \in Stages
  BY DEF Call, DropWaiting, Refuse, Stages
<1>5. plan.by = "caller" =>
        fed = plan.count /\ (plan.closes => closed) /\ plan.count <= Capacity
  <2>1. CASE stage = "new" /\ Call
    <3>1. plan.count \in Nat /\ Capacity \in Nat
      BY ClientAssumption DEF CallInv, FeedInv, Plan
    <3> QED
      BY <2>1, <3>1 DEF Call, CanCall, CallInv, FeedInv, StageInv
  <2>2. CASE stage = "waiting"
    BY <2>2 DEF CallInv, StageInv
  <2> QED
    BY <2>1, <2>2 DEF Call, CanCall, DropWaiting, Refuse
<1>6. CASE stage' = "waiting" /\ UNCHANGED responseVars
  <2>1. RespInv' /\ phase' = phase /\ bodyEnd' = bodyEnd
    BY <1>1, <1>6, RespNext DEF CallInv, allVars, vars, bodyVars, responseVars
  <2> QED
    BY <1>1, <1>2, <1>3, <1>4, <1>5, <1>6, <2>1 DEF CallInv, StageInv
<1>7. CASE /\ stage' \in {"failed", "dropped"}
           /\ UNCHANGED <<style, http, headers, metadata, answer>>
           /\ \/ phase' = "dropped" /\ UNCHANGED <<code, origin>>
              \/ phase' = "err" /\ code' \in Code /\ origin' = "call"
  <2>1. RespInv' /\ bodyEnd' = bodyEnd
    BY <1>1, <1>3, <1>7, EarlyEndKeeps
  <2> QED
    BY <1>1, <1>2, <1>3, <1>4, <1>5, <1>7, <2>1 DEF CallInv, StageInv
<1> QED
  BY <1>6, <1>7 DEF Call, CanCall, DropWaiting, Refuse, Fail, Code, InvalidArgument, Internal

LEMMA RespondKeeps == CallInv /\ Respond => CallInv'
<1> SUFFICES ASSUME CallInv, Respond PROVE CallInv'
  OBVIOUS
<1>1. /\ UNCHANGED <<plan, stage, fed, closed, sent, finished>>
      /\ stage = "answered"
  BY DEF Respond, clientVars
<1>2. RespInv'
  BY RespNext DEF CallInv, Respond
<1>3. FeedInv' /\ StageInv'
  BY <1>1 DEF CallInv, FeedInv, StageInv
<1> QED
  BY <1>2, <1>3 DEF CallInv

LEMMA CallNext == CallInv /\ [ClientNext]_callVars => CallInv'
<1> SUFFICES ASSUME CallInv, [ClientNext]_callVars PROVE CallInv'
  OBVIOUS
<1>1. CASE UNCHANGED callVars
  <2>1. /\ UNCHANGED allVars /\ phase' = phase /\ bodyEnd' = bodyEnd
        /\ UNCHANGED <<plan, stage, fed, closed, sent, finished>>
    BY <1>1 DEF callVars, allVars, vars, bodyVars, responseVars, clientVars
  <2> QED
    BY <2>1, RespNext DEF CallInv, FeedInv, StageInv
<1> QED
  BY <1>1, RequestKeeps, CallKeeps, RespondKeeps DEF ClientNext

LEMMA CallInvariance == ClientSpec => []CallInv
BY CallInit, CallNext, PTL DEF ClientSpec

-----------------------------------------------------------------------------
(* The theorems.                                                           *)

\* A call is answered only if caller, channel and server do not wait for each other.
THEOREM AnswersNeedTheFeed == ClientSpec => []HeadNeedsTheFeed
<1>1. ASSUME CallInv, stage = "answered" PROVE Fits
  <2>1. /\ plan.count \in Nat /\ plan.need \in Nat \cup {All}
        /\ sent \in Nat /\ fed \in Nat /\ sent <= fed /\ fed <= plan.count
    BY <1>1, ClientAssumption DEF CallInv, FeedInv, Plan
  <2>2. plan.need = All => plan.closes
    BY <1>1 DEF CallInv, FeedInv, StageInv
  <2>3. plan.need # All => plan.need <= plan.count
    BY <1>1, <2>1 DEF CallInv, StageInv
  <2>4. plan.by = "caller" => plan.count <= Capacity
    BY <1>1 DEF CallInv, StageInv
  <2> QED
    BY <2>2, <2>3, <2>4 DEF Fits
<1>2. CallInv => HeadNeedsTheFeed
  BY <1>1 DEF HeadNeedsTheFeed
<1> QED
  BY <1>2, CallInvariance, PTL

\* Before its head, a call that fits is stuck nowhere: not between caller and channel,
\* not between channel and hyper, not between caller and server.
THEOREM NoCircularWait == ClientSpec => []SomebodyCanGoOn
<1>1. ASSUME CallInv, Fits, stage = "new"
      PROVE  CanOffer \/ CanClose \/ CanCall
  <2>1. /\ plan.count \in Nat /\ Capacity \in Nat /\ fed \in Nat /\ fed <= plan.count
        /\ sent = 0 /\ Feed(plan) \in {"unary", "stream"} /\ plan.by \in {"caller", "task"}
    BY <1>1, ClientAssumption, FeedsOfShapes DEF CallInv, FeedInv, StageInv, Plan
  <2>2. CASE plan.by = "task"
    BY <1>1, <2>2 DEF CanCall
  <2>3. CASE plan.by = "caller" /\ fed = plan.count
    BY <1>1, <2>3 DEF CanCall, CanClose, Feeding
  <2>4. CASE plan.by = "caller" /\ fed # plan.count
    <3>1. Feed(plan) = "stream"
      <4>1. Feed(plan) # "unary"
        BY <1>1, <2>4 DEF CallInv, FeedInv
      <4> QED
        BY <2>1, <4>1, ClientAssumption
    <3>2. fed < plan.count /\ fed - sent < Capacity
      BY <1>1, <2>1, <2>4, <3>1 DEF Fits
    <3> QED
      BY <1>1, <2>4, <3>2 DEF CanOffer, Feeding
  <2> QED
    BY <2>1, <2>2, <2>3, <2>4
<1>2. ASSUME CallInv, Fits, stage = "waiting"
      PROVE  CanOffer \/ CanClose \/ CanPump \/ CanEndRequest \/ CanAnswer
  <2>1. /\ plan.count \in Nat /\ Capacity \in Nat \ {0} /\ fed \in Nat /\ sent \in Nat
        /\ fed <= plan.count /\ sent <= fed /\ plan.need \in Nat \cup {All}
    BY <1>2, ClientAssumption DEF CallInv, FeedInv, Plan
  <2>2. CASE sent < fed
    BY <1>2, <2>2 DEF CanPump
  <2>3. CASE sent = fed /\ fed # plan.count
    <3>1. plan.by # "caller"
      BY <1>2, <2>3 DEF CallInv, StageInv
    <3>2. fed < plan.count /\ fed - sent < Capacity
      BY <2>1, <2>3
    <3> QED
      BY <1>2, <3>1, <3>2 DEF CanOffer, Feeding
  <2>4. CASE sent = fed /\ fed = plan.count /\ plan.closes /\ ~closed
    <3>1. plan.by # "caller"
      BY <1>2, <2>4 DEF CallInv, StageInv
    <3> QED
      BY <2>4, <3>1 DEF CanClose, Feeding
  <2>5. CASE sent = fed /\ closed /\ ~finished
    BY <1>2, <2>5 DEF CanEndRequest
  <2>6. CASE sent = fed /\ fed = plan.count /\ (plan.closes => finished)
    <3>1. CASE plan.need = All
      BY <1>2, <2>6, <3>1 DEF CanAnswer, Fits
    <3>2. CASE plan.need # All
      BY <1>2, <2>1, <2>6, <3>2 DEF CanAnswer, Fits
    <3> QED
      BY <3>1, <3>2
  <2>7. sent < fed \/ sent = fed
    BY <2>1
  <2> QED
    BY <2>2, <2>3, <2>4, <2>5, <2>6, <2>7, Zenon
<1>3. CallInv => SomebodyCanGoOn
  BY <1>1, <1>2 DEF SomebodyCanGoOn
<1> QED
  BY <1>3, CallInvariance, PTL

\* The wait for the head is finite: every step of it leaves less to do.
THEOREM FiniteWait == ClientSpec => WaitEnds
<1>1. ASSUME CallInv, CallInv', ClientNext, stage' \in {"new", "waiting"}
      PROVE  ToDo' \in 0 .. ToDo - 1
  <2>1. /\ plan.count \in Nat /\ fed \in Nat /\ sent \in Nat
        /\ fed <= plan.count /\ sent <= fed
    BY <1>1, ClientAssumption DEF CallInv, FeedInv, Plan
  <2>2. CASE Offer
    <3>1. /\ fed' = fed + 1 /\ fed < plan.count
          /\ UNCHANGED <<plan, stage, closed, sent, finished>>
      BY <2>2 DEF Offer, CanOffer
    <3> QED
      BY <2>1, <3>1 DEF ToDo
  <2>3. CASE Close
    <3>1. closed' /\ ~closed /\ UNCHANGED <<plan, stage, fed, sent, finished>>
      BY <2>3 DEF Close, CanClose
    <3> QED
      BY <2>1, <3>1 DEF ToDo
  <2>4. CASE Call
    <3>1. stage = "new" /\ stage' # "new" /\ UNCHANGED <<plan, fed, closed, sent, finished>>
      BY <2>4 DEF Call, CanCall
    <3> QED
      BY <2>1, <3>1 DEF ToDo
  <2>5. CASE Pump
    <3>1. /\ sent' = sent + 1 /\ sent < fed
          /\ UNCHANGED <<plan, stage, fed, closed, finished>>
      BY <2>5 DEF Pump, CanPump
    <3> QED
      BY <2>1, <3>1 DEF ToDo
  <2>6. CASE EndRequest
    <3>1. finished' /\ ~finished /\ UNCHANGED <<plan, stage, fed, closed, sent>>
      BY <2>6 DEF EndRequest, CanEndRequest
    <3> QED
      BY <2>1, <3>1 DEF ToDo
  <2>7. ~(DropWaiting \/ Answer \/ Refuse \/ Respond)
    BY <1>1 DEF DropWaiting, Answer, Refuse, Respond, clientVars
  <2> QED
    BY <1>1, <2>2, <2>3, <2>4, <2>5, <2>6, <2>7 DEF ClientNext
<1>2. CallInv /\ CallInv' /\ [ClientNext]_callVars =>
        [stage' \in {"new", "waiting"} => ToDo' \in 0 .. ToDo - 1]_callVars
  BY <1>1
<1> QED
  BY <1>2, CallInvariance, PTL DEF ClientSpec, WaitEnds

\* An outcome that comes out of nothing, with a verdict behind it where it says so.
LEMMA Outcomes ==
  ASSUME Outcome = "pending", Outcome' # "pending",
         Outcome' \in {"message", "stream", "rejected", "failed", "dropped"},
         Outcome' = "message" => Verdict = "ok",
         Outcome' = "rejected" => Verdict = "error",
         Outcome' = "stream" => stage = "answered",
         Verdict' = Verdict, UNCHANGED <<plan, sent, finished>>,
         stage' = "answered" <=> stage = "answered"
  PROVE  Promised!RpcNext
BY DEF Promised!RpcNext, Promised!Conclude, Promised!Outcomes

\* The verdict and the outcome depend on a few variables only.
LEMMA SameVerdict ==
  ASSUME bodyEnd' = bodyEnd, answer'.head = answer.head, answer'.trailers = answer.trailers
  PROVE  Verdict' = Verdict /\ ServerStatus' = ServerStatus
BY DEF Verdict, ServerStatus

\* Neither library nor application ends the body or changes what the server said.
LEMMA BodyEndKept ==
  ASSUME CallInv, LibraryStep \/ Application \/ Constructor \/ DropCall
  PROVE  /\ bodyEnd' = bodyEnd
         /\ answer'.head = answer.head /\ answer'.trailers = answer.trailers
<1>1. answer \in [head: HeadMaps, trailers: TrailerMaps \cup {NoTrailers}, given: BOOLEAN]
  BY DEF CallInv, RespInv, OwnInv, ResponseTypeOK
<1>2. CASE LibraryStep
  <2>1. bodyEnd' = bodyEnd
    BY <1>2 DEF LibraryStep, RecvMessage, RecvData, RecvEnd, RecvFailed, RecvPending,
           PollNext, NextData, NextEnd, NextFailed, NextPending,
           TrailersReady, TrailersFailed, TrailersPending, bodyVars
  <2>2. answer' = [answer EXCEPT !.given = @ \/ result' = "trailers"]
    BY <1>2 DEF LibraryStep
  <2> QED
    BY <1>1, <2>1, <2>2
<1>3. CASE Application \/ DropCall
  BY <1>3 DEF Application, DropCall, Start, Cancel, Spurious, bodyVars, responseVars
<1>4. CASE Constructor
  BY <1>4 DEF Constructor, RejectHead, NewStreaming, NewUnary, NoMessage, FirstMessage,
              BodyError, Conclude, Start, TrailersReady, vars, bodyVars
<1> QED
  BY <1>2, <1>3, <1>4

LEMMA EarlyStep ==
  ASSUME CallInv,
         Offer \/ Close \/ Call \/ DropWaiting \/ Pump \/ EndRequest \/ Answer \/ Refuse
  PROVE  Promised!RpcNext \/ UNCHANGED Promised!rpcVars
<1> USE DEF Promised!rpcVars
<1>1. CASE UNCHANGED allVars
  <2>1. Verdict' = Verdict /\ Outcome' = Outcome /\ UNCHANGED phase
    BY <1>1 DEF allVars, vars, bodyVars, responseVars, Verdict, ServerStatus, Outcome
  <2>2. CASE Offer \/ Close
    BY <2>1, <2>2 DEF Offer, Close
  <2>3. CASE Call
    BY <2>1, <2>3 DEF Call, CanCall, Fail, CallInv, StageInv
  <2>4. CASE Pump
    <3>1. ~finished
      BY <2>4 DEF CallInv, FeedInv, Pump, CanPump
    <3> QED
      BY <2>1, <2>4, <3>1 DEF Pump, Promised!RpcNext, Promised!Send
  <2>5. CASE EndRequest
    BY <2>1, <2>5 DEF EndRequest, Promised!RpcNext, Promised!End
  <2>6. CASE Answer
    <3>1. Outcome = "pending"
      BY <2>6 DEF Answer, CanAnswer, CallInv, StageInv, Outcome
    <3> QED
      BY <2>1, <2>6, <3>1
      DEF Answer, CanAnswer, Promised!RpcNext, Promised!Answer, Promised!Enough
  <2>7. CASE DropWaiting \/ Refuse
    BY <2>1, <2>7 DEF DropWaiting, Refuse, Fail, CallInv, StageInv
  <2> QED
    BY <2>2, <2>3, <2>4, <2>5, <2>6, <2>7
<1>2. CASE /\ phase = "head" /\ UNCHANGED vars /\ UNCHANGED answer
           /\ \/ phase' = "err" /\ origin' = "call"
              \/ phase' = "dropped"
           /\ UNCHANGED <<plan, sent, finished>>
           /\ stage # "answered" /\ stage' # "answered"
  <2>1. Verdict' = Verdict
    BY <1>2, SameVerdict DEF vars, bodyVars
  <2>2. Outcome = "pending" /\ Outcome' \in {"failed", "dropped"}
    BY <1>2 DEF Outcome
  <2> QED
    BY <1>2, <2>1, <2>2, Outcomes
<1> QED
  BY <1>1, <1>2 DEF Offer, Close, Call, CanCall, DropWaiting, Pump, EndRequest, Answer, Refuse, Fail,
                    CallInv, StageInv, allVars

LEMMA RespondStep ==
  ASSUME CallInv, CallInv', Respond
  PROVE  Promised!RpcNext \/ UNCHANGED Promised!rpcVars
<1> USE DEF Promised!rpcVars
<1>1. UNCHANGED <<plan, stage, sent, finished>> /\ stage = "answered"
  BY DEF Respond, clientVars
<1>2. CASE ServerStep
  <2>1. Outcome' = Outcome
    BY <1>2 DEF ServerStep, Outcome
  <2>2. bodyEnd = "open" /\ Verdict = "none"
    BY <1>2 DEF ServerStep, Write, Arrive, Reset, Finish, Verdict
  <2>3. CASE bodyEnd' = "eof"
    <3>1. Verdict' \in {"ok", "error"}
      BY <2>3 DEF Verdict
    <3> QED
      BY <1>1, <2>1, <2>2, <3>1 DEF Promised!RpcNext, Promised!Judge
  <2>4. CASE bodyEnd' # "eof"
    BY <1>1, <2>1, <2>2, <2>4 DEF Verdict
  <2> QED
    BY <2>3, <2>4
<1>3. CASE LibraryStep \/ Application
  <2>1. Verdict' = Verdict
    BY <1>3, BodyEndKept, SameVerdict
  <2>2. Outcome' = Outcome
    BY <1>3 DEF LibraryStep, Application, responseVars, Outcome
  <2> QED
    BY <1>1, <2>1, <2>2
<1>4. CASE Constructor \/ DropCall
  <2>1. Verdict' = Verdict /\ ServerStatus' = ServerStatus /\ bodyEnd' = bodyEnd
    BY <1>4, BodyEndKept, SameVerdict
  <2>2. phase \in {"head", "message", "trailers"} /\ Outcome = "pending"
    BY <1>4 DEF Constructor, RejectHead, NewStreaming, NewUnary, NoMessage, FirstMessage,
                BodyError, Conclude, DropCall, Outcome
  <2>3. phase' \in Phases
    BY DEF CallInv, RespInv, OwnInv, ResponseTypeOK
  <2>4. CASE phase' \in {"head", "message", "trailers"}
    <3>1. Outcome' = "pending"
      BY <2>4 DEF Outcome
    <3> QED
      BY <1>1, <2>1, <2>2, <3>1
  <2>5. CASE phase' \notin {"head", "message", "trailers"}
    <3>1. Outcome' \in {"message", "stream", "rejected", "failed", "dropped"}
      BY <2>3, <2>5 DEF Outcome, Phases
    <3>2. Outcome' = "message" => Verdict = "ok"
      <4>1. Outcome' = "message" => phase' = "ok"
        BY <2>3 DEF Outcome, Phases
      <4>2. phase' = "ok" => bodyEnd' = "eof" /\ ServerStatus' = OkResult(Ok)
        BY DEF CallInv, RespInv, OwnInv, VerdictInv, OkMeansServerSaidOk
      <4> QED
        BY <2>1, <4>1, <4>2 DEF Verdict
    <3>3. Outcome' = "rejected" => Verdict = "error"
      <4>1. Outcome' = "rejected" => phase' = "err" /\ origin' = "headers"
        BY <2>3 DEF Outcome, Phases
      <4>2. phase' = "err" /\ origin' = "headers" => ServerStatus' # OkResult(Ok)
        BY DEF CallInv, RespInv, OwnInv, VerdictInv, ErrorCodeIsTheServers
      <4>3. phase' = "err" /\ origin' = "headers" => bodyEnd = "eof"
        BY <1>4 DEF Constructor, RejectHead, NewStreaming, NewUnary, NoMessage, FirstMessage,
                    BodyError, Conclude, DropCall, Fail, TrailersReady, AtEnd
      <4> QED
        BY <2>1, <4>1, <4>2, <4>3 DEF Verdict
    <3> QED
      BY <1>1, <2>1, <2>2, <3>1, <3>2, <3>3, Outcomes
  <2> QED
    BY <2>4, <2>5
<1> QED
  BY <1>2, <1>3, <1>4 DEF Respond, ResponseNext

\* A call keeps what Rpc promises: it has one outcome, a message only from a server
\* that has got what it wants and said OK, the server's error only from one that
\* has said so.
THEOREM CallRefinement == ClientSpec => ImplementsRpc
<1>1. ClientInit => Promised!RpcInit
  BY DEF ClientInit, ResponseInit, Init, BodyInit, Promised!RpcInit, Verdict, Outcome
<1>2. CallInv /\ CallInv' /\ [ClientNext]_callVars => [Promised!RpcNext]_Promised!rpcVars
  <2> SUFFICES ASSUME CallInv, CallInv', [ClientNext]_callVars
               PROVE  Promised!RpcNext \/ UNCHANGED Promised!rpcVars
    OBVIOUS
  <2>1. CASE ClientNext
    BY <2>1, EarlyStep, RespondStep DEF ClientNext
  <2>2. CASE UNCHANGED callVars
    BY <2>2 DEF callVars, clientVars, allVars, vars, bodyVars, responseVars, Promised!rpcVars,
                Verdict, ServerStatus, Outcome
  <2> QED
    BY <2>1, <2>2
<1> QED
  BY <1>1, <1>2, CallInvariance, PTL DEF ClientSpec, ImplementsRpc, Promised!RpcSpec
=============================================================================
