------------------------------- MODULE Client -------------------------------
(***************************************************************************)
(* One call of a Client of src/client.rs, from the application's first     *)
(* request message to the response.  Each of the four call shapes turns    *)
(* the request into an HTTP request, awaits Channel::call for the head of  *)
(* the response and hands that to a constructor of Response, which this    *)
(* module extends.  A request stream is, as in examples/etcdclient.rs, the *)
(* receiver of a bounded channel; hyper reads it, but only once the call   *)
(* is made.                                                                *)
(***************************************************************************)
EXTENDS Response

CONSTANTS
  Methods,      \* methods of GrpcClient that may be called, see Shapes
  Capacity,     \* of the channel
  MaxRequests,  \* bound on the request messages of a call
  All           \* the server wants the end of the request before it answers

\* The four methods of GrpcClient: whether the request is one message or a stream of
\* them, and whether the response is.
Shapes ==
  [unary_unary         |-> [feed |-> "unary",  style |-> "unary"],
   unary_streaming     |-> [feed |-> "unary",  style |-> "streaming"],
   streaming_unary     |-> [feed |-> "stream", style |-> "unary"],
   streaming_streaming |-> [feed |-> "stream", style |-> "streaming"]]

ASSUME ClientAssumption ==
  /\ Methods \subseteq DOMAIN Shapes
  /\ Capacity \in Nat \ {0}
  /\ MaxRequests \in Nat \ {0}
  /\ All \notin Nat

VARIABLES
  plan,     \* what application and server are going to do, see Plan
  stage,    \* of the call: see Stages
  fed,      \* request messages put into the channel
  closed,   \* its sender is gone
  sent,     \* request messages on their way to the server
  finished  \* the request body has ended

clientVars == <<plan, stage, fed, closed, sent, finished>>
callVars == <<allVars, clientVars>>

Stages == {"new", "waiting", "answered", "failed", "dropped"}

\* method: the method of GrpcClient it calls; count: messages of the request; by: the
\* caller feeds the channel before it makes the call, or a task of its own does so
\* meanwhile; closes: the sender is dropped at last; path: the path given is one;
\* need: what the server waits for before it sends the head.
Plan ==
  [method: Methods, count: 0 .. MaxRequests, closes: BOOLEAN, by: {"caller", "task"},
   path: BOOLEAN, need: 0 .. MaxRequests \cup {All}]

Feed(p) == Shapes[p.method].feed

\* into_unary makes a body of the one message it has, which ends behind it.
ReadyToCall(p) == Feed(p) = "unary" => p.count = 1 /\ p.closes /\ p.by = "caller"

ClientInit ==
  /\ ResponseInit
  /\ plan \in {p \in Plan : ReadyToCall(p)}
  /\ style = Shapes[plan.method].style
  /\ stage = "new"
  /\ fed = IF Feed(plan) = "unary" THEN 1 ELSE 0
  /\ closed = (Feed(plan) = "unary")
  /\ sent = 0
  /\ finished = FALSE

-----------------------------------------------------------------------------
(* The application.                                                        *)

\* The caller does one thing after another; its call may be over before a task
\* of its own has fed all.
Feeding == plan.by = "caller" => stage = "new"

\* A channel whose receiver went away with the call takes nothing more.
CanOffer ==
  /\ Feeding
  /\ stage \notin {"failed", "dropped"}
  /\ fed < plan.count
  /\ fed - sent < Capacity

Offer ==
  /\ CanOffer
  /\ fed' = fed + 1
  /\ UNCHANGED <<allVars, plan, stage, closed, sent, finished>>

CanClose ==
  /\ Feeding
  /\ plan.closes
  /\ fed = plan.count
  /\ ~closed

Close ==
  /\ CanClose
  /\ closed' = TRUE
  /\ UNCHANGED <<allVars, plan, stage, fed, sent, finished>>

\* One of the four methods of GrpcClient, up to the await in Channel::call.
CanCall ==
  /\ stage = "new"
  /\ plan.by = "caller" => fed = plan.count /\ (plan.closes => closed)

Call ==
  /\ CanCall
  /\ \/ /\ plan.path
        /\ stage' = "waiting"
        /\ UNCHANGED responseVars
     \/ /\ ~plan.path
        /\ stage' = "failed"
        /\ Fail(InvalidArgument, "call")
        /\ UNCHANGED <<style, http, headers, metadata, answer>>
  /\ UNCHANGED <<vars, plan, fed, closed, sent, finished>>

\* The caller drops the future of the call before its head has come.
DropWaiting ==
  /\ MayCancel
  /\ stage = "waiting"
  /\ stage' = "dropped"
  /\ phase' = "dropped"
  /\ UNCHANGED <<vars, style, http, headers, metadata, code, origin, answer>>
  /\ UNCHANGED <<plan, fed, closed, sent, finished>>

-----------------------------------------------------------------------------
(* The request on its way, and the head of the response.                   *)

\* Slip: the stream is collected before it is sent.
CanPumpCollected ==
  /\ stage \in {"waiting", "answered"}
  /\ closed
  /\ sent < fed

\* hyper takes a message from the stream of encoded messages and sends it.
CanPump ==
  /\ stage \in {"waiting", "answered"}
  /\ sent < fed

Pump ==
  /\ CanPump
  /\ sent' = sent + 1
  /\ UNCHANGED <<allVars, plan, stage, fed, closed, finished>>

\* Slip: an empty channel is taken for the end of the stream.
EndRequestWhenEmpty ==
  /\ stage \in {"waiting", "answered"}
  /\ sent = fed
  /\ ~finished
  /\ finished' = TRUE
  /\ UNCHANGED <<allVars, plan, stage, fed, closed, sent>>

\* The stream of requests ends when the channel is empty and its sender gone.
CanEndRequest ==
  /\ stage \in {"waiting", "answered"}
  /\ sent = fed /\ closed
  /\ ~finished

EndRequest ==
  /\ CanEndRequest
  /\ finished' = TRUE
  /\ UNCHANGED <<allVars, plan, stage, fed, closed, sent>>

\* The server sends the head, which Channel::call returns.
CanAnswer ==
  /\ stage = "waiting"
  /\ IF plan.need = All THEN finished ELSE plan.need <= sent

Answer ==
  /\ CanAnswer
  /\ stage' = "answered"
  /\ UNCHANGED <<allVars, plan, fed, closed, sent, finished>>

\* Slip: the call is made again when the connection breaks.
RefuseRetries ==
  /\ MayReset
  /\ stage = "waiting"
  /\ stage' = "new"
  /\ UNCHANGED <<allVars, plan, fed, closed, sent, finished>>

\* No connection, or it breaks before the head has come.
Refuse ==
  /\ MayReset
  /\ stage = "waiting"
  /\ stage' = "failed"
  /\ Fail(Internal, "call")
  /\ UNCHANGED <<vars, style, http, headers, metadata, answer>>
  /\ UNCHANGED <<plan, fed, closed, sent, finished>>

\* The response, as in Response.
Respond ==
  /\ stage = "answered"
  /\ ResponseNext
  /\ UNCHANGED clientVars

ClientNext ==
  \/ Offer \/ Close \/ Call \/ DropWaiting
  \/ Pump \/ EndRequest \/ Answer \/ Refuse
  \/ Respond

ClientSpec == ClientInit /\ [][ClientNext]_callVars

\* The application goes on while it can, hyper sends what it has, the server answers
\* when it has got what it needs, the task that awaits the response is polled, and
\* an application with a stream asks for its trailers again and again.
ClientFairSpec ==
  /\ ClientSpec
  /\ WF_callVars(Offer) /\ WF_callVars(Close) /\ WF_callVars(Call)
  /\ WF_callVars(Pump) /\ WF_callVars(EndRequest) /\ WF_callVars(Answer)
  /\ WF_callVars(stage = "answered" /\ (LibraryStep \/ Constructor) /\ UNCHANGED clientVars)
  /\ SF_callVars(stage = "answered" /\ AskTrailers /\ UNCHANGED clientVars)

-----------------------------------------------------------------------------
(* Properties.                                                             *)

\* The server can get what it wants before it answers.  A caller who feeds the
\* channel itself does so before the call: it must not offer more than the channel
\* holds, and can offer no more until the head is there.
Fits ==
  /\ plan.need = All => plan.closes
  /\ plan.need # All => plan.need <= plan.count
  /\ Feed(plan) = "stream" /\ plan.by = "caller" => plan.count <= Capacity

\* A call for which that is so leaves its await: the request is sent while the
\* channel is still open, the caller not needed.
EveryCallIsAnswered == Fits ~> stage \notin {"new", "waiting"}

\* Caller, feeding task, hyper and server never all wait for each other: as long as
\* such a call has no head, one of them can go on.
SomebodyCanGoOn ==
  Fits /\ stage \in {"new", "waiting"} =>
    CanOffer \/ CanClose \/ CanCall \/ CanPump \/ CanEndRequest \/ CanAnswer

\* What a call has yet to do before its head: messages to offer and to send, the
\* end of the feed and of the request, and the call itself.
ToDo ==
  (plan.count - fed) + (plan.count - sent)
    + (IF closed THEN 0 ELSE 1) + (IF finished THEN 0 ELSE 1)
    + (IF stage = "new" THEN 1 ELSE 0)

\* And whoever goes on leaves less to do, since nothing is done twice: there is no
\* retry, no message is taken back, and no step of the wait is idle. A call that
\* keeps going has its head after at most 2 * count + 4 steps.
WaitEnds ==
  [][stage' \in {"new", "waiting"} => ToDo' \in 0 .. ToDo - 1]_callVars

\* And only such a call is answered: a caller that offers more than the channel
\* holds, or waits for a server that waits for more, waits for good.
HeadNeedsTheFeed == stage = "answered" => Fits

\* A call has one outcome: a message only if the server has got the request it
\* needs and has said OK, the server's own error only if it has said so.
Verdict ==
  IF bodyEnd # "eof" THEN "none"
  ELSE IF ServerStatus = OkResult(Ok) THEN "ok" ELSE "error"

Outcome ==
  CASE phase = "ok" -> "message"
    [] phase = "err" -> IF origin = "headers" THEN "rejected" ELSE "failed"
    [] phase \in {"stream", "dropped"} -> phase
    [] OTHER -> "pending"

Promised == INSTANCE Rpc WITH
  need     <- plan.need,
  ended    <- finished,
  answered <- stage = "answered",
  verdict  <- Verdict,
  outcome  <- Outcome

ImplementsRpc == Promised!RpcSpec
=============================================================================
