--------------------------------- MODULE Rpc --------------------------------
(***************************************************************************)
(* What a call promises, without channels, bodies or header maps: the      *)
(* server gets the messages of the request and perhaps its end, answers    *)
(* when it has got enough, and gives a verdict.  The call has one outcome, *)
(* and the verdict stands behind it where the outcome claims it does.      *)
(***************************************************************************)
EXTENDS Naturals

CONSTANT All   \* the server answers only when the request has ended

VARIABLES
  need,      \* requests the server wants before it answers, or All
  sent,      \* requests it has got
  ended,     \* it was told that the request has ended
  answered,  \* it has begun to answer
  verdict,   \* "none", "ok" or "error"
  outcome    \* of the call

rpcVars == <<need, sent, ended, answered, verdict, outcome>>

\* "rejected": with the status the server gave; "failed": with one made up here.
Outcomes == {"pending", "message", "stream", "rejected", "failed", "dropped"}

Enough == IF need = All THEN ended ELSE need <= sent

RpcInit ==
  /\ sent = 0
  /\ ended = FALSE
  /\ answered = FALSE
  /\ verdict = "none"
  /\ outcome = "pending"

Send ==
  /\ ~ended
  /\ sent' = sent + 1
  /\ UNCHANGED <<need, ended, answered, verdict, outcome>>

End ==
  /\ ~ended
  /\ ended' = TRUE
  /\ UNCHANGED <<need, sent, answered, verdict, outcome>>

Answer ==
  /\ ~answered /\ Enough
  /\ outcome = "pending"
  /\ answered' = TRUE
  /\ UNCHANGED <<need, sent, ended, verdict, outcome>>

Judge ==
  /\ answered
  /\ verdict = "none"
  /\ verdict' \in {"ok", "error"}
  /\ UNCHANGED <<need, sent, ended, answered, outcome>>

Conclude ==
  /\ outcome = "pending"
  /\ outcome' \in Outcomes \ {"pending"}
  /\ outcome' = "message" => verdict = "ok"
  /\ outcome' = "rejected" => verdict = "error"
  /\ outcome' = "stream" => answered
  /\ UNCHANGED <<need, sent, ended, answered, verdict>>

RpcNext == Send \/ End \/ Answer \/ Judge \/ Conclude

RpcSpec == RpcInit /\ [][RpcNext]_rpcVars
=============================================================================
