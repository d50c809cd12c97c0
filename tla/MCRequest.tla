------------------------------ MODULE MCRequest -----------------------------
(***************************************************************************)
(* Targets, names and values for model checking Request.  The names are    *)
(* one to insert, one http refuses (""), one that only gRPC may set, one   *)
(* spelled in capitals, and content-type; the values are printable text,   *)
(* a control character, and bytes that are not UTF-8.                      *)
(***************************************************************************)
EXTENDS Request

MCTargets == {"http://a", "http://b", "a:1"}
MCWithParts == {"http://a", "http://b"}

MCHttpNames == {"x-id", "grpc-status", "content-type"}
MCSpelled == MCHttpNames \cup {""}
MCAppNames == MCSpelled \cup {"X-Id"}

MCPrintable == {"text", "application/grpc+proto"}
MCHttpValues == MCPrintable \cup {"bytes"}

\* Headers of responses: of one with a status, and of one with binary metadata
\* between two equal values.
MCPeerHeaders ==
  {[n \in {"content-type", "grpc-status"} |->
      IF n = "content-type" THEN <<"application/grpc+proto">> ELSE <<"text">>],
   [n \in {"x-id"} |-> <<"text", "bytes", "text">>]}
=============================================================================
