------------------------------ MODULE MCClient ------------------------------
(***************************************************************************)
(* Header maps for model checking Client: OK in the head, and OK or        *)
(* NotFound in the trailers, if there are any.                             *)
(***************************************************************************)
EXTENDS Client

WithStatus(bytes) == [name \in {"grpc-status"} |-> <<bytes>>]

MCHeadMaps == {WithStatus(<<48>>)}
MCTrailerMaps == {WithStatus(<<48>>), WithStatus(<<53>>)}
MCNames == {"grpc-status"}
MCValues == {<<48>>, <<53>>}
=============================================================================
