----------------------------- MODULE MCResponse -----------------------------
(***************************************************************************)
(* Header maps for model checking Response: no status, OK ("0"),           *)
(* NotFound ("5"), bytes that are no status ("x"); a head also has a text  *)
(* that a trailer may replace and a value that is not UTF-8.               *)
(***************************************************************************)
EXTENDS Response

StatusBytes == {<<48>>, <<53>>, <<120>>}

Fields == [name \in {"x-id", "x-bin"} |-> IF name = "x-id" THEN <<<<103>>>> ELSE <<<<255>>>>]

WithStatus(h, bytes) ==
  [name \in DOMAIN h \cup {"grpc-status"} |->
     IF name = "grpc-status" THEN <<bytes>> ELSE h[name]]

NoFields == [name \in {} |-> <<>>]
OtherTrailer == [name \in {"x-id"} |-> <<<<104>>, <<105>>>>]

MCHeadMaps == {Fields} \cup {WithStatus(Fields, b) : b \in StatusBytes}
MCTrailerMaps == {OtherTrailer} \cup {WithStatus(NoFields, b) : b \in StatusBytes}

MCReserved == {"grpc-status"}
MCSpelled == {"grpc-status", "x-id", "x-bin"}
MCPrintable == StatusBytes \cup {<<103>>, <<104>>, <<105>>}
MCNotUtf8 == {<<255>>}
MCReplacement == <<239, 191, 189>>

=============================================================================
