------------------------------- MODULE Status -------------------------------
(***************************************************************************)
(* Codes and statuses of src/status.rs: how a status is read from an HTTP  *)
(* status code, from the bytes of a grpc-status header, and from a header  *)
(* map.  A Result<Code, Status> or Result<Status, Status> is a record: ok  *)
(* tells Ok from Err, code is the code of the status either one carries.   *)
(***************************************************************************)
EXTENDS Naturals, Sequences

Ok               == 0
Unknown          == 2
InvalidArgument  == 3
PermissionDenied == 7
Unimplemented    == 12
Internal         == 13
Unavailable      == 14
Unauthenticated  == 16
Code             == 0 .. 16

Byte == 0 .. 255

OkResult(code)  == [ok |-> TRUE,  code |-> code]
ErrResult(code) == [ok |-> FALSE, code |-> code]

\* Status::is_ok, of the status with this code.
IsOk(code) == code = Ok

\* Slip: the last code is left out.
TryFromBelow(value) ==
  IF value < Unauthenticated THEN OkResult(value) ELSE ErrResult(Internal)

\* Code::try_from(u8)
TryFrom(value) ==
  IF value \in Code THEN OkResult(value) ELSE ErrResult(Internal)

\* ASCII.
Zero       == 48
One        == 49
IsDigit(b) == b \in Zero .. Zero + 9

\* Slip: the two digits are taken in the wrong order.
FromBytesReversed(b) ==
  CASE Len(b) = 1 /\ IsDigit(b[1]) -> TryFrom(b[1] - Zero)
    [] Len(b) = 2 /\ b[1] = One /\ IsDigit(b[2]) ->
         TryFrom((b[2] - Zero) * 10 + b[1] - Zero)
    [] OTHER -> ErrResult(Internal)

\* Code::from_bytes
FromBytes(b) ==
  CASE Len(b) = 1 /\ IsDigit(b[1]) -> TryFrom(b[1] - Zero)
    [] Len(b) = 2 /\ b[1] = One /\ IsDigit(b[2]) ->
         TryFrom((b[1] - Zero) * 10 + b[2] - Zero)
    [] OTHER -> ErrResult(Internal)

\* The number a string of digits stands for.
Decimal(b) ==
  LET value[i \in 0 .. Len(b)] ==
        IF i = 0 THEN 0 ELSE value[i - 1] * 10 + b[i] - Zero
  IN  value[Len(b)]

\* str::parse::<u8>, a plus sign and leading zeros included.
Plus       == 43
Unsigned(b) == IF Len(b) > 1 /\ b[1] = Plus THEN Tail(b) ELSE b
ParsesAsU8(b) ==
  /\ b # <<>>
  /\ \A i \in 1 .. Len(Unsigned(b)) : IsDigit(Unsigned(b)[i])
  /\ Decimal(Unsigned(b)) <= 255

\* Slip: the digits are added up in a u8 that wraps around.
FromStrWraps(b) ==
  IF /\ b # <<>>
     /\ \A i \in 1 .. Len(Unsigned(b)) : IsDigit(Unsigned(b)[i])
  THEN TryFrom(Decimal(Unsigned(b)) % 256)
  ELSE ErrResult(Internal)

\* Code::from_str
FromStr(b) ==
  IF ParsesAsU8(b) THEN TryFrom(Decimal(Unsigned(b))) ELSE ErrResult(Internal)

\* Status::from_http_status
FromHttpStatus(s) ==
  CASE s = 400 -> Internal
    [] s = 401 -> Unauthenticated
    [] s = 403 -> PermissionDenied
    [] s = 404 -> Unimplemented
    [] s \in {429, 502, 503, 504} -> Unavailable
    [] s = 200 -> Ok
    [] OTHER -> Unknown

\* A header map gives each of its names the sequence of its values; get
\* returns the first.
Has(headers, name)   == name \in DOMAIN headers
First(headers, name) == headers[name][1]

\* Status::from_header_map, whose message and detail do not matter here.
FromHeaderMap(headers) ==
  IF Has(headers, "grpc-status")
  THEN FromBytes(First(headers, "grpc-status"))
  ELSE ErrResult(Internal)

-----------------------------------------------------------------------------
(* Reference: the decimal numeral of a code, as the gRPC protocol writes   *)
(* it, without sign or leading zero.                                       *)

Numeral(code) ==
  IF code < 10 THEN <<Zero + code>> ELSE <<Zero + (code \div 10), Zero + (code % 10)>>
=============================================================================
