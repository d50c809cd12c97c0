---------------------------- MODULE StatusParsing ----------------------------
(***************************************************************************)
(* Code::from_bytes and Code::from_str of src/status.rs side by side, on   *)
(* every value of a grpc-status header up to a length.                     *)
(***************************************************************************)
EXTENDS Status

CONSTANTS
  Bytes,    \* bytes a header value may consist of
  MaxLen    \* bound on its length

ASSUME StatusParsingAssumption == Bytes \subseteq Byte /\ MaxLen \in Nat

VARIABLES
  header,   \* value of the grpc-status header
  parsed    \* what from_bytes makes of it

Init ==
  /\ header = <<>>
  /\ parsed = FromBytes(<<>>)

\* The server sends a longer value.
Extend(b) ==
  /\ Len(header) < MaxLen
  /\ header' = Append(header, b)
  /\ parsed' = FromBytes(header')

Next == \E b \in Bytes : Extend(b)

Spec == Init /\ [][Next]_<<header, parsed>>

\* from_bytes accepts the numerals 0 to 16, each as its code, and refuses everything
\* else with Internal: a sign, a leading zero, a number above Unauthenticated.
AcceptsNumeralsOnly ==
  /\ \A code \in Code : header = Numeral(code) => parsed = OkResult(code)
  /\ (\A code \in Code : header # Numeral(code)) => parsed = ErrResult(Internal)

\* The other parser of the same text, from_str, is more lenient, but where both
\* accept a value they agree on the code; from_bytes accepts nothing more.
FromStrAgrees == parsed.ok => FromStr(header) = parsed

Zeros(k) == [i \in 1 .. k |-> Zero]

\* The text is a numeral behind k zeros and at most one plus sign.
IsPadded(b, k, code) == Unsigned(b) = Zeros(k) \o Numeral(code)

\* How lenient it is: from_str reads the numeral of a code behind any number of zeros
\* and at most one plus sign as that code, and refuses everything else with
\* Internal. In particular no number that does not fit a u8 comes back as a code.
FromStrIsThisLenient ==
  /\ \A code \in Code, k \in 0 .. Len(header) :
       IsPadded(header, k, code) => FromStr(header) = OkResult(code)
  /\ (\A code \in Code, k \in 0 .. Len(header) : ~IsPadded(header, k, code))
       => FromStr(header) = ErrResult(Internal)
=============================================================================
