------------------------------ MODULE Metadata ------------------------------
(***************************************************************************)
(* MetadataMap of src/metadata.rs.  A metadata map, and likewise a header  *)
(* map of the http crate, gives each of its names a sequence of values, in *)
(* the order they were put there, repetitions included.  A name whose      *)
(* values were all taken away stays in the map, with no value.             *)
(***************************************************************************)
EXTENDS Naturals, Sequences

CONSTANTS
  Reserved,     \* names that begin with RESREVER_NAME_PREFIX, "grpc-"
  Spelled,      \* names made of 0-9 a-z _ - . only, the empty one among them
  Printable,    \* values made of ' ' to '~' only
  NotUtf8,      \* values of header fields that are not UTF-8
  Replacement   \* what from_utf8_lossy turns those into: it has U+FFFD in it

ASSUME MetadataAssumption ==
  /\ NotUtf8 \cap Printable = {}
  /\ Replacement \notin Printable

\* MetadataMap::new and default
NewMap == [name \in {} |-> <<>>]

\* get, for which a name that is not there has no values.
Values(map, name) == IF name \in DOMAIN map THEN map[name] ELSE <<>>

\* Slip: the prefix is not looked at.
AcceptsReserved(name, value) == name \in Spelled /\ value \in Printable

\* The tests of insert.
Accepts(name, value) ==
  /\ name \notin Reserved
  /\ name \in Spelled
  /\ value \in Printable

\* MetadataMap::insert; a refused pair leaves no entry behind.
Insert(map, name, value) ==
  IF Accepts(name, value)
  THEN [n \in DOMAIN map \cup {name} |->
          IF n = name THEN Append(Values(map, n), value) ELSE map[n]]
  ELSE map

\* What can be done through get_mut to the values of a name in the map: anything.
SetValues(map, name, values) == [map EXCEPT ![name] = values]

\* What iterating over a map gives: its names, each with its values.
Iter(map) == {<<n, map[n]>> : n \in DOMAIN map}

Remove(map, name) == [n \in DOMAIN map \ {name} |-> map[n]]

\* The values that are in a set, in their order.
Only(values, set) ==
  LET kept[i \in 0 .. Len(values)] ==
        IF i = 0 THEN <<>>
        ELSE IF values[i] \in set THEN Append(kept[i - 1], values[i])
        ELSE kept[i - 1]
  IN  kept[Len(values)]

Lossy(value) == IF value \in NotUtf8 THEN Replacement ELSE value

\* What insert takes of the values of one header.
Taken(name, values) ==
  LET text == [i \in 1 .. Len(values) |-> Lossy(values[i])]
  IN  Only(text, {w \in {text[i] : i \in 1 .. Len(text)} : Accepts(name, w)})

\* MetadataMap::merge_http_header: insert is tried with each value of each header,
\* and what it refuses is skipped.
MergeHttpHeader(map, headers) ==
  [n \in DOMAIN map \cup {m \in DOMAIN headers : Taken(m, headers[m]) # <<>>} |->
     Values(map, n) \o IF n \in DOMAIN headers THEN Taken(n, headers[n]) ELSE <<>>]
=============================================================================
