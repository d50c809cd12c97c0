-------------------------------- MODULE Codec -------------------------------
(***************************************************************************)
(* src/codec.rs on bytes: ProstEncoder::encode puts a flag byte and the    *)
(* length of the payload in front of it, ProstDecoder::decode takes such a *)
(* frame off the front of a buffer.  prost is external: a payload is a     *)
(* sequence of bytes that parses or does not.                              *)
(***************************************************************************)
EXTENDS Naturals, Sequences

CONSTANTS
  ByteBase,     \* number of values of a byte: 256, smaller for model checking
  Undecodable   \* payloads that are not messages of the expected type

ASSUME CodecAssumption ==
  /\ ByteBase \in Nat \ {0, 1}
  /\ Undecodable \subseteq Seq(Nat)

Byte == 0 .. ByteBase - 1

LengthSize == 4                  \* bytes of a u32
HeaderSize == 1 + LengthSize     \* HEADER_SIZE

\* Number of values of a u32.
LengthLimit == ByteBase * ByteBase * ByteBase * ByteBase

\* u32::to_be_bytes of n as u32, which drops what does not fit.
ToBigEndian(n) ==
  << (n \div (ByteBase * ByteBase * ByteBase)) % ByteBase,
     (n \div (ByteBase * ByteBase)) % ByteBase,
     (n \div ByteBase) % ByteBase,
     n % ByteBase >>

\* u32::from_be_bytes
FromBigEndian(b) ==
  ((b[1] * ByteBase + b[2]) * ByteBase + b[3]) * ByteBase + b[4]

-----------------------------------------------------------------------------

\* Slip: the length counts the prefix.
EncodeWithPrefix(payload) ==
  <<0>> \o ToBigEndian(HeaderSize + Len(payload)) \o payload

Encode(payload) == <<0>> \o ToBigEndian(Len(payload)) \o payload

\* What decode does with a buffer: kind is its result, payload the bytes of the
\* message, rest the buffer it leaves.
Decoded(kind, payload, rest) == [kind |-> kind, payload |-> payload, rest |-> rest]

Announced(buf) == FromBigEndian(SubSeq(buf, 2, HeaderSize))

Payload(buf, len) == SubSeq(buf, HeaderSize + 1, HeaderSize + len)
Rest(buf, len)    == SubSeq(buf, HeaderSize + len + 1, Len(buf))

\* Slip: a payload that does not parse is left in the buffer.
DecodeKeepsBad(buf) ==
  IF Len(buf) < HeaderSize THEN Decoded("none", <<>>, buf)
  ELSE IF buf[1] # 0 THEN Decoded("compressed", <<>>, buf)
  ELSE LET len == Announced(buf)
       IN  CASE Len(buf) < HeaderSize + len -> Decoded("none", <<>>, buf)
             [] OTHER ->
                  IF Payload(buf, len) \in Undecodable
                  THEN Decoded("undecodable", Payload(buf, len), buf)
                  ELSE Decoded("message", Payload(buf, len), Rest(buf, len))

Decode(buf) ==
  IF Len(buf) < HeaderSize THEN Decoded("none", <<>>, buf)
  ELSE IF buf[1] # 0 THEN Decoded("compressed", <<>>, buf)
  ELSE LET len == Announced(buf)
       IN  IF Len(buf) < HeaderSize + len
           THEN Decoded("none", <<>>, buf)
           ELSE Decoded(IF Payload(buf, len) \in Undecodable THEN "undecodable" ELSE "message",
                        Payload(buf, len), Rest(buf, len))
=============================================================================
