\* Bytes of two values: a length field of four bytes holds 0 to 15.
SPECIFICATION Spec
CONSTANTS
  ByteBase = 2
  Undecodable <- MCUndecodable
  Payloads <- MCPayloads
  MaxFrames = 3
  MaxChunk = 24
INVARIANTS
  OffsetsTellAll
  DecodesWhatWasEncoded
\* The stream stops at MaxFrames.
CHECK_DEADLOCK FALSE
