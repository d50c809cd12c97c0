---------------------------- MODULE MCByteStream ----------------------------
(***************************************************************************)
(* Payloads for model checking ByteStream with bytes of two values, where  *)
(* the length field holds 0 to 15: short ones, one of the greatest length, *)
(* and one that is too long for the field.                                 *)
(***************************************************************************)
EXTENDS ByteStream

Ones(n) == [i \in 1 .. n |-> 1]

MCUndecodable == {<<0>>}
MCPayloads == {<<>>, <<0>>, <<1>>, Ones(15), Ones(16)}
=============================================================================
