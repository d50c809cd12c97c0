---------------------------- MODULE CodecProofs -----------------------------
(***************************************************************************)
(* Proofs about Codec and ByteStream, for bytes of any number of values:   *)
(* for payloads of every length that fits the length field, and for        *)
(* streams of any number of frames, cut into chunks of any size.           *)
(***************************************************************************)
EXTENDS ByteStream, SequenceTheorems, WellFoundedInduction, TLAPS

-----------------------------------------------------------------------------
(* Arithmetic, with a base that is not a number the provers know.          *)

LEMMA DivMod ==
  ASSUME NEW d \in Nat \ {0}, NEW n \in Nat
  PROVE  /\ n \div d \in Nat /\ n % d \in 0 .. d - 1
         /\ n = d * (n \div d) + (n % d)
<1> DEFINE q == n \div d
           r == n % d
<1>1. q \in Int
  OBVIOUS
<1>2. r \in 0 .. d - 1
  OBVIOUS
<1>3. n = d * q + r
  OBVIOUS
<1> HIDE DEF q, r
<1>4. q >= 0
  <2> SUFFICES ASSUME q <= -1 PROVE FALSE
    BY <1>1
  <2>1. d * q <= d * (-1)
    BY <1>1
  <2> QED
    BY <1>1, <1>2, <1>3, <2>1
<1> QED
  BY <1>1, <1>2, <1>3, <1>4 DEF q, r

LEMMA DivLess ==
  ASSUME NEW d \in Nat \ {0}, NEW n \in Nat, NEW m \in Nat, n < d * m
  PROVE  n \div d < m
<1> DEFINE q == n \div d
<1>1. q \in Nat /\ d * q <= n
  BY DivMod
<1> HIDE DEF q
<1>2. SUFFICES ASSUME q >= m PROVE FALSE
  BY <1>1 DEF q
<1>3. d * q >= d * m
  BY <1>1, <1>2
<1> QED
  BY <1>1, <1>3

\* Dividing twice is dividing by the product.
LEMMA DivDiv ==
  ASSUME NEW d \in Nat \ {0}, NEW e \in Nat \ {0}, NEW n \in Nat
  PROVE  n \div (d * e) = (n \div d) \div e
<1> DEFINE q == n \div d
           r == n % d
           p == q \div e
           s == q % e
           de == d * e
           t == n \div de
           u == n % de
           v == d * s + r
<1>1. de \in Nat \ {0}
  OBVIOUS
<1>2. q \in Nat /\ r \in 0 .. d - 1 /\ n = d * q + r
  BY DivMod
<1>3. p \in Nat /\ s \in 0 .. e - 1 /\ q = e * p + s
  BY DivMod, <1>2
<1>4. t \in Nat /\ u \in 0 .. de - 1 /\ n = de * t + u
  BY DivMod, <1>1
<1> HIDE DEF q, r, p, s, t, u
<1>5. n = de * p + v
  BY <1>2, <1>3
<1>6. v \in 0 .. de - 1
  <2>1. d * s <= d * (e - 1)
    BY <1>3
  <2> QED
    BY <2>1, <1>2, <1>3
<1> HIDE DEF v, de
<1>7. ~(p < t)
  <2> SUFFICES ASSUME p < t PROVE FALSE
    OBVIOUS
  <2>1. de * t >= de * (p + 1)
    BY <1>1, <1>3, <1>4
  <2> QED
    BY <2>1, <1>1, <1>3, <1>4, <1>5, <1>6
<1>8. ~(t < p)
  <2> SUFFICES ASSUME t < p PROVE FALSE
    OBVIOUS
  <2>1. de * p >= de * (t + 1)
    BY <1>1, <1>3, <1>4
  <2> QED
    BY <2>1, <1>1, <1>3, <1>4, <1>5, <1>6
<1>9. p = t
  BY <1>3, <1>4, <1>7, <1>8
<1> QED
  BY <1>9 DEF p, q, t, de

\* What is smaller than the divisor is the remainder.
LEMMA ModSmall ==
  ASSUME NEW d \in Nat \ {0}, NEW n \in 0 .. d - 1
  PROVE  n % d = n
<1> DEFINE q == n \div d
           r == n % d
<1>0. n \in Nat /\ n < d * 1
  OBVIOUS
<1>1. q \in Nat /\ r \in 0 .. d - 1 /\ n = d * q + r
  BY <1>0, DivMod
<1>2. q < 1
  BY <1>0, DivLess
<1> HIDE DEF q, r
<1> QED
  BY <1>1, <1>2 DEF r

-----------------------------------------------------------------------------
(* Encoding.                                                               *)

\* The concatenation of two sequences of bytes, element by element.
LEMMA Concatenation ==
  ASSUME NEW s \in Seq(Byte), NEW t \in Seq(Byte)
  PROVE  /\ s \o t \in Seq(Byte)
         /\ Len(s \o t) = Len(s) + Len(t)
         /\ \A i \in 1 .. Len(s) : (s \o t)[i] = s[i]
         /\ \A i \in 1 .. Len(t) : (s \o t)[Len(s) + i] = t[i]
<1>1. /\ s \o t \in Seq(Byte)
      /\ Len(s \o t) = Len(s) + Len(t)
      /\ \A i \in 1 .. Len(s) + Len(t) :
           (s \o t)[i] = IF i <= Len(s) THEN s[i] ELSE t[i - Len(s)]
  BY ConcatProperties, Zenon
<1>2. Len(s) \in Nat /\ Len(t) \in Nat
  OBVIOUS
<1>3. ASSUME NEW i \in 1 .. Len(t)
      PROVE  (s \o t)[Len(s) + i] = t[i]
  <2>1. /\ Len(s) + i \in 1 .. Len(s) + Len(t) /\ ~(Len(s) + i <= Len(s))
        /\ (Len(s) + i) - Len(s) = i
    BY <1>2
  <2> QED
    BY <1>1, <2>1
<1> QED
  BY <1>1, <1>2, <1>3

\* What is written of a length, whether or not it fits, is four bytes.
LEMMA FourBytes ==
  ASSUME NEW n \in Nat
  PROVE  ToBigEndian(n) \in Seq(Byte) /\ Len(ToBigEndian(n)) = 4
<1>1. ByteBase \in Nat \ {0}
  BY CodecAssumption
<1>2. ASSUME NEW m \in Nat PROVE m % ByteBase \in Byte
  BY <1>1, DivMod DEF Byte
<1>3. ByteBase * ByteBase \in Nat \ {0} /\ ByteBase * ByteBase * ByteBase \in Nat \ {0}
  BY <1>1
<1> DEFINE a == (n \div (ByteBase * ByteBase * ByteBase)) % ByteBase
           b == (n \div (ByteBase * ByteBase)) % ByteBase
           c == (n \div ByteBase) % ByteBase
           d == n % ByteBase
<1>4. a \in Byte /\ b \in Byte /\ c \in Byte /\ d \in Byte
  BY <1>1, <1>2, <1>3, DivMod
<1>5. ToBigEndian(n) = <<a, b, c, d>>
  BY DEF ToBigEndian
<1> HIDE DEF a, b, c, d
<1> QED
  BY <1>4, <1>5

\* The length field holds every length that fits.
LEMMA BigEndian ==
  ASSUME NEW n \in Nat, n < LengthLimit
  PROVE  FromBigEndian(ToBigEndian(n)) = n
<1> DEFINE B  == ByteBase
           B2 == B * B
           B3 == B * B * B
           q1 == n \div B
           q2 == n \div B2
           q3 == n \div B3
           a  == q3 % B
           b  == q2 % B
           c  == q1 % B
           d  == n % B
<1>1. B \in Nat \ {0}
  BY CodecAssumption
<1>2. B2 \in Nat \ {0} /\ B3 \in Nat \ {0} /\ B3 = B2 * B
  BY <1>1
<1>3. q2 = q1 \div B /\ q3 = q2 \div B
  BY <1>1, <1>2, DivDiv
<1>4. q1 \in Nat /\ d \in 0 .. B - 1 /\ n = B * q1 + d
  BY <1>1, DivMod
<1>5. q2 \in Nat /\ c \in 0 .. B - 1 /\ q1 = B * q2 + c
  BY <1>1, <1>3, <1>4, DivMod
<1>6. q3 \in Nat /\ b \in 0 .. B - 1 /\ q2 = B * q3 + b
  BY <1>1, <1>3, <1>5, DivMod
<1>7. q3 < B
  BY <1>1, <1>2, DivLess DEF LengthLimit
<1>8. a = q3
  <2>1. q3 \in 0 .. B - 1
    BY <1>1, <1>6, <1>7
  <2> HIDE DEF B, q3
  <2> QED
    BY <1>1, <2>1, ModSmall
<1>9. ToBigEndian(n) = <<a, b, c, d>>
  BY DEF ToBigEndian
<1> HIDE DEF B, q1, q2, q3, a, b, c, d
<1>10. ((a * B + b) * B + c) * B + d = n
  BY <1>1, <1>4, <1>5, <1>6, <1>8
<1>11. /\ <<a, b, c, d>>[1] = a /\ <<a, b, c, d>>[2] = b
       /\ <<a, b, c, d>>[3] = c /\ <<a, b, c, d>>[4] = d
  OBVIOUS
<1> QED
  BY <1>9, <1>10, <1>11 DEF FromBigEndian, B

\* Where the parts of an encoded message lie.
LEMMA Image ==
  ASSUME NEW payload \in Seq(Byte)
  PROVE  /\ Encode(payload) \in Seq(Byte)
         /\ Len(Encode(payload)) = 5 + Len(payload)
         /\ Encode(payload)[1] = 0
         /\ \A i \in 1 .. 4 : Encode(payload)[1 + i] = ToBigEndian(Len(payload))[i]
         /\ \A i \in 1 .. Len(payload) : Encode(payload)[5 + i] = payload[i]
<1> DEFINE len    == ToBigEndian(Len(payload))
           prefix == <<0>> \o len
<1>1. len \in Seq(Byte) /\ Len(len) = 4 /\ Len(payload) \in Nat
  BY FourBytes
<1>2. <<0>> \in Seq(Byte) /\ Len(<<0>>) = 1 /\ <<0>>[1] = 0
  BY CodecAssumption DEF Byte
<1> HIDE DEF len
<1>3. /\ prefix \in Seq(Byte) /\ Len(prefix) = 5 /\ prefix[1] = 0
      /\ \A i \in 1 .. 4 : prefix[1 + i] = len[i]
  <2> DEFINE flag == <<0>>
  <2> HIDE DEF flag
  <2>1. flag \in Seq(Byte) /\ Len(flag) = 1 /\ flag[1] = 0
    BY <1>2 DEF flag
  <2>2. /\ flag \o len \in Seq(Byte) /\ Len(flag \o len) = Len(flag) + Len(len)
        /\ \A i \in 1 .. Len(flag) : (flag \o len)[i] = flag[i]
        /\ \A i \in 1 .. Len(len) : (flag \o len)[Len(flag) + i] = len[i]
    BY <1>1, <2>1, Concatenation, Zenon
  <2>3. prefix = flag \o len
    BY DEF flag
  <2> HIDE DEF prefix
  <2> QED
    BY <1>1, <2>1, <2>2, <2>3
<1>4. Encode(payload) = prefix \o payload
  BY DEF Encode, len
<1> HIDE DEF prefix
<1>5. /\ prefix \o payload \in Seq(Byte)
      /\ Len(prefix \o payload) = 5 + Len(payload)
      /\ \A i \in 1 .. 5 : (prefix \o payload)[i] = prefix[i]
      /\ \A i \in 1 .. Len(payload) : (prefix \o payload)[5 + i] = payload[i]
  <2>1. /\ prefix \o payload \in Seq(Byte)
        /\ Len(prefix \o payload) = Len(prefix) + Len(payload)
        /\ \A i \in 1 .. Len(prefix) : (prefix \o payload)[i] = prefix[i]
        /\ \A i \in 1 .. Len(payload) :
             (prefix \o payload)[Len(prefix) + i] = payload[i]
    BY <1>3, Concatenation, Zenon
  <2> QED
    BY <1>3, <2>1
<1> QED
  BY <1>3, <1>4, <1>5 DEF len

\* A buffer that begins with the whole prefix of an encoded message announces the
\* length of that message.
LEMMA Announces ==
  ASSUME NEW payload \in Seq(Byte), Len(payload) < LengthLimit,
         NEW b \in Seq(Byte), Len(b) >= 5,
         \A i \in 1 .. 5 : b[i] = Encode(payload)[i]
  PROVE  b[1] = 0 /\ Announced(b) = Len(payload)
<1> DEFINE field == SubSeq(b, 2, HeaderSize)
           len   == ToBigEndian(Len(payload))
<1>1. HeaderSize = 5
  BY DEF HeaderSize, LengthSize
<1>2. field[1] = b[2] /\ field[2] = b[3] /\ field[3] = b[4] /\ field[4] = b[5]
  BY <1>1
<1> HIDE DEF field, len
<1>3. b[2] = len[1] /\ b[3] = len[2] /\ b[4] = len[3] /\ b[5] = len[4]
  BY Image DEF len
<1>4. FromBigEndian(field) = FromBigEndian(len)
  <2>1. field[1] = len[1] /\ field[2] = len[2] /\ field[3] = len[3] /\ field[4] = len[4]
    BY <1>2, <1>3
  <2> QED
    BY <2>1, Zenon DEF FromBigEndian
<1>5. FromBigEndian(len) = Len(payload)
  BY BigEndian DEF len
<1> QED
  <2>1. Encode(payload)[1] = 0
    BY Image, Zenon
  <2>2. b[1] = Encode(payload)[1]
    OBVIOUS
  <2> QED
    BY <1>4, <1>5, <2>1, <2>2 DEF Announced, field

\* decode(encode(m)) is m, and decode leaves alone whatever follows it in the buffer.
THEOREM RoundTrip ==
  ASSUME NEW payload \in Seq(Byte), Len(payload) < LengthLimit,
         NEW more \in Seq(Byte)
  PROVE  Decode(Encode(payload) \o more) =
           Decoded(IF payload \in Undecodable THEN "undecodable" ELSE "message",
                   payload, more)
<1> DEFINE image == Encode(payload)
           b   == image \o more
           len   == Len(payload)
<1>1. /\ image \in Seq(Byte) /\ Len(image) = 5 + len /\ len \in Nat /\ Len(more) \in Nat
      /\ \A i \in 1 .. len : image[5 + i] = payload[i]
  <2>1. len \in Nat /\ Len(more) \in Nat
    OBVIOUS
  <2>2. /\ image \in Seq(Byte) /\ Len(image) = 5 + len
        /\ \A i \in 1 .. len : image[5 + i] = payload[i]
    BY Image, Zenon
  <2> QED
    BY <2>1, <2>2, Zenon
<1>2. HeaderSize = 5
  BY DEF HeaderSize, LengthSize
<1> HIDE DEF image
<1>3. /\ b \in Seq(Byte) /\ Len(b) = 5 + len + Len(more)
      /\ \A i \in 1 .. 5 + len : b[i] = image[i]
      /\ \A i \in 1 .. Len(more) : b[5 + len + i] = more[i]
  <2>1. /\ b \in Seq(Byte) /\ Len(b) = Len(image) + Len(more)
        /\ \A i \in 1 .. Len(image) : b[i] = image[i]
        /\ \A i \in 1 .. Len(more) : b[Len(image) + i] = more[i]
    BY <1>1, Concatenation, Zenon
  <2> QED
    BY <1>1, <2>1
<1> HIDE DEF b
<1>4. \A i \in 1 .. 5 : b[i] = image[i]
  BY <1>1, <1>3
<1>5. b[1] = 0 /\ Announced(b) = len
  <2>1. b \in Seq(Byte) /\ Len(b) >= 5
    BY <1>1, <1>3
  <2>2. \A i \in 1 .. 5 : b[i] = Encode(payload)[i]
    BY <1>4 DEF image
  <2> QED
    BY <2>1, <2>2, Announces, Zenon
<1>6. Payload(b, len) = payload
  <2>1. Payload(b, len) \in Seq(Byte) /\ Len(Payload(b, len)) = len
    BY <1>1, <1>2, <1>3 DEF Payload
  <2>2. \A i \in 1 .. len : Payload(b, len)[i] = payload[i]
    BY <1>1, <1>2, <1>3 DEF Payload
  <2> QED
    BY <2>1, <2>2
<1>7. Rest(b, len) = more
  <2>1. Rest(b, len) \in Seq(Byte) /\ Len(Rest(b, len)) = Len(more)
    BY <1>1, <1>2, <1>3 DEF Rest
  <2>2. \A i \in 1 .. Len(more) : Rest(b, len)[i] = more[i]
    BY <1>1, <1>2, <1>3 DEF Rest
  <2> QED
    BY <2>1, <2>2
<1>8. ~(Len(b) < HeaderSize) /\ ~(Len(b) < HeaderSize + Announced(b))
  BY <1>1, <1>2, <1>3, <1>5
<1> QED
  BY <1>5, <1>6, <1>7, <1>8 DEF Decode, b, image

\* As long as any byte of a message is missing, decode waits and leaves the buffer as
\* it is.
THEOREM NeverEarly ==
  ASSUME NEW payload \in Seq(Byte), Len(payload) < LengthLimit,
         NEW n \in 0 .. Len(Encode(payload)) - 1
  PROVE  LET b == SubSeq(Encode(payload), 1, n)
         IN  Decode(b) = Decoded("none", <<>>, b)
<1> DEFINE image == Encode(payload)
           b   == SubSeq(image, 1, n)
           len   == Len(payload)
<1>1. image \in Seq(Byte) /\ Len(image) = 5 + len /\ len \in Nat
  BY Image
<1>2. HeaderSize = 5 /\ n \in Nat /\ n < 5 + len
  BY <1>1 DEF HeaderSize, LengthSize
<1> HIDE DEF image
<1>3. /\ b \in Seq(Byte) /\ Len(b) = n
      /\ \A i \in 1 .. n : b[i] = image[i]
  BY <1>1, <1>2
<1> HIDE DEF b
<1>4. CASE n < 5
  BY <1>2, <1>3, <1>4 DEF Decode, b, image
<1>5. CASE n >= 5
  <2>1. b[1] = 0 /\ Announced(b) = len
    <3>1. b \in Seq(Byte) /\ Len(b) >= 5
      BY <1>2, <1>3, <1>5
    <3>2. \A i \in 1 .. 5 : b[i] = Encode(payload)[i]
      BY <1>2, <1>3, <1>5 DEF image
    <3> QED
      BY <3>1, <3>2, Announces, Zenon
  <2> QED
    BY <1>1, <1>2, <1>3, <1>5, <2>1 DEF Decode, b, image
<1> QED
  BY <1>2, <1>4, <1>5

-----------------------------------------------------------------------------
(* The messages among some frames: induction and recursion.                *)

\* The least element of a set of natural numbers, which is what there is of induction
\* without a predicate as a parameter.
LEMMA Least ==
  ASSUME NEW T, T \subseteq Nat, T # {}
  PROVE  \E x \in T : \A y \in T : x <= y
<1> DEFINE R == OpToRel(<, Nat)
<1>1. IsWellFoundedOn(R, Nat)
  BY NatLessThanWellFounded
<1>2. \A x, y \in Nat : <<x, y>> \in R <=> x < y
  BY DEF OpToRel
<1> HIDE DEF R
<1>3. PICK x \in T : \A y \in T : ~(<<y, x>> \in R)
  BY <1>1, WFMin
<1>4. \A y \in T : ~(y < x)
  BY <1>2, <1>3
<1>5. \A y \in T : x <= y
  BY <1>4
<1> QED
  BY <1>5

\* What holds of 0, and of n + 1 if of n, holds of every number up to m.
LEMMA UpTo ==
  ASSUME NEW m \in Nat, NEW S, 0 \in S,
         \A n \in 0 .. m - 1 : n \in S => n + 1 \in S
  PROVE  \A n \in 0 .. m : n \in S
<1> DEFINE T == (0 .. m) \ S
<1> SUFFICES ASSUME T # {} PROVE FALSE
  OBVIOUS
<1>1. PICK x \in T : \A y \in T : x <= y
  <2>1. T \subseteq Nat
    OBVIOUS
  <2> HIDE DEF T
  <2> QED
    BY <2>1, Least
<1>2. x # 0 /\ x - 1 \in 0 .. m - 1 /\ x = (x - 1) + 1
  BY <1>1
<1>3. x - 1 \in S
  BY <1>1, <1>2
<1> QED
  BY <1>1, <1>2, <1>3

\* The step of the recursion in MessagesOf, from the messages among fewer frames.
Among(fs, g, n) ==
  IF n = 0 THEN <<>>
  ELSE IF fs[n].kind = "message" THEN Append(g[n - 1], fs[n].payload)
  ELSE g[n - 1]

\* It has a solution up to every number of frames,
LEMMA Solvable ==
  ASSUME NEW fs, NEW m \in Nat
  PROVE  \E g : g = [n \in 0 .. m |-> Among(fs, g, n)]
<1> DEFINE Solved(k) == \E g : /\ g[0] = <<>>
                               /\ \A n \in 1 .. k : g[n] = Among(fs, g, n)
           S == {k \in 0 .. m : Solved(k)}
<1>1. 0 \in S
  <2> DEFINE g == [n \in {0} |-> <<>>]
  <2>1. g[0] = <<>>
    OBVIOUS
  <2> HIDE DEF g
  <2>2. Solved(0)
    BY <2>1
  <2> QED
    BY <2>2
<1>2. ASSUME NEW k \in 0 .. m - 1, k \in S
      PROVE  k + 1 \in S
  <2>1. PICK g : g[0] = <<>> /\ \A n \in 1 .. k : g[n] = Among(fs, g, n)
    BY <1>2
  <2> DEFINE h == [n \in 0 .. k + 1 |-> IF n = k + 1 THEN Among(fs, g, k + 1) ELSE g[n]]
  <2>2. h[0] = <<>>
    BY <2>1
  <2>3. ASSUME NEW n \in 1 .. k + 1 PROVE h[n] = Among(fs, h, n)
    <3>1. n # 0 /\ n - 1 \in 0 .. k /\ h[n - 1] = g[n - 1]
      OBVIOUS
    <3>2. h[n] = Among(fs, g, n)
      BY <2>1
    <3> HIDE DEF h
    <3> QED
      BY <3>1, <3>2 DEF Among
  <2> HIDE DEF h
  <2>4. Solved(k + 1)
    BY <2>2, <2>3
  <2> QED
    BY <2>4
<1> HIDE DEF S
<1>3. m \in S
  BY <1>1, <1>2, UpTo
<1>4. PICK g : g[0] = <<>> /\ \A n \in 1 .. m : g[n] = Among(fs, g, n)
  BY <1>3 DEF S
<1> DEFINE h == [n \in 0 .. m |-> g[n]]
<1>5. ASSUME NEW n \in 0 .. m PROVE h[n] = Among(fs, h, n)
  <2>1. CASE n = 0
    BY <1>4, <2>1 DEF Among
  <2>2. CASE n # 0
    <3>1. n - 1 \in 0 .. m /\ h[n - 1] = g[n - 1] /\ h[n] = g[n] /\ n \in 1 .. m
      BY <2>2
    <3> HIDE DEF h
    <3> QED
      BY <1>4, <2>2, <3>1 DEF Among
  <2> QED
    BY <2>1, <2>2
<1>6. h = [n \in 0 .. m |-> Among(fs, h, n)]
  <2>1. h = [n \in 0 .. m |-> h[n]]
    OBVIOUS
  <2> HIDE DEF h
  <2> QED
    BY <1>5, <2>1
<1> HIDE DEF h
<1> QED
  BY <1>6

\* and only one as far as the frames are the same.
LEMMA SolutionsAgree ==
  ASSUME NEW m \in Nat, NEW fs, NEW gs, \A n \in 1 .. m : fs[n] = gs[n],
         NEW g, \A n \in 0 .. m : g[n] = Among(fs, g, n),
         NEW h, \A n \in 0 .. m : h[n] = Among(gs, h, n)
  PROVE  g[m] = h[m]
<1> DEFINE S == {n \in 0 .. m : g[n] = h[n]}
<1>1. 0 \in S
  BY DEF Among
<1>2. ASSUME NEW n \in 0 .. m - 1, n \in S
      PROVE  n + 1 \in S
  <2>1. n + 1 \in 1 .. m /\ n + 1 # 0 /\ (n + 1) - 1 = n
    OBVIOUS
  <2> QED
    BY <1>2, <2>1 DEF Among
<1> HIDE DEF S
<1>3. m \in S
  BY <1>1, <1>2, UpTo
<1> QED
  BY <1>3 DEF S

\* What MessagesOf computes, without recursion.
LEMMA MessagesOfAppend ==
  ASSUME NEW F, NEW fs \in Seq(F), NEW f \in F
  PROVE  /\ MessagesOf(<<>>) = <<>>
         /\ MessagesOf(Append(fs, f)) =
              IF f.kind = "message" THEN Append(MessagesOf(fs), f.payload)
                                    ELSE MessagesOf(fs)
<1> DEFINE Sol(s) == CHOOSE g : g = [n \in 0 .. Len(s) |-> Among(s, g, n)]
<1>1. ASSUME NEW s, Len(s) \in Nat
      PROVE  /\ MessagesOf(s) = Sol(s)[Len(s)]
             /\ \A n \in 0 .. Len(s) : Sol(s)[n] = Among(s, Sol(s), n)
  <2>1. MessagesOf(s) = Sol(s)[Len(s)]
    BY Zenon DEF MessagesOf, Among
  <2>2. Sol(s) = [n \in 0 .. Len(s) |-> Among(s, Sol(s), n)]
    BY <1>1, Solvable, Zenon
  <2> QED
    BY <2>1, <2>2
<1> HIDE DEF Sol
<1>2. MessagesOf(<<>>) = <<>>
  <2>1. Len(<<>>) = 0
    OBVIOUS
  <2> QED
    BY <1>1, <2>1 DEF Among
<1> DEFINE m  == Len(fs)
           gs == Append(fs, f)
<1>3. m \in Nat /\ Len(gs) = m + 1 /\ gs[m + 1] = f /\ \A n \in 1 .. m : gs[n] = fs[n]
  OBVIOUS
<1> HIDE DEF m, gs
<1>4. /\ MessagesOf(fs) = Sol(fs)[m]
      /\ \A n \in 0 .. m : Sol(fs)[n] = Among(fs, Sol(fs), n)
  BY <1>1, <1>3 DEF m
<1>5. /\ MessagesOf(gs) = Sol(gs)[m + 1]
      /\ \A n \in 0 .. m + 1 : Sol(gs)[n] = Among(gs, Sol(gs), n)
  BY <1>1, <1>3
<1>6. Sol(gs)[m] = Sol(fs)[m]
  <2>1. \A n \in 0 .. m : Sol(gs)[n] = Among(gs, Sol(gs), n)
    BY <1>3, <1>5
  <2>2. \A n \in 1 .. m : fs[n] = gs[n]
    BY <1>3
  <2> DEFINE g == Sol(fs)
             h == Sol(gs)
  <2>3. /\ \A n \in 0 .. m : g[n] = Among(fs, g, n)
        /\ \A n \in 0 .. m : h[n] = Among(gs, h, n)
    BY <1>4, <2>1
  <2> HIDE DEF g, h
  <2>4. g[m] = h[m]
    BY <1>3, <2>2, <2>3, SolutionsAgree
  <2> QED
    BY <2>4 DEF g, h
<1>7. Sol(gs)[m + 1] = Among(gs, Sol(gs), m + 1) /\ m + 1 # 0 /\ (m + 1) - 1 = m
  BY <1>3, <1>5
<1> QED
  BY <1>2, <1>3, <1>4, <1>5, <1>6, <1>7 DEF Among, gs

-----------------------------------------------------------------------------
(* The inductive invariant of ByteStream.                                  *)

Sent == [kind: {"message", "undecodable", "compressed"}, payload: Seq(Byte), end: Nat]

\* The bytes of a frame.
Form(f) ==
  IF f.kind = "compressed" THEN [Encode(f.payload) EXCEPT ![1] = 1] ELSE Encode(f.payload)

\* Where the i-th frame begins.
StartOf(i) == IF i = 1 THEN 0 ELSE frames[i - 1].end

\* The bytes are those of the frames, one after the other.
FrameLies(i) ==
  /\ frames[i].end = StartOf(i) + (5 + Len(frames[i].payload))
  /\ frames[i].end <= Len(bytes)
  /\ \A k \in 1 .. 5 + Len(frames[i].payload) : bytes[StartOf(i) + k] = Form(frames[i])[k]
  /\ frames[i].kind # "compressed" =>
       (frames[i].kind = "undecodable" <=> frames[i].payload \in Undecodable)

FramesInv ==
  /\ frames \in Seq(Sent)
  /\ bytes \in Seq(Byte)
  /\ received \in 0 .. Len(bytes)
  /\ Len(bytes) = StartOf(Len(frames) + 1)
  /\ \A i \in 1 .. Len(frames) : FrameLies(i)

\* The bytes that have arrived after the frames taken.
Waiting == SubSeq(bytes, StartOf(taken + 1) + 1, received)

\* As long as decode can tell the lengths, it has stopped at the end of a frame that
\* has arrived.
BufInv ==
  LengthsFit =>
    /\ taken \in 0 .. Len(frames)
    /\ StartOf(taken + 1) <= received
    /\ buf = Waiting
    /\ decoded = MessagesOf(SubSeq(frames, 1, taken))

StreamInv == FramesInv /\ BufInv

-----------------------------------------------------------------------------
(* What the invariant says of buf.                                         *)

\* A frame is as long as its prefix and its payload, and begins with its flag.
LEMMA FormOf ==
  ASSUME NEW f \in Sent
  PROVE  /\ Form(f) \in Seq(Byte)
         /\ Len(Form(f)) = 5 + Len(f.payload)
         /\ f.kind = "compressed" => Form(f)[1] = 1
<1>1. f.payload \in Seq(Byte) /\ Len(f.payload) \in Nat
  BY DEF Sent
<1> DEFINE e == Encode(f.payload)
<1>2. e \in Seq(Byte) /\ Len(e) = 5 + Len(f.payload)
  BY <1>1, Image, Zenon
<1> HIDE DEF e
<1>3. CASE f.kind # "compressed"
  BY <1>2, <1>3 DEF Form, e
<1>4. CASE f.kind = "compressed"
  <2>1. 1 \in Byte /\ 1 \in 1 .. Len(e)
    BY <1>1, <1>2, CodecAssumption DEF Byte
  <2>2. [e EXCEPT ![1] = 1] \in Seq(Byte)
    BY <1>2, <2>1, ExceptSeq
  <2>3. Len([e EXCEPT ![1] = 1]) = Len(e) /\ [e EXCEPT ![1] = 1][1] = 1
    BY <1>2, <2>1, ExceptSeq
  <2>4. Form(f) = [e EXCEPT ![1] = 1]
    BY <1>4, Zenon DEF Form, e
  <2> QED
    BY <1>2, <2>2, <2>3, <2>4
<1> QED
  BY <1>3, <1>4

\* A frame begins where the one before it ends.
LEMMA Starts ==
  ASSUME FramesInv
  PROVE  /\ Len(frames) \in Nat /\ Len(bytes) \in Nat /\ received \in Nat
         /\ \A i \in 1 .. Len(frames) :
              /\ frames[i] \in Sent /\ frames[i].end \in Nat
              /\ frames[i].payload \in Seq(Byte) /\ Len(frames[i].payload) \in Nat
              /\ StartOf(i + 1) = frames[i].end
         /\ \A i \in 1 .. Len(frames) + 1 : StartOf(i) \in Nat
<1>1. Len(frames) \in Nat /\ Len(bytes) \in Nat /\ received \in Nat
  BY DEF FramesInv
<1>2. ASSUME NEW i \in 1 .. Len(frames)
      PROVE  /\ frames[i] \in Sent /\ frames[i].end \in Nat
             /\ frames[i].payload \in Seq(Byte) /\ Len(frames[i].payload) \in Nat
             /\ StartOf(i + 1) = frames[i].end
  <2>1. frames[i] \in Sent
    BY DEF FramesInv
  <2>2. StartOf(i + 1) = frames[i].end
    BY DEF StartOf
  <2> QED
    BY <2>1, <2>2 DEF Sent
<1>3. ASSUME NEW i \in 1 .. Len(frames) + 1 PROVE StartOf(i) \in Nat
  <2>1. CASE i = 1
    BY <2>1 DEF StartOf
  <2>2. CASE i # 1
    <3>1. i - 1 \in 1 .. Len(frames) /\ (i - 1) + 1 = i
      BY <1>1, <2>2
    <3> QED
      BY <1>2, <3>1
  <2> QED
    BY <2>1, <2>2
<1> QED
  BY <1>1, <1>2, <1>3

\* The offset where Streaming's buf begins.
LEMMA ConsumedIs ==
  ASSUME FramesInv, taken \in 0 .. Len(frames)
  PROVE  Offsets!Consumed = StartOf(taken + 1)
<1>1. CASE taken = 0
  BY <1>1 DEF Offsets!Consumed, StartOf
<1>2. CASE taken # 0
  <2>1. taken \in 1 .. Len(frames) /\ DOMAIN frames = 1 .. Len(frames)
    BY <1>2 DEF FramesInv
  <2>2. Offsets!Consumed = frames[taken].end
    BY <1>2, <2>1 DEF Offsets!Consumed
  <2> QED
    BY <2>1, <2>2, Starts
<1> QED
  BY <1>1, <1>2

\* What lies between two offsets.
LEMMA Slice ==
  ASSUME NEW s \in Seq(Byte), NEW m \in Nat, NEW n \in m .. Len(s)
  PROVE  /\ SubSeq(s, m + 1, n) \in Seq(Byte)
         /\ Len(SubSeq(s, m + 1, n)) = n - m
         /\ \A k \in 1 .. n - m : SubSeq(s, m + 1, n)[k] = s[m + k]
<1>1. \A k \in m + 1 .. n : s[k] \in Byte
  OBVIOUS
<1>2. SubSeq(s, m + 1, n) \in Seq(Byte)
  BY <1>1, SubSeqProperties
<1>3. Len(SubSeq(s, m + 1, n)) = n - m
  OBVIOUS
<1>4. \A k \in 1 .. n - m : SubSeq(s, m + 1, n)[k] = s[m + k]
  OBVIOUS
<1> QED
  BY <1>2, <1>3, <1>4

\* If buf is what follows the frames taken, decode finds the next frame in it as soon
\* as that frame is whole, and Streaming's Decode says so.
LEMMA Decoding ==
  ASSUME FramesInv, BufInv, LengthsFit
  PROVE  /\ Decode(buf).kind = Offsets!Decode(received)
         /\ Decode(buf).kind \in {"message", "undecodable"} =>
              /\ taken < Len(frames)
              /\ frames[taken + 1].end <= received
              /\ Decode(buf) =
                   Decoded(frames[taken + 1].kind, frames[taken + 1].payload,
                           SubSeq(bytes, frames[taken + 1].end + 1, received))
<1> DEFINE s == StartOf(taken + 1)
           f == frames[taken + 1]
           l == Len(f.payload)
<1>1. /\ taken \in 0 .. Len(frames) /\ s \in Nat /\ s <= received
      /\ received \in Nat /\ Len(bytes) \in Nat /\ received <= Len(bytes)
      /\ bytes \in Seq(Byte) /\ Len(frames) \in Nat
  BY Starts DEF FramesInv, BufInv
<1>2. Offsets!Consumed = s
  BY <1>1, ConsumedIs
<1>3. HeaderSize = 5
  BY DEF HeaderSize, LengthSize
<1>4. /\ buf \in Seq(Byte) /\ Len(buf) = received - s
      /\ \A k \in 1 .. received - s : buf[k] = bytes[s + k]
  <2> HIDE DEF s
  <2>1. buf = SubSeq(bytes, s + 1, received)
    BY Zenon DEF BufInv, Waiting, s
  <2>2. s \in Nat /\ received \in s .. Len(bytes)
    BY <1>1
  <2>3. /\ SubSeq(bytes, s + 1, received) \in Seq(Byte)
        /\ Len(SubSeq(bytes, s + 1, received)) = received - s
        /\ \A k \in 1 .. received - s : SubSeq(bytes, s + 1, received)[k] = bytes[s + k]
    BY <1>1, <2>2, Slice, Zenon
  <2> QED
    BY <2>1, <2>3, Zenon
<1>5. Len(buf) = received - s
  BY <1>4
<1>6. CASE taken = Len(frames)
  <2>1. received - s = 0
    BY <1>1, <1>6 DEF FramesInv
  <2>2. Offsets!Decode(received) = "none"
    BY <1>2, <1>3, <2>1 DEF Offsets!Decode
  <2>3. Decode(buf) = Decoded("none", <<>>, buf)
    BY <1>3, <1>4, <2>1 DEF Decode
  <2> QED
    BY <2>2, <2>3 DEF Decoded
<1>7. CASE taken < Len(frames)
  <2>1. /\ taken + 1 \in 1 .. Len(frames) /\ DOMAIN frames = 1 .. Len(frames)
        /\ f \in Sent /\ f.end \in Nat /\ f.payload \in Seq(Byte) /\ l \in Nat
        /\ l < LengthLimit
    BY <1>1, <1>7, Starts DEF LengthsFit, FramesInv
  <2>2. /\ f.end = s + (5 + l) /\ f.end <= Len(bytes)
        /\ \A k \in 1 .. 5 + l : bytes[s + k] = Form(f)[k]
        /\ f.kind # "compressed" => (f.kind = "undecodable" <=> f.payload \in Undecodable)
    BY <2>1 DEF FramesInv, FrameLies
  <2>3. Offsets!Decode(received) =
          IF received - s < 5 \/ (f.kind # "compressed" /\ received < f.end)
          THEN "none" ELSE f.kind
    BY <1>2, <1>3, <2>1 DEF Offsets!Decode
  <2>4. /\ Form(f) \in Seq(Byte) /\ Len(Form(f)) = 5 + l
        /\ f.kind = "compressed" => Form(f)[1] = 1
    BY <2>1, FormOf, Zenon
  <2> HIDE DEF s, f, l
  <2>5. CASE received - s < 5
    <3>1. Decode(buf) = Decoded("none", <<>>, buf)
      BY <1>3, <1>4, <2>5 DEF Decode
    <3>2. Offsets!Decode(received) = "none"
      BY <2>3, <2>5
    <3> QED
      BY <3>1, <3>2 DEF Decoded
  <2>6. CASE received - s >= 5 /\ f.kind = "compressed"
    <3>1. buf[1] = 1
      <4>1. 1 \in 1 .. received - s /\ 1 \in 1 .. 5 + l
        BY <1>1, <2>1, <2>6
      <4> QED
        BY <1>4, <2>2, <2>4, <2>6, <4>1
    <3>2. ~(Len(buf) < HeaderSize) /\ buf[1] # 0
      BY <1>1, <1>3, <1>5, <2>6, <3>1
    <3>3. Decode(buf) = Decoded("compressed", <<>>, buf)
      BY <3>2, Zenon DEF Decode
    <3>4. Offsets!Decode(received) = "compressed"
      BY <1>1, <2>3, <2>6
    <3> QED
      BY <3>3, <3>4 DEF Decoded
  <2>7. CASE received - s >= 5 /\ f.kind # "compressed" /\ received < f.end
    <3> DEFINE e == Encode(f.payload)
               n == received - s
    <3>1. e = Form(f)
      BY <2>7, Zenon DEF Form
    <3> HIDE DEF e
    <3>2. e \in Seq(Byte) /\ Len(e) = 5 + l /\ n \in 0 .. Len(e) - 1
      BY <1>1, <2>1, <2>2, <2>4, <2>7, <3>1
    <3>3. \A k \in 1 .. n : buf[k] = e[k]
      <4>1. ASSUME NEW k \in 1 .. n
            PROVE  k \in 1 .. received - s /\ k \in 1 .. 5 + l
        BY <1>1, <2>1, <3>2
      <4> QED
        BY <1>4, <2>2, <3>1, <4>1
    <3>4. buf = SubSeq(e, 1, n)
      <4>1. SubSeq(e, 1, n) \in Seq(Byte) /\ Len(SubSeq(e, 1, n)) = n
        BY <3>2
      <4>2. \A k \in 1 .. n : SubSeq(e, 1, n)[k] = e[k]
        BY <3>2
      <4> HIDE DEF n
      <4> QED
        BY <1>4, <3>2, <3>3, <4>1, <4>2 DEF n
    <3> HIDE DEF n
    <3>5. n \in 0 .. Len(Encode(f.payload)) - 1 /\ Len(f.payload) < LengthLimit
      BY <2>1, <3>2 DEF e, l
    <3>6. Decode(buf) = Decoded("none", <<>>, buf)
      BY <2>1, <3>4, <3>5, NeverEarly, Zenon DEF e
    <3>7. Offsets!Decode(received) = "none"
      BY <2>3, <2>7
    <3> QED
      BY <3>6, <3>7 DEF Decoded
  <2>8. CASE received - s >= 5 /\ f.kind # "compressed" /\ received >= f.end
    <3> DEFINE e    == Encode(f.payload)
               more == SubSeq(bytes, f.end + 1, received)
               m    == received - f.end
    <3>1. e = Form(f)
      BY <2>8, Zenon DEF Form
    <3> HIDE DEF e
    <3>2. e \in Seq(Byte) /\ Len(e) = 5 + l /\ m \in Nat /\ f.end \in Nat
      BY <1>1, <2>1, <2>4, <2>8, <3>1
    <3>3. /\ more \in Seq(Byte) /\ Len(more) = m
          /\ \A k \in 1 .. m : more[k] = bytes[f.end + k]
      <4>1. f.end \in Nat /\ received \in f.end .. Len(bytes)
        BY <1>1, <2>8, <3>2
      <4> QED
        BY <1>1, <4>1, Slice, Zenon
    <3> HIDE DEF more
    <3>4. /\ e \o more \in Seq(Byte) /\ Len(e \o more) = Len(e) + Len(more)
          /\ \A k \in 1 .. Len(e) : (e \o more)[k] = e[k]
          /\ \A k \in 1 .. Len(more) : (e \o more)[Len(e) + k] = more[k]
      BY <3>2, <3>3, Concatenation, Zenon
    <3>5. buf = e \o more
      <4> DEFINE c == e \o more
      <4>1. c \in Seq(Byte) /\ Len(c) = Len(buf)
        <5>1. Len(buf) = (5 + l) + m
          <6>1. received \in Nat /\ s \in Nat /\ l \in Nat /\ f.end = s + (5 + l)
            BY <1>1, <2>1, <2>2
          <6> QED
            BY <1>5, <6>1
        <5> HIDE DEF m
        <5> QED
          BY <3>2, <3>3, <3>4, <5>1
      <4>2. ASSUME NEW k \in 1 .. Len(buf) PROVE buf[k] = c[k]
        <5>0. k \in 1 .. received - s /\ buf[k] = bytes[s + k]
          BY <1>1, <1>4
        <5>1. CASE k <= 5 + l
          <6>1. k \in 1 .. 5 + l
            BY <2>1, <5>0, <5>1
          <6> QED
            BY <2>2, <3>1, <3>2, <3>4, <5>0, <6>1
        <5>2. CASE k > 5 + l
          <6> DEFINE j == k - (5 + l)
          <6>1. j \in 1 .. m /\ k = Len(e) + j /\ s + k = f.end + j
            BY <1>1, <2>1, <2>2, <3>2, <5>0, <5>2
          <6> HIDE DEF j, m
          <6> QED
            BY <3>3, <3>4, <5>0, <6>1
        <5>3. k <= 5 + l \/ k > 5 + l
          BY <1>1, <2>1, <5>0
        <5> HIDE DEF c
        <5> QED
          BY <5>1, <5>2, <5>3, Zenon
      <4> HIDE DEF c
      <4>3. buf = c
        <5>1. buf \in Seq(Byte)
          BY <1>4
        <5> QED
          BY <4>1, <4>2, <5>1, SeqEqual, Zenon
      <4> QED
        BY <4>3 DEF c
    <3>6. Decode(buf) = Decoded(IF f.payload \in Undecodable THEN "undecodable"
                                ELSE "message", f.payload, more)
      BY <2>1, <3>3, <3>5, RoundTrip, Zenon DEF e, l
    <3>7. f.kind = IF f.payload \in Undecodable THEN "undecodable" ELSE "message"
      BY <2>1, <2>2, <2>8 DEF Sent
    <3>8. Offsets!Decode(received) = f.kind
      BY <1>1, <2>1, <2>3, <2>8
    <3>9. Decode(buf) = Decoded(f.kind, f.payload, more)
      BY <3>6, <3>7, Zenon
    <3> QED
      BY <1>7, <2>8, <3>2, <3>8, <3>9 DEF Decoded, f, more
  <2> QED
    BY <1>1, <2>1, <2>5, <2>6, <2>7, <2>8
<1> QED
  BY <1>1, <1>6, <1>7

-----------------------------------------------------------------------------
(* The invariant is inductive.                                             *)

LEMMA StreamInit == Init => StreamInv
<1> SUFFICES ASSUME Init PROVE StreamInv
  OBVIOUS
<1>1. FramesInv
  BY DEF Init, FramesInv, StartOf
<1>2. StartOf(taken + 1) = 0
  BY DEF Init, StartOf
<1>3. Waiting = <<>> /\ SubSeq(frames, 1, taken) = <<>>
  BY <1>2 DEF Init, Waiting
<1>4. MessagesOf(<<>>) = <<>>
  <2>1. <<>> \in Seq({[kind |-> "message"]})
    OBVIOUS
  <2> QED
    BY <2>1, MessagesOfAppend, Zenon
<1>5. decoded = MessagesOf(SubSeq(frames, 1, taken))
  BY <1>3, <1>4, Zenon DEF Init
<1>6. taken \in 0 .. Len(frames) /\ StartOf(taken + 1) <= received /\ buf = Waiting
  BY <1>2, <1>3 DEF Init
<1> QED
  BY <1>1, <1>5, <1>6 DEF StreamInv, BufInv

\* A frame put on the stream, in terms of the invariant.
Added(f) ==
  /\ frames' = Append(frames, f)
  /\ bytes' = bytes \o Form(f)
  /\ f.end = Len(bytes')
  /\ f.kind # "compressed" => (f.kind = "undecodable" <=> f.payload \in Undecodable)
  /\ UNCHANGED <<received, buf, taken, decoded>>

LEMMA Sends ==
  ASSUME FramesInv, NEW payload \in Payloads,
         Send(payload) \/ SendCompressed(payload)
  PROVE  \E f \in Sent : Added(f)
<1>1. payload \in Seq(Byte) /\ bytes \in Seq(Byte)
  BY ByteStreamAssumption DEF FramesInv
<1> DEFINE kind == IF payload \in Undecodable THEN "undecodable" ELSE "message"
           f(k) == [kind |-> k, payload |-> payload, end |-> Len(bytes')]
<1>2. ASSUME NEW k \in {"message", "undecodable", "compressed"},
             bytes' = bytes \o Form(f(k))
      PROVE  f(k) \in Sent
  <2>1. [kind |-> k, payload |-> payload, end |-> 0] \in Sent
    BY <1>1 DEF Sent
  <2>2. Form(f(k)) = Form([kind |-> k, payload |-> payload, end |-> 0])
    BY DEF Form
  <2>3. Form(f(k)) \in Seq(Byte)
    BY <2>1, <2>2, FormOf
  <2>4. bytes' \in Seq(Byte)
    BY <1>1, <1>2, <2>3, Concatenation, Zenon
  <2>5. Len(bytes') \in Nat
    BY <2>4
  <2> QED
    BY <1>1, <2>5 DEF Sent
<1>3. CASE Send(payload)
  <2>1. Form(f(kind)) = Encode(payload)
    BY DEF Form
  <2>2. bytes' = bytes \o Form(f(kind)) /\ frames' = Append(frames, f(kind))
    BY <1>3, <2>1 DEF Send, Put
  <2>3. f(kind) \in Sent
    BY <1>2, <2>2
  <2>4. Added(f(kind))
    BY <1>3, <2>2 DEF Added, Send, Put
  <2> QED
    BY <2>3, <2>4
<1>4. CASE SendCompressed(payload)
  <2>1. Form(f("compressed")) = [Encode(payload) EXCEPT ![1] = 1]
    BY DEF Form
  <2>2. bytes' = bytes \o Form(f("compressed")) /\ frames' = Append(frames, f("compressed"))
    BY <1>4, <2>1 DEF SendCompressed, Put
  <2>3. f("compressed") \in Sent
    BY <1>2, <2>2
  <2>4. Added(f("compressed"))
    BY <1>4, <2>2 DEF Added, SendCompressed, Put
  <2> QED
    BY <2>3, <2>4
<1> QED
  BY <1>3, <1>4

\* A frame more lies after all others, which stay where they are.
LEMMA AddedFrame ==
  ASSUME StreamInv, NEW f \in Sent, Added(f)
  PROVE  StreamInv'
<1>0. PICK n \in Nat : n = Len(frames)
  BY DEF StreamInv, FramesInv
<1>1. /\ n \in Nat /\ frames \in Seq(Sent) /\ bytes \in Seq(Byte) /\ Len(bytes) \in Nat
      /\ received \in 0 .. Len(bytes)
      /\ \A i \in 1 .. n + 1 : StartOf(i) \in Nat
      /\ Len(bytes) = StartOf(n + 1)
  BY <1>0, Starts DEF StreamInv, FramesInv
<1>2. /\ frames' \in Seq(Sent) /\ Len(frames') = n + 1 /\ frames'[n + 1] = f
      /\ \A i \in 1 .. n : frames'[i] = frames[i]
  BY <1>0, <1>1 DEF Added
<1>3. /\ Form(f) \in Seq(Byte) /\ Len(Form(f)) = 5 + Len(f.payload)
      /\ Len(f.payload) \in Nat
  <2>1. Form(f) \in Seq(Byte) /\ Len(Form(f)) = 5 + Len(f.payload)
    BY FormOf, Zenon
  <2> QED
    BY <2>1 DEF Sent
<1>4. /\ bytes' \in Seq(Byte) /\ Len(bytes') = Len(bytes) + Len(Form(f))
      /\ \A k \in 1 .. Len(bytes) : bytes'[k] = bytes[k]
      /\ \A k \in 1 .. Len(Form(f)) : bytes'[Len(bytes) + k] = Form(f)[k]
  <2> DEFINE g == Form(f)
  <2>1. g \in Seq(Byte) /\ bytes \in Seq(Byte) /\ bytes' = bytes \o g
    BY <1>1, <1>3 DEF Added
  <2> HIDE DEF g
  <2>2. /\ bytes \o g \in Seq(Byte) /\ Len(bytes \o g) = Len(bytes) + Len(g)
        /\ \A k \in 1 .. Len(bytes) : (bytes \o g)[k] = bytes[k]
        /\ \A k \in 1 .. Len(g) : (bytes \o g)[Len(bytes) + k] = g[k]
    BY <2>1, Concatenation, Zenon
  <2> QED
    BY <2>1, <2>2, Zenon DEF g
<1>5. received' = received /\ buf' = buf /\ taken' = taken /\ decoded' = decoded
  BY DEF Added
<1>6. ASSUME NEW i \in 1 .. n + 1 PROVE StartOf(i)' = StartOf(i)
  BY <1>1, <1>2 DEF StartOf
<1>7. StartOf(n + 2)' = Len(bytes')
  <2>1. n + 2 # 1 /\ (n + 2) - 1 = n + 1
    BY <1>1
  <2> QED
    BY <1>2, <2>1 DEF StartOf, Added
<1>8. ASSUME NEW i \in 1 .. n PROVE FrameLies(i)'
  <2> DEFINE l == 5 + Len(frames[i].payload)
  <2>0. i \in 1 .. n + 1
    BY <1>1
  <2>1. frames'[i] = frames[i] /\ StartOf(i)' = StartOf(i)
    BY <1>2, <1>6, <2>0, Zenon
  <2>2. /\ frames[i].end = StartOf(i) + l /\ frames[i].end <= Len(bytes)
        /\ \A k \in 1 .. l : bytes[StartOf(i) + k] = Form(frames[i])[k]
        /\ frames[i].kind # "compressed" =>
             (frames[i].kind = "undecodable" <=> frames[i].payload \in Undecodable)
    BY <1>0 DEF StreamInv, FramesInv, FrameLies
  <2>3. StartOf(i) \in Nat /\ l \in Nat
    BY <1>0, <1>1, Starts DEF StreamInv
  <2> HIDE DEF l
  <2>4. ASSUME NEW k \in 1 .. l
        PROVE  bytes'[StartOf(i) + k] = Form(frames[i])[k]
    <3>1. StartOf(i) + k \in 1 .. Len(bytes)
      BY <1>1, <2>2, <2>3
    <3> QED
      BY <1>4, <2>2, <3>1
  <2>5. frames[i].end <= Len(bytes')
    <3>1. frames[i].end \in Nat
      BY <2>2, <2>3
    <3>2. Len(bytes') = Len(bytes) + (5 + Len(f.payload))
      BY <1>3, <1>4, Zenon
    <3> QED
      BY <1>1, <1>3, <2>2, <3>1, <3>2
  <2>6. Form(frames[i])' = Form(frames'[i])
    BY DEF Form
  <2> QED
    BY <2>1, <2>2, <2>4, <2>5 DEF FrameLies, Form, l
<1>9. FrameLies(n + 1)'
  <2>0. n + 1 \in 1 .. n + 1
    BY <1>1
  <2>1. StartOf(n + 1)' = Len(bytes)
    BY <1>1, <1>6, <2>0, Zenon
  <2>2. f.end = Len(bytes) + (5 + Len(f.payload)) /\ f.end <= Len(bytes')
    BY <1>1, <1>3, <1>4 DEF Added
  <2>3. \A k \in 1 .. 5 + Len(f.payload) : bytes'[Len(bytes) + k] = Form(f)[k]
    BY <1>3, <1>4, Zenon
  <2> QED
    BY <1>2, <2>1, <2>2, <2>3 DEF FrameLies, Form, Added
<1>10. FramesInv'
  <2>1. received' \in 0 .. Len(bytes')
    BY <1>1, <1>3, <1>4, <1>5
  <2>2. \A i \in 1 .. Len(frames') : FrameLies(i)'
    <3>1. \A i \in 1 .. Len(frames') : i \in 1 .. n \/ i = n + 1
      BY <1>1, <1>2
    <3> QED
      BY <1>8, <1>9, <3>1
  <2>3. Len(frames') + 1 = n + 2
    BY <1>1, <1>2
  <2> QED
    BY <1>2, <1>4, <1>7, <2>1, <2>2, <2>3 DEF FramesInv
<1>11. BufInv'
  <2> SUFFICES ASSUME LengthsFit'
               PROVE  /\ taken \in 0 .. Len(frames')
                      /\ StartOf(taken + 1)' <= received
                      /\ buf = Waiting'
                      /\ decoded = MessagesOf(SubSeq(frames', 1, taken))
    BY <1>5 DEF BufInv
  <2>1. LengthsFit
    <3>1. DOMAIN frames = 1 .. n /\ DOMAIN frames' = 1 .. n + 1
      BY <1>0, <1>1, <1>2
    <3>2. ASSUME NEW i \in 1 .. n PROVE Len(frames[i].payload) < LengthLimit
      <4>1. i \in 1 .. n + 1 /\ frames'[i] = frames[i]
        BY <1>1, <1>2
      <4> QED
        BY <3>1, <4>1, Zenon DEF LengthsFit
    <3> QED
      BY <3>1, <3>2 DEF LengthsFit
  <2>2. /\ taken \in 0 .. n /\ StartOf(taken + 1) <= received /\ buf = Waiting
        /\ decoded = MessagesOf(SubSeq(frames, 1, taken))
    BY <1>0, <2>1 DEF StreamInv, BufInv
  <2>3. StartOf(taken + 1)' = StartOf(taken + 1)
    <3>1. taken + 1 \in 1 .. n + 1
      BY <1>1, <2>2
    <3> QED
      BY <1>2, <1>5, <2>2 DEF StartOf
  <2>4. SubSeq(frames', 1, taken) = SubSeq(frames, 1, taken)
    BY <1>0, <1>1, <1>2, <2>2
  <2>5. Waiting' = Waiting
    <3> DEFINE s == StartOf(taken + 1)
    <3>1. s \in Nat /\ s <= received /\ received \in Nat /\ received <= Len(bytes)
      BY <1>1, <2>2
    <3> HIDE DEF s
    <3>2. SubSeq(bytes', s + 1, received) = SubSeq(bytes, s + 1, received)
      BY <1>1, <1>4, <3>1
    <3>3. Waiting' = SubSeq(bytes', s + 1, received)
      BY <1>5, <2>3, Zenon DEF Waiting, s
    <3> QED
      BY <3>2, <3>3, Zenon DEF Waiting, s
  <2> QED
    <3>1. taken \in 0 .. Len(frames')
      BY <1>1, <1>2, <2>2
    <3> QED
      BY <2>2, <2>3, <2>4, <2>5, <3>1, Zenon
<1> QED
  BY <1>10, <1>11 DEF StreamInv

\* More bytes arrive after those in buf.
LEMMA Receives ==
  ASSUME StreamInv, NEW n \in 1 .. MaxChunk, Receive(n)
  PROVE  StreamInv'
<1>1. /\ frames' = frames /\ bytes' = bytes /\ taken' = taken /\ decoded' = decoded
      /\ received' = received + n /\ received + n <= Len(bytes) /\ n \in Nat
  <2>1. n \in Nat
    BY ByteStreamAssumption
  <2> QED
    BY <2>1, Zenon DEF Receive
<1>2. FramesInv'
  <2>1. received' \in 0 .. Len(bytes)
    BY <1>1 DEF StreamInv, FramesInv
  <2>2. \A i : FrameLies(i)' <=> FrameLies(i)
    BY <1>1, Zenon DEF FrameLies, StartOf, Form
  <2>3. StartOf(Len(frames) + 1)' = StartOf(Len(frames) + 1)
    BY <1>1, Zenon DEF StartOf
  <2> QED
    BY <1>1, <2>1, <2>2, <2>3 DEF StreamInv, FramesInv
<1>3. BufInv'
  <2> SUFFICES ASSUME LengthsFit'
               PROVE  /\ taken \in 0 .. Len(frames)
                      /\ StartOf(taken + 1)' <= received'
                      /\ buf' = Waiting'
                      /\ decoded = MessagesOf(SubSeq(frames, 1, taken))
    BY <1>1 DEF BufInv
  <2>1. LengthsFit
    BY <1>1 DEF LengthsFit
  <2>2. /\ taken \in 0 .. Len(frames) /\ StartOf(taken + 1) <= received /\ buf = Waiting
        /\ decoded = MessagesOf(SubSeq(frames, 1, taken))
    BY <2>1 DEF StreamInv, BufInv
  <2> DEFINE s == StartOf(taken + 1)
  <2>3. s' = s
    BY <1>1 DEF StartOf
  <2>4. s \in Nat /\ s <= received /\ received \in Nat
    BY <2>2, Starts DEF StreamInv
  <2>5. bytes \in Seq(Byte)
    BY DEF StreamInv, FramesInv
  <2> HIDE DEF s
  <2>6. s <= received'
    BY <1>1, <2>4
  <2>7. buf' = SubSeq(bytes, s + 1, received + n)
    <3>1. buf = SubSeq(bytes, s + 1, received)
      BY <2>2 DEF Waiting, s
    <3>2. buf' = buf \o SubSeq(bytes, received + 1, received + n)
      BY DEF Receive
    <3>3. /\ s + 1 \in 1 .. Len(bytes) + 1
          /\ received \in (s + 1) - 1 .. Len(bytes)
          /\ received + n \in received .. Len(bytes)
      BY <1>1, <2>4, <2>5
    <3> QED
      BY <2>5, <3>1, <3>2, <3>3, ConcatAdjacentSubSeq, Zenon
  <2>8. buf' = Waiting'
    BY <1>1, <2>3, <2>7 DEF Waiting, s
  <2> QED
    BY <2>2, <2>3, <2>6, <2>8 DEF s
<1> QED
  BY <1>2, <1>3 DEF StreamInv

\* decode takes the frame after those taken.
LEMMA Takes ==
  ASSUME StreamInv, Take
  PROVE  StreamInv'
<1>1. /\ frames' = frames /\ bytes' = bytes /\ received' = received /\ taken' = taken + 1
      /\ Decode(buf).kind \in {"message", "undecodable"}
      /\ buf' = Decode(buf).rest
      /\ decoded' = IF Decode(buf).kind = "message"
                    THEN Append(decoded, Decode(buf).payload) ELSE decoded
  BY DEF Take
<1>2. FramesInv'
  <2>1. received' \in 0 .. Len(bytes)
    BY <1>1 DEF StreamInv, FramesInv
  <2>2. \A i : FrameLies(i)' <=> FrameLies(i)
    BY <1>1, Zenon DEF FrameLies, StartOf, Form
  <2>3. StartOf(Len(frames) + 1)' = StartOf(Len(frames) + 1)
    BY <1>1, Zenon DEF StartOf
  <2> QED
    BY <1>1, <2>1, <2>2, <2>3 DEF StreamInv, FramesInv
<1>3. BufInv'
  <2> SUFFICES ASSUME LengthsFit'
               PROVE  /\ taken + 1 \in 0 .. Len(frames)
                      /\ StartOf(taken + 1)' <= received
                      /\ buf' = Waiting'
                      /\ decoded' = MessagesOf(SubSeq(frames, 1, taken + 1))
    BY <1>1 DEF BufInv
  <2>1. LengthsFit
    BY <1>1 DEF LengthsFit
  <2>2. /\ taken \in 0 .. Len(frames)
        /\ decoded = MessagesOf(SubSeq(frames, 1, taken))
        /\ frames \in Seq(Sent)
    BY <2>1 DEF StreamInv, BufInv, FramesInv
  <2> DEFINE f == frames[taken + 1]
  <2>3. /\ taken < Len(frames) /\ f.end <= received
        /\ Decode(buf) = Decoded(f.kind, f.payload, SubSeq(bytes, f.end + 1, received))
    BY <1>1, <2>1, Decoding DEF StreamInv
  <2>4. taken + 1 \in 1 .. Len(frames) /\ taken \in Nat /\ Len(frames) \in Nat
    BY <2>2, <2>3
  <2>5. StartOf(taken + 1)' = f.end
    <3>1. taken' + 1 # 1 /\ (taken' + 1) - 1 = taken + 1
      BY <1>1, <2>4
    <3> QED
      BY <1>1, <3>1, Zenon DEF StartOf
  <2>6. buf' = Waiting'
    <3>1. buf' = SubSeq(bytes, f.end + 1, received)
      <4> DEFINE more == SubSeq(bytes, f.end + 1, received)
      <4> HIDE DEF more
      <4>1. Decode(buf) = Decoded(f.kind, f.payload, more)
        BY <2>3, Zenon DEF more
      <4>2. buf' = more
        BY <1>1, <4>1 DEF Decoded
      <4> QED
        BY <4>2 DEF more
    <3> QED
      BY <1>1, <2>5, <3>1, Zenon DEF Waiting
  <2>7. decoded' = MessagesOf(SubSeq(frames, 1, taken + 1))
    <3> DEFINE fs == SubSeq(frames, 1, taken)
    <3>1. fs \in Seq(Sent) /\ f \in Sent
      BY <2>2, <2>4
    <3>2. SubSeq(frames, 1, taken + 1) = Append(fs, f)
      BY <2>2, <2>4
    <3>3. decoded = MessagesOf(fs)
      BY <2>2
    <3>4. decoded' = IF f.kind = "message" THEN Append(decoded, f.payload) ELSE decoded
      BY <1>1, <2>3 DEF Decoded
    <3> HIDE DEF fs, f
    <3>5. MessagesOf(Append(fs, f)) =
            IF f.kind = "message" THEN Append(MessagesOf(fs), f.payload)
                                  ELSE MessagesOf(fs)
      BY <3>1, MessagesOfAppend, Zenon
    <3> QED
      BY <3>2, <3>3, <3>4, <3>5, Zenon
  <2> QED
    BY <2>3, <2>4, <2>5, <2>6, <2>7
<1> QED
  BY <1>2, <1>3 DEF StreamInv

LEMMA StreamStep == StreamInv /\ [Next]_vars => StreamInv'
<1> SUFFICES ASSUME StreamInv, [Next]_vars PROVE StreamInv'
  OBVIOUS
<1>1. ASSUME NEW payload \in Payloads, Send(payload) \/ SendCompressed(payload)
      PROVE  StreamInv'
  <2>1. PICK f \in Sent : Added(f)
    BY <1>1, Sends DEF StreamInv
  <2> QED
    BY <2>1, AddedFrame
<1>2. ASSUME NEW n \in 1 .. MaxChunk, Receive(n)
      PROVE  StreamInv'
  BY <1>2, Receives
<1>3. CASE Take
  BY <1>3, Takes
<1>4. CASE UNCHANGED vars
  BY <1>4 DEF vars, StreamInv, FramesInv, FrameLies, StartOf, Form, BufInv, LengthsFit,
              Waiting
<1> QED
  BY <1>1, <1>2, <1>3, <1>4 DEF Next

LEMMA StreamInvariant == Spec => []StreamInv
BY StreamInit, StreamStep, PTL DEF Spec

-----------------------------------------------------------------------------
(* The invariants the run checks.                                          *)

\* As long as the lengths fit their field, decode finds in the bytes what Streaming
\* finds at an offset, whatever the frames, the chunks and the number of values of a
\* byte.
THEOREM Abstraction == Spec => []OffsetsTellAll
<1>1. StreamInv => OffsetsTellAll
  BY Decoding DEF StreamInv, OffsetsTellAll
<1> QED
  BY <1>1, StreamInvariant, PTL

\* The messages decoded are those that were encoded, in order, and buf holds what
\* follows the last of them: no chunk boundary loses, repeats or splits a message.
THEOREM StreamRoundTrip == Spec => []DecodesWhatWasEncoded
<1>1. StreamInv => DecodesWhatWasEncoded
  <2> SUFFICES ASSUME StreamInv, LengthsFit
               PROVE  /\ decoded = MessagesOf(SubSeq(frames, 1, taken))
                      /\ buf = SubSeq(bytes, Offsets!Consumed + 1, received)
    BY DEF DecodesWhatWasEncoded
  <2>1. Offsets!Consumed = StartOf(taken + 1)
    BY ConsumedIs DEF StreamInv, BufInv
  <2> QED
    BY <2>1 DEF StreamInv, BufInv, Waiting
<1> QED
  BY <1>1, StreamInvariant, PTL
=============================================================================
