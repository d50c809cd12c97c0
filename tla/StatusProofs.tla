---------------------------- MODULE StatusProofs ----------------------------
(***************************************************************************)
(* Proofs about the parsers of src/status.rs: for every byte sequence, of  *)
(* whatever length.                                                        *)
(***************************************************************************)
EXTENDS StatusParsing, SequenceTheorems, WellFoundedInduction, TLAPS

\* Numerals of one and of two digits.
LEMMA NumeralDigits ==
  ASSUME NEW c \in Code
  PROVE  /\ c < 10 => Numeral(c) = <<Zero + c>>
         /\ c >= 10 => Numeral(c) = <<One, Zero + (c - 10)>>
<1>1. c \in 0 .. 16
  BY DEF Code
<1>2. c >= 10 => c \div 10 = 1 /\ c % 10 = c - 10
  BY <1>1
<1> QED
  BY <1>1, <1>2 DEF Numeral, Zero, One

\* from_bytes reads the numeral of every code.
LEMMA ReadsNumerals ==
  ASSUME NEW c \in Code
  PROVE  FromBytes(Numeral(c)) = OkResult(c)
<1>1. c \in 0 .. 16
  BY DEF Code
<1>2. CASE c < 10
  <2> DEFINE b == <<Zero + c>>
  <2>1. Len(b) = 1 /\ b[1] = Zero + c /\ IsDigit(b[1]) /\ b[1] - Zero = c
    BY <1>1, <1>2 DEF IsDigit, Zero
  <2>2. FromBytes(b) = TryFrom(c)
    BY <2>1 DEF FromBytes
  <2> QED
    BY <1>2, <2>2, NumeralDigits DEF TryFrom
<1>3. CASE c >= 10
  <2> DEFINE b == <<One, Zero + (c - 10)>>
  <2>1. /\ Len(b) = 2 /\ b[1] = One /\ b[2] = Zero + (c - 10) /\ IsDigit(b[2])
        /\ (b[1] - Zero) * 10 + b[2] - Zero = c
    BY <1>1, <1>3 DEF IsDigit, Zero, One
  <2>2. FromBytes(b) = TryFrom(c)
    BY <2>1 DEF FromBytes
  <2> QED
    BY <1>3, <2>2, NumeralDigits DEF TryFrom
<1> QED
  BY <1>1, <1>2, <1>3

\* from_bytes reads nothing but the numeral of the code it returns.
LEMMA ReadsOnlyNumerals ==
  ASSUME NEW b \in Seq(Byte), FromBytes(b).ok
  PROVE  FromBytes(b).code \in Code /\ b = Numeral(FromBytes(b).code)
<1> DEFINE one == Len(b) = 1 /\ IsDigit(b[1])
           two == Len(b) = 2 /\ b[1] = One /\ IsDigit(b[2])
<1>1. \A v : TryFrom(v).ok => v \in Code /\ TryFrom(v).code = v
  BY DEF TryFrom, OkResult, ErrResult
<1>2. CASE one
  <2>1. FromBytes(b) = TryFrom(b[1] - Zero)
    BY <1>2 DEF FromBytes
  <2>2. b[1] - Zero \in 0 .. 9 /\ Zero + (b[1] - Zero) = b[1]
    BY <1>2 DEF IsDigit, Zero
  <2>3. /\ FromBytes(b).code = b[1] - Zero /\ FromBytes(b).code \in Code
        /\ FromBytes(b).code < 10
    BY <1>1, <2>1, <2>2
  <2>4. b = <<b[1]>>
    BY <1>2
  <2> QED
    BY <2>2, <2>3, <2>4, NumeralDigits
<1>3. CASE two
  <2> DEFINE v == (b[1] - Zero) * 10 + b[2] - Zero
  <2>1. FromBytes(b) = TryFrom(v)
    BY <1>3 DEF FromBytes
  <2>2. v >= 10 /\ Zero + (v - 10) = b[2]
    BY <1>3 DEF IsDigit, Zero, One
  <2>3. FromBytes(b).code = v /\ FromBytes(b).code \in Code
    BY <1>1, <2>1
  <2>4. b = <<One, b[2]>>
    BY <1>3
  <2> QED
    BY <2>2, <2>3, <2>4, NumeralDigits
<1>4. CASE ~one /\ ~two
  BY <1>4 DEF FromBytes, ErrResult
<1> QED
  BY <1>2, <1>3, <1>4

\* What cannot be read is refused with Internal.
LEMMA RefusedWithInternal ==
  ASSUME NEW b
  PROVE  /\ ~FromBytes(b).ok => FromBytes(b) = ErrResult(Internal)
         /\ ~FromStr(b).ok => FromStr(b) = ErrResult(Internal)
<1>1. \A v : ~TryFrom(v).ok => TryFrom(v) = ErrResult(Internal)
  BY DEF TryFrom, OkResult
<1>2. \/ \E v : FromBytes(b) = TryFrom(v)
      \/ FromBytes(b) = ErrResult(Internal)
  BY DEF FromBytes
<1>3. \/ \E v : FromStr(b) = TryFrom(v)
      \/ FromStr(b) = ErrResult(Internal)
  BY DEF FromStr
<1> QED
  BY <1>1, <1>2, <1>3

\* What from_bytes makes of any bytes: the numerals of the seventeen codes are
\* accepted, each as its code, and everything else is refused with Internal.
THEOREM ExactlyTheNumerals ==
  ASSUME NEW b \in Seq(Byte)
  PROVE  /\ \A c \in Code : b = Numeral(c) => FromBytes(b) = OkResult(c)
         /\ (\A c \in Code : b # Numeral(c)) => FromBytes(b) = ErrResult(Internal)
<1>1. \A c \in Code : b = Numeral(c) => FromBytes(b) = OkResult(c)
  BY ReadsNumerals
<1>2. ASSUME \A c \in Code : b # Numeral(c)
      PROVE  FromBytes(b) = ErrResult(Internal)
  <2>1. ~FromBytes(b).ok
    BY <1>2, ReadsOnlyNumerals
  <2> QED
    BY <2>1, RefusedWithInternal
<1> QED
  BY <1>1, <1>2

-----------------------------------------------------------------------------
(* Numbers in decimal: induction and recursion.                            *)

\* What holds of 0, and of n + 1 if of n, holds of every number up to m. That a set of
\* numbers has a least element is what there is of induction without a predicate as a
\* parameter.
LEMMA UpTo ==
  ASSUME NEW m \in Nat, NEW S, 0 \in S,
         \A n \in 0 .. m - 1 : n \in S => n + 1 \in S
  PROVE  \A n \in 0 .. m : n \in S
<1> DEFINE T == (0 .. m) \ S
           R == OpToRel(<, Nat)
<1> SUFFICES ASSUME T # {} PROVE FALSE
  OBVIOUS
<1>0. T \subseteq Nat
  OBVIOUS
<1>1. IsWellFoundedOn(R, Nat)
  BY NatLessThanWellFounded
<1>2. \A x, y \in Nat : <<x, y>> \in R <=> x < y
  BY DEF OpToRel
<1>3. PICK x \in T : \A y \in T : ~(<<y, x>> \in R)
  <2> HIDE DEF R, T
  <2> QED
    BY <1>0, <1>1, WFMin
<1> HIDE DEF R
<1>4. \A y \in T : ~(y < x)
  BY <1>0, <1>2, <1>3
<1>5. x # 0 /\ x - 1 \in 0 .. m - 1 /\ x = (x - 1) + 1
  BY <1>3
<1>6. x - 1 \in S
  BY <1>4, <1>5
<1> QED
  BY <1>3, <1>5, <1>6

\* The numbers that the beginnings of a string stand for.
Prefixes(b, g) ==
  /\ g[0] = 0
  /\ \A i \in 1 .. Len(b) : g[i] = g[i - 1] * 10 + b[i] - Zero

\* They exist, and the last of them is what Decimal computes.
LEMMA DecimalIsLast ==
  ASSUME NEW b \in Seq(Byte)
  PROVE  \E g : Prefixes(b, g) /\ Decimal(b) = g[Len(b)]
<1> DEFINE m == Len(b)
           Next1(g, i) == IF i = 0 THEN 0 ELSE g[i - 1] * 10 + b[i] - Zero
           value == CHOOSE g : g = [i \in 0 .. m |-> Next1(g, i)]
           Solved(k) == \E g : /\ g[0] = 0
                               /\ \A i \in 1 .. k : g[i] = g[i - 1] * 10 + b[i] - Zero
           S == {k \in 0 .. m : Solved(k)}
<1>0. m \in Nat
  OBVIOUS
<1>1. 0 \in S
  <2> DEFINE g == [i \in {0} |-> 0]
  <2>1. g[0] = 0
    OBVIOUS
  <2> HIDE DEF g
  <2>2. Solved(0)
    BY <2>1
  <2> QED
    BY <2>2
<1>2. ASSUME NEW k \in 0 .. m - 1, k \in S
      PROVE  k + 1 \in S
  <2>1. PICK g : g[0] = 0 /\ \A i \in 1 .. k : g[i] = g[i - 1] * 10 + b[i] - Zero
    BY <1>2
  <2> DEFINE h == [i \in 0 .. k + 1 |-> IF i = k + 1 THEN g[k] * 10 + b[k + 1] - Zero
                                                     ELSE g[i]]
  <2>2. h[0] = 0 /\ \A i \in 1 .. k + 1 : h[i] = h[i - 1] * 10 + b[i] - Zero
    <3>1. \A i \in 0 .. k : h[i] = g[i]
      OBVIOUS
    <3>2. h[k + 1] = g[k] * 10 + b[k + 1] - Zero
      OBVIOUS
    <3> HIDE DEF h
    <3>3. ASSUME NEW i \in 1 .. k + 1
          PROVE  h[i] = h[i - 1] * 10 + b[i] - Zero
      <4>1. CASE i = k + 1
        BY <3>1, <3>2, <4>1
      <4>2. CASE i \in 1 .. k
        BY <2>1, <3>1, <4>2
      <4> QED
        BY <4>1, <4>2
    <3> QED
      BY <2>1, <3>1, <3>3
  <2> HIDE DEF h
  <2>3. Solved(k + 1)
    BY <2>2
  <2> QED
    BY <2>3
<1>3. m \in S
  <2> HIDE DEF S, m
  <2> QED
    <3>1. \A n \in 0 .. m : n \in S
      BY <1>0, <1>1, <1>2, UpTo, Zenon
    <3> QED
      BY <1>0, <3>1
<1>4. PICK g : g[0] = 0 /\ \A i \in 1 .. m : g[i] = g[i - 1] * 10 + b[i] - Zero
  BY <1>3
<1> DEFINE h == [i \in 0 .. m |-> g[i]]
<1>5. h = [i \in 0 .. m |-> Next1(h, i)]
  <2>1. ASSUME NEW i \in 0 .. m PROVE h[i] = Next1(h, i)
    <3>1. CASE i = 0
      BY <1>4, <3>1
    <3>2. CASE i # 0
      <4>1. i - 1 \in 0 .. m /\ i \in 1 .. m /\ h[i - 1] = g[i - 1] /\ h[i] = g[i]
        BY <3>2
      <4> HIDE DEF h
      <4> QED
        BY <1>4, <3>2, <4>1
    <3> QED
      BY <3>1, <3>2
  <2>2. h = [i \in 0 .. m |-> h[i]]
    OBVIOUS
  <2> HIDE DEF h, Next1, m
  <2> QED
    BY <2>1, <2>2
<1>6. value = [i \in 0 .. m |-> Next1(value, i)]
  <2> HIDE DEF h, Next1, m
  <2> QED
    BY <1>5, Zenon
<1>7. Decimal(b) = value[m]
  BY Zenon DEF Decimal
<1> HIDE DEF value
<1>8. Prefixes(b, value)
  <2>1. value[0] = 0
    BY <1>0, <1>6
  <2>2. ASSUME NEW i \in 1 .. m PROVE value[i] = value[i - 1] * 10 + b[i] - Zero
    BY <1>6
  <2> QED
    BY <2>1, <2>2 DEF Prefixes
<1> QED
  BY <1>7, <1>8

\* The number that a string of one or two digits stands for.
LEMMA ShortDecimal ==
  ASSUME NEW b \in Seq(Byte), Len(b) \in 1 .. 2
  PROVE  Decimal(b) = IF Len(b) = 1 THEN b[1] - Zero ELSE (b[1] - Zero) * 10 + b[2] - Zero
<1>1. PICK g : Prefixes(b, g) /\ Decimal(b) = g[Len(b)]
  BY DecimalIsLast
<1>2. b[1] \in Int /\ (Len(b) = 2 => b[2] \in Int)
  <2>1. b[1] \in Byte /\ (Len(b) = 2 => b[2] \in Byte)
    OBVIOUS
  <2>2. \A x \in Byte : x \in Int
    BY DEF Byte
  <2> QED
    BY <2>1, <2>2
<1>3. g[0] = 0 /\ g[1] = g[1 - 1] * 10 + b[1] - Zero
  BY <1>1 DEF Prefixes
<1>4. g[1] = b[1] - Zero
  BY <1>2, <1>3 DEF Zero
<1>5. CASE Len(b) = 1
  BY <1>1, <1>4, <1>5
<1>6. CASE Len(b) = 2
  <2>1. g[2] = g[1] * 10 + b[2] - Zero
    BY <1>1, <1>6 DEF Prefixes
  <2> QED
    BY <1>1, <1>4, <1>6, <2>1
<1> QED
  BY <1>5, <1>6

-----------------------------------------------------------------------------
(* What from_str accepts.                                                  *)

\* What from_bytes accepts from_str accepts too, and gives it the same code.
THEOREM BothAgree ==
  ASSUME NEW b \in Seq(Byte), FromBytes(b).ok
  PROVE  FromStr(b) = FromBytes(b)
<1> DEFINE one == Len(b) = 1 /\ IsDigit(b[1])
           two == Len(b) = 2 /\ b[1] = One /\ IsDigit(b[2])
           number == IF Len(b) = 1 THEN b[1] - Zero ELSE (b[1] - Zero) * 10 + b[2] - Zero
<1>1. one \/ two
  BY DEF FromBytes, ErrResult
<1>2. FromBytes(b) = TryFrom(number)
  BY <1>1 DEF FromBytes
<1>3. Unsigned(b) = b
  <2>1. ~(Len(b) > 1 /\ b[1] = Plus)
    BY <1>1 DEF One, Plus
  <2> QED
    BY <2>1 DEF Unsigned
<1>4. Decimal(b) = number
  BY <1>1, ShortDecimal
<1>5. ParsesAsU8(b)
  <2>1. b # <<>> /\ \A i \in 1 .. Len(b) : IsDigit(b[i])
    BY <1>1 DEF IsDigit, Zero, One
  <2>2. number <= 255
    BY <1>1 DEF IsDigit, Zero, One
  <2> QED
    BY <1>3, <1>4, <2>1, <2>2 DEF ParsesAsU8
<1> QED
  BY <1>2, <1>3, <1>4, <1>5 DEF FromStr

Digits(b) == \A i \in 1 .. Len(b) : IsDigit(b[i])

\* The beginnings of a string of digits stand for natural numbers.
LEMMA PrefixesOfDigits ==
  ASSUME NEW d \in Seq(Byte), Digits(d), NEW g, Prefixes(d, g)
  PROVE  /\ \A i \in 0 .. Len(d) : g[i] \in Nat
         /\ \A i \in 1 .. Len(d) : \E x \in 0 .. 9 :
              d[i] = Zero + x /\ g[i] = g[i - 1] * 10 + x
<1>1. ASSUME NEW i \in 1 .. Len(d)
      PROVE  d[i] \in Int /\ d[i] - Zero \in 0 .. 9 /\ d[i] = Zero + (d[i] - Zero)
  <2>1. IsDigit(d[i])
    BY DEF Digits
  <2> QED
    BY <2>1 DEF IsDigit, Zero
<1> DEFINE S == {i \in 0 .. Len(d) : g[i] \in Nat}
<1>2. 0 \in S
  BY DEF Prefixes
<1>3. ASSUME NEW n \in 0 .. Len(d) - 1, n \in S
      PROVE  n + 1 \in S
  <2>1. n + 1 \in 1 .. Len(d) /\ (n + 1) - 1 = n
    OBVIOUS
  <2>2. g[n + 1] = g[n] * 10 + d[n + 1] - Zero
    BY <2>1 DEF Prefixes
  <2>3. g[n] \in Nat
    BY <1>3
  <2>4. PICK x \in Int : x = d[n + 1] /\ x - Zero \in 0 .. 9
    BY <1>1, <2>1, Zenon
  <2>5. PICK v \in Nat : v = g[n]
    BY <2>3
  <2>6. g[n + 1] = v * 10 + x - Zero
    BY <2>2, <2>4, <2>5, Zenon
  <2>7. v * 10 + x - Zero \in Nat
    BY <2>4 DEF Zero
  <2>8. g[n + 1] \in Nat
    BY <2>6, <2>7, Zenon
  <2> QED
    BY <2>1, <2>8
<1>4. \A i \in 0 .. Len(d) : i \in S
  <2>1. Len(d) \in Nat
    OBVIOUS
  <2> HIDE DEF S
  <2> QED
    BY <1>2, <1>3, <2>1, UpTo, Zenon
<1>5. ASSUME NEW i \in 1 .. Len(d)
      PROVE  g[i] = g[i - 1] * 10 + (d[i] - Zero)
  <2>1. g[i] = g[i - 1] * 10 + d[i] - Zero
    BY DEF Prefixes
  <2>2. PICK v \in Nat : v = g[i - 1]
    BY <1>4
  <2>3. PICK x \in Int : x = d[i]
    BY <1>1
  <2>4. v * 10 + x - Zero = v * 10 + (x - Zero)
    BY DEF Zero
  <2> QED
    BY <2>1, <2>2, <2>3, <2>4, Zenon
<1> QED
  BY <1>1, <1>4, <1>5

\* A beginning stands for 0 exactly if it has no digit but zeros.
LEMMA ZeroPrefix ==
  ASSUME NEW d \in Seq(Byte), Digits(d), NEW g, Prefixes(d, g), NEW j \in 0 .. Len(d)
  PROVE  g[j] = 0 <=> \A i \in 1 .. j : d[i] = Zero
<1>1. Len(d) \in Nat /\ j \in Nat
  OBVIOUS
<1>2. ASSUME NEW i \in 1 .. j
      PROVE  /\ g[i] = 0 <=> g[i - 1] = 0 /\ d[i] = Zero
  <2>0. i \in 1 .. Len(d) /\ i - 1 \in 0 .. Len(d)
    OBVIOUS
  <2>1. PICK x \in 0 .. 9 : d[i] = Zero + x /\ g[i] = g[i - 1] * 10 + x
    BY <2>0, PrefixesOfDigits, Zenon
  <2>2. g[i - 1] \in Nat
    BY <2>0, PrefixesOfDigits, Zenon
  <2> QED
    BY <2>1, <2>2 DEF Zero
<1>3. ASSUME g[j] = 0
      PROVE  \A i \in 1 .. j : d[i] = Zero
  <2> DEFINE S == {m \in 0 .. j : g[j - m] = 0}
  <2>1. 0 \in S
    BY <1>3
  <2>2. ASSUME NEW m \in 0 .. j - 1, m \in S
        PROVE  m + 1 \in S
    <3>1. j - m \in 1 .. j /\ (j - m) - 1 = j - (m + 1) /\ m + 1 \in 0 .. j
      OBVIOUS
    <3>2. g[j - m] = 0
      BY <2>2
    <3>3. g[(j - m) - 1] = 0
      BY <1>2, <3>1, <3>2
    <3> QED
      BY <3>1, <3>3
  <2>3. \A m \in 0 .. j : m \in S
    <3> HIDE DEF S
    <3> QED
      BY <1>1, <2>1, <2>2, UpTo, Zenon
  <2>4. ASSUME NEW i \in 1 .. j PROVE g[i] = 0
    <3>1. j - i \in 0 .. j /\ j - (j - i) = i
      OBVIOUS
    <3>2. j - i \in S
      BY <2>3, <3>1
    <3> QED
      BY <3>1, <3>2
  <2> QED
    BY <1>2, <2>4
<1>4. ASSUME \A i \in 1 .. j : d[i] = Zero
      PROVE  g[j] = 0
  <2> DEFINE S == {m \in 0 .. j : g[m] = 0}
  <2>1. 0 \in S
    BY DEF Prefixes
  <2>2. ASSUME NEW m \in 0 .. j - 1, m \in S
        PROVE  m + 1 \in S
    <3>1. m + 1 \in 1 .. j /\ (m + 1) - 1 = m
      OBVIOUS
    <3> QED
      BY <1>2, <1>4, <2>2, <3>1
  <2>3. \A m \in 0 .. j : m \in S
    <3> HIDE DEF S
    <3> QED
      BY <1>1, <2>1, <2>2, UpTo, Zenon
  <2> QED
    BY <2>3
<1> QED
  BY <1>3, <1>4

\* The numeral of a code behind k zeros, byte by byte.
LEMMA Padded ==
  ASSUME NEW c \in Code, NEW k \in Nat
  PROVE  LET p == Zeros(k) \o Numeral(c)
         IN  /\ p \in Seq(Byte)
             /\ \A i \in 1 .. k : p[i] = Zero
             /\ c < 10 => Len(p) = k + 1 /\ p[k + 1] = Zero + c
             /\ c >= 10 => Len(p) = k + 2 /\ p[k + 1] = One /\ p[k + 2] = Zero + (c - 10)
<1> DEFINE z == Zeros(k)
           t == Numeral(c)
<1>1. c \in 0 .. 16 /\ Zero \in Byte
  BY DEF Code, Zero, Byte
<1>2. z \in Seq(Byte) /\ Len(z) = k /\ \A i \in 1 .. k : z[i] = Zero
  <2>1. z \in [1 .. k -> Byte]
    BY <1>1 DEF Zeros
  <2>2. z \in Seq(Byte) /\ DOMAIN z = 1 .. k
    BY <2>1
  <2>3. Len(z) \in Nat /\ 1 .. Len(z) = 1 .. k
    BY <2>2, LenProperties
  <2>4. Len(z) = k
    <3> HIDE DEF z
    <3>1. \A m \in Nat : 1 .. m = 1 .. k => m = k
      <4>1. ASSUME NEW m \in Nat, 1 .. m = 1 .. k PROVE m <= k /\ k <= m
        <5>1. \A i \in Nat : i \in 1 .. m <=> i \in 1 .. k
          BY <4>1
        <5> QED
          BY <5>1
      <4> QED
        BY <4>1
    <3> QED
      BY <2>3, <3>1
  <2> QED
    BY <2>2, <2>4 DEF Zeros
<1>3. t \in Seq(Byte)
  <2>1. CASE c < 10
    <3>1. t = <<Zero + c>>
      BY <2>1, NumeralDigits
    <3>2. Zero + c \in Byte
      BY <1>1, <2>1 DEF Byte, Zero
    <3> QED
      BY <3>1, <3>2
  <2>2. CASE c >= 10
    <3>1. t = <<One, Zero + (c - 10)>>
      BY <2>2, NumeralDigits
    <3>2. One \in Byte /\ Zero + (c - 10) \in Byte
      BY <1>1, <2>2 DEF Byte, Zero, One
    <3> QED
      BY <3>1, <3>2
  <2> QED
    BY <1>1, <2>1, <2>2
<1>4. /\ c < 10 => Len(t) = 1 /\ t[1] = Zero + c
      /\ c >= 10 => Len(t) = 2 /\ t[1] = One /\ t[2] = Zero + (c - 10)
  BY <1>1, NumeralDigits
<1> HIDE DEF z, t
<1>5. /\ z \o t \in Seq(Byte)
      /\ Len(z \o t) = k + Len(t)
      /\ \A i \in 1 .. k + Len(t) : (z \o t)[i] = IF i <= k THEN z[i] ELSE t[i - k]
  BY <1>2, <1>3, ConcatProperties
<1>6. \A i \in 1 .. k : (z \o t)[i] = Zero
  BY <1>2, <1>3, <1>5
<1>7. CASE c < 10
  <2>1. Len(t) = 1
    BY <1>4, <1>7
  <2>2. (z \o t)[k + 1] = t[1]
    BY <1>5, <2>1
  <2>3. Len(z \o t) = k + 1 /\ (z \o t)[k + 1] = Zero + c
    BY <1>4, <1>5, <1>7, <2>1, <2>2
  <2> QED
    BY <1>1, <1>5, <1>6, <1>7, <2>3 DEF z, t
<1>8. CASE c >= 10
  <2>1. Len(t) = 2
    BY <1>4, <1>8
  <2>2. (z \o t)[k + 1] = t[1] /\ (z \o t)[k + 2] = t[2]
    <3>1. /\ k + 1 \in 1 .. k + 2 /\ ~(k + 1 <= k) /\ (k + 1) - k = 1
          /\ k + 2 \in 1 .. k + 2 /\ ~(k + 2 <= k) /\ (k + 2) - k = 2
      OBVIOUS
    <3> QED
      BY <1>5, <2>1, <3>1, Zenon
  <2>3. /\ Len(z \o t) = k + 2
        /\ (z \o t)[k + 1] = One /\ (z \o t)[k + 2] = Zero + (c - 10)
    BY <1>4, <1>5, <1>8, <2>1, <2>2
  <2> QED
    BY <1>1, <1>5, <1>6, <1>8, <2>3 DEF z, t
<1>9. c < 10 \/ c >= 10
  BY <1>1
<1> QED
  BY <1>7, <1>8, <1>9, Zenon

\* Zeros in front do not count.
LEMMA PaddedDecimal ==
  ASSUME NEW c \in Code, NEW k \in Nat
  PROVE  /\ Digits(Zeros(k) \o Numeral(c))
         /\ Decimal(Zeros(k) \o Numeral(c)) = c
<1> DEFINE p == Zeros(k) \o Numeral(c)
<1>1. c \in 0 .. 16
  BY DEF Code
<1>2. /\ p \in Seq(Byte)
      /\ \A i \in 1 .. k : p[i] = Zero
      /\ c < 10 => Len(p) = k + 1 /\ p[k + 1] = Zero + c
      /\ c >= 10 => Len(p) = k + 2 /\ p[k + 1] = One /\ p[k + 2] = Zero + (c - 10)
  BY Padded
<1> HIDE DEF p
<1>3. Digits(p)
  <2> SUFFICES ASSUME NEW i \in 1 .. Len(p) PROVE IsDigit(p[i])
    BY DEF Digits
  <2>1. i \in 1 .. k \/ i = k + 1 \/ (c >= 10 /\ i = k + 2)
    BY <1>1, <1>2
  <2>2. p[i] = Zero \/ p[i] = One \/ (c < 10 /\ p[i] = Zero + c)
          \/ (c >= 10 /\ p[i] = Zero + (c - 10))
    <3>1. CASE c < 10
      BY <1>2, <2>1, <3>1
    <3>2. CASE c >= 10
      BY <1>2, <2>1, <3>2
    <3> QED
      BY <1>1, <3>1, <3>2
  <2>3. PICK x \in Int : p[i] = x /\ x \in 48 .. 57
    BY <1>1, <2>2 DEF Zero, One
  <2> QED
    BY <2>3 DEF IsDigit, Zero
<1>4. PICK g : Prefixes(p, g) /\ Decimal(p) = g[Len(p)]
  BY <1>2, DecimalIsLast
<1>5. k \in 0 .. Len(p) /\ k + 1 \in 1 .. Len(p) /\ (k + 1) - 1 = k
  BY <1>1, <1>2
<1>6. g[k] = 0
  BY <1>2, <1>3, <1>4, <1>5, ZeroPrefix
<1>7. PICK x \in 0 .. 9 : p[k + 1] = Zero + x /\ g[k + 1] = g[k] * 10 + x
  <2>1. \E x \in 0 .. 9 : p[k + 1] = Zero + x /\ g[k + 1] = g[(k + 1) - 1] * 10 + x
    BY <1>2, <1>3, <1>4, <1>5, PrefixesOfDigits
  <2> QED
    BY <1>5, <2>1
<1>8. g[k + 1] = x
  BY <1>6, <1>7
<1>9. CASE c < 10
  <2>1. x = c
    BY <1>1, <1>2, <1>7, <1>9 DEF Zero
  <2>2. Decimal(p) = c
    BY <1>2, <1>4, <1>8, <1>9, <2>1
  <2> QED
    BY <1>3, <2>2 DEF p
<1>10. CASE c >= 10
  <2>1. k + 2 \in 1 .. Len(p) /\ (k + 2) - 1 = k + 1
    BY <1>2, <1>10
  <2>2. PICK y \in 0 .. 9 : p[k + 2] = Zero + y /\ g[k + 2] = g[(k + 2) - 1] * 10 + y
    BY <1>2, <1>3, <1>4, <2>1, PrefixesOfDigits
  <2>3. x = 1 /\ y = c - 10
    BY <1>1, <1>2, <1>7, <1>10, <2>2 DEF Zero, One
  <2>4. g[k + 2] = c
    BY <1>1, <1>8, <2>1, <2>2, <2>3
  <2> QED
    <3>1. Decimal(p) = c
      BY <1>2, <1>4, <1>10, <2>4
    <3> QED
      BY <1>3, <3>1 DEF p
<1> QED
  BY <1>1, <1>9, <1>10

\* Nothing but zeros stands in front of a code.
LEMMA OnlyPadding ==
  ASSUME NEW d \in Seq(Byte), d # <<>>, Digits(d), Decimal(d) \in Code
  PROVE  \E k \in 0 .. Len(d) : d = Zeros(k) \o Numeral(Decimal(d))
<1>0. PICK c \in Code, n \in Nat : c = Decimal(d) /\ n = Len(d) /\ n >= 1
  OBVIOUS
<1>1. c \in 0 .. 16
  BY DEF Code
<1> SUFFICES \E k \in 0 .. n : d = Zeros(k) \o Numeral(c)
  BY <1>0
<1>2. PICK g : Prefixes(d, g) /\ c = g[n]
  BY <1>0, DecimalIsLast
<1>3. /\ \A i \in 0 .. n : g[i] \in Nat
      /\ \A i \in 1 .. n : \E x \in 0 .. 9 : d[i] = Zero + x /\ g[i] = g[i - 1] * 10 + x
  <2>1. Len(d) = n
    BY <1>0
  <2>2. /\ \A i \in 0 .. Len(d) : g[i] \in Nat
        /\ \A i \in 1 .. Len(d) : \E x \in 0 .. 9 :
             d[i] = Zero + x /\ g[i] = g[i - 1] * 10 + x
    BY <1>2, PrefixesOfDigits, Zenon
  <2> QED
    BY <2>1, <2>2, Zenon
<1>4. PICK v \in Nat, x \in 0 .. 9 :
        d[n] = Zero + x /\ v = g[n - 1] /\ c = v * 10 + x
  <2>1. n \in 1 .. n /\ n - 1 \in 0 .. n
    BY <1>0
  <2>2. g[n - 1] \in Nat
    BY <1>3, <2>1
  <2> QED
    BY <1>0, <1>2, <1>3, <2>1, <2>2
<1>5. ASSUME NEW k \in 0 .. n, \A i \in 1 .. k : d[i] = Zero,
             c < 10 => n = k + 1 /\ d[k + 1] = Zero + c,
             c >= 10 => n = k + 2 /\ d[k + 1] = One /\ d[k + 2] = Zero + (c - 10)
      PROVE  d = Zeros(k) \o Numeral(c)
  <2> DEFINE p == Zeros(k) \o Numeral(c)
  <2>1. k \in Nat
    BY <1>0
  <2>2. /\ p \in Seq(Byte)
        /\ \A i \in 1 .. k : p[i] = Zero
        /\ c < 10 => Len(p) = k + 1 /\ p[k + 1] = Zero + c
        /\ c >= 10 => Len(p) = k + 2 /\ p[k + 1] = One /\ p[k + 2] = Zero + (c - 10)
    BY <2>1, Padded
  <2> HIDE DEF p
  <2>3. Len(p) = n
    BY <1>1, <1>5, <2>2
  <2>4. ASSUME NEW i \in 1 .. n PROVE d[i] = p[i]
    <3>1. i \in 1 .. k \/ i = k + 1 \/ (c >= 10 /\ i = k + 2)
      BY <1>1, <1>5
    <3>2. CASE c < 10
      BY <1>5, <2>2, <3>1, <3>2
    <3>3. CASE c >= 10
      BY <1>5, <2>2, <3>1, <3>3
    <3> QED
      BY <1>1, <3>2, <3>3
  <2> QED
    BY <1>0, <2>2, <2>3, <2>4, SeqEqual DEF p
<1>6. CASE c < 10
  <2>1. v = 0 /\ x = c
    BY <1>1, <1>4, <1>6
  <2>2. n - 1 \in 0 .. n /\ (n - 1) + 1 = n /\ ~(c >= 10)
    BY <1>0, <1>1, <1>6
  <2>3. \A i \in 1 .. n - 1 : d[i] = Zero
    <3>1. n - 1 \in 0 .. Len(d) /\ g[n - 1] = 0
      BY <1>0, <1>4, <2>1, <2>2
    <3> QED
      BY <1>2, <3>1, ZeroPrefix, Zenon
  <2>4. d = Zeros(n - 1) \o Numeral(c)
    BY <1>4, <1>5, <2>1, <2>2, <2>3
  <2> QED
    BY <2>2, <2>4
<1>7. CASE c >= 10
  <2>1. v = 1 /\ x = c - 10
    <3>1. c = v * 10 + x
      BY <1>4
    <3>2. c \in 10 .. 16
      BY <1>1, <1>7
    <3> QED
      BY <3>1, <3>2
  <2>2. n >= 2
    <3>1. ASSUME n = 1 PROVE FALSE
      <4>1. n - 1 = 0 /\ g[0] = 0
        BY <1>2, <3>1 DEF Prefixes
      <4>2. v = g[n - 1]
        BY <1>4
      <4> QED
        BY <2>1, <4>1, <4>2
    <3> QED
      BY <1>0, <3>1
  <2>3. /\ n - 1 \in 1 .. n /\ n - 2 \in 0 .. n /\ (n - 1) - 1 = n - 2
        /\ (n - 2) + 1 = n - 1 /\ (n - 2) + 2 = n /\ ~(c < 10)
    BY <1>1, <1>7, <2>2
  <2>4. PICK y \in 0 .. 9 : d[n - 1] = Zero + y /\ g[n - 1] = g[(n - 1) - 1] * 10 + y
    BY <1>3, <2>3
  <2>5. PICK w \in Nat : w = g[n - 2]
    BY <1>3, <2>3
  <2>6. 1 = w * 10 + y
    BY <1>4, <2>1, <2>3, <2>4, <2>5, Zenon
  <2>7. w = 0 /\ y = 1
    BY <2>6
  <2>8. \A i \in 1 .. n - 2 : d[i] = Zero
    <3>1. n - 2 \in 0 .. Len(d) /\ g[n - 2] = 0
      BY <1>0, <2>3, <2>5, <2>7, Zenon
    <3> QED
      BY <1>2, <3>1, ZeroPrefix, Zenon
  <2>9. d[(n - 2) + 1] = One /\ d[(n - 2) + 2] = Zero + (c - 10)
    <3>1. d[n - 1] = Zero + 1 /\ d[n] = Zero + (c - 10)
      BY <1>4, <2>1, <2>4, <2>7, Zenon
    <3> QED
      BY <2>3, <3>1 DEF Zero, One
  <2>10. d = Zeros(n - 2) \o Numeral(c)
    BY <1>5, <2>3, <2>8, <2>9
  <2> QED
    BY <2>3, <2>10
<1>8. c < 10 \/ c >= 10
  BY <1>1
<1> QED
  BY <1>6, <1>7, <1>8, Zenon

\* What from_str makes of any text: the numeral of each of the seventeen codes behind
\* any number of zeros and at most one plus sign is accepted as that code, everything
\* else is refused with Internal. In particular no number that does not fit a u8
\* comes back as a code.
THEOREM NumeralsBehindZeros ==
  ASSUME NEW b \in Seq(Byte)
  PROVE  /\ \A c \in Code, k \in 0 .. Len(b) :
              IsPadded(b, k, c) => FromStr(b) = OkResult(c)
         /\ (\A c \in Code, k \in 0 .. Len(b) : ~IsPadded(b, k, c))
              => FromStr(b) = ErrResult(Internal)
<1> DEFINE d == Unsigned(b)
<1>1. d \in Seq(Byte) /\ Len(d) \in 0 .. Len(b) /\ (b # <<>> <=> d # <<>>)
  <2>1. CASE Len(b) > 1 /\ b[1] = Plus
    <3>1. b # <<>> /\ d = Tail(b)
      BY <2>1 DEF Unsigned
    <3>2. Tail(b) \in Seq(Byte) /\ Len(Tail(b)) = Len(b) - 1
      BY <3>1, HeadTailProperties
    <3>3. Len(b) \in Nat /\ Len(Tail(b)) \in 0 .. Len(b) /\ Len(Tail(b)) # 0
      BY <2>1, <3>2
    <3>4. Tail(b) # <<>>
      <4>1. \A t : t = <<>> => Len(t) = 0
        BY EmptySeq
      <4> QED
        BY <3>3, <4>1, Zenon
    <3> QED
      BY <3>1, <3>2, <3>3, <3>4
  <2>2. CASE ~(Len(b) > 1 /\ b[1] = Plus)
    BY <2>2 DEF Unsigned
  <2> QED
    BY <2>1, <2>2
<1>2. ParsesAsU8(b) <=> d # <<>> /\ Digits(d) /\ Decimal(d) <= 255
  BY <1>1 DEF ParsesAsU8, Digits
<1> HIDE DEF d
<1>3. \A v : /\ TryFrom(v).ok <=> v \in Code
             /\ v \in Code => TryFrom(v) = OkResult(v)
  BY DEF TryFrom, OkResult, ErrResult
<1>4. ASSUME FromStr(b).ok
      PROVE  \E c \in Code, k \in 0 .. Len(b) : d = Zeros(k) \o Numeral(c)
  <2>1. ParsesAsU8(b) /\ FromStr(b) = TryFrom(Decimal(d))
    BY <1>4 DEF FromStr, ErrResult, d
  <2>2. Decimal(d) \in Code
    BY <1>3, <1>4, <2>1
  <2>3. PICK k \in 0 .. Len(d) : d = Zeros(k) \o Numeral(Decimal(d))
    BY <1>1, <1>2, <2>1, <2>2, OnlyPadding
  <2>4. k \in 0 .. Len(b)
    BY <1>1
  <2> QED
    BY <2>2, <2>3, <2>4
<1>5. ASSUME NEW c \in Code, NEW k \in 0 .. Len(b), d = Zeros(k) \o Numeral(c)
      PROVE  FromStr(b) = OkResult(c)
  <2>1. k \in Nat
    OBVIOUS
  <2>2. Digits(d) /\ Decimal(d) = c
    BY <1>5, <2>1, PaddedDecimal
  <2>3. d # <<>>
    <3>1. c \in 0 .. 16
      BY DEF Code
    <3>2. Len(d) = k + 1 \/ Len(d) = k + 2
      BY <1>5, <2>1, <3>1, Padded
    <3>3. Len(d) # 0
      BY <2>1, <3>2
    <3> QED
      BY <3>3
  <2>4. c <= 255
    BY DEF Code
  <2>5. FromStr(b) = TryFrom(c)
    BY <1>2, <2>2, <2>3, <2>4 DEF FromStr, d
  <2> QED
    BY <1>3, <2>5
<1>6. ASSUME \A c \in Code, k \in 0 .. Len(b) : ~IsPadded(b, k, c)
      PROVE  FromStr(b) = ErrResult(Internal)
  <2>1. ~FromStr(b).ok
    BY <1>4, <1>6 DEF IsPadded, d
  <2> QED
    BY <2>1, RefusedWithInternal
<1> QED
  BY <1>5, <1>6 DEF IsPadded, d

-----------------------------------------------------------------------------
(* The same as invariants of every header the server may send.             *)

\* The spec keeps both variables in step.
LEMMA Parsed == Spec => [](header \in Seq(Byte) /\ parsed = FromBytes(header))
<1> DEFINE Inv == header \in Seq(Byte) /\ parsed = FromBytes(header)
<1>1. Init => Inv
  BY DEF Init
<1>2. Inv /\ [Next]_<<header, parsed>> => Inv'
  <2> SUFFICES ASSUME Inv, [Next]_<<header, parsed>> PROVE Inv'
    OBVIOUS
  <2>1. ASSUME NEW b \in Bytes, Extend(b) PROVE Inv'
    <3>1. b \in Byte
      BY StatusParsingAssumption
    <3> QED
      BY <2>1, <3>1 DEF Extend
  <2>2. CASE UNCHANGED <<header, parsed>>
    BY <2>2
  <2> QED
    BY <2>1, <2>2 DEF Next
<1> QED
  BY <1>1, <1>2, PTL DEF Spec

\* Whatever is sent, from_bytes reads it as the code whose numeral it is, and refuses
\* it if it is none.
THEOREM Parsing == Spec => []AcceptsNumeralsOnly
<1>1. header \in Seq(Byte) /\ parsed = FromBytes(header) => AcceptsNumeralsOnly
  BY ExactlyTheNumerals DEF AcceptsNumeralsOnly
<1> QED
  BY <1>1, Parsed, PTL

\* The two parsers agree on whatever is sent.
THEOREM ParsersAgree == Spec => []FromStrAgrees
<1>1. header \in Seq(Byte) /\ parsed = FromBytes(header) => FromStrAgrees
  BY BothAgree DEF FromStrAgrees
<1> QED
  BY <1>1, Parsed, PTL

\* And from_str reads every numeral behind zeros and a plus sign as its code, and
\* refuses everything else.
THEOREM Leniency == Spec => []FromStrIsThisLenient
<1>1. header \in Seq(Byte) => FromStrIsThisLenient
  BY NumeralsBehindZeros DEF FromStrIsThisLenient
<1> QED
  BY <1>1, Parsed, PTL
=============================================================================
