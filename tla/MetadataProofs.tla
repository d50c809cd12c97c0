--------------------------- MODULE MetadataProofs ---------------------------
(***************************************************************************)
(* What the operations of a metadata map give and preserve, for any names  *)
(* and values.                                                             *)
(***************************************************************************)
EXTENDS Metadata, SequenceTheorems, WellFoundedInduction, TLAPS

-----------------------------------------------------------------------------
(* Filtering a sequence: induction over its length.                        *)

\* What holds of 0, and of n + 1 if of n, holds of every number up to m. That a set of
\* numbers has a least element is what there is of induction without a predicate as a
\* parameter.
LEMMA UpTo ==
  ASSUME NEW m \in Nat, NEW S, 0 \in S,
         \A n \in 0 .. m - 1 : n \in S => n + 1 \in S
  PROVE  \A n \in 0 .. m : n \in S
<1> DEFINE T == (0 .. m) \ S
           R == OpToRel(<, Nat)
<1> SUFFICES ASSUME T # {} PROVE FALSE
  OBVIOUS
<1>0. T \subseteq Nat
  OBVIOUS
<1>1. IsWellFoundedOn(R, Nat)
  BY NatLessThanWellFounded
<1>2. \A x, y \in Nat : <<x, y>> \in R <=> x < y
  BY DEF OpToRel
<1>3. PICK x \in T : \A y \in T : ~(<<y, x>> \in R)
  <2> HIDE DEF R, T
  <2> QED
    BY <1>0, <1>1, WFMin
<1> HIDE DEF R
<1>4. \A y \in T : ~(y < x)
  BY <1>0, <1>2, <1>3
<1>5. x # 0 /\ x - 1 \in 0 .. m - 1 /\ x = (x - 1) + 1
  BY <1>3
<1>6. x - 1 \in S
  BY <1>4, <1>5
<1> QED
  BY <1>3, <1>5, <1>6

\* What is kept of the beginnings of a sequence.
Filtered(values, set, g) ==
  /\ g[0] = <<>>
  /\ \A i \in 1 .. Len(values) :
       /\ values[i] \in set => g[i] = Append(g[i - 1], values[i])
       /\ values[i] \notin set => g[i] = g[i - 1]

\* It exists, and what is kept of the whole is what Only computes.
LEMMA OnlyIsLast ==
  ASSUME NEW T, NEW values \in Seq(T), NEW set
  PROVE  \E g : Filtered(values, set, g) /\ Only(values, set) = g[Len(values)]
<1> DEFINE m == Len(values)
           Step(g, i) == IF i = 0 THEN <<>>
                         ELSE IF values[i] \in set THEN Append(g[i - 1], values[i])
                         ELSE g[i - 1]
           kept == CHOOSE g : g = [i \in 0 .. m |-> Step(g, i)]
           Solved(k) == \E g : g[0] = <<>> /\ \A i \in 1 .. k : g[i] = Step(g, i)
           S == {k \in 0 .. m : Solved(k)}
<1>0. m \in Nat
  OBVIOUS
<1>1. 0 \in S
  <2> DEFINE g == [i \in {0} |-> <<>>]
  <2>1. g[0] = <<>>
    OBVIOUS
  <2> HIDE DEF g
  <2>2. Solved(0)
    BY <2>1
  <2> QED
    BY <2>2
<1>2. ASSUME NEW k \in 0 .. m - 1, k \in S
      PROVE  k + 1 \in S
  <2>1. PICK g : g[0] = <<>> /\ \A i \in 1 .. k : g[i] = Step(g, i)
    BY <1>2
  <2> DEFINE h == [i \in 0 .. k + 1 |-> IF i = k + 1 THEN Step(g, i) ELSE g[i]]
  <2>2. h[0] = <<>> /\ \A i \in 1 .. k + 1 : h[i] = Step(h, i)
    <3>1. \A i \in 0 .. k : h[i] = g[i]
      OBVIOUS
    <3>2. h[k + 1] = Step(g, k + 1)
      OBVIOUS
    <3> HIDE DEF h
    <3>3. ASSUME NEW i \in 1 .. k + 1
          PROVE  h[i] = Step(h, i)
      <4>1. i - 1 \in 0 .. k /\ h[i - 1] = g[i - 1]
        BY <3>1
      <4>2. Step(h, i) = Step(g, i)
        BY <4>1
      <4>3. CASE i = k + 1
        BY <3>2, <4>2, <4>3
      <4>4. CASE i \in 1 .. k
        BY <2>1, <3>1, <4>2, <4>4
      <4> QED
        BY <4>3, <4>4
    <3> QED
      BY <2>1, <3>1, <3>3
  <2> HIDE DEF h, Step
  <2>3. Solved(k + 1)
    BY <2>2
  <2> QED
    BY <2>3
<1>3. m \in S
  <2> HIDE DEF S, m
  <2>1. \A n \in 0 .. m : n \in S
    BY <1>0, <1>1, <1>2, UpTo, Zenon
  <2> QED
    BY <1>0, <2>1
<1>4. PICK g : g[0] = <<>> /\ \A i \in 1 .. m : g[i] = Step(g, i)
  BY <1>3
<1> DEFINE h == [i \in 0 .. m |-> g[i]]
<1>5. h = [i \in 0 .. m |-> Step(h, i)]
  <2>1. ASSUME NEW i \in 0 .. m PROVE h[i] = Step(h, i)
    <3>1. CASE i = 0
      BY <1>4, <3>1
    <3>2. CASE i # 0
      <4>1. i - 1 \in 0 .. m /\ i \in 1 .. m /\ h[i - 1] = g[i - 1] /\ h[i] = g[i]
        BY <3>2
      <4> HIDE DEF h
      <4> QED
        BY <1>4, <4>1
    <3> QED
      BY <3>1, <3>2
  <2>2. h = [i \in 0 .. m |-> h[i]]
    OBVIOUS
  <2> HIDE DEF h, Step, m
  <2> QED
    BY <2>1, <2>2
<1>6. kept = [i \in 0 .. m |-> Step(kept, i)]
  <2> HIDE DEF h, Step, m
  <2> QED
    BY <1>5, Zenon
<1>7. Only(values, set) = kept[m]
  BY Zenon DEF Only
<1>8. \A i \in 0 .. m : kept[i] = Step(kept, i)
  <2> HIDE DEF kept, Step, m
  <2> QED
    BY <1>6
<1>9. Filtered(values, set, kept)
  <2> HIDE DEF kept
  <2>1. kept[0] = <<>>
    BY <1>0, <1>8
  <2>2. ASSUME NEW i \in 1 .. m
        PROVE  /\ values[i] \in set => kept[i] = Append(kept[i - 1], values[i])
               /\ values[i] \notin set => kept[i] = kept[i - 1]
    <3>1. i \in 0 .. m /\ i # 0
      OBVIOUS
    <3> QED
      BY <1>8, <3>1
  <2> QED
    BY <2>1, <2>2 DEF Filtered
<1> QED
  BY <1>7, <1>9, Zenon

\* What is kept was there and is in the set.
LEMMA OnlyKeeps ==
  ASSUME NEW T, NEW values \in Seq(T), NEW set
  PROVE  Only(values, set) \in Seq(set \cap T)
<1> DEFINE m == Len(values)
<1>0. m \in Nat
  OBVIOUS
<1>1. PICK g : Filtered(values, set, g) /\ Only(values, set) = g[m]
  BY OnlyIsLast
<1> DEFINE S == {i \in 0 .. m : g[i] \in Seq(set \cap T)}
<1>2. 0 \in S
  <2>1. g[0] = <<>>
    BY <1>1 DEF Filtered
  <2>2. <<>> \in Seq(set \cap T)
    BY EmptySeq
  <2>3. 0 \in 0 .. m
    BY <1>0
  <2>4. g[0] \in Seq(set \cap T)
    BY <2>1, <2>2, Zenon
  <2> QED
    BY <2>3, <2>4, Zenon
<1>3. ASSUME NEW i \in 0 .. m - 1, i \in S PROVE i + 1 \in S
  <2>1. /\ i + 1 \in 1 .. m /\ (i + 1) - 1 = i /\ values[i + 1] \in T
        /\ g[i] \in Seq(set \cap T)
    BY <1>3
  <2>2. ASSUME values[i + 1] \in set
        PROVE  g[i + 1] \in Seq(set \cap T)
    <3>1. g[i + 1] = Append(g[i], values[i + 1]) /\ values[i + 1] \in set \cap T
      BY <1>1, <2>1, <2>2 DEF Filtered
    <3>2. Append(g[i], values[i + 1]) \in Seq(set \cap T)
      BY <2>1, <3>1, AppendProperties
    <3> QED
      BY <3>1, <3>2, Zenon
  <2>3. ASSUME values[i + 1] \notin set
        PROVE  g[i + 1] \in Seq(set \cap T)
    BY <1>1, <2>1, <2>3 DEF Filtered
  <2>4. g[i + 1] \in Seq(set \cap T)
    BY <2>2, <2>3, Zenon
  <2>5. i + 1 \in 0 .. m
    BY <2>1
  <2> QED
    BY <2>4, <2>5, Zenon
<1> HIDE DEF S
<1>4. \A i \in 0 .. m : i \in S
  BY <1>0, <1>2, <1>3, UpTo, Zenon
<1> QED
  BY <1>0, <1>1, <1>4 DEF S

LEMMA OnlyOfNone ==
  ASSUME NEW set
  PROVE  Only(<<>>, set) = <<>>
<1>1. Only(<<>>, set) \in Seq(set \cap {})
  BY OnlyKeeps, EmptySeq
<1>2. set \cap {} = {}
  OBVIOUS
<1>3. \A s \in Seq({}) : s = <<>>
  OBVIOUS
<1> QED
  BY <1>1, <1>2, <1>3

\* What is kept depends only on which places hold a value of the set, and which value.
LEMMA OnlyAgrees ==
  ASSUME NEW T, NEW U, NEW values \in Seq(T), NEW others \in Seq(U), NEW A, NEW B,
         Len(others) = Len(values),
         \A i \in 1 .. Len(values) :
           /\ values[i] \in A <=> others[i] \in B
           /\ values[i] \in A => values[i] = others[i]
  PROVE  Only(values, A) = Only(others, B)
<1> DEFINE m == Len(values)
<1>0. m \in Nat
  OBVIOUS
<1>1. PICK g : Filtered(values, A, g) /\ Only(values, A) = g[m]
  BY OnlyIsLast
<1>2. PICK h : Filtered(others, B, h) /\ Only(others, B) = h[m]
  BY OnlyIsLast
<1> DEFINE S == {i \in 0 .. m : g[i] = h[i]}
<1>3. 0 \in S
  BY <1>0, <1>1, <1>2 DEF Filtered
<1>4. ASSUME NEW i \in 0 .. m - 1, i \in S PROVE i + 1 \in S
  <2>1. i + 1 \in 1 .. m /\ (i + 1) - 1 = i /\ g[i] = h[i]
    BY <1>4
  <2>2. ASSUME values[i + 1] \in A PROVE g[i + 1] = h[i + 1]
    <3>1. others[i + 1] \in B /\ others[i + 1] = values[i + 1]
      BY <2>1, <2>2
    <3>2. g[i + 1] = Append(g[i], values[i + 1])
      BY <1>1, <2>1, <2>2 DEF Filtered
    <3>3. h[i + 1] = Append(h[i], others[i + 1])
      BY <1>2, <2>1, <3>1 DEF Filtered
    <3> QED
      BY <2>1, <3>1, <3>2, <3>3, Zenon
  <2>3. ASSUME values[i + 1] \notin A PROVE g[i + 1] = h[i + 1]
    BY <1>1, <1>2, <2>1, <2>3 DEF Filtered
  <2>4. i + 1 \in 0 .. m
    BY <2>1
  <2> QED
    BY <2>2, <2>3, <2>4, Zenon
<1> HIDE DEF S
<1>5. \A i \in 0 .. m : i \in S
  BY <1>0, <1>3, <1>4, UpTo, Zenon
<1> QED
  BY <1>0, <1>1, <1>2, <1>5 DEF S

LEMMA AppendBehind ==
  ASSUME NEW T, NEW x \in T, NEW s \in Seq(T), NEW v \in T
  PROVE  Append(<<x>> \o s, v) = <<x>> \o Append(s, v)
OBVIOUS

\* A value of the set in front of all others is kept in front of what is kept of them.
LEMMA OnlyInFront ==
  ASSUME NEW T, NEW values \in Seq(T), NEW set, NEW x \in set \cap T
  PROVE  Only(<<x>> \o values, set) = <<x>> \o Only(values, set)
<1> DEFINE m == Len(values)
           all == <<x>> \o values
<1>0. /\ m \in Nat /\ all \in Seq(T) /\ Len(all) = m + 1
      /\ all[1] = x /\ \A i \in 1 .. m : all[i + 1] = values[i]
  OBVIOUS
<1> HIDE DEF all
<1>1. PICK g : Filtered(values, set, g) /\ Only(values, set) = g[m]
  BY OnlyIsLast
<1>2. PICK h : Filtered(all, set, h) /\ Only(all, set) = h[m + 1]
  BY <1>0, OnlyIsLast
<1>7. \A s \in Seq(T), w \in T : Append(<<x>> \o s, w) = <<x>> \o Append(s, w)
  BY AppendBehind
<1> DEFINE S == {i \in 0 .. m : g[i] \in Seq(T) /\ h[i + 1] = <<x>> \o g[i]}
<1>3. 0 \in S
  <2>1. 1 \in 1 .. Len(all) /\ 1 - 1 = 0
    BY <1>0
  <2>2. h[1] = Append(h[0], x) /\ h[0] = <<>> /\ g[0] = <<>>
    BY <1>0, <1>1, <1>2, <2>1 DEF Filtered
  <2>3. <<>> \in Seq(T) /\ <<x>> \in Seq(T)
    BY EmptySeq
  <2>4. h[1] = <<x>> \o <<>>
    <3>1. Append(<<>>, x) = <<x>>
      OBVIOUS
    <3>2. <<x>> \o <<>> = <<x>>
      BY <2>3, ConcatEmptySeq
    <3> QED
      BY <2>2, <3>1, <3>2
  <2>5. g[0] \in Seq(T) /\ h[0 + 1] = <<x>> \o g[0]
    <3>1. 0 + 1 = 1
      OBVIOUS
    <3> QED
      BY <2>2, <2>3, <2>4, <3>1, Zenon
  <2>6. 0 \in 0 .. m
    BY <1>0
  <2> QED
    BY <2>5, <2>6, Zenon
<1>4. ASSUME NEW i \in 0 .. m - 1, i \in S PROVE i + 1 \in S
  <2> DEFINE v == values[i + 1]
  <2>1. /\ i + 1 \in 1 .. m /\ (i + 1) - 1 = i /\ v \in T
        /\ (i + 1) + 1 \in 1 .. Len(all) /\ ((i + 1) + 1) - 1 = i + 1
        /\ all[(i + 1) + 1] = v
        /\ g[i] \in Seq(T) /\ h[i + 1] = <<x>> \o g[i]
    BY <1>0, <1>4
  <2>2. ASSUME v \in set
        PROVE  g[i + 1] \in Seq(T) /\ h[(i + 1) + 1] = <<x>> \o g[i + 1]
    <3>1. g[i + 1] = Append(g[i], v)
      BY <1>1, <2>1, <2>2 DEF Filtered
    <3>2. h[(i + 1) + 1] = Append(h[i + 1], v)
      BY <1>2, <2>1, <2>2 DEF Filtered
    <3> HIDE DEF v
    <3>3. <<x>> \in Seq(T) /\ Append(g[i], v) \in Seq(T)
      BY <2>1
    <3>4. Append(<<x>> \o g[i], v) = <<x>> \o Append(g[i], v)
      <4>1. x \in T /\ g[i] \in Seq(T) /\ v \in T
        BY <2>1
      <4> QED
        BY <1>7, <4>1, Zenon
    <3> QED
      BY <2>1, <3>1, <3>2, <3>3, <3>4, Zenon
  <2>3. ASSUME v \notin set
        PROVE  g[i + 1] \in Seq(T) /\ h[(i + 1) + 1] = <<x>> \o g[i + 1]
    <3>1. g[i + 1] = g[i]
      BY <1>1, <2>1, <2>3 DEF Filtered
    <3>2. h[(i + 1) + 1] = h[i + 1]
      BY <1>2, <2>1, <2>3 DEF Filtered
    <3> QED
      BY <2>1, <3>1, <3>2, Zenon
  <2>4. i + 1 \in 0 .. m
    BY <2>1
  <2> QED
    BY <2>2, <2>3, <2>4, Zenon
<1> HIDE DEF S
<1>5. \A i \in 0 .. m : i \in S
  BY <1>0, <1>3, <1>4, UpTo, Zenon
<1>6. h[m + 1] = <<x>> \o g[m]
  BY <1>0, <1>5 DEF S
<1> QED
  BY <1>1, <1>2, <1>6 DEF all

-----------------------------------------------------------------------------
(* The operations.                                                         *)

\* A map that insert and merge_http_header alone have filled.
Clean(map) ==
  /\ DOMAIN map \subseteq Spelled \ Reserved
  /\ \A n \in DOMAIN map : map[n] \in Seq(Printable)

\* Of a header that is not gRPC's own and is spelled right, insert takes the values
\* that are printable, of any other none.
LEMMA TakenIs ==
  ASSUME NEW name, NEW T, NEW values \in Seq(T)
  PROVE  /\ name \in Spelled \ Reserved => Taken(name, values) = Only(values, Printable)
         /\ name \notin Spelled \ Reserved => Taken(name, values) = <<>>
<1> DEFINE U == {Lossy(v) : v \in T}
           text == [i \in 1 .. Len(values) |-> Lossy(values[i])]
           A == {w \in {text[i] : i \in 1 .. Len(text)} : Accepts(name, w)}
<1>1. /\ text \in Seq(U) /\ Len(text) = Len(values)
      /\ \A i \in 1 .. Len(values) : text[i] = Lossy(values[i])
  <2>1. Len(values) \in Nat /\ \A i \in 1 .. Len(values) : values[i] \in T
    OBVIOUS
  <2> HIDE DEF U
  <2>2. \A i \in 1 .. Len(values) : Lossy(values[i]) \in U
    BY <2>1 DEF U
  <2> QED
    BY <2>1, <2>2
<1>2. Taken(name, values) = Only(text, A)
  BY DEF Taken
<1> HIDE DEF text, U
<1>3. \A w : w \in A <=> Accepts(name, w) /\ \E i \in 1 .. Len(values) : text[i] = w
  BY <1>1
<1> HIDE DEF A
<1>4. \A v : /\ Lossy(v) \in Printable <=> v \in Printable
             /\ v \in Printable => Lossy(v) = v
  BY MetadataAssumption DEF Lossy
<1>5. ASSUME name \in Spelled \ Reserved
      PROVE  Taken(name, values) = Only(values, Printable)
  <2>1. ASSUME NEW i \in 1 .. Len(text)
        PROVE  /\ text[i] \in A <=> values[i] \in Printable
               /\ text[i] \in A => text[i] = values[i]
    <3>1. i \in 1 .. Len(values) /\ text[i] = Lossy(values[i])
      BY <1>1
    <3>2. text[i] \in A <=> text[i] \in Printable
      BY <1>3, <1>5, <3>1 DEF Accepts
    <3> QED
      BY <1>4, <3>1, <3>2
  <2>2. Only(text, A) = Only(values, Printable)
    BY <1>1, <2>1, OnlyAgrees
  <2> QED
    BY <1>2, <2>2
<1>6. ASSUME name \notin Spelled \ Reserved
      PROVE  Taken(name, values) = <<>>
  <2>1. A = {}
    BY <1>3, <1>6 DEF Accepts
  <2>2. Only(text, A) \in Seq({})
    <3>1. Only(text, A) \in Seq(A \cap U)
      BY <1>1, OnlyKeeps
    <3>2. A \cap U = {}
      BY <2>1
    <3> QED
      BY <3>1, <3>2
  <2>3. \A s \in Seq({}) : s = <<>>
    OBVIOUS
  <2> QED
    BY <1>2, <2>2, <2>3
<1> QED
  BY <1>5, <1>6

\* What merge_http_header makes of an empty map: of each header that is not
\* gRPC's own and is spelled right, the values that are printable, in their order.
THEOREM MergeGives ==
  ASSUME NEW headers, NEW T, \A n \in DOMAIN headers : headers[n] \in Seq(T)
  PROVE  LET seen == MergeHttpHeader(NewMap, headers)
         IN  /\ Clean(seen)
             /\ DOMAIN seen \subseteq DOMAIN headers
             /\ \A n \in DOMAIN headers : n \in Spelled \ Reserved =>
                  Values(seen, n) = Only(headers[n], Printable)
             /\ \A n : n \notin DOMAIN headers \/ n \notin Spelled \ Reserved =>
                  Values(seen, n) = <<>>
<1> DEFINE names == {m \in DOMAIN headers : Taken(m, headers[m]) # <<>>}
           seen == MergeHttpHeader(NewMap, headers)
<1>1. ASSUME NEW n \in DOMAIN headers
      PROVE  /\ n \in Spelled \ Reserved =>
                  /\ Taken(n, headers[n]) = Only(headers[n], Printable)
                  /\ Taken(n, headers[n]) \in Seq(Printable)
             /\ n \notin Spelled \ Reserved => Taken(n, headers[n]) = <<>>
  <2>1. Only(headers[n], Printable) \in Seq(Printable)
    <3>1. Only(headers[n], Printable) \in Seq(Printable \cap T)
      BY OnlyKeeps
    <3> QED
      BY <3>1, SeqMonotonic
  <2> QED
    BY <2>1, TakenIs
<1>2. seen = [n \in names |-> Taken(n, headers[n])]
  <2>1. NewMap = [n \in {} |-> <<>>] /\ DOMAIN NewMap = {}
    BY DEF NewMap
  <2>2. seen = [n \in DOMAIN NewMap \cup names |->
                  Values(NewMap, n) \o IF n \in DOMAIN headers THEN Taken(n, headers[n])
                                       ELSE <<>>]
    BY DEF MergeHttpHeader
  <2>3. \A n : Values(NewMap, n) = <<>>
    BY <2>1 DEF Values
  <2>4. DOMAIN NewMap \cup names = names
    BY <2>1
  <2>5. ASSUME NEW n \in names
        PROVE  Values(NewMap, n) \o (IF n \in DOMAIN headers THEN Taken(n, headers[n])
                                     ELSE <<>>) = Taken(n, headers[n])
    <3>1. n \in DOMAIN headers /\ Taken(n, headers[n]) \in Seq(Printable)
      BY <1>1
    <3>2. <<>> \o Taken(n, headers[n]) = Taken(n, headers[n])
      BY <3>1, ConcatEmptySeq
    <3> QED
      BY <2>3, <3>1, <3>2
  <2> HIDE DEF names
  <2> QED
    BY <2>2, <2>4, <2>5
<1>3. DOMAIN seen = names /\ \A n \in names : seen[n] = Taken(n, headers[n])
  BY <1>2
<1> HIDE DEF seen
<1>4. \A n : n \in names <=> n \in DOMAIN headers /\ Taken(n, headers[n]) # <<>>
  OBVIOUS
<1> HIDE DEF names
<1>5. Clean(seen) /\ DOMAIN seen \subseteq DOMAIN headers
  BY <1>1, <1>3, <1>4 DEF Clean
<1>6. ASSUME NEW n \in DOMAIN headers, n \in Spelled \ Reserved
      PROVE  Values(seen, n) = Only(headers[n], Printable)
  BY <1>1, <1>3, <1>4, <1>6 DEF Values
<1>7. ASSUME NEW n, n \notin DOMAIN headers \/ n \notin Spelled \ Reserved
      PROVE  Values(seen, n) = <<>>
  BY <1>1, <1>3, <1>4, <1>7 DEF Values
<1> QED
  BY <1>5, <1>6, <1>7 DEF seen

\* insert puts the value behind those of its name and leaves every other name alone.
LEMMA InsertGives ==
  ASSUME NEW map, NEW name, NEW value, NEW T, Printable \subseteq T,
         \A n \in DOMAIN map : map[n] \in Seq(T)
  PROVE  LET new == Insert(map, name, value)
         IN  /\ DOMAIN map \subseteq DOMAIN new
             /\ DOMAIN new \subseteq DOMAIN map \cup (Spelled \ Reserved)
             /\ \A n \in DOMAIN new : new[n] \in Seq(T)
             /\ \A n \in DOMAIN new \ DOMAIN map : new[n] \in Seq(Printable)
             /\ \A n \in DOMAIN map : map[n] \in Seq(Printable) => new[n] \in Seq(Printable)
<1>1. CASE Accepts(name, value)
  <2> DEFINE new == Insert(map, name, value)
  <2>1. /\ name \in Spelled \ Reserved /\ value \in Printable
        /\ DOMAIN new = DOMAIN map \cup {name}
        /\ new[name] = Append(Values(map, name), value)
        /\ \A n \in DOMAIN map : n # name => new[n] = map[n]
    BY <1>1 DEF Insert, Accepts
  <2> HIDE DEF new
  <2>2. CASE name \in DOMAIN map
    <3>1. new[name] = Append(map[name], value)
      BY <2>1, <2>2 DEF Values
    <3>2. new[name] \in Seq(T)
      BY <2>1, <2>2, <3>1, AppendProperties
    <3>3. map[name] \in Seq(Printable) => new[name] \in Seq(Printable)
      BY <2>1, <3>1, AppendProperties
    <3> QED
      BY <2>1, <2>2, <3>2, <3>3 DEF new
  <2>3. CASE name \notin DOMAIN map
    <3>1. new[name] = Append(<<>>, value)
      BY <2>1, <2>3 DEF Values
    <3>2. new[name] \in Seq(Printable) /\ new[name] \in Seq(T)
      BY <2>1, <3>1, AppendProperties, EmptySeq
    <3> QED
      BY <2>1, <2>3, <3>2 DEF new
  <2> QED
    BY <2>2, <2>3
<1>2. CASE ~Accepts(name, value)
  BY <1>2 DEF Insert
<1> QED
  BY <1>1, <1>2
=============================================================================
