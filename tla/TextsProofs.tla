----------------------------- MODULE TextsProofs -----------------------------
(***************************************************************************)
(* Proofs of Texts for texts of every length, over any set of bytes.       *)
(***************************************************************************)
EXTENDS Texts, SequenceFacts

Byte == 0..255

-----------------------------------------------------------------------------
(***************************************************************************)
(* encode() and decode().                                                  *)
(***************************************************************************)
\* A digit of encode() is a digit to decode(), of the same value.
LEMMA UpperDigits ==
  \A d \in 0..15 : /\ UPPER_XDIGITS[d + 1] \in Byte
                   /\ isxdigit(UPPER_XDIGITS[d + 1])
                   /\ unreserved(UPPER_XDIGITS[d + 1])
                   /\ xvalue(UPPER_XDIGITS[d + 1]) = d
<1> SUFFICES ASSUME NEW d \in 0..15
             PROVE  /\ UPPER_XDIGITS[d + 1] \in Byte
                    /\ isxdigit(UPPER_XDIGITS[d + 1])
                    /\ unreserved(UPPER_XDIGITS[d + 1])
                    /\ xvalue(UPPER_XDIGITS[d + 1]) = d
  OBVIOUS
<1>1. \/ d < 10 /\ UPPER_XDIGITS[d + 1] = 48 + d
      \/ d >= 10 /\ UPPER_XDIGITS[d + 1] = 55 + d
  BY DEF UPPER_XDIGITS
<1> QED BY <1>1 DEF Byte, isxdigit, unreserved, isalnum, xvalue, digits

\* The test of decode() for an escape, the byte it writes and where it goes on.
Escaped(url, i) ==
    /\ url[i] = PERCENT
    /\ i + 1 <= Len(url)
    /\ isxdigit(url[i + 1])
    /\ isxdigit(at(url, i + 2))

Decoded(url, i) ==
    IF Escaped(url, i) THEN 16 * xvalue(url[i + 1]) + xvalue(url[i + 2]) ELSE plain(url[i])

NextPlace(url, i) == IF Escaped(url, i) THEN i + 3 ELSE i + 1

\* The recursive function in the definition of decode().
from(url) ==
    CHOOSE f : f = [i \in 1..Len(url) + 1 |->
        IF i > Len(url) THEN <<>>
        ELSE IF /\ url[i] = PERCENT
                /\ i + 1 <= Len(url)
                /\ isxdigit(url[i + 1])
                /\ isxdigit(at(url, i + 2))
        THEN <<16 * xvalue(url[i + 1]) + xvalue(url[i + 2])>> \o f[i + 3]
        ELSE <<plain(url[i])>> \o f[i + 1]]

\* An escape ends within the text: the terminator is not a digit.
LEMMA EscapesAreInside ==
  ASSUME NEW url \in Seq(Byte), NEW i \in 1..Len(url)
  PROVE  /\ Escaped(url, i) => /\ i + 2 <= Len(url)
                               /\ isxdigit(url[i + 1]) /\ isxdigit(url[i + 2])
         /\ NextPlace(url, i) \in i + 1..Len(url) + 1
         /\ Decoded(url, i) \in Int
<1>1. Len(url) \in Nat /\ i \in Nat /\ \A j \in 1..Len(url) : url[j] \in Byte
  BY LenProperties, ElementOfSeq
<1>2. ASSUME Escaped(url, i) PROVE i + 2 <= Len(url) /\ isxdigit(url[i + 1]) /\ isxdigit(url[i + 2])
  <2>1. ~isxdigit(0)
    BY DEF isxdigit, digits
  <2> QED BY <1>1, <1>2, <2>1 DEF Escaped, at
<1>3. NextPlace(url, i) \in i + 1..Len(url) + 1
  BY <1>1, <1>2 DEF NextPlace
<1>4. ASSUME NEW c \in Byte, isxdigit(c) PROVE xvalue(c) \in Int
  <2>1. c \in Int
    BY DEF Byte
  <2>2. \/ c \in digits
        \/ c \notin digits /\ c \in 65..70
        \/ c \notin digits /\ c \notin 65..70 /\ c \in 97..102
    BY <1>4 DEF isxdigit
  <2>3. \/ xvalue(c) = c - 48
        \/ xvalue(c) = c - 55
        \/ xvalue(c) = c - 87
    BY <2>1, <2>2 DEF xvalue, digits
  <2> QED BY <2>1, <2>3
<1>5. plain(url[i]) \in Int
  <2>1. \A c \in Byte : c \in Int
    BY DEF Byte
  <2>2. url[i] \in Int
    BY <1>1, <2>1
  <2> QED BY <2>2 DEF plain, SPACE
<1>6. Decoded(url, i) \in Int
  <2>1. CASE Escaped(url, i)
    <3>1. i + 1 \in 1..Len(url) /\ i + 2 \in 1..Len(url)
      BY <1>1, <1>2, <2>1
    <3>2. xvalue(url[i + 1]) \in Int /\ xvalue(url[i + 2]) \in Int
      BY <1>1, <1>2, <1>4, <2>1, <3>1
    <3> QED BY <2>1, <3>2 DEF Decoded
  <2>2. CASE ~Escaped(url, i)
    BY <1>5, <2>2 DEF Decoded
  <2> QED BY <2>1, <2>2
<1> QED BY <1>2, <1>3, <1>6

\* decode() adds a byte and goes on, place by place.
LEMMA DecodeReads ==
  ASSUME NEW url \in Seq(Byte)
  PROVE  /\ decode(url) = from(url)[1]
         /\ from(url)[Len(url) + 1] = <<>>
         /\ \A i \in 1..Len(url) :
              from(url)[i] = <<Decoded(url, i)>> \o from(url)[NextPlace(url, i)]
<1> DEFINE size == Len(url)
           V == Seq(Int)
           next == [i \in 1..size |-> NextPlace(url, i)]
           step == [i \in 1..size |-> [s \in V |-> <<Decoded(url, i)>> \o s]]
           Is(f) == f = [i \in 1..size + 1 |->
                           IF i > size THEN <<>>
                           ELSE IF /\ url[i] = PERCENT
                                   /\ i + 1 <= size
                                   /\ isxdigit(url[i + 1])
                                   /\ isxdigit(at(url, i + 2))
                           THEN <<16 * xvalue(url[i + 1]) + xvalue(url[i + 2])>> \o f[i + 3]
                           ELSE <<plain(url[i])>> \o f[i + 1]]
<1>1. size \in Nat
  BY LenProperties
<1>2. \A i \in 1..size : NextPlace(url, i) \in i + 1..size + 1 /\ Decoded(url, i) \in Int
  BY EscapesAreInside
<1> HIDE DEF size
<1>3. next \in [1..size -> 1..size + 1] /\ \A i \in 1..size : next[i] > i
  BY <1>1, <1>2
<1>4. step \in [1..size -> [V -> V]]
  <2> SUFFICES ASSUME NEW i \in 1..size, NEW s \in V
               PROVE  <<Decoded(url, i)>> \o s \in V
    OBVIOUS
  <2>1. <<Decoded(url, i)>> \in Seq(Int)
    BY <1>2
  <2> QED BY <2>1, ConcatProperties
<1>5. PICK f \in [1..size + 1 -> V] :
        \A i \in 1..size + 1 : f[i] = IF i > size THEN <<>> ELSE step[i][f[next[i]]]
  <2>1. Recursion(size, V, <<>>, next, step)
    BY <1>1, <1>3, <1>4 DEF Recursion
  <2> HIDE DEF step, next, V, Is
  <2> QED BY <2>1, DownwardRecursion
<1>6. \A i \in 1..size : f[i] = <<Decoded(url, i)>> \o f[NextPlace(url, i)]
  <2> SUFFICES ASSUME NEW i \in 1..size
               PROVE  f[i] = <<Decoded(url, i)>> \o f[NextPlace(url, i)]
    OBVIOUS
  <2>1. i \in 1..size + 1 /\ ~(i > size) /\ NextPlace(url, i) \in 1..size + 1
    BY <1>1, <1>2
  <2>2. f[i] = step[i][f[next[i]]] /\ next[i] = NextPlace(url, i)
    BY <1>5, <2>1
  <2>3. f[NextPlace(url, i)] \in V
    BY <2>1
  <2> QED BY <2>2, <2>3
<1>7. Is(f)
  <2> SUFFICES ASSUME NEW i \in 1..size + 1
      PROVE f[i] = IF i > size THEN <<>>
                   ELSE IF /\ url[i] = PERCENT
                           /\ i + 1 <= size
                           /\ isxdigit(url[i + 1])
                           /\ isxdigit(at(url, i + 2))
                   THEN <<16 * xvalue(url[i + 1]) + xvalue(url[i + 2])>> \o f[i + 3]
                   ELSE <<plain(url[i])>> \o f[i + 1]
    OBVIOUS
  <2>1. CASE i > size
    BY <1>5, <2>1
  <2>2. CASE ~(i > size)
    <3>1. i \in 1..size
      BY <1>1, <2>2
    <3>2. f[i] = <<Decoded(url, i)>> \o f[NextPlace(url, i)]
      BY <1>6, <3>1
    <3> QED BY <2>2, <3>2 DEF Decoded, NextPlace, Escaped, size
  <2> QED BY <2>1, <2>2
<1>8. Is(from(url))
  BY <1>7 DEF from, size
<1>9. from(url)[size + 1] = <<>>
  BY <1>1, <1>8
<1>10. ASSUME NEW i \in 1..size
       PROVE  from(url)[i] = <<Decoded(url, i)>> \o from(url)[NextPlace(url, i)]
  <2>1. i \in 1..size + 1 /\ ~(i > size)
    BY <1>1
  <2>2. from(url)[i] =
          IF /\ url[i] = PERCENT
             /\ i + 1 <= size
             /\ isxdigit(url[i + 1])
             /\ isxdigit(at(url, i + 2))
          THEN <<16 * xvalue(url[i + 1]) + xvalue(url[i + 2])>> \o from(url)[i + 3]
          ELSE <<plain(url[i])>> \o from(url)[i + 1]
    BY <1>8, <2>1
  <2> QED BY <2>2 DEF Decoded, NextPlace, Escaped, size
<1>11. decode(url) = from(url)[1]
  BY DEF decode, from
<1> QED BY <1>9, <1>10, <1>11 DEF size

\* The piece of encode() for each byte.
EncodedPieces(t) ==
    [i \in 1..Len(t) |-> IF unreserved(t[i]) THEN <<t[i]>> ELSE percentEncoded(t[i])]

\* An encoded byte: the percent sign and the digits of its two halves.
LEMMA PercentEncoding ==
  ASSUME NEW c \in Byte
  PROVE  /\ percentEncoded(c) \in Seq({b \in Byte : unreserved(b) \/ b = PERCENT})
         /\ Len(percentEncoded(c)) = 3
         /\ percentEncoded(c)[1] = PERCENT
         /\ isxdigit(percentEncoded(c)[2]) /\ isxdigit(percentEncoded(c)[3])
         /\ 16 * xvalue(percentEncoded(c)[2]) + xvalue(percentEncoded(c)[3]) = c
<1> DEFINE high == c \div 16
           low == c % 16
<1>1. high \in 0..15 /\ low \in 0..15 /\ 16 * high + low = c
  BY DEF Byte
<1> HIDE DEF high, low
<1>2. percentEncoded(c) = <<PERCENT, UPPER_XDIGITS[high + 1], UPPER_XDIGITS[low + 1]>>
  BY DEF percentEncoded, high, low
<1>3. \A d \in {high, low} : /\ UPPER_XDIGITS[d + 1] \in Byte
                             /\ isxdigit(UPPER_XDIGITS[d + 1])
                             /\ unreserved(UPPER_XDIGITS[d + 1])
                             /\ xvalue(UPPER_XDIGITS[d + 1]) = d
  BY <1>1, UpperDigits
<1>4. PERCENT \in Byte
  BY DEF PERCENT, Byte
<1> QED BY <1>1, <1>2, <1>3, <1>4

\* The pieces are texts of bytes that have no meaning in a URL.
LEMMA EncodedPiecesType ==
  ASSUME NEW t \in Seq(Byte)
  PROVE  EncodedPieces(t) \in Seq(Seq({b \in Byte : unreserved(b) \/ b = PERCENT}))
<1> DEFINE Safe == {b \in Byte : unreserved(b) \/ b = PERCENT}
<1>1. Len(t) \in Nat /\ \A i \in 1..Len(t) : t[i] \in Byte
  BY LenProperties, ElementOfSeq
<1>2. ASSUME NEW i \in 1..Len(t) PROVE EncodedPieces(t)[i] \in Seq(Safe)
  <2>1. CASE unreserved(t[i])
    <3>1. EncodedPieces(t)[i] = <<t[i]>> /\ t[i] \in Safe
      BY <1>1, <2>1 DEF EncodedPieces
    <3> HIDE DEF Safe
    <3> QED BY <3>1
  <2>2. CASE ~unreserved(t[i])
    <3>1. EncodedPieces(t)[i] = percentEncoded(t[i])
      BY <2>2 DEF EncodedPieces
    <3> QED BY <1>1, <3>1, PercentEncoding
  <2> QED BY <2>1, <2>2
<1>3. EncodedPieces(t) \in [1..Len(t) -> Seq(Safe)]
  <2> HIDE DEF Safe
  <2> QED BY <1>2 DEF EncodedPieces
<1> HIDE DEF Safe
<1>4. EncodedPieces(t) \in Seq(Seq(Safe))
  BY <1>1, <1>3
<1> QED BY <1>4 DEF Safe

\* There is a piece for each byte.
LEMMA EncodedPiecesLen ==
  ASSUME NEW t \in Seq(Byte)
  PROVE  Len(EncodedPieces(t)) = Len(t)
<1>1. Len(t) \in Nat
  BY LenProperties
<1> QED BY <1>1 DEF EncodedPieces

\* decode() at the beginning of a piece writes its byte and goes on behind the piece.
LEMMA DecodeAPiece ==
  ASSUME NEW t \in Seq(Byte), NEW k \in 1..Len(t)
  PROVE  LET i == Before(EncodedPieces(t), k - 1) + 1
         IN  /\ i \in 1..Len(encode(t))
             /\ Decoded(encode(t), i) = t[k]
             /\ NextPlace(encode(t), i) = Before(EncodedPieces(t), k) + 1
<1> DEFINE pieces == EncodedPieces(t)
           url == encode(t)
           b == Before(pieces, k - 1)
           Safe == {c \in Byte : unreserved(c) \/ c = PERCENT}
<1>1. Len(t) \in Nat /\ t[k] \in Byte
  BY LenProperties, ElementOfSeq
<1>2. url = FlattenSeq(pieces)
  BY DEF encode, EncodedPieces
<1>3. pieces \in Seq(Seq(Safe)) /\ Len(pieces) = Len(t)
  BY EncodedPiecesType, EncodedPiecesLen
<1>4. /\ b \in Nat /\ Before(pieces, k) = b + Len(pieces[k])
      /\ Before(pieces, k) <= Len(url)
      /\ \A j \in 1..Len(pieces[k]) : url[b + j] = pieces[k][j]
  <2>1. k - 1 \in 0..Len(pieces) /\ k \in 1..Len(pieces)
    BY <1>1, <1>3
  <2> HIDE DEF pieces, Safe, url
  <2> QED BY <1>2, <1>3, <2>1, FlattenPlaces
<1>5. Len(url) \in Nat
  <2> HIDE DEF pieces, Safe, url
  <2> QED BY <1>2, <1>3, FlattenPlaces, LenProperties
<1>6. pieces[k] = IF unreserved(t[k]) THEN <<t[k]>> ELSE percentEncoded(t[k])
  BY DEF EncodedPieces
<1> HIDE DEF pieces, url, b, Safe
<1>7. CASE unreserved(t[k])
  <2>1. pieces[k] = <<t[k]>> /\ Len(pieces[k]) = 1
    BY <1>6, <1>7
  <2>2. b + 1 \in 1..Len(url) /\ url[b + 1] = t[k] /\ Before(pieces, k) = b + 1
    BY <1>4, <1>5, <2>1
  <2>3. t[k] # PERCENT /\ t[k] # PLUS
    <3>1. ~unreserved(PERCENT) /\ ~unreserved(PLUS)
      BY DEF unreserved, isalnum, digits, PERCENT, PLUS
    <3> QED BY <1>7, <3>1
  <2>4. ~Escaped(url, b + 1)
    BY <2>2, <2>3 DEF Escaped
  <2>5. Decoded(url, b + 1) = t[k] /\ NextPlace(url, b + 1) = Before(pieces, k) + 1
    BY <1>4, <2>2, <2>3, <2>4 DEF Decoded, NextPlace, plain
  <2> QED BY <2>2, <2>5 DEF pieces, url, b
<1>8. CASE ~unreserved(t[k])
  <2>1. /\ Len(pieces[k]) = 3 /\ pieces[k][1] = PERCENT
        /\ isxdigit(pieces[k][2]) /\ isxdigit(pieces[k][3])
        /\ 16 * xvalue(pieces[k][2]) + xvalue(pieces[k][3]) = t[k]
    BY <1>1, <1>6, <1>8, PercentEncoding
  <2>2. /\ url[b + 1] = pieces[k][1] /\ url[b + 2] = pieces[k][2]
        /\ url[b + 3] = pieces[k][3] /\ Before(pieces, k) = b + 3
        /\ b + 3 <= Len(url)
    BY <1>4, <2>1
  <2>3. (b + 1) + 1 = b + 2 /\ (b + 1) + 2 = b + 3 /\ (b + 1) + 3 = (b + 3) + 1
        /\ b + 2 <= Len(url) /\ b + 1 \in 1..Len(url)
    BY <1>4, <1>5, <2>2
  <2>4. Escaped(url, b + 1)
    BY <2>1, <2>2, <2>3 DEF Escaped, at
  <2>5. Decoded(url, b + 1) = t[k] /\ NextPlace(url, b + 1) = Before(pieces, k) + 1
    BY <2>1, <2>2, <2>3, <2>4 DEF Decoded, NextPlace
  <2> QED BY <2>3, <2>5 DEF pieces, url, b
<1> QED BY <1>7, <1>8

\* What decode() has still to write at the beginning of a piece is the rest of the
\* text; at the first piece that is all of it.
LEMMA DecodeEncode ==
  ASSUME NEW t \in Seq(Byte)
  PROVE  decode(encode(t)) = t
<1> DEFINE pieces == EncodedPieces(t)
           url == encode(t)
           n == Len(t)
           S == {k \in 0..n : from(url)[Before(pieces, k) + 1] = SubSeq(t, k + 1, n)}
<1>1. n \in Nat
  BY LenProperties
<1>2. /\ url \in Seq(Byte) /\ Before(pieces, 0) = 0 /\ Before(pieces, n) = Len(url)
  <2> DEFINE Safe == {c \in Byte : unreserved(c) \/ c = PERCENT}
  <2>1. pieces \in Seq(Seq(Safe)) /\ Len(pieces) = n
    BY EncodedPiecesType, EncodedPiecesLen
  <2>2. url = FlattenSeq(pieces)
    BY DEF encode, EncodedPieces
  <2>3. Safe \subseteq Byte
    OBVIOUS
  <2> HIDE DEF pieces, url, Safe, n
  <2>4. url \in Seq(Safe)
    BY <2>1, <2>2, FlattenPlaces
  <2>5. url \in Seq(Byte)
    BY <2>3, <2>4, SeqMonotonic
  <2> QED BY <2>1, <2>2, <2>5, FlattenPlaces
<1>3. n \in S
  <2>1. from(url)[Len(url) + 1] = <<>>
    BY <1>2, DecodeReads
  <2>2. SubSeq(t, n + 1, n) = <<>>
    BY <1>1, SubSeqEmpty
  <2>3. from(url)[Before(pieces, n) + 1] = SubSeq(t, n + 1, n)
    BY <1>2, <2>1, <2>2
  <2>4. n \in 0..n
    BY <1>1
  <2> HIDE DEF n, pieces, url
  <2> QED BY <2>3, <2>4
<1>4. ASSUME NEW k \in 0..n, k < n, k + 1 \in S PROVE k \in S
  <2> DEFINE i == Before(pieces, k) + 1
  <2>1. k + 1 \in 1..n /\ (k + 1) - 1 = k
    BY <1>1, <1>4
  <2>2. i \in 1..Len(url) /\ Decoded(url, i) = t[k + 1]
        /\ NextPlace(url, i) = Before(pieces, k + 1) + 1
    BY <2>1, DecodeAPiece
  <2>3. from(url)[i] = <<t[k + 1]>> \o from(url)[Before(pieces, k + 1) + 1]
    <3> HIDE DEF i, url, pieces
    <3> QED BY <1>2, <2>2, DecodeReads
  <2>4. from(url)[Before(pieces, k + 1) + 1] = SubSeq(t, (k + 1) + 1, n)
    BY <1>4
  <2>5. SubSeq(t, k + 1, n) = <<t[k + 1]>> \o SubSeq(t, (k + 1) + 1, n)
    BY <1>1, <2>1, SubSeqRecursiveFirst
  <2> QED BY <2>3, <2>4, <2>5
<1>5. \A k \in 0..n : k \in S
  <2> HIDE DEF S, n
  <2> QED BY <1>1, <1>3, <1>4, DownwardInduction
<1>6. 0 \in S
  <2> HIDE DEF S
  <2> QED BY <1>1, <1>5
<1>7. from(url)[1] = SubSeq(t, 1, n)
  BY <1>2, <1>6
<1> QED BY <1>2, <1>7, DecodeReads, SubSeqFull

-----------------------------------------------------------------------------
(***************************************************************************)
(* Sets of positions in their order.                                       *)
(***************************************************************************)
\* a names the members of S one by one, from the least to the greatest.
Enumerates(a, S) ==
    /\ a \in Seq(S)
    /\ \A i, j \in 1..Len(a) : i < j => a[i] < a[j]
    /\ \A s \in S : \E k \in 1..Len(a) : a[k] = s

\* Every set of positions has such a sequence.
LEMMA EnumerationExists ==
  ASSUME NEW n \in Nat, NEW S \in SUBSET (1..n)
  PROVE  \E a \in Seq(Nat) : Enumerates(a, S)
<1> DEFINE Have(k) == \A U \in SUBSET (1..k) : \E a \in Seq(Nat) : Enumerates(a, U)
           T == {k \in 0..n : Have(k)}
<1>1. Have(0)
  <2> SUFFICES ASSUME NEW U \in SUBSET (1..0)
               PROVE  <<>> \in Seq(Nat) /\ Enumerates(<<>>, U)
    OBVIOUS
  <2>1. U = {}
    OBVIOUS
  <2>2. <<>> \in Seq(U) /\ <<>> \in Seq(Nat) /\ Len(<<>>) = 0
    BY EmptySeq
  <2> QED BY <2>1, <2>2 DEF Enumerates
<1>2. ASSUME NEW k \in 0..n, k < n, k \in T PROVE Have(k + 1)
  <2> SUFFICES ASSUME NEW U \in SUBSET (1..k + 1)
               PROVE  \E a \in Seq(Nat) : Enumerates(a, U)
    OBVIOUS
  <2> DEFINE W == U \ {k + 1}
  <2>1. W \in SUBSET (1..k) /\ k \in Nat
    OBVIOUS
  <2>2. PICK a \in Seq(Nat) : Enumerates(a, W)
    BY <1>2, <2>1
  <2>3. CASE k + 1 \notin U
    <3>1. W = U
      BY <2>3
    <3> QED BY <2>2, <3>1
  <2>4. CASE k + 1 \in U
    <3> DEFINE b == Append(a, k + 1)
               m == Len(a)
    <3>1. a \in Seq(U)
      <4>1. W \subseteq U /\ a \in Seq(W)
        BY <2>2 DEF Enumerates
      <4> HIDE DEF W
      <4> QED BY <4>1, SeqMonotonic
    <3>2. m \in Nat /\ \A i \in 1..m : a[i] \in W /\ a[i] \in 1..k
      <4>1. a \in Seq(W)
        BY <2>2 DEF Enumerates
      <4>2. m \in Nat /\ \A i \in 1..m : a[i] \in W
        <5> HIDE DEF W
        <5> QED BY <4>1, LenProperties, ElementOfSeq
      <4> QED BY <4>2, <2>1
    <3>3. /\ b \in Seq(U) /\ b \in Seq(Nat)
          /\ Len(b) = m + 1 /\ b[m + 1] = k + 1 /\ \A i \in 1..m : b[i] = a[i]
      BY <2>1, <2>4, <3>1, <3>2
    <3> HIDE DEF b, m
    <3>4. ASSUME NEW i \in 1..m + 1, NEW j \in 1..m + 1, i < j PROVE b[i] < b[j]
      <4>1. i \in 1..m /\ b[i] = a[i] /\ a[i] \in 1..k
        BY <3>2, <3>3, <3>4
      <4>2. CASE j = m + 1
        BY <2>1, <3>3, <4>1, <4>2
      <4>3. CASE j # m + 1
        <5>1. j \in 1..m /\ b[j] = a[j]
          BY <3>2, <3>3, <4>3
        <5> QED BY <2>2, <3>4, <4>1, <5>1 DEF Enumerates, m
      <4> QED BY <4>2, <4>3
    <3>5. ASSUME NEW s \in U PROVE \E i \in 1..m + 1 : b[i] = s
      <4>1. CASE s = k + 1
        BY <3>2, <3>3, <4>1
      <4>2. CASE s # k + 1
        <5>1. s \in W
          BY <4>2
        <5>2. PICK i \in 1..m : a[i] = s
          BY <2>2, <5>1 DEF Enumerates, m
        <5> QED BY <3>2, <3>3, <5>2
      <4> QED BY <4>1, <4>2
    <3> QED BY <3>3, <3>4, <3>5 DEF Enumerates
  <2> QED BY <2>3, <2>4
<1>3. n \in T
  <2> HIDE DEF Have
  <2>1. 0 \in T /\ \A k \in 0..n : k < n /\ k \in T => k + 1 \in T
    BY <1>1, <1>2
  <2> HIDE DEF T
  <2>2. \A k \in 0..n : k \in T
    BY <2>1, UpwardInduction
  <2> QED BY <2>2
<1> QED BY <1>3

\* In an enumeration the k-th member has k - 1 before it.
LEMMA RankInEnumeration ==
  ASSUME NEW S \in SUBSET Nat, NEW a, Enumerates(a, S), NEW k \in 1..Len(a)
  PROVE  Cardinality({j \in S : j < a[k]}) = k - 1
<1> DEFINE T == {j \in S : j < a[k]}
           f == [i \in 1..k - 1 |-> a[i]]
<1>1. Len(a) \in Nat /\ \A i \in 1..Len(a) : a[i] \in S /\ a[i] \in Nat
  BY LenProperties, ElementOfSeq DEF Enumerates
<1>2. \A i, j \in 1..Len(a) : i < j => a[i] < a[j]
  BY DEF Enumerates
<1>3. k - 1 \in Nat /\ \A i \in 1..k - 1 : i \in 1..Len(a) /\ i < k
  BY <1>1
<1>4. f \in [1..k - 1 -> T]
  BY <1>1, <1>2, <1>3
<1>5. \A i, j \in 1..k - 1 : f[i] = f[j] => i = j
  <2> SUFFICES ASSUME NEW i \in 1..k - 1, NEW j \in 1..k - 1, i # j PROVE a[i] # a[j]
    OBVIOUS
  <2>1. i \in 1..Len(a) /\ j \in 1..Len(a) /\ a[i] \in Nat /\ a[j] \in Nat
    BY <1>1, <1>3
  <2>2. i < j \/ j < i
    BY <1>3
  <2> QED BY <1>2, <2>1, <2>2
<1>6. ASSUME NEW t \in T PROVE \E i \in 1..k - 1 : f[i] = t
  <2>1. PICK i \in 1..Len(a) : a[i] = t
    BY DEF Enumerates
  <2>2. i < k
    <3>1. ~(k < i) /\ k # i
      BY <1>1, <1>2, <2>1
    <3> QED BY <1>1, <3>1
  <2>3. i \in 1..k - 1
    BY <1>1, <2>2
  <2> QED BY <2>1, <2>3
<1> HIDE DEF T, f
<1>7. f \in Bijection(1..k - 1, T)
  BY <1>4, <1>5, <1>6 DEF Bijection, Injection, Surjection, IsInjective
<1>8. ExistsBijection(1..k - 1, T)
  BY <1>7 DEF ExistsBijection
<1>9. Cardinality(T) = k - 1
  BY <1>3, <1>8, FS_CountingElements
<1> QED BY <1>9 DEF T

\* An enumeration has one place for each member.
LEMMA EnumerationLength ==
  ASSUME NEW S \in SUBSET Nat, NEW a, Enumerates(a, S)
  PROVE  Cardinality(S) = Len(a)
<1>1. Len(a) \in Nat /\ a \in [1..Len(a) -> S] /\ \A i \in 1..Len(a) : a[i] \in Nat
  BY LenProperties, ElementOfSeq DEF Enumerates
<1>2. \A i, j \in 1..Len(a) : a[i] = a[j] => i = j
  <2> SUFFICES ASSUME NEW i \in 1..Len(a), NEW j \in 1..Len(a), i # j PROVE a[i] # a[j]
    OBVIOUS
  <2>1. i < j \/ j < i
    BY <1>1
  <2>2. a[i] < a[j] \/ a[j] < a[i]
    BY <2>1 DEF Enumerates
  <2> QED BY <1>1, <2>2
<1>3. a \in Bijection(1..Len(a), S)
  BY <1>1, <1>2 DEF Enumerates, Bijection, Injection, Surjection, IsInjective
<1>4. ExistsBijection(1..Len(a), S)
  BY <1>3 DEF ExistsBijection
<1> QED BY <1>1, <1>4, FS_CountingElements

\* There is only one, and Ascending gives it.
LEMMA AscendingIs ==
  ASSUME NEW S \in SUBSET Nat, NEW a, Enumerates(a, S)
  PROVE  Ascending(S) = a
<1> DEFINE rank(i) == Cardinality({j \in S : j < i})
<1>1. Cardinality(S) = Len(a) /\ a = [k \in 1..Len(a) |-> a[k]]
  <2>1. a \in [1..Len(a) -> S]
    BY LenProperties DEF Enumerates
  <2> QED BY <2>1, EnumerationLength
<1>2. Len(a) \in Nat /\ \A k \in 1..Len(a) : a[k] \in S /\ rank(a[k]) = k - 1
  BY RankInEnumeration, LenProperties, ElementOfSeq DEF Enumerates
<1> HIDE DEF rank
<1>3. ASSUME NEW k \in 1..Len(a) PROVE (CHOOSE i \in S : rank(i) = k - 1) = a[k]
  <2> DEFINE c == CHOOSE i \in S : rank(i) = k - 1
  <2>1. c \in S /\ rank(c) = k - 1
    BY <1>2
  <2> HIDE DEF c
  <2>2. PICK l \in 1..Len(a) : a[l] = c
    BY <2>1 DEF Enumerates
  <2>3. l - 1 = k - 1
    BY <1>2, <2>1, <2>2
  <2>4. l = k
    BY <1>2, <2>3
  <2> QED BY <2>2, <2>4 DEF c
<1>4. Ascending(S) = [k \in 1..Len(a) |-> CHOOSE i \in S : rank(i) = k - 1]
  BY <1>1 DEF Ascending, rank
<1>5. Ascending(S) = [k \in 1..Len(a) |-> a[k]]
  BY <1>3, <1>4
<1> QED BY <1>1, <1>5

\* Ascending enumerates every set of positions.
LEMMA AscendingEnumerates ==
  ASSUME NEW n \in Nat, NEW S \in SUBSET (1..n)
  PROVE  Enumerates(Ascending(S), S)
<1>1. PICK a \in Seq(Nat) : Enumerates(a, S)
  BY EnumerationExists
<1>2. S \in SUBSET Nat
  OBVIOUS
<1> QED BY <1>1, <1>2, AscendingIs

-----------------------------------------------------------------------------
(***************************************************************************)
(* What decode() takes for an escape.                                      *)
(***************************************************************************)
\* The operators of DecodesEachEscapeOnce, for any text.
Escape(t, i) ==
    /\ i \in 1..Len(t) - 2
    /\ t[i] = PERCENT /\ isxdigit(t[i + 1]) /\ isxdigit(t[i + 2])

MeantPlaces(t) == {i \in 1..Len(t) : ~Escape(t, i - 1) /\ ~Escape(t, i - 2)}

Meaning(t, i) ==
    IF Escape(t, i) THEN 16 * xvalue(t[i + 1]) + xvalue(t[i + 2])
    ELSE IF t[i] = PLUS THEN SPACE ELSE t[i]

\* decode() recognizes the escapes, for all that its test reads beyond the text.
LEMMA EscapesAreEscaped ==
  ASSUME NEW t \in Seq(Byte), NEW i \in 1..Len(t)
  PROVE  (Escape(t, i) <=> Escaped(t, i)) /\ Decoded(t, i) = Meaning(t, i)
<1>1. Len(t) \in Nat
  BY LenProperties
<1>2. ASSUME Escaped(t, i) PROVE Escape(t, i)
  <2>1. i + 2 <= Len(t) /\ isxdigit(t[i + 1]) /\ isxdigit(t[i + 2])
    BY <1>2, EscapesAreInside
  <2>2. i \in 1..Len(t) - 2
    BY <1>1, <2>1
  <2> QED BY <1>2, <2>1, <2>2 DEF Escaped, Escape
<1>3. ASSUME Escape(t, i) PROVE Escaped(t, i)
  <2>1. i + 1 <= Len(t) /\ i + 2 <= Len(t)
    BY <1>1, <1>3 DEF Escape
  <2> QED BY <1>3, <2>1 DEF Escaped, Escape, at
<1>4. Decoded(t, i) = Meaning(t, i)
  BY <1>2, <1>3 DEF Decoded, Meaning, plain
<1> QED BY <1>2, <1>3, <1>4

\* From a byte that is meant decode() goes to the next one that is, or to the end.
LEMMA NextIsMeant ==
  ASSUME NEW t \in Seq(Byte), NEW i \in MeantPlaces(t)
  PROVE  /\ NextPlace(t, i) \in MeantPlaces(t) \union {Len(t) + 1}
         /\ \A j \in MeantPlaces(t) : j > i => j >= NextPlace(t, i)
<1>1. Len(t) \in Nat /\ i \in 1..Len(t) /\ ~Escape(t, i - 1) /\ ~Escape(t, i - 2)
  BY LenProperties DEF MeantPlaces
<1>2. NextPlace(t, i) \in i + 1..Len(t) + 1
  BY <1>1, EscapesAreInside
<1>3. NextPlace(t, i) = IF Escape(t, i) THEN i + 3 ELSE i + 1
  BY <1>1, EscapesAreEscaped DEF NextPlace
<1>4. CASE Escape(t, i)
  <2>1. ~isxdigit(PERCENT)
    BY DEF isxdigit, digits, PERCENT
  <2>2. ~Escape(t, i + 1) /\ ~Escape(t, i + 2)
    BY <1>4, <2>1 DEF Escape
  <2>3. (i + 3) - 1 = i + 2 /\ (i + 3) - 2 = i + 1
    BY <1>1
  <2>4. NextPlace(t, i) <= Len(t) => NextPlace(t, i) \in MeantPlaces(t)
    BY <1>1, <1>2, <1>3, <1>4, <2>2, <2>3 DEF MeantPlaces
  <2>5. ASSUME NEW j \in MeantPlaces(t), j > i PROVE j >= i + 3
    <3>1. j \in Int /\ ~Escape(t, j - 1) /\ ~Escape(t, j - 2)
      BY DEF MeantPlaces
    <3>2. j # i + 1 /\ j # i + 2
      <4>1. (i + 1) - 1 = i /\ (i + 2) - 2 = i
        BY <1>1
      <4> QED BY <1>4, <3>1, <4>1
    <3> QED BY <1>1, <2>5, <3>1, <3>2
  <2> QED BY <1>1, <1>2, <1>3, <1>4, <2>4, <2>5
<1>5. CASE ~Escape(t, i)
  <2>1. (i + 1) - 1 = i /\ (i + 1) - 2 = i - 1
    BY <1>1
  <2>2. NextPlace(t, i) <= Len(t) => NextPlace(t, i) \in MeantPlaces(t)
    BY <1>1, <1>2, <1>3, <1>5, <2>1 DEF MeantPlaces
  <2>3. \A j \in MeantPlaces(t) : j > i => j >= i + 1
    BY <1>1 DEF MeantPlaces
  <2> QED BY <1>1, <1>2, <1>3, <1>5, <2>2, <2>3
<1> QED BY <1>4, <1>5

\* decode() writes the meaning of the bytes that are meant, in their order.
LEMMA DecodeMeans ==
  ASSUME NEW t \in Seq(Byte)
  PROVE  LET meant == Ascending(MeantPlaces(t))
         IN  decode(t) = [k \in 1..Len(meant) |-> Meaning(t, meant[k])]
<1> DEFINE M == MeantPlaces(t)
           a == Ascending(M)
           m == Len(a)
           place(k) == IF k = m THEN Len(t) + 1 ELSE a[k + 1]
           rest(k) == [j \in 1..m - k |-> Meaning(t, a[k + j])]
           S == {k \in 0..m : from(t)[place(k)] = rest(k)}
<1>1. Len(t) \in Nat /\ M \in SUBSET (1..Len(t))
  BY LenProperties DEF MeantPlaces
<1>2. Enumerates(a, M)
  <2> HIDE DEF M
  <2> QED BY <1>1, AscendingEnumerates
<1> HIDE DEF a, M
<1>3. m \in Nat /\ \A k \in 1..m : a[k] \in M /\ a[k] \in 1..Len(t) /\ a[k] \in Int
  <2>1. m \in Nat /\ \A k \in 1..m : a[k] \in M
    BY <1>2, LenProperties, ElementOfSeq DEF Enumerates
  <2>2. \A s \in M : s \in 1..Len(t) /\ s \in Int
    BY <1>1
  <2> HIDE DEF m
  <2> QED BY <2>1, <2>2
<1>4. \A k, l \in 1..m : k < l => a[k] < a[l]
  BY <1>2 DEF Enumerates
<1>5. \A s \in M : \E k \in 1..m : a[k] = s
  BY <1>2 DEF Enumerates
<1> HIDE DEF m
<1>6. ASSUME NEW k \in 0..m, k < m PROVE NextPlace(t, a[k + 1]) = place(k + 1)
  <2> DEFINE p == NextPlace(t, a[k + 1])
  <2>1. k + 1 \in 1..m /\ a[k + 1] \in 1..Len(t) /\ a[k + 1] \in MeantPlaces(t)
    BY <1>3, <1>6 DEF M
  <2>2. p \in M \union {Len(t) + 1} /\ \A j \in M : j > a[k + 1] => j >= p
    BY <2>1, NextIsMeant DEF M
  <2>3. p > a[k + 1] /\ p \in Int /\ p <= Len(t) + 1
    BY <1>1, <2>1, EscapesAreInside
  <2> HIDE DEF p
  <2>4. ASSUME NEW l \in 1..m, a[l] = p PROVE l > k + 1
    <3>1. l # k + 1 /\ ~(l < k + 1)
      BY <1>3, <1>4, <2>1, <2>3, <2>4
    <3> QED BY <1>3, <2>1, <3>1
  <2>5. CASE k + 1 = m
    <3>1. p \notin M
      BY <1>3, <1>5, <2>4, <2>5
    <3> QED BY <2>2, <2>5, <3>1 DEF p
  <2>6. CASE k + 1 # m
    <3>1. (k + 1) + 1 \in 1..m /\ k + 1 < (k + 1) + 1
      BY <1>3, <2>1, <2>6
    <3>2. a[(k + 1) + 1] >= p /\ a[(k + 1) + 1] <= Len(t) /\ a[(k + 1) + 1] \in Int
      BY <1>3, <1>4, <2>1, <2>2, <3>1
    <3>3. p \in M
      BY <1>1, <2>2, <2>3, <3>2
    <3>4. PICK l \in 1..m : a[l] = p
      BY <1>5, <3>3
    <3>5. l > k + 1
      BY <2>4, <3>4
    <3>6. ~((k + 1) + 1 < l)
      BY <1>3, <1>4, <2>3, <3>1, <3>2, <3>4
    <3>7. l = (k + 1) + 1
      BY <1>3, <3>1, <3>5, <3>6
    <3> QED BY <2>6, <3>4, <3>7 DEF p
  <2> QED BY <2>5, <2>6
<1>7. place(0) = 1
  <2>1. CASE Len(t) = 0
    <3>1. m = 0
      BY <1>3, <2>1
    <3> QED BY <2>1, <3>1
  <2>2. CASE Len(t) # 0
    <3>1. ~Escape(t, 1 - 1) /\ ~Escape(t, 1 - 2)
      BY <1>1 DEF Escape
    <3>2. 1 \in M
      BY <1>1, <2>2, <3>1 DEF M, MeantPlaces
    <3>3. PICK k \in 1..m : a[k] = 1
      BY <1>5, <3>2
    <3>4. ~(1 < k) /\ 1 \in 1..m
      BY <1>3, <1>4, <3>3
    <3>5. k = 1 /\ m # 0 /\ 0 + 1 = 1
      BY <1>3, <3>3, <3>4
    <3> QED BY <3>3, <3>5
  <2> QED BY <2>1, <2>2
<1>8. m \in S
  <2>1. from(t)[Len(t) + 1] = <<>>
    BY DecodeReads
  <2>2. rest(m) = <<>> /\ m \in 0..m
    BY <1>3
  <2> QED BY <2>1, <2>2
<1>9. ASSUME NEW k \in 0..m, k < m, k + 1 \in S PROVE k \in S
  <2>1. k + 1 \in 1..m /\ a[k + 1] \in 1..Len(t) /\ place(k) = a[k + 1]
    BY <1>3, <1>9
  <2>2. from(t)[place(k)] = <<Decoded(t, a[k + 1])>> \o from(t)[place(k + 1)]
    <3>1. from(t)[a[k + 1]] = <<Decoded(t, a[k + 1])>> \o from(t)[NextPlace(t, a[k + 1])]
      BY <2>1, DecodeReads
    <3> HIDE DEF place
    <3> QED BY <1>6, <1>9, <2>1, <3>1
  <2>3. from(t)[place(k + 1)] = rest(k + 1) /\ Decoded(t, a[k + 1]) = Meaning(t, a[k + 1])
    BY <1>9, <2>1, EscapesAreEscaped
  <2>4. rest(k) = <<Meaning(t, a[k + 1])>> \o rest(k + 1)
    <3> DEFINE v == [l \in 1..m |-> Meaning(t, a[l])]
    <3>1. \A j \in 1..m - k : k + j \in 1..m
      BY <1>3, <2>1
    <3>2. \A j \in 1..m - (k + 1) : (k + 1) + j \in 1..m
      BY <1>3, <2>1
    <3>3. /\ rest(k) = [j \in 1..m - k |-> v[k + j]]
          /\ rest(k + 1) = [j \in 1..m - (k + 1) |-> v[(k + 1) + j]]
          /\ Meaning(t, a[k + 1]) = v[k + 1]
      BY <2>1, <3>1, <3>2
    <3> HIDE DEF v, rest
    <3>4. [j \in 1..m - k |-> v[k + j]] =
            <<v[k + 1]>> \o [j \in 1..m - (k + 1) |-> v[(k + 1) + j]]
      BY <1>3, <2>1
    <3> QED BY <3>3, <3>4
  <2> HIDE DEF place, rest
  <2> QED BY <2>2, <2>3, <2>4
<1>10. 0 \in S
  <2> HIDE DEF S
  <2>1. \A k \in 0..m : k \in S
    BY <1>3, <1>8, <1>9, DownwardInduction
  <2> QED BY <1>3, <2>1
<1>11. from(t)[1] = rest(0)
  <2> HIDE DEF place, rest
  <2> QED BY <1>7, <1>10
<1>12. rest(0) = [k \in 1..m |-> Meaning(t, a[k])]
  BY <1>3
<1>13. decode(t) = [k \in 1..m |-> Meaning(t, a[k])]
  BY <1>11, <1>12, DecodeReads
<1> QED BY <1>13 DEF m, a, M

-----------------------------------------------------------------------------
(***************************************************************************)
(* matchPrefix().                                                          *)
(***************************************************************************)
\* A prefix agrees with the sequence place by place.
LEMMA PrefixByPlaces ==
  ASSUME NEW X, NEW s \in Seq(X), NEW t \in Seq(X)
  PROVE  IsPrefix(s, t) <=> Len(s) <= Len(t) /\ \A i \in 1..Len(s) : s[i] = t[i]
<1>1. Len(s) \in Nat /\ Len(t) \in Nat /\ SubSeq(s, 1, Len(s)) = s
  BY LenProperties, SubSeqFull
<1>2. ASSUME Len(s) <= Len(t)
      PROVE  /\ SubSeq(t, 1, Len(s)) \in Seq(X) /\ Len(SubSeq(t, 1, Len(s))) = Len(s)
             /\ \A i \in 1..Len(s) : SubSeq(t, 1, Len(s))[i] = t[i]
  <2>1. \A i \in 1..Len(s) : t[i] \in X
    <3>1. \A i \in 1..Len(s) : i \in 1..Len(t)
      BY <1>1, <1>2
    <3> QED BY <3>1, ElementOfSeq
  <2>2. /\ SubSeq(t, 1, Len(s)) \in Seq(X)
        /\ Len(SubSeq(t, 1, Len(s))) = IF 1 <= Len(s) THEN Len(s) - 1 + 1 ELSE 0
        /\ \A i \in 1..Len(s) - 1 + 1 : SubSeq(t, 1, Len(s))[i] = t[1 + i - 1]
    BY <1>1, <2>1, SubSeqProperties
  <2>3. Len(s) - 1 + 1 = Len(s) /\ \A i \in 1..Len(s) : 1 + i - 1 = i
    BY <1>1
  <2> QED BY <1>1, <2>2, <2>3
<1>3. ASSUME IsPrefix(s, t) PROVE Len(s) <= Len(t) /\ \A i \in 1..Len(s) : s[i] = t[i]
  BY <1>1, <1>2, <1>3 DEF IsPrefix
<1>4. ASSUME Len(s) <= Len(t), \A i \in 1..Len(s) : s[i] = t[i] PROVE IsPrefix(s, t)
  <2>1. s = SubSeq(t, 1, Len(s))
    BY <1>1, <1>2, <1>4, SeqEqual
  <2> QED BY <1>1, <1>4, <2>1 DEF IsPrefix
<1> QED BY <1>3, <1>4

\* A path in normal form, and the places of its slashes.
Framed(q) ==
    /\ q \in Seq(Byte) /\ Len(q) >= 1
    /\ q[1] = SLASH /\ q[Len(q)] = SLASH

SlashPlaces(q) == Ascending({i \in 1..Len(q) : q[i] = SLASH})

\* The slashes of a path in normal form, in their order.
LEMMA SlashesInOrder ==
  ASSUME NEW q, Framed(q)
  PROVE  LET a == SlashPlaces(q)
         IN  /\ Len(a) \in Nat /\ Len(a) >= 1
             /\ \A k \in 1..Len(a) : a[k] \in 1..Len(q) /\ q[a[k]] = SLASH
             /\ \A k, l \in 1..Len(a) : k < l => a[k] < a[l]
             /\ \A i \in 1..Len(q) : q[i] = SLASH => \E k \in 1..Len(a) : a[k] = i
             /\ a[1] = 1 /\ a[Len(a)] = Len(q)
<1> DEFINE a == SlashPlaces(q)
           M == {i \in 1..Len(q) : q[i] = SLASH}
           m == Len(a)
<1>1. Len(q) \in Nat /\ M \in SUBSET (1..Len(q)) /\ 1 \in M /\ Len(q) \in M
  BY LenProperties DEF Framed
<1>2. Enumerates(a, M)
  <2> HIDE DEF M
  <2>1. Enumerates(Ascending(M), M)
    BY <1>1, AscendingEnumerates
  <2> QED BY <2>1 DEF SlashPlaces, M
<1> HIDE DEF a
<1>3. m \in Nat /\ \A k \in 1..m : a[k] \in M
  <2> HIDE DEF M
  <2> QED BY <1>2, LenProperties, ElementOfSeq DEF Enumerates
<1>4. /\ \A k, l \in 1..m : k < l => a[k] < a[l]
      /\ \A s \in M : \E k \in 1..m : a[k] = s
  BY <1>2 DEF Enumerates
<1>5. \A k \in 1..m : a[k] \in 1..Len(q) /\ q[a[k]] = SLASH /\ a[k] \in Int
  BY <1>1, <1>3
<1> HIDE DEF m
<1>6. m >= 1 /\ a[1] = 1
  <2>1. PICK k \in 1..m : a[k] = 1
    BY <1>1, <1>4
  <2>2. 1 \in 1..m /\ ~(1 < k)
    <3>1. 1 \in 1..m
      BY <1>3, <2>1
    <3>2. a[1] >= 1
      BY <1>5, <3>1
    <3> QED BY <1>4, <1>5, <2>1, <3>1, <3>2
  <2> QED BY <1>3, <2>1, <2>2
<1>7. a[m] = Len(q)
  <2>1. PICK k \in 1..m : a[k] = Len(q)
    BY <1>1, <1>4
  <2>2. m \in 1..m /\ ~(k < m)
    <3>1. m \in 1..m
      BY <1>3, <1>6
    <3>2. a[m] <= Len(q)
      BY <1>1, <1>5, <3>1
    <3> QED BY <1>1, <1>4, <1>5, <2>1, <3>1, <3>2
  <2> QED BY <1>3, <2>1, <2>2
<1>8. \A i \in 1..Len(q) : q[i] = SLASH => \E k \in 1..m : a[k] = i
  BY <1>4
<1> QED BY <1>3, <1>4, <1>5, <1>6, <1>7, <1>8 DEF m, a

\* A part of a sequence, place by place.
LEMMA PartByPlaces ==
  ASSUME NEW A, NEW s \in Seq(A), NEW x \in Int, NEW y \in Int,
         1 <= x, x <= y + 1, y <= Len(s)
  PROVE  /\ SubSeq(s, x, y) \in Seq(A)
         /\ Len(SubSeq(s, x, y)) = y - x + 1
         /\ \A i \in 1..y - x + 1 : SubSeq(s, x, y)[i] = s[x + i - 1]
<1>1. Len(s) \in Nat
  BY LenProperties
<1>2. \A i \in x..y : s[i] \in A
  <2>1. \A i \in x..y : i \in 1..Len(s)
    BY <1>1
  <2> QED BY <2>1, ElementOfSeq
<1>3. /\ SubSeq(s, x, y) \in Seq(A)
      /\ Len(SubSeq(s, x, y)) = IF x <= y THEN y - x + 1 ELSE 0
      /\ \A i \in 1..y - x + 1 : SubSeq(s, x, y)[i] = s[x + i - 1]
  BY <1>2, SubSeqProperties
<1>4. Len(SubSeq(s, x, y)) = y - x + 1
  <2>1. CASE x <= y
    BY <1>3, <2>1
  <2>2. CASE ~(x <= y)
    <3>1. y - x + 1 = 0
      BY <2>2
    <3> QED BY <1>3, <2>2, <3>1
  <2> QED BY <2>1, <2>2
<1> QED BY <1>3, <1>4

\* The segments of a path in normal form.
LEMMA SegmentsBetween ==
  ASSUME NEW q, Framed(q)
  PROVE  LET a == SlashPlaces(q)
         IN  /\ Segments(q) \in Seq(Seq(Byte))
             /\ Len(Segments(q)) = Len(a) - 1
             /\ \A k \in 1..Len(a) - 1 :
                  /\ Segments(q)[k] \in Seq(Byte)
                  /\ Len(Segments(q)[k]) = a[k + 1] - a[k] - 1
                  /\ \A i \in 1..a[k + 1] - a[k] - 1 : Segments(q)[k][i] = q[a[k] + i]
<1> DEFINE a == SlashPlaces(q)
           m == Len(a)
<1>1. Len(q) \in Nat /\ \A i \in 1..Len(q) : q[i] \in Byte
  BY LenProperties, ElementOfSeq DEF Framed
<1>2. /\ m \in Nat /\ m >= 1 /\ \A k \in 1..m : a[k] \in 1..Len(q)
      /\ \A k, l \in 1..m : k < l => a[k] < a[l]
  BY SlashesInOrder
<1>3. Segments(q) = [k \in 1..m - 1 |-> SubSeq(q, a[k] + 1, a[k + 1] - 1)]
  BY DEF Segments, SlashPlaces
<1> HIDE DEF a, m
<1>4. ASSUME NEW k \in 1..m - 1
      PROVE  /\ Segments(q)[k] \in Seq(Byte)
             /\ Len(Segments(q)[k]) = a[k + 1] - a[k] - 1
             /\ \A i \in 1..a[k + 1] - a[k] - 1 : Segments(q)[k][i] = q[a[k] + i]
  <2> DEFINE l == k + 1
             x == a[k] + 1
             y == a[l] - 1
             part == SubSeq(q, x, y)
  <2>1. k \in 1..m /\ l \in 1..m /\ k < l
    BY <1>2
  <2>2. Segments(q)[k] = part
    BY <1>3
  <2> HIDE DEF l
  <2>3. a[k] \in 1..Len(q) /\ a[l] \in 1..Len(q) /\ a[k] < a[l]
    BY <1>2, <2>1
  <2>4. x \in Int /\ y \in Int /\ 1 <= x /\ x <= y + 1 /\ y <= Len(q)
    BY <1>1, <2>3
  <2>5. y - x + 1 = a[l] - a[k] - 1
    BY <1>1, <2>3
  <2>6. \A i \in Int : x + i - 1 = a[k] + i
    BY <2>3
  <2> HIDE DEF x, y
  <2>7. /\ part \in Seq(Byte) /\ Len(part) = y - x + 1
        /\ \A i \in 1..y - x + 1 : part[i] = q[x + i - 1]
    BY <2>4, PartByPlaces DEF Framed
  <2> HIDE DEF part
  <2>8. part \in Seq(Byte) /\ Len(part) = a[l] - a[k] - 1
    BY <2>5, <2>7
  <2>9. ASSUME NEW i \in 1..a[l] - a[k] - 1 PROVE part[i] = q[a[k] + i]
    <3>1. part[i] = q[x + i - 1]
      BY <2>5, <2>7
    <3> QED BY <2>6, <3>1
  <2> QED BY <2>2, <2>8, <2>9 DEF l
<1>5. Segments(q) \in [1..m - 1 -> Seq(Byte)]
  BY <1>3, <1>4
<1>6. Segments(q) \in Seq(Seq(Byte)) /\ Len(Segments(q)) = m - 1
  BY <1>2, <1>5
<1> QED BY <1>4, <1>6 DEF a, m

\* If one path begins as the other is, so do their segments.
LEMMA PrefixHasSegments ==
  ASSUME NEW q, Framed(q), NEW t, Framed(t), IsPrefix(q, t)
  PROVE  IsPrefix(Segments(q), Segments(t))
<1> DEFINE a == SlashPlaces(q)
           b == SlashPlaces(t)
           m == Len(a)
           S == {d \in 0..m - 1 : d + 1 <= Len(b) /\ a[d + 1] = b[d + 1]}
<1>1. q \in Seq(Byte) /\ t \in Seq(Byte)
  BY DEF Framed
<1>2. /\ Len(q) \in Nat /\ Len(t) \in Nat /\ Len(q) <= Len(t)
      /\ \A i \in 1..Len(q) : q[i] = t[i]
  BY <1>1, PrefixByPlaces, LenProperties
<1>3. /\ m \in Nat /\ m >= 1 /\ a[1] = 1 /\ a[m] = Len(q)
      /\ \A k \in 1..m : a[k] \in 1..Len(q) /\ q[a[k]] = SLASH
      /\ \A k, l \in 1..m : k < l => a[k] < a[l]
      /\ \A i \in 1..Len(q) : q[i] = SLASH => \E k \in 1..m : a[k] = i
  BY SlashesInOrder
<1>4. /\ Len(b) \in Nat /\ Len(b) >= 1 /\ b[1] = 1
      /\ \A k \in 1..Len(b) : b[k] \in 1..Len(t) /\ t[b[k]] = SLASH
      /\ \A k, l \in 1..Len(b) : k < l => b[k] < b[l]
      /\ \A i \in 1..Len(t) : t[i] = SLASH => \E k \in 1..Len(b) : b[k] = i
  BY SlashesInOrder
<1> HIDE DEF a, b, m
<1>5. 0 \in S
  BY <1>3, <1>4
<1>6. ASSUME NEW d \in 0..m - 1, d < m - 1, d \in S PROVE d + 1 \in S
  <2> DEFINE c == d + 1
             e == (d + 1) + 1
  <2>1. c \in 1..m /\ e \in 1..m /\ c < e /\ e = c + 1 /\ c \in Int /\ d + 1 \in 0..m - 1
        /\ c <= Len(b) /\ a[c] = b[c]
    BY <1>3, <1>6
  <2> HIDE DEF c, e, S
  <2>2. c \in 1..Len(b)
    BY <1>3, <1>4, <2>1
  <2>3. /\ a[c] \in 1..Len(q) /\ a[e] \in 1..Len(q) /\ a[c] < a[e] /\ q[a[e]] = SLASH
        /\ a[e] \in Int /\ a[c] \in Int
    BY <1>3, <2>1
  <2>4. a[e] \in 1..Len(t) /\ t[a[e]] = SLASH
    BY <1>2, <2>3
  <2>5. PICK j \in 1..Len(b) : b[j] = a[e]
    BY <1>4, <2>4
  <2>6. j > c
    BY <1>4, <2>1, <2>2, <2>3, <2>5
  <2>7. e \in 1..Len(b) /\ e <= j
    BY <1>4, <2>1, <2>6
  <2>8. b[e] <= a[e] /\ b[e] \in 1..Len(t) /\ t[b[e]] = SLASH /\ b[e] > a[c]
    BY <1>4, <2>1, <2>2, <2>3, <2>5, <2>7
  <2>9. b[e] \in 1..Len(q) /\ q[b[e]] = SLASH
    BY <1>2, <2>3, <2>8
  <2>10. PICK l \in 1..m : a[l] = b[e]
    BY <1>3, <2>9
  <2>11. l > c
    BY <1>3, <2>1, <2>8, <2>10
  <2>12. e <= l
    BY <1>3, <2>1, <2>11
  <2>13. a[e] <= b[e]
    BY <1>3, <2>1, <2>10, <2>12
  <2>14. a[e] = b[e]
    BY <2>3, <2>8, <2>13
  <2> QED BY <2>1, <2>7, <2>14 DEF c, e, S
<1>7. \A d \in 0..m - 1 : d \in S
  <2>1. m - 1 \in Nat
    BY <1>3
  <2> HIDE DEF S
  <2> QED BY <1>5, <1>6, <2>1, UpwardInduction
<1>8. \A k \in 1..m : k <= Len(b) /\ a[k] = b[k]
  <2> SUFFICES ASSUME NEW k \in 1..m PROVE k <= Len(b) /\ a[k] = b[k]
    OBVIOUS
  <2>1. k - 1 \in 0..m - 1 /\ (k - 1) + 1 = k
    BY <1>3
  <2>2. k - 1 \in S
    BY <1>7, <2>1
  <2> QED BY <2>1, <2>2
<1>9. m <= Len(b)
  BY <1>3, <1>8
<1>10. /\ Segments(q) \in Seq(Seq(Byte)) /\ Len(Segments(q)) = m - 1
       /\ \A k \in 1..m - 1 :
            /\ Segments(q)[k] \in Seq(Byte)
            /\ Len(Segments(q)[k]) = a[k + 1] - a[k] - 1
            /\ \A i \in 1..a[k + 1] - a[k] - 1 : Segments(q)[k][i] = q[a[k] + i]
  BY SegmentsBetween DEF a, m
<1>11. /\ Segments(t) \in Seq(Seq(Byte)) /\ Len(Segments(t)) = Len(b) - 1
       /\ \A k \in 1..Len(b) - 1 :
            /\ Segments(t)[k] \in Seq(Byte)
            /\ Len(Segments(t)[k]) = b[k + 1] - b[k] - 1
            /\ \A i \in 1..b[k + 1] - b[k] - 1 : Segments(t)[k][i] = t[b[k] + i]
  BY SegmentsBetween DEF b
<1>12. ASSUME NEW k \in 1..m - 1 PROVE Segments(q)[k] = Segments(t)[k]
  <2>1. k \in 1..m /\ k + 1 \in 1..m /\ k \in 1..Len(b) - 1
    BY <1>3, <1>4, <1>9
  <2>2. a[k] = b[k] /\ a[k + 1] = b[k + 1] /\ a[k] \in 1..Len(q) /\ a[k + 1] \in 1..Len(q)
    BY <1>3, <1>8, <2>1
  <2>3. Len(Segments(q)[k]) = Len(Segments(t)[k])
    BY <1>10, <1>11, <2>1, <2>2
  <2>4. ASSUME NEW i \in 1..Len(Segments(q)[k]) PROVE Segments(q)[k][i] = Segments(t)[k][i]
    <3>1. i \in 1..a[k + 1] - a[k] - 1
      BY <1>10, <2>1
    <3>2. a[k] + i \in 1..Len(q)
      BY <1>2, <2>2, <3>1
    <3>3. Segments(q)[k][i] = q[a[k] + i] /\ Segments(t)[k][i] = t[b[k] + i]
      BY <1>10, <1>11, <2>1, <2>2, <3>1
    <3> QED BY <1>2, <2>2, <3>2, <3>3
  <2> QED BY <1>10, <1>11, <2>1, <2>3, <2>4, SeqEqual
<1>13. Len(Segments(q)) <= Len(Segments(t))
  BY <1>3, <1>4, <1>9, <1>10, <1>11
<1> QED BY <1>10, <1>11, <1>12, <1>13, PrefixByPlaces

\* If the segments of one path begin as those of the other are, so does the path.
LEMMA SegmentsMakePrefix ==
  ASSUME NEW q, Framed(q), NEW t, Framed(t), IsPrefix(Segments(q), Segments(t))
  PROVE  IsPrefix(q, t)
<1> DEFINE a == SlashPlaces(q)
           b == SlashPlaces(t)
           m == Len(a)
           Agree(k) == a[k] = b[k] /\ \A i \in 1..a[k] : q[i] = t[i]
           S == {d \in 0..m - 1 : Agree(d + 1)}
<1>1. q \in Seq(Byte) /\ t \in Seq(Byte) /\ Len(q) \in Nat /\ Len(t) \in Nat
      /\ q[1] = SLASH /\ t[1] = SLASH
  BY LenProperties DEF Framed
<1>2. /\ m \in Nat /\ m >= 1 /\ a[1] = 1 /\ a[m] = Len(q)
      /\ \A k \in 1..m : a[k] \in 1..Len(q) /\ q[a[k]] = SLASH
      /\ \A k, l \in 1..m : k < l => a[k] < a[l]
  BY SlashesInOrder
<1>3. /\ Len(b) \in Nat /\ Len(b) >= 1 /\ b[1] = 1
      /\ \A k \in 1..Len(b) : b[k] \in 1..Len(t) /\ t[b[k]] = SLASH
      /\ \A k, l \in 1..Len(b) : k < l => b[k] < b[l]
  BY SlashesInOrder
<1>4. /\ Segments(q) \in Seq(Seq(Byte)) /\ Len(Segments(q)) = m - 1
      /\ \A k \in 1..m - 1 :
           /\ Len(Segments(q)[k]) = a[k + 1] - a[k] - 1
           /\ \A i \in 1..a[k + 1] - a[k] - 1 : Segments(q)[k][i] = q[a[k] + i]
  BY SegmentsBetween
<1>5. /\ Segments(t) \in Seq(Seq(Byte)) /\ Len(Segments(t)) = Len(b) - 1
      /\ \A k \in 1..Len(b) - 1 :
           /\ Len(Segments(t)[k]) = b[k + 1] - b[k] - 1
           /\ \A i \in 1..b[k + 1] - b[k] - 1 : Segments(t)[k][i] = t[b[k] + i]
  BY SegmentsBetween
<1> HIDE DEF a, b, m
<1>6. m <= Len(b) /\ \A k \in 1..m - 1 : Segments(q)[k] = Segments(t)[k]
  <2>1. /\ Len(Segments(q)) <= Len(Segments(t))
        /\ \A k \in 1..Len(Segments(q)) : Segments(q)[k] = Segments(t)[k]
    <3>1. Segments(q) \in Seq(Seq(Byte)) /\ Segments(t) \in Seq(Seq(Byte))
      BY <1>4, <1>5
    <3> QED BY <3>1, PrefixByPlaces
  <2> QED BY <1>2, <1>3, <1>4, <1>5, <2>1
<1>7. Agree(1)
  BY <1>1, <1>2, <1>3
<1>8. ASSUME NEW k \in 1..m - 1, Agree(k) PROVE Agree(k + 1)
  <2>1. /\ k \in 1..m /\ k + 1 \in 1..m /\ k < k + 1 /\ k \in 1..Len(b) - 1
        /\ k \in 1..Len(b) /\ k + 1 \in 1..Len(b)
    BY <1>2, <1>3, <1>6
  <2>2. /\ a[k] \in Nat /\ a[k + 1] \in Nat /\ a[k] < a[k + 1] /\ q[a[k + 1]] = SLASH
        /\ b[k] \in Nat /\ b[k + 1] \in Nat /\ b[k] < b[k + 1] /\ t[b[k + 1]] = SLASH
    <3>1. /\ a[k] \in Nat /\ a[k + 1] \in Nat /\ a[k] < a[k + 1]
          /\ q[a[k + 1]] = SLASH
      BY <1>2, <2>1
    <3>2. /\ b[k] \in Nat /\ b[k + 1] \in Nat /\ b[k] < b[k + 1]
          /\ t[b[k + 1]] = SLASH
      BY <1>3, <2>1
    <3> QED BY <3>1, <3>2
  <2>3. a[k] = b[k]
    BY <1>8
  <2>4. a[k + 1] = b[k + 1]
    <3>1. a[k + 1] - a[k] - 1 = b[k + 1] - b[k] - 1
      BY <1>4, <1>5, <1>6, <2>1
    <3> QED BY <2>2, <2>3, <3>1
  <2>5. ASSUME NEW i \in 1..a[k + 1] PROVE q[i] = t[i]
    <3>1. CASE i <= a[k]
      <4>1. i \in 1..a[k]
        BY <2>2, <3>1
      <4> QED BY <1>8, <4>1
    <3>2. CASE i = a[k + 1]
      BY <2>2, <2>4, <3>2
    <3>3. CASE ~(i <= a[k]) /\ i # a[k + 1]
      <4> DEFINE j == i - a[k]
      <4>1. j \in 1..a[k + 1] - a[k] - 1 /\ a[k] + j = i
        BY <2>2, <3>3
      <4> HIDE DEF j
      <4>2. Segments(q)[k][j] = q[a[k] + j] /\ Segments(t)[k][j] = t[b[k] + j]
        BY <1>4, <1>5, <2>1, <2>3, <2>4, <4>1
      <4> QED BY <1>6, <2>3, <4>1, <4>2
    <3> QED BY <3>1, <3>2, <3>3
  <2> QED BY <2>4, <2>5
<1>9. \A d \in 0..m - 1 : d \in S
  <2>1. m - 1 \in Nat /\ 0 \in 0..m - 1 /\ 0 + 1 = 1
    BY <1>2
  <2> HIDE DEF Agree
  <2>2. 0 \in S
    BY <1>7, <2>1
  <2>3. ASSUME NEW d \in 0..m - 1, d < m - 1, d \in S PROVE d + 1 \in S
    <3>1. d + 1 \in 1..m - 1 /\ Agree(d + 1) /\ d + 1 \in 0..m - 1
      BY <2>1, <2>3
    <3>2. Agree((d + 1) + 1)
      BY <1>8, <3>1
    <3> QED BY <3>1, <3>2
  <2> HIDE DEF S
  <2> QED BY <2>1, <2>2, <2>3, UpwardInduction
<1>10. Agree(m)
  <2>1. m - 1 \in 0..m - 1 /\ (m - 1) + 1 = m
    BY <1>2
  <2> HIDE DEF Agree
  <2>2. m - 1 \in S
    BY <1>9, <2>1
  <2> QED BY <2>1, <2>2
<1>11. Len(q) <= Len(t) /\ \A i \in 1..Len(q) : q[i] = t[i]
  <2>1. m \in 1..Len(b)
    BY <1>2, <1>3, <1>6
  <2>2. b[m] \in 1..Len(t) /\ b[m] = Len(q)
    BY <1>2, <1>3, <1>10, <2>1
  <2> QED BY <1>1, <1>2, <1>10, <2>2
<1> QED BY <1>1, <1>11, PrefixByPlaces

\* A path that is not empty has the normal form of normalized().
LEMMA NormalForm ==
  ASSUME NEW p \in Seq(Byte), p # <<>>
  PROVE  Framed(Slashed(p)) /\ normalized(p) = Slashed(p)
<1> DEFINE front == IF p[1] = SLASH THEN <<>> ELSE <<SLASH>>
           back == IF p[Len(p)] = SLASH THEN <<>> ELSE <<SLASH>>
           q == (front \o p) \o back
<1>1. SLASH \in Byte /\ front \in Seq(Byte) /\ back \in Seq(Byte)
  <2>1. SLASH \in Byte
    BY DEF SLASH, Byte
  <2>2. <<>> \in Seq(Byte) /\ <<SLASH>> \in Seq(Byte)
    BY <2>1
  <2> QED BY <2>1, <2>2
<1>2. Len(p) \in Nat /\ Len(p) >= 1
  <2>1. Len(p) \in Nat /\ Len(p) # 0
    BY EmptySeq, LenProperties
  <2> QED BY <2>1
<1>3. normalized(p) = q
  <2>1. Head(p) = p[1] /\ Last(p) = p[Len(p)]
    BY <1>2 DEF Last
  <2>2. (IF Head(p) # SLASH THEN <<SLASH>> ELSE <<>>) = front
    BY <2>1
  <2>3. (IF Last(p) # SLASH THEN <<SLASH>> ELSE <<>>) = back
    BY <2>1
  <2> QED BY <2>2, <2>3 DEF normalized
<1>4. Slashed(p) = q
  <2>1. <<>> \o p = p
    BY ConcatEmptySeq
  <2> QED BY <2>1 DEF Slashed
<1>5. (Len(front) = 0 /\ p[1] = SLASH) \/ (Len(front) = 1 /\ front[1] = SLASH)
  OBVIOUS
<1>6. (Len(back) = 0 /\ p[Len(p)] = SLASH) \/ (Len(back) = 1 /\ back[1] = SLASH)
  OBVIOUS
<1> HIDE DEF front, back
<1> DEFINE r == front \o p
<1>7. /\ r \in Seq(Byte) /\ Len(r) = Len(front) + Len(p)
      /\ \A i \in 1..Len(front) : r[i] = front[i]
      /\ \A j \in 1..Len(p) : r[Len(front) + j] = p[j]
  BY <1>1, ConcatPlaces
<1>8. r[1] = SLASH /\ r[Len(r)] = p[Len(p)] /\ Len(r) \in Nat /\ Len(r) >= 1
  <2>1. Len(p) \in 1..Len(p) /\ 1 \in 1..Len(p) /\ 0 + 1 = 1 /\ 1 \in 1..1
    BY <1>2
  <2>2. r[1] = SLASH
    BY <1>5, <1>7, <2>1
  <2>3. r[Len(r)] = p[Len(p)]
    BY <1>7, <2>1
  <2>4. Len(front) \in Nat
    BY <1>5
  <2> QED BY <1>2, <1>7, <2>2, <2>3, <2>4
<1> HIDE DEF r
<1>9. /\ q = r \o back /\ q \in Seq(Byte) /\ Len(q) = Len(r) + Len(back)
      /\ \A i \in 1..Len(r) : q[i] = r[i]
      /\ \A j \in 1..Len(back) : q[Len(r) + j] = back[j]
  <2>1. q = r \o back
    BY DEF r
  <2>2. /\ r \o back \in Seq(Byte) /\ Len(r \o back) = Len(r) + Len(back)
        /\ \A i \in 1..Len(r) : (r \o back)[i] = r[i]
        /\ \A j \in 1..Len(back) : (r \o back)[Len(r) + j] = back[j]
    <3>1. r \in Seq(Byte) /\ back \in Seq(Byte)
      BY <1>1, <1>7
    <3> HIDE DEF q
    <3> QED BY ONLY <3>1, ConcatPlaces
  <2> HIDE DEF q
  <2> QED BY <2>1, <2>2
<1>10. Framed(q)
  <2> HIDE DEF q
  <2>1. q[1] = SLASH
    BY <1>8, <1>9
  <2>2. Len(q) >= 1
    BY <1>6, <1>8, <1>9
  <2>3. q[Len(q)] = SLASH
    <3>1. CASE Len(back) = 0 /\ p[Len(p)] = SLASH
      <4>1. Len(q) = Len(r) /\ Len(r) \in 1..Len(r)
        BY <1>8, <1>9, <3>1
      <4> QED BY <1>8, <1>9, <3>1, <4>1
    <3>2. CASE Len(back) = 1 /\ back[1] = SLASH
      BY <1>8, <1>9, <3>2
    <3> QED BY <1>6, <3>1, <3>2
  <2> QED BY <1>9, <2>1, <2>2, <2>3 DEF Framed
<1> QED BY <1>3, <1>4, <1>10

\* matchPrefix() compares whole segments, for any path and any prefix
\* (URLFunctions.cpp, matchPrefix()).
THEOREM MatchIsBySegments ==
  ASSUME NEW t \in Seq(Byte), NEW p \in Seq(Byte)
  PROVE  matchPrefix(t, p) <=>
           \/ p = <<>>
           \/ t # <<>> /\ IsPrefix(Segments(Slashed(p)), Segments(Slashed(t)))
<1>1. CASE p = <<>>
  <2>1. normalized(p) = <<>> /\ normalized(t) \in Seq(Byte)
    <3>1. CASE t = <<>>
      BY <1>1, <3>1, EmptySeq DEF normalized
    <3>2. CASE t # <<>>
      BY <1>1, <3>2, NormalForm DEF normalized, Framed
    <3> QED BY <3>1, <3>2
  <2>2. <<>> \in Seq(Byte) /\ Len(<<>>) = 0 /\ Len(normalized(t)) \in Nat
    BY <2>1, EmptySeq, LenProperties
  <2>3. IsPrefix(<<>>, normalized(t))
    <3> DEFINE u == normalized(t)
               e == <<>>
    <3>1. Len(e) <= Len(u) /\ \A i \in 1..Len(e) : e[i] = u[i]
      BY <2>2
    <3>2. e \in Seq(Byte) /\ u \in Seq(Byte)
      BY <2>1, <2>2
    <3> HIDE DEF e, u
    <3>3. IsPrefix(e, u)
      BY <3>1, <3>2, PrefixByPlaces
    <3> QED BY <3>3 DEF e, u
  <2> QED BY <1>1, <2>1, <2>3 DEF matchPrefix
<1>2. CASE p # <<>> /\ t = <<>>
  <2>1. normalized(t) = <<>> /\ Framed(normalized(p))
    BY <1>2, NormalForm DEF normalized
  <2>2. ~(Len(normalized(p)) <= Len(<<>>))
    <3>1. Len(normalized(p)) \in Nat /\ Len(normalized(p)) >= 1
      BY <2>1, LenProperties DEF Framed
    <3> QED BY <3>1, EmptySeq
  <2> QED BY <1>2, <2>1, <2>2 DEF matchPrefix, IsPrefix
<1>3. CASE p # <<>> /\ t # <<>>
  BY <1>3, NormalForm, PrefixHasSegments, SegmentsMakePrefix DEF matchPrefix
<1> QED BY <1>1, <1>2, <1>3

-----------------------------------------------------------------------------
(***************************************************************************)
(* The theorems of Texts about URLs.                                       *)
(***************************************************************************)
\* encode() leaves no byte that has a meaning in a URL but its percent signs.
LEMMA EncodedBytes ==
  ASSUME NEW t \in Seq(Byte)
  PROVE  \A i \in 1..Len(encode(t)) : unreserved(encode(t)[i]) \/ encode(t)[i] = PERCENT
<1> DEFINE Safe == {b \in Byte : unreserved(b) \/ b = PERCENT}
           pieces == EncodedPieces(t)
<1>1. pieces \in Seq(Seq(Safe))
  BY EncodedPiecesType
<1>2. encode(t) = FlattenSeq(pieces)
  BY DEF encode, EncodedPieces
<1> HIDE DEF Safe, pieces
<1>3. encode(t) \in Seq(Safe)
  BY <1>1, <1>2, FlattenPlaces
<1>4. \A i \in 1..Len(encode(t)) : encode(t)[i] \in Safe
  BY <1>3, ElementOfSeq
<1> QED BY <1>4 DEF Safe

\* The text is a sequence of bytes, of the alphabet that is chosen.
THEOREM TextsAreBytes == Spec => [](text \in Seq(Byte))
<1>1. Init => text \in Seq(Byte)
  BY EmptySeq DEF Init
<1>2. text \in Seq(Byte) /\ [Next]_vars => (text \in Seq(Byte))'
  <2> SUFFICES ASSUME text \in Seq(Byte), [Next]_vars PROVE text' \in Seq(Byte)
    OBVIOUS
  <2>1. CASE Next
    <3>1. PICK c \in Alphabet : text' = Append(text, c)
      BY <2>1 DEF Next
    <3>2. c \in Byte
      BY TextsAssumption DEF Byte
    <3> QED BY <3>1, <3>2, AppendProperties
  <2>2. CASE UNCHANGED vars
    BY <2>2 DEF vars
  <2> QED BY <2>1, <2>2
<1> QED BY <1>1, <1>2, PTL DEF Spec

\* Every text survives encode() and decode() (URLFunctions.cpp).
THEOREM EncodingIsReversibleHolds == Spec => []EncodingIsReversible
<1>1. text \in Seq(Byte) => EncodingIsReversible
  BY DecodeEncode, EncodedBytes DEF EncodingIsReversible
<1> QED BY <1>1, TextsAreBytes, PTL

\* decode() reads each escape once, and nothing else as one (URLFunctions.cpp).
THEOREM DecodesEachEscapeOnceHolds == Spec => []DecodesEachEscapeOnce
<1>1. text \in Seq(Byte) => DecodesEachEscapeOnce
  BY DecodeMeans DEF DecodesEachEscapeOnce, MeantPlaces, Meaning, Escape
<1> QED BY <1>1, TextsAreBytes, PTL

\* The prefixes of the property are sequences of bytes.
LEMMA SomePathsAreBytes == SomePaths \subseteq Seq(Byte)
<1> DEFINE bytes == {c \in Alphabet : c = SLASH \/ isalnum(c)}
<1>1. bytes \subseteq Byte /\ SLASH \in Byte
  <2>1. \A c \in Alphabet : c \in Byte
    BY TextsAssumption DEF Byte
  <2>2. SLASH \in Byte
    BY DEF Byte, SLASH
  <2> QED BY <2>1, <2>2
<1> HIDE DEF bytes
<1>2. \A n \in 0..2 : [1..n -> bytes] \subseteq Seq(Byte)
  <2> TAKE n \in 0..2
  <2>1. [1..n -> bytes] \subseteq Seq(bytes)
    OBVIOUS
  <2>2. Seq(bytes) \subseteq Seq(Byte)
    BY <1>1, SeqMonotonic
  <2> QED BY <2>1, <2>2
<1>3. ASSUME NEW name \in bytes \ {SLASH}, NEW version \in {<<>>} \union {<<c>> : c \in bytes}
      PROVE  getApiPath(<<name>>, version) \in Seq(Byte)
  <2>1. <<SLASH>> \in Seq(Byte) /\ <<name>> \in Seq(Byte) /\ <<name>> # <<>>
    BY <1>1
  <2>2. version \in Seq(Byte)
    <3>1. CASE version = <<>>
      BY <3>1, EmptySeq
    <3>2. CASE version \in {<<c>> : c \in bytes}
      <4>1. PICK c \in bytes : version = <<c>>
        BY <3>2
      <4>2. c \in Byte
        BY <1>1
      <4> QED BY <4>1, <4>2
    <3> QED BY <3>1, <3>2
  <2>3. \A s, t \in Seq(Byte) : s \o t \in Seq(Byte)
    BY ConcatPlaces
  <2>4. <<>> \in Seq(Byte)
    BY EmptySeq
  <2>5. (IF version = <<>> THEN <<>> ELSE <<SLASH>> \o version) \in Seq(Byte)
    BY <2>1, <2>2, <2>3, <2>4
  <2> QED BY <2>1, <2>3, <2>5 DEF getApiPath
<1> DEFINE versions == {<<>>} \union {<<c>> : c \in bytes}
           short == UNION {[1..n -> bytes] : n \in 0..2}
           api == {getApiPath(<<name>>, version) : name \in bytes \ {SLASH}, version \in versions}
<1>4. SomePaths = short \union api
  BY DEF SomePaths, bytes
<1>5. short \subseteq Seq(Byte)
  BY <1>2
<1>6. api \subseteq Seq(Byte)
  <2>1. \A name \in bytes \ {SLASH}, version \in versions :
          getApiPath(<<name>>, version) \in Seq(Byte)
    BY <1>3
  <2> HIDE DEF versions
  <2> DEFINE path(name, version) == getApiPath(<<name>>, version)
             names == bytes \ {SLASH}
  <2>2. \A name \in names, version \in versions : path(name, version) \in Seq(Byte)
    BY <2>1
  <2>3. api = {path(name, version) : name \in names, version \in versions}
    OBVIOUS
  <2> HIDE DEF path, names, api
  <2>4. {path(name, version) : name \in names, version \in versions} \subseteq Seq(Byte)
    BY <2>2
  <2> QED BY <2>3, <2>4
<1> HIDE DEF short, api
<1> QED BY <1>4, <1>5, <1>6

\* A prefix matches whole segments (URLFunctions.cpp, Stream.cpp).
THEOREM PrefixesAreWholeSegmentsHolds == Spec => []PrefixesAreWholeSegments
<1>1. text \in Seq(Byte) => PrefixesAreWholeSegments
  BY MatchIsBySegments, SomePathsAreBytes DEF PrefixesAreWholeSegments
<1> QED BY <1>1, TextsAreBytes, PTL
=============================================================================
