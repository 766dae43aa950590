-------------------------- MODULE ErrorTextsProofs --------------------------
(***************************************************************************)
(* Proofs of Texts for what receiveError() answers.                        *)
(***************************************************************************)
EXTENDS TextsProofs

-----------------------------------------------------------------------------
(***************************************************************************)
(* The cause of an error and its reader.                                   *)
(***************************************************************************)
\* The characters behind a backslash and what the reader of JSON makes of them.
meaning == [c \in {QUOTE, BACKSLASH, 110, 114, 116, 98, 102} |->
    CASE c = 110 -> 10 [] c = 114 -> 13 [] c = 116 -> 9
      [] c = 98 -> 8 [] c = 102 -> 12 [] OTHER -> c]

\* What the reader makes of a place of the body, given what it reads elsewhere.
ReadAt(body, i, f) ==
    LET size == Len(body)
        then(c, next) == [f[next] EXCEPT !.value = <<c>> \o @]
    IN  CASE i > size -> [value |-> <<>>, end |-> 0]
          [] i <= size /\ body[i] = QUOTE -> [value |-> <<>>, end |-> i]
          [] i <= size /\ body[i] = BACKSLASH ->
               IF i < size /\ body[i + 1] \in DOMAIN meaning
               THEN then(meaning[body[i + 1]], i + 2)
               ELSE IF i + 5 <= size /\ body[i + 1] = 117
               THEN then(16 * xvalue(body[i + 4]) + xvalue(body[i + 5]), i + 6)
               ELSE [value |-> <<>>, end |-> 0]
          [] i <= size /\ body[i] < 32 -> [value |-> <<>>, end |-> 0]
          [] OTHER -> then(body[i], i + 1)

\* The recursive function in the definition of JsonString.
read(body) == CHOOSE f : f = [i \in 1..Len(body) + 1 |-> ReadAt(body, i, f)]

\* The reader of a string as it is defined reads place by place.
LEMMA JsonStringReads ==
  ASSUME NEW body
  PROVE  JsonString(body) = read(body)[1]
BY DEF JsonString, read, ReadAt, meaning

\* A byte that is read, and where the reader goes on; it stops at the other bytes.
IsRead(body, i) ==
    /\ body[i] # QUOTE
    /\ IF body[i] = BACKSLASH
       THEN \/ i < Len(body) /\ body[i + 1] \in DOMAIN meaning
            \/ i + 5 <= Len(body) /\ body[i + 1] = 117
       ELSE ~(body[i] < 32)

ByteRead(body, i) ==
    IF body[i] = BACKSLASH
    THEN IF i < Len(body) /\ body[i + 1] \in DOMAIN meaning THEN meaning[body[i + 1]]
         ELSE 16 * xvalue(body[i + 4]) + xvalue(body[i + 5])
    ELSE body[i]

PlaceRead(body, i) ==
    IF body[i] = BACKSLASH
    THEN IF i < Len(body) /\ body[i + 1] \in DOMAIN meaning THEN i + 2 ELSE i + 6
    ELSE i + 1

\* The same reading, without the cases.
LEMMA ReadAtCases ==
  ASSUME NEW body \in Seq(Byte), NEW i \in 1..Len(body) + 1, NEW f
  PROVE  ReadAt(body, i, f) =
           IF i <= Len(body) /\ IsRead(body, i)
           THEN [f[PlaceRead(body, i)] EXCEPT !.value = <<ByteRead(body, i)>> \o @]
           ELSE [value |-> <<>>,
                 end |-> IF i <= Len(body) /\ body[i] = QUOTE THEN i ELSE 0]
<1>1. Len(body) \in Nat /\ QUOTE # BACKSLASH /\ QUOTE \in Int /\ BACKSLASH \in Int
      /\ ~(BACKSLASH < 32) /\ ~(QUOTE < 32)
  BY LenProperties DEF QUOTE, BACKSLASH
<1>2. i > Len(body) <=> ~(i <= Len(body))
  BY <1>1
<1>3. CASE i > Len(body)
  BY <1>2, <1>3 DEF ReadAt
<1>4. CASE i <= Len(body) /\ body[i] = QUOTE
  BY <1>1, <1>2, <1>4 DEF ReadAt, IsRead
<1>5. CASE i <= Len(body) /\ body[i] = BACKSLASH
  BY <1>1, <1>2, <1>5 DEF ReadAt, IsRead, ByteRead, PlaceRead
<1>6. CASE i <= Len(body) /\ body[i] # QUOTE /\ body[i] # BACKSLASH
  <2>1. CASE body[i] < 32
    BY <1>2, <1>6, <2>1 DEF ReadAt, IsRead
  <2>2. CASE ~(body[i] < 32)
    BY <1>2, <1>6, <2>2 DEF ReadAt, IsRead, ByteRead, PlaceRead
  <2> QED BY <2>1, <2>2
<1> QED BY <1>2, <1>3, <1>4, <1>5, <1>6

\* The reader of a body adds a byte and goes on, place by place, up to a quote.
LEMMA ReaderReads ==
  ASSUME NEW body \in Seq(Byte)
  PROVE  /\ JsonString(body) = read(body)[1]
         /\ \A i \in 1..Len(body) :
              /\ body[i] = QUOTE => read(body)[i] = [value |-> <<>>, end |-> i]
              /\ IsRead(body, i) =>
                   read(body)[i] =
                     [read(body)[PlaceRead(body, i)] EXCEPT
                        !.value = <<ByteRead(body, i)>> \o @]
<1> DEFINE size == Len(body)
           X == {ByteRead(body, i) : i \in 1..size}
           V == [value : Seq(X), end : 0..size]
           goes(i) == i <= size /\ IsRead(body, i)
           stop(i) == [value |-> <<>>, end |-> IF i <= size /\ body[i] = QUOTE THEN i ELSE 0]
           next == [i \in 1..size |-> IF goes(i) THEN PlaceRead(body, i) ELSE i + 1]
           step == [i \in 1..size |-> [r \in V |->
                      IF goes(i) THEN [r EXCEPT !.value = <<ByteRead(body, i)>> \o @]
                      ELSE stop(i)]]
<1>1. size \in Nat
  BY LenProperties
<1>2. \A i \in 1..size : goes(i) => PlaceRead(body, i) \in i + 1..size + 1
  <2> SUFFICES ASSUME NEW i \in 1..size, IsRead(body, i)
               PROVE  PlaceRead(body, i) \in i + 1..size + 1
    OBVIOUS
  <2> QED BY <1>1 DEF IsRead, PlaceRead
<1> HIDE DEF goes, stop, size
<1>3. \A i \in 1..size + 1 : stop(i) \in V
  BY <1>1 DEF stop
<1>4. next \in [1..size -> 1..size + 1] /\ \A i \in 1..size : next[i] > i
  BY <1>1, <1>2
<1>5. step \in [1..size -> [V -> V]]
  <2> SUFFICES ASSUME NEW i \in 1..size, NEW r \in V
               PROVE  (IF goes(i) THEN [r EXCEPT !.value = <<ByteRead(body, i)>> \o @]
                       ELSE stop(i)) \in V
    OBVIOUS
  <2>1. ByteRead(body, i) \in X /\ r.value \in Seq(X) /\ r.end \in 0..size
    OBVIOUS
  <2>2. <<ByteRead(body, i)>> \o r.value \in Seq(X)
    <3> HIDE DEF X
    <3>1. <<ByteRead(body, i)>> \in Seq(X)
      BY <2>1
    <3> QED BY <2>1, <3>1, ConcatProperties
  <2>3. [r EXCEPT !.value = <<ByteRead(body, i)>> \o @] \in V
    <3> HIDE DEF X
    <3> QED BY <2>1, <2>2
  <2>4. stop(i) \in V
    BY <1>1, <1>3
  <2> QED BY <2>3, <2>4
<1>6. PICK f \in [1..size + 1 -> V] :
        \A i \in 1..size + 1 : f[i] = IF i > size THEN stop(size + 1) ELSE step[i][f[next[i]]]
  <2>1. stop(size + 1) \in V
    <3>1. size + 1 \in 1..size + 1
      BY <1>1
    <3> HIDE DEF V
    <3> QED BY <1>3, <3>1
  <2>2. Recursion(size, V, stop(size + 1), next, step)
    BY <1>1, <1>4, <1>5, <2>1 DEF Recursion
  <2> HIDE DEF V, next, step
  <2> QED BY <2>2, DownwardRecursion
<1>7. \A i \in 1..size + 1 :
        f[i] = IF goes(i) THEN [f[PlaceRead(body, i)] EXCEPT !.value = <<ByteRead(body, i)>> \o @]
               ELSE stop(i)
  <2> SUFFICES ASSUME NEW i \in 1..size + 1
      PROVE f[i] = IF goes(i)
                   THEN [f[PlaceRead(body, i)] EXCEPT !.value = <<ByteRead(body, i)>> \o @]
                   ELSE stop(i)
    OBVIOUS
  <2>1. CASE i > size
    <3>1. i = size + 1 /\ ~goes(i)
      BY <1>1, <2>1 DEF goes
    <3> QED BY <1>6, <2>1, <3>1
  <2>2. CASE ~(i > size)
    <3>1. i \in 1..size /\ next[i] \in 1..size + 1
      BY <1>1, <1>4, <2>2
    <3>2. f[i] = step[i][f[next[i]]] /\ f[next[i]] \in V
      BY <1>6, <2>2, <3>1
    <3>3. f[i] = IF goes(i) THEN [f[next[i]] EXCEPT !.value = <<ByteRead(body, i)>> \o @]
                 ELSE stop(i)
      BY <3>1, <3>2
    <3>4. goes(i) => next[i] = PlaceRead(body, i)
      BY <3>1
    <3> HIDE DEF next, step, V
    <3> QED BY <3>3, <3>4
  <2> QED BY <2>1, <2>2
<1>8. \A i \in 1..size + 1 : \A g :
        ReadAt(body, i, g) =
          IF goes(i) THEN [g[PlaceRead(body, i)] EXCEPT !.value = <<ByteRead(body, i)>> \o @]
          ELSE stop(i)
  BY ReadAtCases DEF goes, stop, size
<1>9. f = [i \in 1..size + 1 |-> ReadAt(body, i, f)]
  <2> HIDE DEF V
  <2>1. \A i \in 1..size + 1 : f[i] = ReadAt(body, i, f)
    BY <1>7, <1>8
  <2> QED BY <2>1
<1>10. read(body) = [i \in 1..size + 1 |-> ReadAt(body, i, read(body))]
  BY <1>9 DEF read, size
<1>11. ASSUME NEW i \in 1..size
       PROVE  /\ body[i] = QUOTE => read(body)[i] = [value |-> <<>>, end |-> i]
              /\ IsRead(body, i) =>
                   read(body)[i] =
                     [read(body)[PlaceRead(body, i)] EXCEPT
                        !.value = <<ByteRead(body, i)>> \o @]
  <2>1. i \in 1..size + 1 /\ i <= size
    BY <1>1
  <2>2. read(body)[i] = ReadAt(body, i, read(body))
    BY <1>10, <2>1
  <2>3. read(body)[i] =
          IF goes(i) THEN [read(body)[PlaceRead(body, i)] EXCEPT !.value = <<ByteRead(body, i)>> \o @]
          ELSE stop(i)
    BY <1>8, <2>1, <2>2
  <2>4. body[i] = QUOTE => ~IsRead(body, i)
    BY DEF IsRead
  <2> QED BY <2>1, <2>3, <2>4 DEF goes, stop
<1> QED BY <1>11, JsonStringReads DEF size

\* The pieces of the escaped cause, a byte of the cause in each.
EscapedPieces(t) == [i \in 1..Len(t) |-> escapedByte(t[i])]

\* The bytes with a short escape are read back from it.
LEMMA ShortEscapesAreRead ==
  ASSUME NEW c \in DOMAIN shortEscape
  PROVE  /\ shortEscape[c] \in Byte /\ shortEscape[c] \in DOMAIN meaning
         /\ meaning[shortEscape[c]] = c
<1>1. c \in {34, 92, 10, 13, 9, 8, 12}
  BY DEF shortEscape, QUOTE, BACKSLASH
<1>2. shortEscape[c] = CASE c = 10 -> 110   [] c = 13 -> 114   [] c = 9 -> 116
                         [] c = 8  -> 98    [] c = 12 -> 102   [] OTHER -> c
  BY DEF shortEscape
<1>3. \/ c = 34 /\ shortEscape[c] = 34
      \/ c = 92 /\ shortEscape[c] = 92
      \/ c = 10 /\ shortEscape[c] = 110
      \/ c = 13 /\ shortEscape[c] = 114
      \/ c = 9 /\ shortEscape[c] = 116
      \/ c = 8 /\ shortEscape[c] = 98
      \/ c = 12 /\ shortEscape[c] = 102
  BY <1>1, <1>2
<1>4. /\ DOMAIN meaning = {34, 92, 110, 114, 116, 98, 102}
      /\ meaning[34] = 34 /\ meaning[92] = 92 /\ meaning[110] = 10 /\ meaning[114] = 13
      /\ meaning[116] = 9 /\ meaning[98] = 8 /\ meaning[102] = 12
  BY DEF meaning, QUOTE, BACKSLASH
<1> QED BY <1>3, <1>4 DEF Byte

\* The digits of a control character are read back.
LEMMA LowerDigits ==
  \A d \in 0..15 : LOWER_XDIGITS[d + 1] \in Byte /\ xvalue(LOWER_XDIGITS[d + 1]) = d
<1> SUFFICES ASSUME NEW d \in 0..15
             PROVE  LOWER_XDIGITS[d + 1] \in Byte /\ xvalue(LOWER_XDIGITS[d + 1]) = d
  OBVIOUS
<1>1. \/ d < 10 /\ LOWER_XDIGITS[d + 1] = 48 + d
      \/ d >= 10 /\ LOWER_XDIGITS[d + 1] = 87 + d
  BY DEF LOWER_XDIGITS
<1> QED BY <1>1 DEF Byte, xvalue, digits

\* The three forms of an escaped byte.
LEMMA EscapedByteForms ==
  ASSUME NEW c \in Byte
  PROVE  /\ escapedByte(c) \in Seq(Byte)
         /\ \/ /\ c \in DOMAIN shortEscape
               /\ escapedByte(c) = <<BACKSLASH, shortEscape[c]>>
            \/ /\ Len(escapedByte(c)) = 6
               /\ escapedByte(c)[1] = BACKSLASH /\ escapedByte(c)[2] = 117
               /\ 16 * xvalue(escapedByte(c)[5]) + xvalue(escapedByte(c)[6]) = c
            \/ escapedByte(c) = <<c>> /\ c # QUOTE /\ c # BACKSLASH /\ ~(c < 32)
<1>1. BACKSLASH \in Byte /\ 117 \in Byte /\ 48 \in Byte
  BY DEF BACKSLASH, Byte
<1>2. CASE c \in DOMAIN shortEscape
  <2>1. escapedByte(c) = <<BACKSLASH, shortEscape[c]>>
    BY <1>2 DEF escapedByte
  <2>2. shortEscape[c] \in Byte
    BY <1>2, ShortEscapesAreRead
  <2> QED BY <1>1, <1>2, <2>1, <2>2
<1>3. CASE c \notin DOMAIN shortEscape /\ c < 32
  <2> DEFINE high == c \div 16
             low == c % 16
  <2>1. high \in 0..15 /\ low \in 0..15 /\ 16 * high + low = c
    BY DEF Byte
  <2>2. escapedByte(c) =
          <<BACKSLASH, 117, 48, 48, LOWER_XDIGITS[high + 1], LOWER_XDIGITS[low + 1]>>
    BY <1>3 DEF escapedByte
  <2> HIDE DEF high, low
  <2>3. \A d \in {high, low} : /\ LOWER_XDIGITS[d + 1] \in Byte
                               /\ xvalue(LOWER_XDIGITS[d + 1]) = d
    BY <2>1, LowerDigits
  <2> QED BY <1>1, <2>1, <2>2, <2>3
<1>4. CASE c \notin DOMAIN shortEscape /\ ~(c < 32)
  <2>1. escapedByte(c) = <<c>>
    BY <1>4 DEF escapedByte
  <2>2. QUOTE \in DOMAIN shortEscape /\ BACKSLASH \in DOMAIN shortEscape
    BY DEF shortEscape
  <2> QED BY <1>4, <2>1, <2>2
<1> QED BY <1>2, <1>3, <1>4

\* The pieces are texts of bytes, and there is one for each byte.
LEMMA EscapedPiecesType ==
  ASSUME NEW t \in Seq(Byte)
  PROVE  EscapedPieces(t) \in Seq(Seq(Byte)) /\ Len(EscapedPieces(t)) = Len(t)
<1>1. Len(t) \in Nat /\ \A i \in 1..Len(t) : t[i] \in Byte
  BY LenProperties, ElementOfSeq
<1>2. \A i \in 1..Len(t) : escapedByte(t[i]) \in Seq(Byte)
  BY <1>1, EscapedByteForms
<1>3. EscapedPieces(t) \in [1..Len(t) -> Seq(Byte)]
  BY <1>2 DEF EscapedPieces
<1>4. EscapedPieces(t) \in Seq(Seq(Byte))
  BY <1>1, <1>3
<1>5. Len(EscapedPieces(t)) = Len(t)
  BY <1>1 DEF EscapedPieces
<1> QED BY <1>4, <1>5

\* The reader at the beginning of a piece takes its byte and goes on behind the piece.
LEMMA ReadAPiece ==
  ASSUME NEW t \in Seq(Byte), NEW k \in 1..Len(t)
  PROVE  LET body == escaped_cause(t) \o <<QUOTE>>
             i == Before(EscapedPieces(t), k - 1) + 1
         IN  /\ i \in 1..Len(body)
             /\ IsRead(body, i)
             /\ ByteRead(body, i) = t[k]
             /\ PlaceRead(body, i) = Before(EscapedPieces(t), k) + 1
<1> DEFINE pieces == EscapedPieces(t)
           esc == escaped_cause(t)
           body == esc \o <<QUOTE>>
           b == Before(pieces, k - 1)
<1>1. Len(t) \in Nat /\ t[k] \in Byte
  BY LenProperties, ElementOfSeq
<1>2. esc = FlattenSeq(pieces) /\ pieces \in Seq(Seq(Byte)) /\ Len(pieces) = Len(t)
      /\ pieces[k] = escapedByte(t[k])
  BY EscapedPiecesType DEF escaped_cause, EscapedPieces
<1> HIDE DEF pieces, esc
<1>3. /\ esc \in Seq(Byte)
      /\ b \in Nat /\ Before(pieces, k) = b + Len(pieces[k]) /\ Before(pieces, k) <= Len(esc)
      /\ \A j \in 1..Len(pieces[k]) : esc[b + j] = pieces[k][j]
  <2>1. k - 1 \in 0..Len(pieces) /\ k \in 1..Len(pieces)
    BY <1>1, <1>2
  <2> QED BY <1>2, <2>1, FlattenPlaces
<1>4. /\ Len(esc) \in Nat /\ Len(body) = Len(esc) + 1
      /\ \A j \in 1..Len(esc) : body[j] = esc[j]
  <2>1. <<QUOTE>> \in Seq(Byte) /\ Len(<<QUOTE>>) = 1
    BY DEF QUOTE, Byte
  <2> QED BY <1>3, <2>1, ConcatPlaces
<1> HIDE DEF body, b
<1>5. Len(pieces[k]) \in Nat
  <2>1. pieces[k] \in Seq(Byte)
    BY <1>1, <1>2, EscapedByteForms
  <2> QED BY <2>1, LenProperties
<1>6. \A j \in 1..Len(pieces[k]) : body[b + j] = pieces[k][j] /\ b + j <= Len(esc)
  <2> SUFFICES ASSUME NEW j \in 1..Len(pieces[k])
               PROVE  body[b + j] = pieces[k][j] /\ b + j <= Len(esc)
    OBVIOUS
  <2>1. b + j \in 1..Len(esc)
    BY <1>3, <1>4, <1>5
  <2> QED BY <1>3, <1>4, <2>1
<1>7. QUOTE # BACKSLASH /\ 117 \notin DOMAIN meaning
  BY DEF QUOTE, BACKSLASH, meaning
<1>8. CASE t[k] \in DOMAIN shortEscape /\ escapedByte(t[k]) = <<BACKSLASH, shortEscape[t[k]]>>
  <2>1. Len(pieces[k]) = 2 /\ pieces[k][1] = BACKSLASH /\ pieces[k][2] = shortEscape[t[k]]
    BY <1>2, <1>8
  <2>2. /\ body[b + 1] = BACKSLASH /\ body[b + 2] = shortEscape[t[k]]
        /\ b + 2 <= Len(esc) /\ Before(pieces, k) = b + 2
    BY <1>3, <1>6, <2>1
  <2>3. /\ (b + 1) + 1 = b + 2 /\ (b + 1) + 2 = (b + 2) + 1
        /\ b + 1 < Len(body) /\ b + 1 \in 1..Len(body)
    BY <1>3, <1>4, <2>2
  <2>4. shortEscape[t[k]] \in DOMAIN meaning /\ meaning[shortEscape[t[k]]] = t[k]
    BY <1>8, ShortEscapesAreRead
  <2>5. /\ IsRead(body, b + 1) /\ ByteRead(body, b + 1) = t[k]
        /\ PlaceRead(body, b + 1) = Before(pieces, k) + 1
    BY <1>7, <2>2, <2>3, <2>4 DEF IsRead, ByteRead, PlaceRead
  <2> QED BY <2>3, <2>5 DEF body, b, pieces, esc
<1>9. CASE /\ Len(escapedByte(t[k])) = 6
           /\ escapedByte(t[k])[1] = BACKSLASH /\ escapedByte(t[k])[2] = 117
           /\ 16 * xvalue(escapedByte(t[k])[5]) + xvalue(escapedByte(t[k])[6]) = t[k]
  <2>1. /\ body[b + 1] = BACKSLASH /\ body[b + 2] = 117
        /\ 16 * xvalue(body[b + 5]) + xvalue(body[b + 6]) = t[k]
        /\ b + 6 <= Len(esc) /\ Before(pieces, k) = b + 6
    <3>1. pieces[k] = escapedByte(t[k])
      BY <1>2
    <3>2. Len(pieces[k]) = 6
      BY <1>9, <3>1
    <3>3. \A j \in {1, 2, 5, 6} : body[b + j] = pieces[k][j] /\ b + j <= Len(esc)
      BY <1>6, <3>2
    <3>4. /\ body[b + 1] = pieces[k][1] /\ body[b + 2] = pieces[k][2]
          /\ body[b + 5] = pieces[k][5] /\ body[b + 6] = pieces[k][6]
          /\ b + 6 <= Len(esc)
      BY <3>3
    <3>5. Before(pieces, k) = b + 6
      BY <1>3, <3>2
    <3> QED BY <1>9, <3>1, <3>4, <3>5
  <2>2. /\ (b + 1) + 1 = b + 2 /\ (b + 1) + 4 = b + 5 /\ (b + 1) + 5 = b + 6
        /\ (b + 1) + 6 = (b + 6) + 1
        /\ (b + 1) + 5 <= Len(body) /\ b + 1 \in 1..Len(body)
    BY <1>3, <1>4, <2>1
  <2>3. /\ IsRead(body, b + 1) /\ ByteRead(body, b + 1) = t[k]
        /\ PlaceRead(body, b + 1) = Before(pieces, k) + 1
    BY <1>7, <2>1, <2>2 DEF IsRead, ByteRead, PlaceRead
  <2> QED BY <2>2, <2>3 DEF body, b, pieces, esc
<1>10. CASE /\ escapedByte(t[k]) = <<t[k]>>
            /\ t[k] # QUOTE /\ t[k] # BACKSLASH /\ ~(t[k] < 32)
  <2>1. Len(pieces[k]) = 1 /\ pieces[k][1] = t[k]
    BY <1>2, <1>10
  <2>2. body[b + 1] = t[k] /\ b + 1 <= Len(esc) /\ Before(pieces, k) = b + 1
    BY <1>3, <1>6, <2>1
  <2>3. b + 1 \in 1..Len(body)
    BY <1>3, <1>4, <2>2
  <2>4. /\ IsRead(body, b + 1) /\ ByteRead(body, b + 1) = t[k]
        /\ PlaceRead(body, b + 1) = Before(pieces, k) + 1
    BY <1>10, <2>2 DEF IsRead, ByteRead, PlaceRead
  <2> QED BY <2>3, <2>4 DEF body, b, pieces, esc
<1> QED BY <1>1, <1>8, <1>9, <1>10, EscapedByteForms

\* A byte added in front of what was read.
LEMMA AddedInFront ==
  ASSUME NEW v, NEW e, NEW w
  PROVE  [[value |-> v, end |-> e] EXCEPT !.value = w \o @] = [value |-> w \o v, end |-> e]
<1>1. [value |-> v, end |-> e].value = v
  OBVIOUS
<1> DEFINE x == w \o v
<1>2. [[value |-> v, end |-> e] EXCEPT !.value = w \o @] =
        [[value |-> v, end |-> e] EXCEPT !.value = x]
  BY <1>1, Zenon
<1> HIDE DEF x
<1>3. [[value |-> v, end |-> e] EXCEPT !.value = x] = [value |-> x, end |-> e]
  OBVIOUS
<1> QED BY <1>2, <1>3 DEF x

\* What the reader has still to read at the beginning of a piece is the rest of the
\* cause, and it ends at the quote behind it.
LEMMA ReadBack ==
  ASSUME NEW t \in Seq(Byte)
  PROVE  JsonString(escaped_cause(t) \o <<QUOTE>>) =
           [value |-> t, end |-> Len(escaped_cause(t)) + 1]
<1> DEFINE pieces == EscapedPieces(t)
           esc == escaped_cause(t)
           body == esc \o <<QUOTE>>
           n == Len(t)
           rest(k) == [value |-> SubSeq(t, k + 1, n), end |-> Len(esc) + 1]
           S == {k \in 0..n : read(body)[Before(pieces, k) + 1] = rest(k)}
<1>1. n \in Nat
  BY LenProperties
<1>2. esc \in Seq(Byte) /\ Before(pieces, 0) = 0 /\ Before(pieces, n) = Len(esc)
  <2>1. esc = FlattenSeq(pieces) /\ pieces \in Seq(Seq(Byte)) /\ Len(pieces) = n
    BY EscapedPiecesType DEF escaped_cause, EscapedPieces
  <2> HIDE DEF pieces, esc, n
  <2> QED BY <2>1, FlattenPlaces
<1>3. /\ body \in Seq(Byte) /\ Len(body) = Len(esc) + 1 /\ Len(esc) \in Nat
      /\ body[Len(esc) + 1] = QUOTE
  <2>1. <<QUOTE>> \in Seq(Byte) /\ Len(<<QUOTE>>) = 1 /\ <<QUOTE>>[1] = QUOTE
    BY DEF QUOTE, Byte
  <2> HIDE DEF esc
  <2> QED BY <1>2, <2>1, ConcatPlaces
<1>11. \A i \in 1..Len(body) :
         /\ body[i] = QUOTE => read(body)[i] = [value |-> <<>>, end |-> i]
         /\ IsRead(body, i) =>
              read(body)[i] =
                [read(body)[PlaceRead(body, i)] EXCEPT !.value = <<ByteRead(body, i)>> \o @]
  <2> HIDE DEF body
  <2>1. body \in Seq(Byte)
    BY <1>3
  <2> QED BY <2>1, ReaderReads
<1>4. n \in S
  <2>1. Len(esc) + 1 \in 1..Len(body)
    BY <1>3
  <2>2. read(body)[Len(esc) + 1] = [value |-> <<>>, end |-> Len(esc) + 1]
    <3> HIDE DEF body, esc
    <3> QED BY <1>3, <1>11, <2>1
  <2>3. SubSeq(t, n + 1, n) = <<>>
    BY <1>1, SubSeqEmpty
  <2>4. read(body)[Before(pieces, n) + 1] = rest(n)
    BY <1>2, <2>2, <2>3
  <2>5. n \in 0..n
    BY <1>1
  <2> HIDE DEF n, pieces, body, rest
  <2> QED BY <2>4, <2>5
<1>5. ASSUME NEW k \in 0..n, k < n, k + 1 \in S PROVE k \in S
  <2> DEFINE i == Before(pieces, k) + 1
  <2>1. k + 1 \in 1..n /\ (k + 1) - 1 = k
    <3> HIDE DEF S, n
    <3> QED BY <1>1, <1>5
  <2>2. /\ i \in 1..Len(body) /\ IsRead(body, i) /\ ByteRead(body, i) = t[k + 1]
        /\ PlaceRead(body, i) = Before(pieces, k + 1) + 1
    BY <2>1, ReadAPiece
  <2>3. read(body)[i] =
          [read(body)[Before(pieces, k + 1) + 1] EXCEPT !.value = <<t[k + 1]>> \o @]
    <3> HIDE DEF i, body, pieces
    <3> QED BY <1>11, <2>2
  <2>4. read(body)[Before(pieces, k + 1) + 1] = rest(k + 1)
    BY <1>5
  <2>5. SubSeq(t, k + 1, n) = <<t[k + 1]>> \o SubSeq(t, (k + 1) + 1, n)
    BY <1>1, <2>1, SubSeqRecursiveFirst
  <2>6. [rest(k + 1) EXCEPT !.value = <<t[k + 1]>> \o @] = rest(k)
    <3> DEFINE v == SubSeq(t, (k + 1) + 1, n)
               e == Len(esc) + 1
    <3>1. rest(k + 1) = [value |-> v, end |-> e]
          /\ rest(k) = [value |-> <<t[k + 1]>> \o v, end |-> e]
      BY <2>5
    <3> HIDE DEF v, e
    <3>2. [[value |-> v, end |-> e] EXCEPT !.value = <<t[k + 1]>> \o @] =
            [value |-> <<t[k + 1]>> \o v, end |-> e]
      BY AddedInFront
    <3> HIDE DEF rest
    <3> QED BY <3>1, <3>2, Zenon
  <2>7. read(body)[i] = rest(k)
    BY <2>3, <2>4, <2>6
  <2> HIDE DEF rest, body, pieces
  <2> QED BY <2>7
<1>6. \A k \in 0..n : k \in S
  <2> HIDE DEF S, n
  <2> QED BY <1>1, <1>4, <1>5, DownwardInduction
<1>7. 0 \in S
  <2> HIDE DEF S
  <2> QED BY <1>1, <1>6
<1>8. read(body)[1] = rest(0)
  <2> HIDE DEF rest, body
  <2> QED BY <1>2, <1>7
<1>9. rest(0) = [value |-> t, end |-> Len(esc) + 1]
  BY SubSeqFull
<1>10. JsonString(body) = read(body)[1]
  <2> HIDE DEF body
  <2> QED BY <1>3, ReaderReads
<1> QED BY <1>8, <1>9, <1>10

-----------------------------------------------------------------------------
(***************************************************************************)
(* The methods of the Allow header.                                        *)
(***************************************************************************)
\* The pieces of the list: the methods, with a comma and a blank before all but
\* the first.
MethodPieces(methods) ==
    [i \in 1..Len(methods) |-> IF i = 1 THEN methods[i] ELSE <<COMMA, BLANK>> \o methods[i]]

\* The methods of AllowNamesTheMethods, a byte for the name of each.
MethodsOf(t) == [i \in 1..Len(t) |-> <<t[i]>>]

\* A method behind a comma and a blank.
LEMMA SeparatedMethod ==
  ASSUME NEW c \in Byte
  PROVE  LET piece == <<COMMA, BLANK>> \o <<c>>
         IN  /\ piece \in Seq(Byte) /\ Len(piece) = 3
             /\ piece[1] = COMMA /\ piece[2] = BLANK /\ piece[3] = c
<1> DEFINE s == <<COMMA, BLANK>>
           m == <<c>>
<1>1. /\ s \in Seq(Byte) /\ m \in Seq(Byte) /\ Len(s) = 2 /\ Len(m) = 1
      /\ s[1] = COMMA /\ s[2] = BLANK /\ m[1] = c
  BY DEF COMMA, BLANK, Byte
<1> HIDE DEF s, m
<1>2. /\ s \o m \in Seq(Byte) /\ Len(s \o m) = Len(s) + Len(m)
      /\ \A i \in 1..Len(s) : (s \o m)[i] = s[i]
      /\ \A j \in 1..Len(m) : (s \o m)[Len(s) + j] = m[j]
  <2>1. s \in Seq(Byte) /\ m \in Seq(Byte)
    BY <1>1
  <2> QED BY <2>1, ConcatPlaces
<1> DEFINE p == s \o m
<1>3. /\ p \in Seq(Byte) /\ Len(p) = 3
      /\ p[1] = COMMA /\ p[2] = BLANK /\ p[3] = c
  <2>1. /\ p \in Seq(Byte) /\ Len(p) = Len(s) + Len(m)
        /\ \A i \in 1..Len(s) : p[i] = s[i]
        /\ \A j \in 1..Len(m) : p[Len(s) + j] = m[j]
    BY <1>2
  <2> HIDE DEF p
  <2> QED BY <1>1, <2>1
<1> QED BY <1>3 DEF s, m, p

\* The place of each method in the list, and of the comma and the blank behind it.
LEMMA PlacesInTheList ==
  ASSUME NEW t \in Seq(Byte), t # <<>>
  PROVE  LET list == serialized(MethodsOf(t))
             n == Len(t)
         IN  /\ list \in Seq(Byte)
             /\ Len(list) = 3 * n - 2
             /\ \A k \in 1..n : list[3 * k - 2] = t[k]
             /\ \A k \in 1..n - 1 : list[3 * k - 1] = COMMA /\ list[3 * k] = BLANK
<1> DEFINE n == Len(t)
           pieces == MethodPieces(MethodsOf(t))
           list == serialized(MethodsOf(t))
           length(k) == IF k = 0 THEN 0 ELSE 3 * k - 2
           S == {k \in 0..n : Before(pieces, k) = length(k)}
<1>1. n \in Nat /\ n >= 1 /\ \A i \in 1..n : t[i] \in Byte
  <2>1. n \in Nat /\ \A i \in 1..n : t[i] \in Byte
    BY LenProperties, ElementOfSeq
  <2>2. n # 0
    BY EmptySeq
  <2> QED BY <2>1, <2>2
<1> HIDE DEF n
<1>2. Len(MethodsOf(t)) = n /\ \A i \in 1..n : MethodsOf(t)[i] = <<t[i]>>
  BY <1>1 DEF MethodsOf, n
<1>3. ASSUME NEW i \in 1..n
      PROVE  /\ pieces[i] \in Seq(Byte)
             /\ i = 1 => Len(pieces[i]) = 1 /\ pieces[i][1] = t[i]
             /\ i # 1 => /\ Len(pieces[i]) = 3 /\ pieces[i][1] = COMMA
                        /\ pieces[i][2] = BLANK /\ pieces[i][3] = t[i]
  <2>1. pieces[i] = IF i = 1 THEN <<t[i]>> ELSE <<COMMA, BLANK>> \o <<t[i]>>
    BY <1>2 DEF MethodPieces
  <2>2. t[i] \in Byte
    BY <1>1
  <2> HIDE DEF pieces
  <2>3. CASE i = 1
    BY <2>1, <2>2, <2>3
  <2>4. CASE i # 1
    BY <2>1, <2>2, <2>4, SeparatedMethod
  <2> QED BY <2>3, <2>4
<1>4. Len(pieces) = n /\ pieces \in Seq(Seq(Byte))
  <2>2. \A i \in 1..n : pieces[i] \in Seq(Byte)
    BY <1>3
  <2>3. pieces = [i \in 1..n |-> pieces[i]]
    BY <1>2 DEF MethodPieces
  <2> HIDE DEF pieces
  <2>4. pieces \in [1..n -> Seq(Byte)]
    BY <2>2, <2>3
  <2> QED BY <1>1, <2>4
<1>5. list = FlattenSeq(pieces)
  BY DEF serialized, MethodPieces
<1> HIDE DEF pieces, list
<1>6. /\ list \in Seq(Byte) /\ Before(pieces, 0) = 0 /\ Before(pieces, n) = Len(list)
      /\ \A k \in 1..n : /\ Before(pieces, k) = Before(pieces, k - 1) + Len(pieces[k])
                         /\ \A j \in 1..Len(pieces[k]) :
                              list[Before(pieces, k - 1) + j] = pieces[k][j]
  <2>1. pieces \in Seq(Seq(Byte))
    BY <1>4
  <2>2. /\ FlattenSeq(pieces) \in Seq(Byte) /\ Before(pieces, 0) = 0
        /\ Before(pieces, Len(pieces)) = Len(FlattenSeq(pieces))
        /\ \A k \in 1..Len(pieces) :
             /\ Before(pieces, k) = Before(pieces, k - 1) + Len(pieces[k])
             /\ \A j \in 1..Len(pieces[k]) :
                  FlattenSeq(pieces)[Before(pieces, k - 1) + j] = pieces[k][j]
    BY <2>1, FlattenPlaces
  <2>3. Len(pieces) = n
    BY <1>4
  <2> QED BY <1>5, <2>2, <2>3
<1>7. \A k \in 0..n : Before(pieces, k) = length(k)
  <2>1. 0 \in S
    BY <1>1, <1>6
  <2>2. ASSUME NEW k \in 0..n, k < n, k \in S PROVE k + 1 \in S
    <3>1. k + 1 \in 1..n /\ (k + 1) - 1 = k /\ k + 1 \in 0..n /\ k \in Nat
      <4> HIDE DEF S
      <4> QED BY <1>1, <2>2
    <3>2. Len(pieces[k + 1]) = IF k = 0 THEN 1 ELSE 3
      <4>1. k + 1 = 1 <=> k = 0
        BY <3>1
      <4> HIDE DEF S
      <4> QED BY <1>3, <3>1, <4>1
    <3>3. Before(pieces, k + 1) = Before(pieces, k) + Len(pieces[k + 1])
      BY <1>6, <3>1
    <3>4. Before(pieces, k) = length(k)
      BY <2>2
    <3>5. Before(pieces, k + 1) = length(k + 1)
      BY <3>1, <3>2, <3>3, <3>4
    <3> QED BY <3>1, <3>5
  <2>3. \A k \in 0..n : k \in S
    <3> HIDE DEF S
    <3> QED BY <1>1, <2>1, <2>2, UpwardInduction
  <2> QED BY <2>3
<1>8. Len(list) = 3 * n - 2
  <2>1. n \in 0..n /\ n # 0
    BY <1>1
  <2> QED BY <1>6, <1>7, <2>1
<1>9. ASSUME NEW k \in 1..n PROVE list[3 * k - 2] = t[k]
  <2>1. CASE k = 1
    <3>1. k - 1 = 0 /\ 0 + 1 = 1 /\ 3 * k - 2 = 1 /\ 1 \in 1..1
      BY <2>1
    <3>2. Len(pieces[k]) = 1 /\ pieces[k][1] = t[k]
      BY <1>3, <2>1
    <3>3. list[Before(pieces, k - 1) + 1] = t[k]
      BY <1>6, <3>1, <3>2
    <3> QED BY <1>6, <3>1, <3>3
  <2>2. CASE k # 1
    <3>1. Len(pieces[k]) = 3 /\ pieces[k][3] = t[k]
      BY <1>3, <2>2
    <3>2. list[Before(pieces, k - 1) + 3] = t[k]
      BY <1>6, <3>1
    <3>3. Before(pieces, k - 1) = 3 * (k - 1) - 2
      BY <1>1, <1>7, <2>2
    <3>4. Before(pieces, k - 1) + 3 = 3 * k - 2
      BY <1>1, <3>3
    <3> QED BY <3>2, <3>4
  <2> QED BY <2>1, <2>2
<1>10. ASSUME NEW k \in 1..n - 1 PROVE list[3 * k - 1] = COMMA /\ list[3 * k] = BLANK
  <2> DEFINE l == k + 1
  <2>1. l \in 1..n /\ l # 1 /\ l - 1 = k /\ k \in 0..n /\ k # 0
    BY <1>1
  <2> HIDE DEF l
  <2>2. Len(pieces[l]) = 3 /\ pieces[l][1] = COMMA /\ pieces[l][2] = BLANK
    BY <1>3, <2>1
  <2>3. list[Before(pieces, l - 1) + 1] = COMMA /\ list[Before(pieces, l - 1) + 2] = BLANK
    <3>1. \A j \in 1..Len(pieces[l]) : list[Before(pieces, l - 1) + j] = pieces[l][j]
      BY <1>6, <2>1
    <3>2. 1 \in 1..Len(pieces[l]) /\ 2 \in 1..Len(pieces[l])
      BY <2>2
    <3> QED BY <2>2, <3>1, <3>2
  <2>4. Before(pieces, k) = 3 * k - 2
    BY <1>7, <2>1
  <2>5. Before(pieces, k) + 1 = 3 * k - 1 /\ Before(pieces, k) + 2 = 3 * k
    BY <1>1, <2>4
  <2> QED BY <2>1, <2>3, <2>5
<1> QED BY <1>6, <1>8, <1>9, <1>10 DEF n, list

\* Who splits the list at its commas gets the methods.
LEMMA ElementsAreMethods ==
  ASSUME NEW t \in Seq(Byte), t # <<>>, \A i \in 1..Len(t) : isalnum(t[i])
  PROVE  Elements(serialized(MethodsOf(t))) = MethodsOf(t)
<1> DEFINE n == Len(t)
           list == serialized(MethodsOf(t))
           E == {i \in 1..Len(list) : list[i] = COMMA} \union {Len(list) + 1}
           e == [k \in 1..n |-> 3 * k - 1]
<1>1. n \in Nat /\ n >= 1 /\ t \in [1..n -> Byte]
  <2>1. n \in Nat /\ t \in [1..n -> Byte]
    BY LenProperties
  <2>2. n # 0
    BY EmptySeq
  <2> QED BY <2>1, <2>2
<1>2. /\ list \in Seq(Byte) /\ Len(list) = 3 * n - 2
      /\ \A k \in 1..n : list[3 * k - 2] = t[k]
      /\ \A k \in 1..n - 1 : list[3 * k - 1] = COMMA /\ list[3 * k] = BLANK
  BY PlacesInTheList
<1>3. BLANK # COMMA /\ ~isalnum(COMMA)
  BY DEF BLANK, COMMA, isalnum, digits
<1>4. \A k \in 1..n : t[k] # COMMA
  BY <1>3
<1> HIDE DEF n, list
<1>5. ASSUME NEW i \in E PROVE \E k \in 1..n : i = 3 * k - 1
  <2>1. CASE i = Len(list) + 1
    <3>1. i = 3 * n - 1 /\ n \in 1..n
      BY <1>1, <1>2, <2>1
    <3> QED BY <3>1
  <2>2. CASE i \in 1..Len(list) /\ list[i] = COMMA
    <3> DEFINE k == (i + 2) \div 3
    <3>1. k \in 1..n /\ i \in {3 * k - 2, 3 * k - 1, 3 * k} /\ (i # 3 * k - 2 => k \in 1..n - 1)
      BY <1>1, <1>2, <2>2
    <3> HIDE DEF k
    <3>2. i # 3 * k - 2
      BY <1>2, <1>4, <2>2, <3>1
    <3>3. i # 3 * k
      BY <1>2, <1>3, <2>2, <3>1, <3>2
    <3> QED BY <3>1, <3>2, <3>3
  <2> QED BY <2>1, <2>2
<1>6. ASSUME NEW k \in 1..n PROVE 3 * k - 1 \in E
  <2>1. CASE k = n
    BY <1>1, <1>2, <2>1
  <2>2. CASE k # n
    <3>1. k \in 1..n - 1 /\ 3 * k - 1 \in 1..Len(list)
      BY <1>1, <1>2, <2>2
    <3> QED BY <1>2, <3>1
  <2> QED BY <2>1, <2>2
<1>7. E \in SUBSET Nat
  BY <1>1, <1>2
<1> HIDE DEF E
<1>8. Enumerates(e, E)
  <2>1. e \in [1..n -> E]
    BY <1>6
  <2>2. e \in Seq(E) /\ Len(e) = n
    BY <1>1, <2>1
  <2>3. \A i, j \in 1..n : i < j => e[i] < e[j]
    BY <1>1
  <2>4. \A s \in E : \E k \in 1..n : e[k] = s
    BY <1>5
  <2> HIDE DEF e
  <2> QED BY <2>2, <2>3, <2>4 DEF Enumerates
<1>9. Ascending(E) = e
  <2> HIDE DEF e
  <2> QED BY <1>7, <1>8, AscendingIs
<1>10. Elements(list) =
         [k \in 1..n |-> SubSeq(list, IF k = 1 THEN 1 ELSE e[k - 1] + 2, e[k] - 1)]
  <2>1. Len(e) = n
    BY <1>1
  <2> HIDE DEF e
  <2> QED BY <1>9, <2>1 DEF Elements, E
<1>11. ASSUME NEW k \in 1..n
       PROVE  SubSeq(list, IF k = 1 THEN 1 ELSE e[k - 1] + 2, e[k] - 1) = <<t[k]>>
  <2> DEFINE p == 3 * k - 2
  <2>1. /\ (IF k = 1 THEN 1 ELSE e[k - 1] + 2) = p /\ e[k] - 1 = p
        /\ p \in 1..Len(list) /\ p \in p..Len(list) /\ p + 1 > p
    BY <1>1, <1>2
  <2>2. list[p] = t[k]
    BY <1>2
  <2> HIDE DEF p
  <2>3. SubSeq(list, p, p) = <<list[p]>> \o SubSeq(list, p + 1, p)
    BY <1>2, <2>1, SubSeqRecursiveFirst
  <2>4. SubSeq(list, p + 1, p) = <<>>
    BY <2>1, SubSeqEmpty
  <2>5. <<list[p]>> \o <<>> = <<list[p]>>
    OBVIOUS
  <2> HIDE DEF e
  <2> QED BY <2>1, <2>2, <2>3, <2>4, <2>5
<1>12. MethodsOf(t) = [k \in 1..n |-> <<t[k]>>]
  BY DEF MethodsOf, n
<1> HIDE DEF e
<1> QED BY <1>10, <1>11, <1>12 DEF list

\* The Allow header is there if there are methods, and names them.
LEMMA HeaderNamesTheMethods ==
  ASSUME NEW t \in Seq(Byte), \A i \in 1..Len(t) : isalnum(t[i])
  PROVE  LET methods == MethodsOf(t)
             headers == optionalHeaders(<<>>, <<>>, methods)
         IN  IF methods = <<>> THEN headers = {}
             ELSE /\ {header.key : header \in headers} = {"Allow"}
                  /\ \A header \in headers : Elements(header.value) = methods
<1> DEFINE list == serialized(MethodsOf(t))
           headers == optionalHeaders(<<>>, <<>>, MethodsOf(t))
<1>1. headers = IF list = <<>> THEN {} ELSE {[key |-> "Allow", value |-> list]}
  BY DEF optionalHeaders, emplace
<1>2. CASE t = <<>>
  <2>1. Len(t) = 0
    BY <1>2, EmptySeq
  <2>2. MethodsOf(t) = <<>>
    BY <2>1 DEF MethodsOf
  <2>3. list = <<>>
    <3>1. [i \in 1..0 |-> IF i = 1 THEN MethodsOf(t)[i]
                          ELSE <<COMMA, BLANK>> \o MethodsOf(t)[i]] = <<>>
      OBVIOUS
    <3>2. Len(MethodsOf(t)) = 0 /\ FlattenSeq(<<>>) = <<>>
      BY <2>2, EmptySeq DEF FlattenSeq
    <3> QED BY <3>1, <3>2 DEF serialized
  <2> QED BY <1>1, <2>2, <2>3
<1>3. CASE t # <<>>
  <2>1. Len(t) \in Nat /\ Len(t) # 0
    BY <1>3, EmptySeq, LenProperties
  <2>2. MethodsOf(t) # <<>>
    <3>1. Len(MethodsOf(t)) = Len(t)
      BY <2>1 DEF MethodsOf
    <3> QED BY <2>1, <3>1
  <2>3. list # <<>>
    <3>1. Len(list) = 3 * Len(t) - 2
      BY <1>3, PlacesInTheList
    <3>2. Len(list) # 0
      BY <2>1, <3>1
    <3> HIDE DEF list
    <3> QED BY <3>2, EmptySeq
  <2>4. headers = {[key |-> "Allow", value |-> list]}
    BY <1>1, <2>3
  <2>5. Elements(list) = MethodsOf(t)
    BY <1>3, ElementsAreMethods
  <2>6. {header.key : header \in {[key |-> "Allow", value |-> list]}} = {"Allow"}
    OBVIOUS
  <2>7. \A header \in {[key |-> "Allow", value |-> list]} : Elements(header.value) = MethodsOf(t)
    BY <2>5
  <2> HIDE DEF list, headers
  <2> QED BY <2>2, <2>4, <2>6, <2>7 DEF headers
<1> QED BY <1>2, <1>3

-----------------------------------------------------------------------------
(***************************************************************************)
(* The theorems of Texts about the answer to a request that fails.         *)
(***************************************************************************)
\* A reader of the body gets the bytes of the cause back, if there is one
\* (Http2Server.cpp, receiveError()).
THEOREM CauseIsReadBackHolds == Spec => []CauseIsReadBack
<1>1. ASSUME text \in Seq(Byte) PROVE CauseIsReadBack
  <2>1. CASE text = <<>>
    BY <2>1 DEF CauseIsReadBack, responseBody
  <2>2. CASE text # <<>>
    <3>1. responseBody(text) = {[key |-> "cause", value |-> escaped_cause(text)]}
      BY <2>2 DEF responseBody
    <3>2. \A member \in responseBody(text) : member.value = escaped_cause(text)
      BY <3>1
    <3> QED
      BY <1>1, <2>2, <3>1, <3>2, ReadBack DEF CauseIsReadBack
  <2> QED
    BY <2>1, <2>2
<1> QED BY <1>1, TextsAreBytes, PTL

\* The Allow header names the methods in their order (Http2Headers.cpp,
\* addAllowedMethods() and emplace()).
THEOREM AllowNamesTheMethodsHolds == Spec => []AllowNamesTheMethods
<1>1. text \in Seq(Byte) => AllowNamesTheMethods
  BY HeaderNamesTheMethods DEF AllowNamesTheMethods, MethodsOf
<1> QED BY <1>1, TextsAreBytes, PTL
=============================================================================
