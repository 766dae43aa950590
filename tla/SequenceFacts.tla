---------------------------- MODULE SequenceFacts ----------------------------
(***************************************************************************)
(* Induction and recursion over the positions of a sequence, stated of     *)
(* sets, and what follows from them for concatenated and sorted sequences. *)
(***************************************************************************)
EXTENDS Integers, Sequences, SequencesExt, FiniteSets, TLAPS,
        SequenceTheorems, FiniteSetTheorems, WellFoundedInduction

-----------------------------------------------------------------------------
(***************************************************************************)
(* Induction.                                                              *)
(***************************************************************************)
\* A set with 0 and the successors of its members has all natural numbers.
LEMMA SetInduction ==
  ASSUME NEW S, 0 \in S, \A n \in Nat : n \in S => n + 1 \in S
  PROVE  \A n \in Nat : n \in S
<1> DEFINE R == {ss \in Nat \X Nat : ss[1] < ss[2]}
           T == Nat \ S
<1>1. SUFFICES ASSUME T # {} PROVE FALSE
  BY DEF T
<1>2. IsWellFoundedOn(R, Nat)
  BY NatLessThanWellFounded DEF OpToRel
<1>3. PICK x \in T : \A y \in T : ~ (<<y, x>> \in R)
  <2> HIDE DEF R
  <2> QED BY <1>1, <1>2, WFMin
<1>4. x # 0 /\ x \in Nat /\ x - 1 \in Nat
  OBVIOUS
<1>5. x - 1 \in T
  BY <1>4
<1>6. <<x - 1, x>> \in R
  BY <1>4
<1> QED BY <1>3, <1>5, <1>6

\* The same, up to a bound.
LEMMA UpwardInduction ==
  ASSUME NEW n \in Nat, NEW S, 0 \in S, \A k \in 0..n : k < n /\ k \in S => k + 1 \in S
  PROVE  \A k \in 0..n : k \in S
<1> DEFINE T == {k \in Nat : k <= n => k \in S}
<1>1. 0 \in T
  OBVIOUS
<1>2. \A k \in Nat : k \in T => k + 1 \in T
  OBVIOUS
<1>3. \A k \in Nat : k \in T
  <2> HIDE DEF T
  <2> QED BY <1>1, <1>2, SetInduction
<1> QED BY <1>3

\* The same, from a bound down to 0.
LEMMA DownwardInduction ==
  ASSUME NEW n \in Nat, NEW S, n \in S, \A k \in 0..n : k < n /\ k + 1 \in S => k \in S
  PROVE  \A k \in 0..n : k \in S
<1> DEFINE T == {k \in Nat : k <= n => n - k \in S}
<1>1. 0 \in T
  OBVIOUS
<1>2. ASSUME NEW k \in Nat, k \in T PROVE k + 1 \in T
  <2>1. SUFFICES ASSUME k + 1 <= n PROVE n - (k + 1) \in S
    BY DEF T
  <2>2. n - k \in S /\ (n - (k + 1)) + 1 = n - k /\ n - (k + 1) \in 0..n
    BY <1>2, <2>1
  <2> QED BY <2>1, <2>2
<1>3. \A k \in Nat : k \in T
  <2> HIDE DEF T
  <2> QED BY <1>1, <1>2, SetInduction
<1>4. ASSUME NEW k \in 0..n PROVE k \in S
  <2>1. n - k \in T /\ n - k <= n /\ n - (n - k) = k
    BY <1>3
  <2> QED BY <2>1
<1> QED BY <1>4

-----------------------------------------------------------------------------
(***************************************************************************)
(* Recursion.  A recursive function is chosen among those that satisfy its *)
(* equation; these lemmas say that there is one.                           *)
(***************************************************************************)
\* What a recursion goes by: at each place a later place, where it goes on, and what
\* it makes of the result for that; behind the last place the result is base.
Recursion(size, V, base, next, step) ==
    /\ size \in Nat
    /\ base \in V
    /\ next \in [1..size -> 1..size + 1]
    /\ \A i \in 1..size : next[i] > i
    /\ step \in [1..size -> [V -> V]]

\* A function that goes on at a later place of a sequence, and ends behind it.
LEMMA DownwardRecursion ==
  ASSUME NEW size, NEW V, NEW base, NEW next, NEW step,
         Recursion(size, V, base, next, step)
  PROVE  \E f \in [1..size + 1 -> V] :
           \A i \in 1..size + 1 :
             f[i] = IF i > size THEN base ELSE step[i][f[next[i]]]
<1> USE DEF Recursion
<1> DEFINE Goes(f, i) == f[i] = IF i > size THEN base ELSE step[i][f[next[i]]]
           S == {k \in 0..size : \E f \in [k + 1..size + 1 -> V] :
                                   \A i \in k + 1..size + 1 : Goes(f, i)}
<1>1. size \in S
  <2> DEFINE f == [i \in size + 1..size + 1 |-> base]
  <2>1. f \in [size + 1..size + 1 -> V]
    OBVIOUS
  <2>2. \A i \in size + 1..size + 1 : Goes(f, i)
    OBVIOUS
  <2> HIDE DEF Goes, f
  <2> QED BY <2>1, <2>2
<1>2. ASSUME NEW k \in 0..size, k < size, k + 1 \in S PROVE k \in S
  <2>1. PICK f \in [k + 2..size + 1 -> V] : \A i \in k + 2..size + 1 : Goes(f, i)
    <3>1. (k + 1) + 1 = k + 2
      OBVIOUS
    <3> QED BY <1>2, <3>1
  <2> DEFINE g == [i \in k + 1..size + 1 |->
                     IF i = k + 1 THEN step[k + 1][f[next[k + 1]]] ELSE f[i]]
  <2>2. k + 1 \in 1..size /\ next[k + 1] \in k + 2..size + 1
    BY <1>2
  <2>3. f[next[k + 1]] \in V
    BY <2>2
  <2>4. step[k + 1] \in [V -> V]
    BY <2>2
  <2>5. step[k + 1][f[next[k + 1]]] \in V
    BY <2>3, <2>4
  <2>6. g \in [k + 1..size + 1 -> V]
    <3>1. \A i \in k + 1..size + 1 : i # k + 1 => i \in k + 2..size + 1
      OBVIOUS
    <3> QED BY <2>5, <3>1
  <2>7. ASSUME NEW i \in k + 1..size + 1 PROVE Goes(g, i)
    <3>1. CASE i = k + 1
      <4>1. g[i] = step[i][f[next[i]]] /\ g[next[i]] = f[next[i]]
        BY <2>2, <3>1
      <4> QED BY <2>2, <3>1, <4>1
    <3>2. CASE i # k + 1
      <4>1. i \in k + 2..size + 1 /\ g[i] = f[i]
        BY <3>2
      <4>2. CASE i > size
        BY <2>1, <4>1, <4>2
      <4>3. CASE ~(i > size)
        <5>1. i \in 1..size /\ next[i] \in k + 2..size + 1 /\ next[i] # k + 1
          BY <4>1, <4>3
        <5>2. g[next[i]] = f[next[i]]
          BY <5>1
        <5>3. f[i] = step[i][f[next[i]]]
          BY <2>1, <4>1, <4>3
        <5> QED BY <4>1, <4>3, <5>2, <5>3
      <4> QED BY <4>2, <4>3
    <3> QED BY <3>1, <3>2
  <2> HIDE DEF g, Goes
  <2> QED BY <2>6, <2>7
<1>3. \A k \in 0..size : k \in S
  <2> HIDE DEF S
  <2> QED BY <1>1, <1>2, DownwardInduction
<1>4. 0 \in S
  <2> HIDE DEF S
  <2> QED BY <1>3
<1>5. \E f \in [0 + 1..size + 1 -> V] : \A i \in 0 + 1..size + 1 : Goes(f, i)
  <2> HIDE DEF Goes
  <2> QED BY <1>4
<1> QED BY <1>5

-----------------------------------------------------------------------------
(***************************************************************************)
(* FlattenSeq: the pieces one after the other.                             *)
(***************************************************************************)
\* The recursive function in the definition of FlattenSeq.
flatten(seqs) ==
    CHOOSE f : f = [i \in 1..Len(seqs) |-> IF i = 1 THEN seqs[i] ELSE f[i - 1] \o seqs[i]]

\* The first k pieces, and the places they take.
FirstPieces(seqs, k) == IF k = 0 THEN <<>> ELSE flatten(seqs)[k]
Before(seqs, k) == Len(FirstPieces(seqs, k))

\* The function that concatenates one piece after the other exists.
LEMMA FlattenExists ==
  ASSUME NEW A, NEW seqs \in Seq(Seq(A))
  PROVE  flatten(seqs) =
           [i \in 1..Len(seqs) |->
              IF i = 1 THEN seqs[i] ELSE flatten(seqs)[i - 1] \o seqs[i]]
<1> DEFINE n == Len(seqs)
           Is(f, i) == f[i] = IF i = 1 THEN seqs[i] ELSE f[i - 1] \o seqs[i]
           S == {k \in 0..n : \E f \in [1..k -> Seq(A)] : \A i \in 1..k : Is(f, i)}
<1>1. n \in Nat /\ \A i \in 1..n : seqs[i] \in Seq(A)
  BY LenProperties, ElementOfSeq
<1> HIDE DEF n
<1>2. 0 \in S
  <2>1. [i \in 1..0 |-> <<>>] \in [1..0 -> Seq(A)] /\ 0 \in 0..n
    BY <1>1
  <2>2. \A i \in 1..0 : Is([j \in 1..0 |-> <<>>], i)
    OBVIOUS
  <2> QED BY <2>1, <2>2
<1>3. ASSUME NEW k \in 0..n, k < n, k \in S PROVE k + 1 \in S
  <2>1. PICK f \in [1..k -> Seq(A)] : \A i \in 1..k : Is(f, i)
    BY <1>3
  <2> DEFINE last == IF k = 0 THEN seqs[1] ELSE f[k] \o seqs[k + 1]
             g == [i \in 1..k + 1 |-> IF i = k + 1 THEN last ELSE f[i]]
  <2>2. k + 1 \in 0..n /\ k + 1 \in 1..n
    BY <1>1, <1>3
  <2>3. seqs[k + 1] \in Seq(A) /\ (k # 0 => f[k] \in Seq(A))
    BY <1>1, <2>2
  <2>4. last \in Seq(A)
    BY <2>3, ConcatProperties
  <2> HIDE DEF last
  <2>5. g \in [1..k + 1 -> Seq(A)]
    BY <2>4
  <2>6. ASSUME NEW i \in 1..k + 1 PROVE Is(g, i)
    <3>1. CASE i = k + 1
      <4>1. g[i] = last
        BY <3>1
      <4>2. k # 0 => g[i - 1] = f[k]
        BY <3>1
      <4> QED BY <3>1, <4>1, <4>2 DEF last
    <3>2. CASE i # k + 1
      <4>1. i \in 1..k /\ g[i] = f[i] /\ (i # 1 => g[i - 1] = f[i - 1])
        BY <3>2
      <4> QED BY <2>1, <4>1
    <3> QED BY <3>1, <3>2
  <2> HIDE DEF g, Is
  <2> QED BY <2>2, <2>5, <2>6
<1>4. n \in S
  <2> HIDE DEF S
  <2>1. \A k \in 0..n : k \in S
    BY <1>1, <1>2, <1>3, UpwardInduction
  <2> QED BY <1>1, <2>1
<1>5. PICK f \in [1..n -> Seq(A)] : \A i \in 1..n : Is(f, i)
  <2> HIDE DEF Is
  <2> QED BY <1>4
<1>6. f = [i \in 1..n |-> IF i = 1 THEN seqs[i] ELSE f[i - 1] \o seqs[i]]
  BY <1>5
<1> QED BY <1>6 DEF flatten, n

\* The places of two texts in their concatenation.
LEMMA ConcatPlaces ==
  ASSUME NEW A, NEW s \in Seq(A), NEW t \in Seq(A)
  PROVE  /\ s \o t \in Seq(A)
         /\ Len(s) \in Nat /\ Len(t) \in Nat /\ Len(s \o t) = Len(s) + Len(t)
         /\ \A i \in 1..Len(s) : (s \o t)[i] = s[i]
         /\ \A j \in 1..Len(t) : (s \o t)[Len(s) + j] = t[j]
<1>1. Len(s) \in Nat /\ Len(t) \in Nat
  BY LenProperties
<1>2. \A i \in 1..Len(s) + Len(t) :
        (s \o t)[i] = IF i <= Len(s) THEN s[i] ELSE t[i - Len(s)]
  BY ConcatProperties
<1>3. \A i \in 1..Len(s) : (s \o t)[i] = s[i]
  BY <1>1, <1>2
<1>4. ASSUME NEW j \in 1..Len(t) PROVE (s \o t)[Len(s) + j] = t[j]
  <2>1. /\ Len(s) + j \in 1..Len(s) + Len(t)
        /\ ~(Len(s) + j <= Len(s)) /\ (Len(s) + j) - Len(s) = j
    BY <1>1
  <2> QED BY <1>2, <2>1
<1> QED BY <1>1, <1>3, <1>4, ConcatProperties

\* FlattenSeq adds the pieces one by one.
LEMMA FlattenPieces ==
  ASSUME NEW A, NEW seqs \in Seq(Seq(A))
  PROVE  /\ \A k \in 0..Len(seqs) : FirstPieces(seqs, k) \in Seq(A)
         /\ \A k \in 1..Len(seqs) :
              FirstPieces(seqs, k) = FirstPieces(seqs, k - 1) \o seqs[k]
         /\ FlattenSeq(seqs) = FirstPieces(seqs, Len(seqs))
<1> DEFINE n == Len(seqs)
           S == {k \in 0..n : FirstPieces(seqs, k) \in Seq(A)}
<1>1. n \in Nat /\ \A i \in 1..n : seqs[i] \in Seq(A)
  BY LenProperties, ElementOfSeq
<1>2. ASSUME NEW k \in 1..n
      PROVE  FirstPieces(seqs, k) = FirstPieces(seqs, k - 1) \o seqs[k]
  <2>1. flatten(seqs)[k] = IF k = 1 THEN seqs[k] ELSE flatten(seqs)[k - 1] \o seqs[k]
    <3>1. flatten(seqs) =
            [i \in 1..n |-> IF i = 1 THEN seqs[i] ELSE flatten(seqs)[i - 1] \o seqs[i]]
      BY FlattenExists
    <3> HIDE DEF n
    <3> QED BY <3>1
  <2>2. seqs[k] \in Seq(A) /\ <<>> \o seqs[k] = seqs[k]
    BY <1>1, ConcatEmptySeq
  <2>3. k \in Nat /\ k # 0 /\ (k - 1 = 0 <=> k = 1)
    BY <1>1
  <2> QED BY <2>1, <2>2, <2>3 DEF FirstPieces
<1> HIDE DEF n
<1>3. 0 \in S
  BY <1>1 DEF FirstPieces
<1>4. ASSUME NEW k \in 0..n, k < n, k \in S PROVE k + 1 \in S
  <2>1. k + 1 \in 1..n /\ (k + 1) - 1 = k /\ k + 1 \in 0..n
    BY <1>1, <1>4
  <2>2. FirstPieces(seqs, k + 1) = FirstPieces(seqs, k) \o seqs[k + 1]
    BY <1>2, <2>1
  <2>3. FirstPieces(seqs, k) \in Seq(A) /\ seqs[k + 1] \in Seq(A)
    BY <1>1, <1>4, <2>1
  <2>4. FirstPieces(seqs, k + 1) \in Seq(A)
    BY <2>2, <2>3, ConcatProperties
  <2> QED BY <2>1, <2>4
<1>5. \A k \in 0..n : k \in S
  <2> HIDE DEF S
  <2> QED BY <1>1, <1>3, <1>4, UpwardInduction
<1>6. FlattenSeq(seqs) = FirstPieces(seqs, n)
  <2>1. CASE n = 0
    BY <2>1, EmptySeq DEF FlattenSeq, FirstPieces, n
  <2>2. CASE n # 0
    BY <2>2 DEF FlattenSeq, FirstPieces, flatten, n
  <2> QED BY <2>1, <2>2
<1> QED BY <1>2, <1>5, <1>6 DEF n

\* What stands first stays where it is as more is added.
LEMMA PiecesStay ==
  ASSUME NEW A, NEW seqs \in Seq(Seq(A)), NEW m \in 0..Len(seqs), NEW k \in m..Len(seqs)
  PROVE  /\ Before(seqs, m) <= Before(seqs, k)
         /\ \A i \in 1..Before(seqs, m) : FirstPieces(seqs, k)[i] = FirstPieces(seqs, m)[i]
<1> DEFINE n == Len(seqs)
           P(j) == FirstPieces(seqs, j)
           Stays(j) == /\ Len(P(m)) <= Len(P(j))
                       /\ \A i \in 1..Len(P(m)) : P(j)[i] = P(m)[i]
           S == {d \in 0..n - m : Stays(m + d)}
<1>1. n \in Nat /\ m \in 0..n /\ k \in m..n
  BY LenProperties
<1>2. \A j \in 0..n : P(j) \in Seq(A) /\ Len(P(j)) \in Nat
  BY FlattenPieces, LenProperties
<1>3. \A j \in 1..n : P(j) = P(j - 1) \o seqs[j] /\ seqs[j] \in Seq(A)
  BY FlattenPieces, ElementOfSeq
<1> HIDE DEF n, P
<1>4. 0 \in S
  BY <1>1, <1>2
<1>5. ASSUME NEW d \in 0..n - m, d < n - m, d \in S PROVE d + 1 \in S
  <2> DEFINE c == m + d
             e == m + (d + 1)
  <2>1. c \in 0..n /\ e \in 1..n /\ e \in 0..n /\ e - 1 = c /\ d + 1 \in 0..n - m
    BY <1>1, <1>5
  <2>2. Stays(c)
    BY <1>5
  <2> HIDE DEF c, e
  <2>3. P(e) = P(c) \o seqs[e] /\ seqs[e] \in Seq(A) /\ P(c) \in Seq(A)
    BY <1>2, <1>3, <2>1
  <2>4. /\ Len(P(c)) \in Nat /\ Len(seqs[e]) \in Nat
        /\ Len(P(e)) = Len(P(c)) + Len(seqs[e])
        /\ \A i \in 1..Len(P(c)) : P(e)[i] = P(c)[i]
    BY <2>3, ConcatPlaces
  <2>5. Len(P(m)) \in Nat
    BY <1>1, <1>2
  <2>6. Stays(e)
    BY <2>2, <2>4, <2>5
  <2> HIDE DEF Stays
  <2> QED BY <2>1, <2>6 DEF e
<1>6. \A d \in 0..n - m : d \in S
  <2> HIDE DEF S
  <2>1. n - m \in Nat
    BY <1>1
  <2> QED BY <2>1, <1>4, <1>5, UpwardInduction
<1>7. k - m \in 0..n - m /\ m + (k - m) = k
  BY <1>1
<1>8. Stays(k)
  BY <1>6, <1>7
<1> QED BY <1>8 DEF Before, P

\* Each piece stands behind those before it.
LEMMA FlattenPlaces ==
  ASSUME NEW A, NEW seqs \in Seq(Seq(A))
  PROVE  /\ FlattenSeq(seqs) \in Seq(A)
         /\ Before(seqs, 0) = 0
         /\ Before(seqs, Len(seqs)) = Len(FlattenSeq(seqs))
         /\ \A k \in 0..Len(seqs) : Before(seqs, k) \in Nat
         /\ \A k \in 1..Len(seqs) :
              /\ Before(seqs, k) = Before(seqs, k - 1) + Len(seqs[k])
              /\ Before(seqs, k) <= Len(FlattenSeq(seqs))
              /\ \A j \in 1..Len(seqs[k]) :
                   FlattenSeq(seqs)[Before(seqs, k - 1) + j] = seqs[k][j]
<1>1. Len(seqs) \in Nat /\ \A k \in 1..Len(seqs) : seqs[k] \in Seq(A)
  BY LenProperties, ElementOfSeq
<1>2. \A k \in 0..Len(seqs) : FirstPieces(seqs, k) \in Seq(A) /\ Before(seqs, k) \in Nat
  BY FlattenPieces, LenProperties DEF Before
<1>3. FlattenSeq(seqs) = FirstPieces(seqs, Len(seqs))
  BY FlattenPieces
<1>4. Before(seqs, 0) = 0
  BY EmptySeq DEF Before, FirstPieces
<1>5. ASSUME NEW k \in 1..Len(seqs)
      PROVE  /\ Before(seqs, k) = Before(seqs, k - 1) + Len(seqs[k])
             /\ Before(seqs, k) <= Len(FlattenSeq(seqs))
             /\ \A j \in 1..Len(seqs[k]) :
                  FlattenSeq(seqs)[Before(seqs, k - 1) + j] = seqs[k][j]
  <2>1. k - 1 \in 0..Len(seqs) /\ k \in 0..Len(seqs) /\ Len(seqs) \in k..Len(seqs)
    BY <1>1
  <2>2. FirstPieces(seqs, k) = FirstPieces(seqs, k - 1) \o seqs[k]
    BY FlattenPieces
  <2>3. /\ FirstPieces(seqs, k - 1) \in Seq(A) /\ seqs[k] \in Seq(A)
        /\ Before(seqs, k - 1) \in Nat /\ Before(seqs, k) \in Nat /\ Len(seqs[k]) \in Nat
    BY <1>1, <1>2, <2>1, LenProperties
  <2>4. /\ Before(seqs, k) = Before(seqs, k - 1) + Len(seqs[k])
        /\ \A j \in 1..Len(seqs[k]) :
             FirstPieces(seqs, k)[Before(seqs, k - 1) + j] = seqs[k][j]
    BY <2>2, <2>3, ConcatPlaces DEF Before
  <2>5. /\ Before(seqs, k) <= Len(FlattenSeq(seqs))
        /\ \A i \in 1..Before(seqs, k) : FlattenSeq(seqs)[i] = FirstPieces(seqs, k)[i]
    BY <1>3, <2>1, PiecesStay DEF Before
  <2>6. ASSUME NEW j \in 1..Len(seqs[k])
        PROVE  FlattenSeq(seqs)[Before(seqs, k - 1) + j] = seqs[k][j]
    <3>1. Before(seqs, k - 1) + j \in 1..Before(seqs, k)
      BY <2>3, <2>4
    <3>2. FlattenSeq(seqs)[Before(seqs, k - 1) + j] =
            FirstPieces(seqs, k)[Before(seqs, k - 1) + j]
      <4> DEFINE i == Before(seqs, k - 1) + j
      <4>1. i \in 1..Before(seqs, k)
        BY <3>1
      <4> HIDE DEF i
      <4>2. FlattenSeq(seqs)[i] = FirstPieces(seqs, k)[i]
        BY <2>5, <4>1
      <4> QED BY <4>2 DEF i
    <3> QED BY <2>4, <3>2
  <2> QED BY <2>4, <2>5, <2>6
<1>6. FlattenSeq(seqs) \in Seq(A) /\ Before(seqs, Len(seqs)) = Len(FlattenSeq(seqs))
  BY <1>1, <1>2, <1>3 DEF Before
<1> QED BY <1>2, <1>4, <1>5, <1>6
=============================================================================
