-------------------------- MODULE RequestBodyProofs --------------------------
(***************************************************************************)
(* Proofs of RequestBody for any number of streams, any chunks and any     *)
(* number of retries of the compare and exchange.                          *)
(***************************************************************************)
EXTENDS RequestBody, TLAPS

\* What the threads know of the shared maximum: nobody has read more than it is
\* now, every reservation is within it, and a chunk in the loop has begun.
ReadsAreOld ==
    \A s \in Streams :
        /\ pc[s] = "swap" => current[s] <= maximum_request_body_size_
        /\ capacity[s] <= maximum_request_body_size_
        /\ pc[s] \in {"load", "swap"} => len[s] \in begun

IInv == TypeOK /\ ReadsAreOld /\ MaximumIsLargestChunk

-----------------------------------------------------------------------------
\* What is registered, read and reserved are numbers.
LEMMA SizesAreNumbers ==
  ASSUME IInv
  PROVE  /\ maximum_request_body_size_ \in Nat
         /\ \A s \in Streams : capacity[s] \in Nat /\ len[s] \in Nat /\ current[s] \in Nat
<1>1. Lengths \union {0} \subseteq Nat
  BY RequestBodyAssumption
<1> QED
  BY <1>1 DEF IInv, TypeOK

\* The initial states satisfy the inductive invariant.
LEMMA InitIInv == Init => IInv
  BY RequestBodyAssumption DEF Init, IInv, TypeOK, ReadsAreOld, MaximumIsLargestChunk

\* The end of an on_data whose length the maximum covers keeps what is known.
LEMMA ReturnIsCovered ==
  ASSUME NEW s \in Streams, IInv, pc[s] = "swap", Return(s),
         maximum_request_body_size_' \in Lengths \union {0},
         maximum_request_body_size_' >= maximum_request_body_size_,
         len[s] <= maximum_request_body_size_',
         maximum_request_body_size_' \in begun \union {0},
         UNCHANGED <<capacity, request_body_, chunks, len, current, begun>>
  PROVE  IInv'
<1>1. /\ len[s] \in begun /\ len[s] \in Lengths /\ len[s] \in Nat
      /\ maximum_request_body_size_' \in Nat
  <2>1. len[s] \in begun /\ begun \subseteq Lengths
    BY DEF IInv, TypeOK, ReadsAreOld
  <2>2. Lengths \union {0} \subseteq Nat
    BY RequestBodyAssumption
  <2> QED
    BY <2>1, <2>2
<1>2. pc' \in [Streams -> {"new", "idle", "load", "swap", "end"}] /\ ended' \subseteq Lengths
  BY <1>1 DEF IInv, TypeOK, Return
<1>3. TypeOK'
  BY <1>2 DEF IInv, TypeOK
<1>4. \A t \in Streams : pc'[t] # "idle" => pc'[t] = pc[t]
  BY DEF IInv, TypeOK, Return
<1>5. ReadsAreOld'
  <2> SUFFICES ASSUME NEW t \in Streams
               PROVE  /\ pc'[t] = "swap" => current[t] <= maximum_request_body_size_'
                      /\ capacity[t] <= maximum_request_body_size_'
                      /\ pc'[t] \in {"load", "swap"} => len[t] \in begun
    BY DEF ReadsAreOld
  <2>1. /\ capacity[t] \in Nat /\ current[t] \in Nat /\ maximum_request_body_size_ \in Nat
        /\ capacity[t] <= maximum_request_body_size_
    BY SizesAreNumbers DEF IInv, ReadsAreOld
  <2>2. pc'[t] \in {"load", "swap"} => pc'[t] = pc[t]
    BY <1>4
  <2> QED
    BY <1>1, <2>1, <2>2 DEF IInv, ReadsAreOld
<1>6. MaximumIsLargestChunk'
  <2>1. \A n \in ended : n <= maximum_request_body_size_ /\ n \in Nat
    BY RequestBodyAssumption DEF IInv, TypeOK, MaximumIsLargestChunk
  <2>2. maximum_request_body_size_ \in Nat
    BY SizesAreNumbers
  <2>3. ended' = ended \union {len[s]}
    BY DEF Return
  <2>4. \A n \in ended' : n <= maximum_request_body_size_'
    BY <1>1, <2>1, <2>2, <2>3
  <2> QED
    BY <2>4 DEF MaximumIsLargestChunk
<1> QED
  BY <1>3, <1>5, <1>6 DEF IInv

\* Every step of every thread keeps the inductive invariant.
LEMMA NextIInv == IInv /\ [Next]_vars => IInv'
<1> SUFFICES ASSUME IInv, [Next]_vars PROVE IInv'
  OBVIOUS
<1> USE RequestBodyAssumption
<1>1. ASSUME NEW s \in Streams, Open(s) PROVE IInv'
  <2>1. capacity' \in [Streams -> Lengths \union {0}]
        /\ \A t \in Streams : capacity'[t] <= maximum_request_body_size_
    BY <1>1 DEF IInv, TypeOK, ReadsAreOld, Open
  <2> QED
    BY <1>1, <2>1 DEF IInv, TypeOK, ReadsAreOld, MaximumIsLargestChunk, Open
<1>2. ASSUME NEW s \in Streams, NEW n \in Lengths, OnData(s, n) PROVE IInv'
  <2>1. /\ chunks' = [chunks EXCEPT ![s] = @ + 1] /\ chunks[s] < MaxChunks
        /\ chunks \in [Streams -> 0 .. MaxChunks]
    BY <1>2 DEF IInv, TypeOK, OnData
  <2>2. chunks' \in [Streams -> 0 .. MaxChunks]
    BY <2>1
  <2>3. /\ request_body_' = [request_body_ EXCEPT ![s] = @ + n]
        /\ request_body_ \in [Streams -> Nat]
    BY <1>2 DEF IInv, TypeOK, OnData
  <2>4. request_body_' \in [Streams -> Nat]
    BY <2>3
  <2>5. CASE PreReserve
    <3>1. /\ pc' = [pc EXCEPT ![s] = "load"] /\ len' = [len EXCEPT ![s] = n]
          /\ begun' = begun \union {n}
          /\ UNCHANGED <<maximum_request_body_size_, capacity, current, ended>>
      BY <1>2, <2>5 DEF OnData
    <3>2. TypeOK'
      BY <2>2, <2>4, <3>1 DEF IInv, TypeOK
    <3> QED
      BY <3>1, <3>2 DEF IInv, TypeOK, ReadsAreOld, MaximumIsLargestChunk
  <2>6. CASE ~PreReserve
    <3>1. UNCHANGED <<pc, len, begun, maximum_request_body_size_, capacity, current, ended>>
      BY <1>2, <2>6 DEF OnData
    <3> QED
      BY <2>2, <2>4, <3>1 DEF IInv, TypeOK, ReadsAreOld, MaximumIsLargestChunk
  <2> QED
    BY <2>5, <2>6
<1>3. ASSUME NEW s \in Streams, Load(s) PROVE IInv'
  BY <1>3 DEF IInv, TypeOK, ReadsAreOld, MaximumIsLargestChunk, Load
<1>4. ASSUME NEW s \in Streams, NotLonger(s) PROVE IInv'
  <2>1. /\ pc[s] = "swap" /\ len[s] <= current[s] /\ Return(s)
        /\ UNCHANGED <<maximum_request_body_size_, capacity, request_body_, chunks, len,
                       current, begun>>
    BY <1>4 DEF NotLonger
  <2>2. /\ current[s] <= maximum_request_body_size_ /\ current[s] \in Nat
        /\ len[s] \in Nat /\ maximum_request_body_size_ \in Nat
        /\ maximum_request_body_size_ \in Lengths \union {0}
        /\ maximum_request_body_size_ \in begun \union {0}
    BY <2>1, SizesAreNumbers DEF IInv, TypeOK, ReadsAreOld, MaximumIsLargestChunk
  <2>3. len[s] <= maximum_request_body_size_
    BY <2>1, <2>2
  <2> QED
    BY <2>1, <2>2, <2>3, ReturnIsCovered
<1>5. ASSUME NEW s \in Streams, Exchange(s) PROVE IInv'
  <2>1. /\ pc[s] = "swap" /\ len[s] > current[s] /\ Return(s)
        /\ current[s] = maximum_request_body_size_
        /\ maximum_request_body_size_' = len[s]
        /\ UNCHANGED <<capacity, request_body_, chunks, len, current, begun>>
    BY <1>5 DEF Exchange
  <2>2. /\ len[s] \in begun /\ len[s] \in Lengths \union {0}
        /\ len[s] \in Nat /\ maximum_request_body_size_ \in Nat
    BY <2>1, SizesAreNumbers DEF IInv, TypeOK, ReadsAreOld
  <2> QED
    BY <2>1, <2>2, ReturnIsCovered
<1>6. ASSUME NEW s \in Streams, ExchangeFails(s) PROVE IInv'
  BY <1>6 DEF IInv, TypeOK, ReadsAreOld, MaximumIsLargestChunk, ExchangeFails
<1>7. ASSUME NEW s \in Streams, OnDataEnd(s) PROVE IInv'
  BY <1>7 DEF IInv, TypeOK, ReadsAreOld, MaximumIsLargestChunk, OnDataEnd
<1>8. CASE UNCHANGED vars
  BY <1>8 DEF IInv, TypeOK, ReadsAreOld, MaximumIsLargestChunk, vars
<1> QED
  BY <1>1, <1>2, <1>3, <1>4, <1>5, <1>6, <1>7, <1>8 DEF Next

\* Only an exchange changes the maximum, and only for a longer chunk.
LEMMA NeverLess ==
  ASSUME IInv, [Next]_vars
  PROVE  maximum_request_body_size_' >= maximum_request_body_size_
<1>1. maximum_request_body_size_ \in Nat /\ \A s \in Streams : len[s] \in Nat
  BY SizesAreNumbers
<1>2. ASSUME NEW s \in Streams, Exchange(s)
      PROVE  maximum_request_body_size_' >= maximum_request_body_size_
  BY <1>1, <1>2 DEF Exchange
<1>3. CASE UNCHANGED maximum_request_body_size_
  BY <1>1, <1>3
<1> QED
  BY <1>2, <1>3 DEF Next, vars, Open, OnData, Load, NotLonger, ExchangeFails, OnDataEnd

-----------------------------------------------------------------------------
\* The inductive invariant holds in every reachable state.
THEOREM Inductive == Spec => []IInv
<1> QED
  BY InitIInv, NextIInv, PTL DEF Spec

\* The types: what a thread reads, reserves and registers is the length of one
\* chunk, never of a body (Http2Server.hpp, maximum_request_body_size_).
THEOREM BodyTypes == Spec => []TypeOK
<1>1. IInv => TypeOK
  BY DEF IInv
<1> QED
  BY <1>1, Inductive, PTL

\* The maximum registered by on_data is the largest of the chunks: none whose
\* loop has ended is missed, and nothing else is ever stored (Http2Server.cpp,
\* handler()).
THEOREM LargestChunk == Spec => []MaximumIsLargestChunk
<1>1. IInv => MaximumIsLargestChunk
  BY DEF IInv
<1> QED
  BY <1>1, Inductive, PTL

\* The maximum never shrinks, and no stream has reserved more than it
\* (Http2Server.cpp, handler(); Stream.cpp, Stream()).
THEOREM NeverShrinks == Spec => MaximumNeverShrinks
<1>1. IInv /\ IInv' /\ [Next]_vars
        => [/\ maximum_request_body_size_' >= maximum_request_body_size_
            /\ \A s \in Streams : capacity'[s] <= maximum_request_body_size_']_vars
  BY NeverLess DEF IInv, ReadsAreOld
<1> QED
  BY <1>1, Inductive, PTL DEF Spec, MaximumNeverShrinks
=============================================================================
