----------------------------- MODULE RequestBody -----------------------------
(***************************************************************************)
(* The request body of each stream of Http2Server::handler(), and the      *)
(* maximum that its on_data callbacks register for the streams to come.    *)
(* The io threads of the connections share maximum_request_body_size_ only *)
(* through atomic operations: one action for each of them.                 *)
(***************************************************************************)
EXTENDS Integers, FiniteSets

CONSTANTS
    Streams,        \* the requests, each on the io thread of its connection
    Lengths,        \* the lengths a DATA chunk may have
    MaxChunks,      \* bound: chunks that may come in one body
    PreReserve      \* what preReserveRequestBody() returns

ASSUME RequestBodyAssumption ==
    /\ Lengths \subseteq Nat \ {0}
    /\ MaxChunks \in Nat
    /\ PreReserve \in BOOLEAN

VARIABLES
    maximum_request_body_size_,
    capacity,       \* what the constructor of the stream reserved
    request_body_,  \* Stream::request_body_, by its size
    chunks,         \* chunks received so far, for the bound
    pc,             \* new, idle, load, swap (in the loop), end
    len, current,   \* the variables of on_data
    begun, ended    \* the lengths whose on_data has begun, has returned

vars == <<maximum_request_body_size_, capacity, request_body_, chunks, pc,
          len, current, begun, ended>>

\* What is registered, read and reserved is the length of one chunk, or 0.
TypeOK ==
    /\ maximum_request_body_size_ \in Lengths \union {0}
    /\ capacity \in [Streams -> Lengths \union {0}]
    /\ request_body_ \in [Streams -> Nat]
    /\ chunks \in [Streams -> 0 .. MaxChunks]
    /\ pc \in [Streams -> {"new", "idle", "load", "swap", "end"}]
    /\ len \in [Streams -> Lengths \union {0}]
    /\ current \in [Streams -> Lengths \union {0}]
    /\ begun \subseteq Lengths
    /\ ended \subseteq Lengths

Init ==
    /\ maximum_request_body_size_ = 0
    /\ capacity = [s \in Streams |-> 0]
    /\ request_body_ = [s \in Streams |-> 0]
    /\ chunks = [s \in Streams |-> 0]
    /\ pc = [s \in Streams |-> "new"]
    /\ len = [s \in Streams |-> 0]
    /\ current = [s \in Streams |-> 0]
    /\ begun = {}
    /\ ended = {}

\* The constructor of Stream.
Open(s) ==
    /\ pc[s] = "new"
    /\ pc' = [pc EXCEPT ![s] = "idle"]
    /\ capacity' = [capacity EXCEPT ![s] =
                      IF PreReserve THEN maximum_request_body_size_ ELSE @]
    /\ UNCHANGED <<maximum_request_body_size_, request_body_, chunks, len, current,
                   begun, ended>>

\* Mutant of OnData: the body is registered and not its last chunk.
OnDataBody(s, n) ==
    /\ pc[s] = "idle" /\ chunks[s] < MaxChunks /\ PreReserve
    /\ chunks' = [chunks EXCEPT ![s] = @ + 1]
    /\ request_body_' = [request_body_ EXCEPT ![s] = @ + n]
    /\ pc' = [pc EXCEPT ![s] = "load"]
    /\ len' = [len EXCEPT ![s] = request_body_[s] + n]
    /\ begun' = begun \union {n}
    /\ UNCHANGED <<maximum_request_body_size_, capacity, current, ended>>

\* on_data with a chunk of n bytes that receiveDataLen() wants: appendData().
OnData(s, n) ==
    /\ pc[s] = "idle"
    /\ chunks[s] < MaxChunks
    /\ chunks' = [chunks EXCEPT ![s] = @ + 1]
    /\ request_body_' = [request_body_ EXCEPT ![s] = @ + n]
    /\ IF PreReserve
       THEN /\ pc' = [pc EXCEPT ![s] = "load"]
            /\ len' = [len EXCEPT ![s] = n]
            /\ begun' = begun \union {n}
       ELSE UNCHANGED <<pc, len, begun>>
    /\ UNCHANGED <<maximum_request_body_size_, capacity, current, ended>>

\* The initialization of current.
Load(s) ==
    /\ pc[s] = "load"
    /\ current' = [current EXCEPT ![s] = maximum_request_body_size_]
    /\ pc' = [pc EXCEPT ![s] = "swap"]
    /\ UNCHANGED <<maximum_request_body_size_, capacity, request_body_, chunks, len,
                   begun, ended>>

\* The loop is over, and on_data with it.
Return(s) ==
    /\ pc' = [pc EXCEPT ![s] = "idle"]
    /\ ended' = ended \union {len[s]}

\* The loop ends because the chunk is no longer than current.
NotLonger(s) ==
    /\ pc[s] = "swap"
    /\ len[s] <= current[s]
    /\ Return(s)
    /\ UNCHANGED <<maximum_request_body_size_, capacity, request_body_, chunks, len,
                   current, begun>>

\* Mutant of Exchange: a store instead of the compare and exchange.
StoreBlindly(s) ==
    /\ pc[s] = "swap"
    /\ len[s] > current[s]
    /\ maximum_request_body_size_' = len[s]
    /\ Return(s)
    /\ UNCHANGED <<capacity, request_body_, chunks, len, current, begun>>

\* compare_exchange_weak succeeds and ends the loop.
Exchange(s) ==
    /\ pc[s] = "swap"
    /\ len[s] > current[s]
    /\ current[s] = maximum_request_body_size_
    /\ maximum_request_body_size_' = len[s]
    /\ Return(s)
    /\ UNCHANGED <<capacity, request_body_, chunks, len, current, begun>>

\* Mutant of ExchangeFails: the loop is given up.
GiveUp(s) ==
    /\ pc[s] = "swap"
    /\ len[s] > current[s]
    /\ Return(s)
    /\ UNCHANGED <<maximum_request_body_size_, capacity, request_body_, chunks, len,
                   current, begun>>

\* compare_exchange_weak fails, perhaps spuriously, and loads current again.
ExchangeFails(s) ==
    /\ pc[s] = "swap"
    /\ len[s] > current[s]
    /\ current' = [current EXCEPT ![s] = maximum_request_body_size_]
    /\ UNCHANGED <<maximum_request_body_size_, capacity, request_body_, chunks, pc, len,
                   begun, ended>>

\* on_data with len = 0.
OnDataEnd(s) ==
    /\ pc[s] = "idle"
    /\ pc' = [pc EXCEPT ![s] = "end"]
    /\ UNCHANGED <<maximum_request_body_size_, capacity, request_body_, chunks, len,
                   current, begun, ended>>

Next ==
    \E s \in Streams :
        \/ Open(s)
        \/ \E n \in Lengths : OnData(s, n)
        \/ Load(s)
        \/ NotLonger(s)
        \/ Exchange(s)
        \/ ExchangeFails(s)
        \/ OnDataEnd(s)

Spec == Init /\ [][Next]_vars
-----------------------------------------------------------------------------
\* The registered maximum is the largest of the chunks, however the loops of
\* the io threads interleave: no shorter than any chunk whose on_data has
\* returned, and the length of some chunk (Http2Server.cpp, handler()).
MaximumIsLargestChunk ==
    /\ \A n \in ended : n <= maximum_request_body_size_
    /\ maximum_request_body_size_ \in begun \union {0}

\* The maximum never shrinks, so that no reservation is larger than what is
\* registered afterwards (Http2Server.cpp, handler(); Stream.cpp, Stream()).
MaximumNeverShrinks ==
    [][/\ maximum_request_body_size_' >= maximum_request_body_size_
       /\ \A s \in Streams : capacity'[s] <= maximum_request_body_size_']_vars
=============================================================================
