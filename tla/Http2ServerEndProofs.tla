------------------------ MODULE Http2ServerEndProofs ------------------------
(***************************************************************************)
(* What the end of a stream leaves behind: its ids, its metrics and the    *)
(* promise of RequestLifecycle, for any requests, workers and outcomes.    *)
(***************************************************************************)
EXTENDS Http2ServerProofs, FiniteSetTheorems

-----------------------------------------------------------------------------
(***************************************************************************)
(* How far on_close has run decides the flags and the observed responses.  *)
(***************************************************************************)
EndOf(s) ==
    /\ closed_[s] <=> conn[s] = "closed" /\ closeCode[s] = 0
    /\ error_[s] <=> conn[s] = "error" \/ (conn[s] = "closed" /\ closeCode[s] # 0)
    /\ conn[s] = "error" => closeCode[s] # 0
    /\ Len(observed[s]) = IF conn[s] = "closed" THEN 1 ELSE 0

EndInv == \A s \in Streams : EndOf(s)

endVars == <<conn, closeCode, closed_, error_, observed>>

\* on_close is all that changes how a stream ended.
LEMMA EndIsKept ==
    ASSUME [Next]_vars
    PROVE  \/ UNCHANGED endVars
           \/ \E s \in Streams : \E code \in PossibleCodes(s) : OnClose(s, code)
           \/ \E s \in Streams : FinishClose(s)
<1> USE DEF endVars, ioVars, streamVars, metricVars
<1>1. ASSUME NEW s \in Streams, OnDataEnd(s) PROVE UNCHANGED endVars
  BY <1>1 DEF OnDataEnd
<1>2. ASSUME NEW s \in Streams, Dequeue(s) PROVE UNCHANGED endVars
  BY <1>2 DEF Dequeue
<1>3. ASSUME NEW s \in Streams, NEW o \in Outcomes, Receive(s, o) PROVE UNCHANGED endVars
  BY <1>3 DEF Receive
<1>4. ASSUME NEW s \in Streams, PlanDelay(s) \/ Commit(s) \/ Post(s) PROVE UNCHANGED endVars
  BY <1>4 DEF PlanDelay, Commit, Post
<1>5. ASSUME NEW s \in Streams, SendResponse(s) PROVE UNCHANGED endVars
  BY <1>5 DEF SendResponse
<1>6. ASSUME NEW s \in Streams,
             TimerExpires(s) \/ TimerAborted(s) \/ TimerFired(s)
      PROVE  UNCHANGED endVars
  BY <1>6 DEF TimerExpires, TimerAborted, TimerFired
<1>7. ASSUME Stop \/ UNCHANGED vars PROVE UNCHANGED endVars
  BY <1>7 DEF Stop, vars
<1> QED
  BY <1>1, <1>2, <1>3, <1>4, <1>5, <1>6, <1>7 DEF Next, Progress

\* Only the stream a handler is about is changed by it.
LEMMA EndOfOne ==
    ASSUME EndInv, NEW s \in Streams, EndOf(s)',
           \A t \in Streams : t # s =>
              /\ conn'[t] = conn[t] /\ closeCode'[t] = closeCode[t]
              /\ closed_'[t] = closed_[t] /\ error_'[t] = error_[t]
              /\ observed'[t] = observed[t]
    PROVE  EndInv'
<1> SUFFICES ASSUME NEW t \in Streams, t # s PROVE EndOf(t)'
  BY DEF EndInv
<1> QED
  BY DEF EndInv, EndOf

\* Each step of on_close keeps them together.
LEMMA EndStep == ASSUME TypeOK, EndInv, [Next]_vars PROVE EndInv'
<1>1. CASE UNCHANGED endVars
  BY <1>1 DEF EndInv, EndOf, endVars
<1>2. ASSUME NEW s \in Streams, NEW code \in PossibleCodes(s), OnClose(s, code)
      PROVE  EndInv'
  <2>1. /\ conn[s] = "open" /\ conn' = [conn EXCEPT ![s] = "cancelled"]
        /\ closeCode' = [closeCode EXCEPT ![s] = code]
        /\ UNCHANGED <<closed_, error_, observed>>
    BY <1>2 DEF OnClose, streamVars, metricVars
  <2>2. conn'[s] = "cancelled" /\ \A t \in Streams : t # s => conn'[t] = conn[t]
    BY <2>1 DEF TypeOK
  <2>3. \A t \in Streams : t # s => closeCode'[t] = closeCode[t]
    BY <2>1 DEF TypeOK
  <2>4. EndOf(s)
    BY DEF EndInv
  <2>5. EndOf(s)'
    BY <2>1, <2>2, <2>4 DEF EndOf
  <2> QED
    BY <2>1, <2>2, <2>3, <2>5, EndOfOne
<1>3. ASSUME NEW s \in Streams, OnCloseNormal(s) PROVE EndInv'
  <2>1. /\ conn[s] = "cancelled" /\ closeCode[s] = 0 /\ UNCHANGED <<closeCode, error_>>
        /\ conn' = [conn EXCEPT ![s] = "closed"] /\ closed_' = [closed_ EXCEPT ![s] = TRUE]
        /\ observed' = [observed EXCEPT ![s] = Append(observed[s], status_code_[s])]
    BY <1>3 DEF OnCloseNormal, updateMetrics
  <2>2. conn'[s] = "closed" /\ \A t \in Streams : t # s => conn'[t] = conn[t]
    BY <2>1 DEF TypeOK
  <2>3. closed_'[s] /\ \A t \in Streams : t # s => closed_'[t] = closed_[t]
    BY <2>1 DEF TypeOK
  <2>4. EndOf(s)
    BY DEF EndInv
  <2>5. Len(observed'[s]) = 1 /\ \A t \in Streams : t # s => observed'[t] = observed[t]
    <3>1. observed \in [Streams -> Seq(Nat)] /\ status_code_[s] \in Nat
      BY DEF TypeOK
    <3>2. Len(observed[s]) = 0
      BY <2>1, <2>4 DEF EndOf
    <3> QED
      BY <2>1, <3>1, <3>2
  <2>6. EndOf(s)'
    BY <2>1, <2>2, <2>3, <2>4, <2>5 DEF EndOf
  <2> QED
    BY <2>1, <2>2, <2>3, <2>5, <2>6, EndOfOne
<1>4. ASSUME NEW s \in Streams, OnCloseError(s) PROVE EndInv'
  <2>1. /\ conn[s] = "cancelled" /\ closeCode[s] # 0
        /\ UNCHANGED <<closeCode, closed_, observed>>
        /\ conn' = [conn EXCEPT ![s] = "error"] /\ error_' = [error_ EXCEPT ![s] = TRUE]
    BY <1>4 DEF OnCloseError, metricVars
  <2>2. conn'[s] = "error" /\ \A t \in Streams : t # s => conn'[t] = conn[t]
    BY <2>1 DEF TypeOK
  <2>3. error_'[s] /\ \A t \in Streams : t # s => error_'[t] = error_[t]
    BY <2>1 DEF TypeOK
  <2>4. EndOf(s)
    BY DEF EndInv
  <2>5. EndOf(s)'
    BY <2>1, <2>2, <2>3, <2>4 DEF EndOf
  <2> QED
    BY <2>1, <2>2, <2>3, <2>5, EndOfOne
<1>5. ASSUME NEW s \in Streams, OnCloseErrorMetrics(s) PROVE EndInv'
  <2>1. /\ conn[s] = "error" /\ UNCHANGED <<closeCode, closed_, error_>>
        /\ conn' = [conn EXCEPT ![s] = "closed"]
        /\ observed' = [observed EXCEPT ![s] = Append(observed[s], status_code_[s])]
    BY <1>5 DEF OnCloseErrorMetrics, updateMetrics, streamVars
  <2>2. conn'[s] = "closed" /\ \A t \in Streams : t # s => conn'[t] = conn[t]
    BY <2>1 DEF TypeOK
  <2>3. EndOf(s)
    BY DEF EndInv
  <2>4. Len(observed'[s]) = 1 /\ \A t \in Streams : t # s => observed'[t] = observed[t]
    <3>1. observed \in [Streams -> Seq(Nat)] /\ status_code_[s] \in Nat
      BY DEF TypeOK
    <3>2. Len(observed[s]) = 0
      BY <2>1, <2>3 DEF EndOf
    <3> QED
      BY <2>1, <3>1, <3>2
  <2>5. EndOf(s)'
    BY <2>1, <2>2, <2>3, <2>4 DEF EndOf
  <2> QED
    BY <2>1, <2>2, <2>4, <2>5, EndOfOne
<1> QED
  BY <1>1, <1>2, <1>3, <1>4, <1>5, EndIsKept DEF FinishClose

-----------------------------------------------------------------------------
(***************************************************************************)
(* The ids and the counters of a request follow from where it is: which    *)
(* requests are complete, and for which reception() has made its checks.   *)
(***************************************************************************)
Unread == {"on_data", "queued", "reception"}

CountVars == <<reception_id_, id_, accepted, errored>>

\* Only the end of the body completes a request, and only Receive takes it past
\* the checks of reception().
LEMMA PlaceMoves ==
    ASSUME ResponseInv, [Next]_vars
    PROVE  \/ \E s \in Streams : OnDataEnd(s)
           \/ \E s \in Streams : \E o \in Outcomes : Receive(s, o)
           \/ /\ UNCHANGED CountVars
              /\ \A t \in Streams : /\ pc'[t] = "on_data" <=> pc[t] = "on_data"
                                    /\ pc'[t] \in Unread <=> pc[t] \in Unread
<1> DEFINE Kept == /\ UNCHANGED CountVars
                   /\ \A t \in Streams : /\ pc'[t] = "on_data" <=> pc[t] = "on_data"
                                         /\ pc'[t] \in Unread <=> pc[t] \in Unread
<1>1. PlaceOK
  BY DEF ResponseInv, TypeOK, PlaceOK
<1> USE DEF Unread, CountVars, idVars, metricVars
<1>2. ASSUME NEW s \in Streams, Dequeue(s) PROVE Kept
  <2>1. pc[s] = "queued"
    BY <1>2, HeadIsQueued DEF Dequeue
  <2> QED
    BY <1>1, <1>2, <2>1 DEF Dequeue, Goto, PlaceOK
<1>3. ASSUME NEW s \in Streams, PlanDelay(s) PROVE Kept
  BY <1>1, <1>3 DEF PlanDelay, Goto, PlaceOK
<1>4. ASSUME NEW s \in Streams, Commit(s) PROVE Kept
  <2>1. PICK label \in {"returned", "post"} :
           pc[s] = "commit" /\ pc' = [pc EXCEPT ![s] = label] /\ UNCHANGED CountVars
    BY <1>4 DEF Commit, Goto
  <2> QED
    BY <1>1, <2>1 DEF PlaceOK
<1>5. ASSUME NEW s \in Streams, Post(s) PROVE Kept
  BY <1>1, <1>5 DEF Post, Goto, PlaceOK
<1>6. ASSUME NEW s \in Streams, TimerFired(s) PROVE Kept
  <2>1. pc[s] = "returned"
    BY <1>6 DEF TimerFired, ResponseInv, OneContinuation, Waiting
  <2> QED
    BY <1>1, <1>6, <2>1 DEF TimerFired, Goto, PlaceOK
<1>7. ASSUME NEW s \in Streams,
             \/ SendResponse(s) \/ TimerExpires(s) \/ TimerAborted(s)
      PROVE  Kept
  BY <1>7 DEF SendResponse, TimerExpires, TimerAborted, flowVars
<1>8. ASSUME NEW s \in Streams, NEW code \in PossibleCodes(s), OnClose(s, code) PROVE Kept
  BY <1>8 DEF OnClose, flowVars
<1>9. ASSUME NEW s \in Streams, FinishClose(s) PROVE Kept
  BY <1>9 DEF FinishClose, OnCloseNormal, OnCloseError, OnCloseErrorMetrics, flowVars
<1>10. ASSUME Stop \/ UNCHANGED vars PROVE Kept
  BY <1>10 DEF Stop, vars, flowVars
<1> QED
  BY <1>2, <1>3, <1>4, <1>5, <1>6, <1>7, <1>8, <1>9, <1>10 DEF Next, Progress

ServerInv == ResponseInv /\ EndInv

\* What the proofs below rest on, in every reachable state.
LEMMA ServerInvHolds == Spec => []ServerInv
<1>1. Init => ResponseInv
  BY InitType DEF Init, ResponseInv, OneContinuation, QueuedOnce, Waiting
<1>2. Init => EndInv
  BY DEF Init, EndInv, EndOf
<1>3. ResponseInv /\ [Next]_vars => ResponseInv'
  BY NextType, OneContinuationStep, QueuedOnceStep DEF ResponseInv
<1>4. ResponseInv /\ EndInv /\ [Next]_vars => EndInv'
  BY EndStep DEF ResponseInv
<1> QED
  BY <1>1, <1>2, <1>3, <1>4, PTL DEF Spec, ServerInv

\* A request is counted when reception() has made its checks.
CountInv ==
    \A s \in Streams : accepted[s] + errored[s] = IF pc[s] \in Unread THEN 0 ELSE 1

\* Each step keeps the number of times a request was counted.
LEMMA CountStep == ASSUME ResponseInv, CountInv, [Next]_vars PROVE CountInv'
<1>1. ASSUME NEW s \in Streams, OnDataEnd(s) PROVE CountInv'
  <2>1. PICK label \in {"queued", "reception"} :
           pc[s] = "on_data" /\ pc' = [pc EXCEPT ![s] = label] /\ UNCHANGED <<accepted, errored>>
    BY <1>1 DEF OnDataEnd, Goto, metricVars
  <2> QED
    BY <2>1 DEF CountInv, Unread, ResponseInv, TypeOK
<1>2. ASSUME NEW s \in Streams, NEW o \in Outcomes, Receive(s, o) PROVE CountInv'
  <2>1. /\ pc[s] = "reception" /\ pc' = [pc EXCEPT ![s] = "delay"]
        /\ \/ accepted' = [accepted EXCEPT ![s] = accepted[s] + 1] /\ UNCHANGED errored
           \/ errored' = [errored EXCEPT ![s] = errored[s] + 1] /\ UNCHANGED accepted
    BY <1>2 DEF Receive, receiveError, Goto
  <2>2. accepted \in [Streams -> Nat] /\ errored \in [Streams -> Nat] /\ DOMAIN pc = Streams
    BY DEF ResponseInv, TypeOK
  <2>3. accepted[s] + errored[s] = 0
    BY <2>1 DEF CountInv, Unread
  <2>4. pc'[s] \notin Unread /\ \A t \in Streams : t # s => pc'[t] = pc[t]
    BY <2>1, <2>2 DEF Unread
  <2>5. /\ accepted'[s] + errored'[s] = 1
        /\ \A t \in Streams : t # s => accepted'[t] = accepted[t] /\ errored'[t] = errored[t]
    BY <2>1, <2>2, <2>3
  <2> QED
    BY <2>4, <2>5 DEF CountInv
<1>3. ASSUME UNCHANGED CountVars, \A t \in Streams : pc'[t] \in Unread <=> pc[t] \in Unread
      PROVE  CountInv'
  BY <1>3 DEF CountInv, CountVars
<1> QED
  BY <1>1, <1>2, <1>3, PlaceMoves

\* However on_close and the threads of a request interleave, the metrics count it
\* once (Stream.cpp, reception() and updateMetrics()).
THEOREM CountedOnce == Spec => []RequestsAreCountedOnce
<1>1. Init => CountInv
  BY DEF Init, CountInv, Unread
<1>2. ServerInv /\ CountInv /\ [Next]_vars => CountInv'
  BY CountStep DEF ServerInv
<1>3. ServerInv /\ CountInv => RequestsAreCountedOnce
  BY DEF ServerInv, EndInv, EndOf, CountInv, Unread, RequestsAreCountedOnce
<1> QED
  BY <1>1, <1>2, <1>3, ServerInvHolds, PTL DEF Spec

-----------------------------------------------------------------------------
(***************************************************************************)
(* The ids.  The counter is at least every id given, so the next id is a   *)
(* new one.                                                                *)
(***************************************************************************)
IdsOf ==
    /\ \A s \in Streams : id_[s] <= reception_id_ /\ (id_[s] = 0 <=> pc[s] = "on_data")
    /\ \A s, t \in Streams : s # t /\ id_[s] = id_[t] => id_[s] = 0

ReportedOf == \A s \in Streams : closed_[s] => reported[s] = id_[s]

\* The end of a body draws a new id; nothing else touches one.
LEMMA IdsStep == ASSUME ResponseInv, IdsOf, [Next]_vars PROVE IdsOf'
<1>1. ASSUME NEW s \in Streams, OnDataEnd(s) PROVE IdsOf'
  <2>1. PICK label \in {"queued", "reception"} :
           pc[s] = "on_data" /\ pc' = [pc EXCEPT ![s] = label]
    BY <1>1 DEF OnDataEnd, Goto
  <2>2. reception_id_' = reception_id_ + 1 /\ id_' = [id_ EXCEPT ![s] = reception_id_ + 1]
    BY <1>1 DEF OnDataEnd
  <2>3. reception_id_ \in Nat /\ id_ \in [Streams -> Nat] /\ DOMAIN pc = Streams
    BY DEF ResponseInv, TypeOK
  <2>4. pc'[s] # "on_data" /\ \A t \in Streams : t # s => pc'[t] = pc[t]
    BY <2>1, <2>3
  <2>5. id_'[s] = reception_id_ + 1 /\ \A t \in Streams : t # s => id_'[t] = id_[t]
    BY <2>2, <2>3
  <2> QED
    BY <2>2, <2>3, <2>4, <2>5 DEF IdsOf
<1>2. ASSUME UNCHANGED <<reception_id_, id_>>,
             \A t \in Streams : pc'[t] = "on_data" <=> pc[t] = "on_data"
      PROVE  IdsOf'
  BY <1>2 DEF IdsOf
<1>3. ASSUME NEW s \in Streams, NEW o \in Outcomes, Receive(s, o)
      PROVE  /\ UNCHANGED <<reception_id_, id_>>
             /\ \A t \in Streams : pc'[t] = "on_data" <=> pc[t] = "on_data"
  BY <1>3 DEF Receive, Goto, idVars, ResponseInv, TypeOK
<1> QED
  BY <1>1, <1>2, <1>3, PlaceMoves DEF CountVars

\* on_close reports the id of its stream, which is drawn by then.
LEMMA ReportedStep ==
    ASSUME ResponseInv, EndInv, ReportedOf, [Next]_vars PROVE ReportedOf'
<1>1. ASSUME NEW s \in Streams, OnDataEnd(s) PROVE ReportedOf'
  <2>1. conn[s] = "open" /\ UNCHANGED <<closed_, reported>>
    BY <1>1 DEF OnDataEnd, streamVars
  <2>2. ~closed_[s]
    BY <2>1 DEF EndInv, EndOf
  <2>3. \A t \in Streams : t # s => id_'[t] = id_[t]
    BY <1>1 DEF OnDataEnd, ResponseInv, TypeOK
  <2> QED
    BY <2>1, <2>2, <2>3 DEF ReportedOf
<1>2. ASSUME NEW s \in Streams, OnCloseNormal(s) PROVE ReportedOf'
  BY <1>2 DEF OnCloseNormal, ReportedOf, ResponseInv, TypeOK
<1>3. ASSUME NEW s \in Streams, OnCloseErrorMetrics(s) PROVE ReportedOf'
  <2>1. conn[s] = "error" /\ UNCHANGED <<closed_, id_>>
    BY <1>3 DEF OnCloseErrorMetrics, streamVars
  <2>2. ~closed_[s]
    BY <2>1 DEF EndInv, EndOf
  <2>3. \A t \in Streams : t # s => reported'[t] = reported[t]
    BY <1>3 DEF OnCloseErrorMetrics, ResponseInv, TypeOK
  <2> QED
    BY <2>1, <2>2, <2>3 DEF ReportedOf
<1>4. ASSUME NEW s \in Streams, OnCloseError(s) PROVE ReportedOf'
  BY <1>4 DEF OnCloseError, idVars, ReportedOf
<1>5. ASSUME NEW s \in Streams, NEW code \in PossibleCodes(s), OnClose(s, code)
      PROVE  ReportedOf'
  BY <1>5 DEF OnClose, idVars, streamVars, ReportedOf
<1>6. ASSUME NEW s \in Streams,
             \/ Dequeue(s) \/ (\E o \in Outcomes : Receive(s, o)) \/ PlanDelay(s)
             \/ Commit(s) \/ Post(s) \/ SendResponse(s)
      PROVE  UNCHANGED <<closed_, id_, reported>>
  BY <1>6 DEF Dequeue, Receive, PlanDelay, Commit, Post, SendResponse, idVars, streamVars
<1>7. ASSUME NEW s \in Streams,
             TimerExpires(s) \/ TimerAborted(s) \/ TimerFired(s)
      PROVE  UNCHANGED <<closed_, id_, reported>>
  BY <1>7 DEF TimerExpires, TimerAborted, TimerFired, idVars, streamVars
<1>8. ASSUME Stop \/ UNCHANGED vars PROVE UNCHANGED <<closed_, id_, reported>>
  BY <1>8 DEF Stop, vars, idVars, streamVars
<1>9. ASSUME UNCHANGED <<closed_, id_, reported>> PROVE ReportedOf'
  BY <1>9 DEF ReportedOf
<1> QED
  BY <1>1, <1>2, <1>3, <1>4, <1>5, <1>6, <1>7, <1>8, <1>9 DEF Next, Progress, FinishClose

\* The ids are distinct, and a stream that closes reports its own
\* (Http2Server.cpp, handler()).
THEOREM IdsAreUnique == Spec => []ReceptionIdentity
<1>1. Init => IdsOf /\ ReportedOf
  BY DEF Init, IdsOf, ReportedOf
<1>2. ServerInv /\ IdsOf /\ ReportedOf /\ [Next]_vars => IdsOf' /\ ReportedOf'
  BY IdsStep, ReportedStep DEF ServerInv
<1>3. IdsOf /\ ReportedOf => ReceptionIdentity
  BY DEF IdsOf, ReportedOf, ReceptionIdentity
<1> QED
  BY <1>1, <1>2, <1>3, ServerInvHolds, PTL DEF Spec

-----------------------------------------------------------------------------
(***************************************************************************)
(* The status of a response.  status_code_ is the status that was sent     *)
(* until error() overwrites it: reception() is over when a response is     *)
(* sent, and it runs once.                                                 *)
(***************************************************************************)
StatusOf(s) ==
    /\ sent[s] # <<>> /\ ~error_[s] => sent[s] = <<status_code_[s]>>
    /\ sent[s] # <<>> /\ closed_[s] => observed[s] = sent[s]

StatusInv == \A s \in Streams : StatusOf(s)

\* A normal close counts the status that was sent, and nothing is sent after it.
LEMMA StatusStep ==
    ASSUME ResponseInv, EndInv, StatusInv, [Next]_vars PROVE StatusInv'
<1>1. ASSUME NEW s \in Streams, NEW o \in Outcomes, Receive(s, o) PROVE StatusInv'
  <2>1. pc[s] = "reception" /\ UNCHANGED <<sent, error_, closed_, observed>>
    BY <1>1 DEF Receive, ioVars
  <2>2. sent[s] = <<>>
    BY <2>1 DEF ResponseInv, OneContinuation
  <2>3. \A t \in Streams : t # s => status_code_'[t] = status_code_[t]
    <3>1. DOMAIN status_code_ = Streams
      BY DEF ResponseInv, TypeOK
    <3> QED
      BY <1>1, <3>1 DEF Receive, receiveError
  <2> QED
    BY <2>1, <2>2, <2>3 DEF StatusInv, StatusOf
<1>2. ASSUME NEW s \in Streams, SendResponse(s) PROVE StatusInv'
  <2>1. /\ posted[s] > 0 /\ UNCHANGED <<status_code_, error_, closed_, observed>>
        /\ IF closed_[s]
           THEN UNCHANGED sent
           ELSE sent' = [sent EXCEPT ![s] = Append(sent[s], status_code_[s])]
    BY <1>2 DEF SendResponse, streamVars, metricVars
  <2>2. sent[s] = <<>>
    BY <2>1 DEF ResponseInv, OneContinuation
  <2>3. CASE closed_[s]
    <3>1. UNCHANGED sent
      BY <2>1, <2>3
    <3> QED
      BY <2>1, <3>1 DEF StatusInv, StatusOf
  <2>4. CASE ~closed_[s]
    <3>1. sent'[s] = <<status_code_[s]>> /\ \A t \in Streams : t # s => sent'[t] = sent[t]
      <4>1. sent \in [Streams -> Seq(Nat)]
        BY DEF ResponseInv, TypeOK
      <4>2. sent' = [sent EXCEPT ![s] = Append(sent[s], status_code_[s])]
        BY <2>1, <2>4
      <4> QED
        BY <2>2, <4>1, <4>2
    <3>2. ~closed_'[s]
      BY <2>1, <2>4
    <3> QED
      BY <2>1, <3>1, <3>2 DEF StatusInv, StatusOf
  <2> QED
    BY <2>3, <2>4
<1>3. ASSUME NEW s \in Streams, OnCloseNormal(s) PROVE StatusInv'
  <2>1. /\ conn[s] = "cancelled" /\ UNCHANGED <<sent, error_, status_code_>>
        /\ closed_' = [closed_ EXCEPT ![s] = TRUE]
        /\ observed' = [observed EXCEPT ![s] = Append(observed[s], status_code_[s])]
    BY <1>3 DEF OnCloseNormal, updateMetrics
  <2>2. ~error_[s] /\ observed[s] = <<>>
    <3>1. ~error_[s] /\ Len(observed[s]) = 0
      BY <2>1 DEF EndInv, EndOf
    <3>2. observed[s] \in Seq(Nat)
      BY DEF ResponseInv, TypeOK
    <3> QED
      BY <3>1, <3>2
  <2>3. /\ observed'[s] = <<status_code_[s]>>
        /\ \A t \in Streams : t # s => observed'[t] = observed[t]
    <3>1. observed \in [Streams -> Seq(Nat)]
      BY DEF ResponseInv, TypeOK
    <3> QED
      BY <2>1, <2>2, <3>1
  <2>4. \A t \in Streams : t # s => closed_'[t] = closed_[t]
    BY <2>1 DEF ResponseInv, TypeOK
  <2>5. StatusOf(s)'
    BY <2>1, <2>2, <2>3 DEF StatusInv, StatusOf
  <2>6. \A t \in Streams : t # s => StatusOf(t)'
    BY <2>1, <2>3, <2>4 DEF StatusInv, StatusOf
  <2> QED
    BY <2>5, <2>6 DEF StatusInv
<1>4. ASSUME NEW s \in Streams, OnCloseError(s) PROVE StatusInv'
  <2>1. /\ conn[s] = "cancelled" /\ UNCHANGED <<sent, closed_, observed>>
        /\ error_' = [error_ EXCEPT ![s] = TRUE]
        /\ \A t \in Streams : t # s => status_code_'[t] = status_code_[t]
    BY <1>4 DEF OnCloseError, metricVars
  <2>2. ~closed_[s]
    BY <2>1 DEF EndInv, EndOf
  <2>3. error_'[s] /\ \A t \in Streams : t # s => error_'[t] = error_[t]
    BY <2>1 DEF ResponseInv, TypeOK
  <2>4. StatusOf(s)'
    BY <2>1, <2>2, <2>3 DEF StatusOf
  <2>5. \A t \in Streams : t # s => StatusOf(t)'
    BY <2>1, <2>3 DEF StatusInv, StatusOf
  <2> QED
    BY <2>4, <2>5 DEF StatusInv
<1>5. ASSUME NEW s \in Streams, OnCloseErrorMetrics(s) PROVE StatusInv'
  <2>1. /\ conn[s] = "error" /\ UNCHANGED <<sent, status_code_, error_, closed_>>
        /\ \A t \in Streams : t # s => observed'[t] = observed[t]
    BY <1>5 DEF OnCloseErrorMetrics, updateMetrics, streamVars
  <2>2. ~closed_[s]
    BY <2>1 DEF EndInv, EndOf
  <2> QED
    BY <2>1, <2>2 DEF StatusInv, StatusOf
<1> DEFINE statusVars == <<sent, status_code_, error_, closed_, observed>>
<1>6. ASSUME NEW s \in Streams, OnDataEnd(s) PROVE UNCHANGED statusVars
  BY <1>6 DEF OnDataEnd, ioVars, streamVars, metricVars
<1>7. ASSUME NEW s \in Streams, Dequeue(s) \/ PlanDelay(s) \/ Commit(s) \/ Post(s)
      PROVE  UNCHANGED statusVars
  BY <1>7 DEF Dequeue, PlanDelay, Commit, Post, ioVars, streamVars, metricVars
<1>8. ASSUME NEW s \in Streams,
             TimerExpires(s) \/ TimerAborted(s) \/ TimerFired(s)
      PROVE  UNCHANGED statusVars
  BY <1>8 DEF TimerExpires, TimerAborted, TimerFired, ioVars, streamVars, metricVars
<1>9. ASSUME NEW s \in Streams, NEW code \in PossibleCodes(s), OnClose(s, code)
      PROVE  UNCHANGED statusVars
  BY <1>9 DEF OnClose, streamVars, metricVars
<1>10. ASSUME Stop \/ UNCHANGED vars PROVE UNCHANGED statusVars
  BY <1>10 DEF Stop, vars, ioVars, streamVars, metricVars
<1>11. ASSUME UNCHANGED statusVars PROVE StatusInv'
  BY <1>11 DEF StatusInv, StatusOf
<1> QED
  BY <1>1, <1>2, <1>3, <1>4, <1>5, <1>6, <1>7, <1>8, <1>9, <1>10, <1>11
     DEF Next, Progress, FinishClose

\* The status that a normal close counts is the one that was sent (Stream.cpp,
\* close() and updateMetrics()).
THEOREM CountedAsSent == Spec => []ObservedStatusWasSent
<1>1. Init => StatusInv
  BY DEF Init, StatusInv, StatusOf
<1>2. ServerInv /\ StatusInv /\ [Next]_vars => StatusInv'
  BY StatusStep DEF ServerInv
<1>3. StatusInv => ObservedStatusWasSent
  BY DEF StatusInv, StatusOf, ObservedStatusWasSent
<1> QED
  BY <1>1, <1>2, <1>3, ServerInvHolds, PTL DEF Spec

-----------------------------------------------------------------------------
(***************************************************************************)
(* Without a queue dispatcher reception() runs on the io thread, in on_data*)
(* of a stream that is open: it cannot come between error() and the        *)
(* metrics.                                                                *)
(***************************************************************************)
ReceptionIsInline ==
    /\ queue = <<>>
    /\ \A s \in Streams : pc[s] = "reception" => runner[s] = "io" /\ conn[s] = "open"

ErrorOf(s) ==
    /\ error_[s] => status_code_[s] = closeCode[s]
    /\ error_[s] /\ conn[s] = "closed" => observed[s] = <<closeCode[s]>>

ErrorInv == \A s \in Streams : ErrorOf(s)

\* A thread that moves on in another place than reception().
LEMMA InlineKept ==
    ASSUME TypeOK, ReceptionIsInline, NEW s \in Streams, NEW label, NEW thread,
           label # "reception", Goto(s, label, thread), UNCHANGED <<queue, conn>>
    PROVE  ReceptionIsInline'
BY DEF TypeOK, ReceptionIsInline, Goto

\* Without a dispatcher no reception() is left when another handler begins.
LEMMA InlineStep ==
    ASSUME ~HasQueueDispatcher, TypeOK, ReceptionIsInline, [Next]_vars
    PROVE  ReceptionIsInline'
<1>1. ASSUME NEW s \in Streams, OnDataEnd(s) PROVE ReceptionIsInline'
  <2>1. Goto(s, "reception", "io") /\ UNCHANGED <<queue, conn>> /\ conn[s] = "open"
    BY <1>1 DEF OnDataEnd, ioVars
  <2> QED
    BY <2>1 DEF Goto, ReceptionIsInline, TypeOK
<1>2. ASSUME NEW s \in Streams, Dequeue(s) PROVE ReceptionIsInline'
  BY <1>2 DEF Dequeue, ReceptionIsInline
<1>3. ASSUME NEW s \in Streams, NEW o \in Outcomes, Receive(s, o) PROVE ReceptionIsInline'
  BY <1>3, InlineKept DEF Receive, ioVars
<1>4. ASSUME NEW s \in Streams, PlanDelay(s) PROVE ReceptionIsInline'
  BY <1>4, InlineKept DEF PlanDelay, ioVars
<1>5. ASSUME NEW s \in Streams, Commit(s) PROVE ReceptionIsInline'
  <2>1. UNCHANGED <<queue, conn>>
    BY <1>5 DEF Commit, ioVars
  <2>2. \/ Goto(s, "returned", "none")
        \/ Goto(s, "post", runner[s])
    BY <1>5 DEF Commit
  <2> QED
    BY <2>1, <2>2, InlineKept
<1>6. ASSUME NEW s \in Streams, Post(s) PROVE ReceptionIsInline'
  BY <1>6, InlineKept DEF Post, ioVars
<1>7. ASSUME NEW s \in Streams, TimerFired(s) PROVE ReceptionIsInline'
  BY <1>7, InlineKept DEF TimerFired, ioVars
<1>8. ASSUME NEW s \in Streams, NEW code \in PossibleCodes(s), OnClose(s, code)
      PROVE  ReceptionIsInline'
  BY <1>8 DEF OnClose, IoFree, flowVars, ReceptionIsInline, TypeOK
<1>9. ASSUME NEW s \in Streams, FinishClose(s) PROVE ReceptionIsInline'
  <2>1. conn[s] # "open" /\ UNCHANGED flowVars
    BY <1>9 DEF FinishClose, OnCloseNormal, OnCloseError, OnCloseErrorMetrics
  <2>2. \A t \in Streams : t # s => conn'[t] = conn[t]
    BY <1>9 DEF FinishClose, OnCloseNormal, OnCloseError, OnCloseErrorMetrics, TypeOK
  <2> QED
    BY <2>1, <2>2 DEF flowVars, ReceptionIsInline
<1>10. ASSUME NEW s \in Streams,
              \/ SendResponse(s) \/ TimerExpires(s) \/ TimerAborted(s)
       PROVE  ReceptionIsInline'
  BY <1>10 DEF SendResponse, TimerExpires, TimerAborted, ioVars, flowVars,
     ReceptionIsInline
<1>11. ASSUME Stop \/ UNCHANGED vars PROVE ReceptionIsInline'
  BY <1>11 DEF Stop, vars, ioVars, flowVars, ReceptionIsInline
<1> QED
  BY <1>1, <1>2, <1>3, <1>4, <1>5, <1>6, <1>7, <1>8, <1>9, <1>10, <1>11 DEF Next, Progress

\* So nothing overwrites the code between error() and its metrics.
LEMMA ErrorStep ==
    ASSUME TypeOK, EndInv, ReceptionIsInline, ErrorInv, [Next]_vars PROVE ErrorInv'
<1> DEFINE errorVars == <<conn, closeCode, error_, status_code_, observed>>
<1>1. ASSUME NEW s \in Streams, NEW o \in Outcomes, Receive(s, o) PROVE ErrorInv'
  <2>1. pc[s] = "reception" /\ UNCHANGED <<conn, closeCode, error_, observed>>
    BY <1>1 DEF Receive, ioVars
  <2>2. ~error_[s]
    BY <2>1 DEF ReceptionIsInline, EndInv, EndOf
  <2>3. \A t \in Streams : t # s => status_code_'[t] = status_code_[t]
    <3>1. DOMAIN status_code_ = Streams
      BY DEF TypeOK
    <3> QED
      BY <1>1, <3>1 DEF Receive, receiveError
  <2> QED
    BY <2>1, <2>2, <2>3 DEF ErrorInv, ErrorOf
<1>2. ASSUME NEW s \in Streams, NEW code \in PossibleCodes(s), OnClose(s, code)
      PROVE  ErrorInv'
  <2>1. conn[s] = "open" /\ UNCHANGED <<error_, status_code_, observed>>
    BY <1>2 DEF OnClose, streamVars, metricVars
  <2>2. ~error_[s]
    BY <2>1 DEF EndInv, EndOf
  <2>3. \A t \in Streams : t # s => conn'[t] = conn[t] /\ closeCode'[t] = closeCode[t]
    BY <1>2 DEF OnClose, TypeOK
  <2> QED
    BY <2>1, <2>2, <2>3 DEF ErrorInv, ErrorOf
<1>3. ASSUME NEW s \in Streams, OnCloseNormal(s) PROVE ErrorInv'
  <2>1. conn[s] = "cancelled" /\ UNCHANGED <<closeCode, error_, status_code_>>
    BY <1>3 DEF OnCloseNormal
  <2>2. ~error_[s]
    BY <2>1 DEF EndInv, EndOf
  <2>3. \A t \in Streams : t # s => conn'[t] = conn[t] /\ observed'[t] = observed[t]
    BY <1>3 DEF OnCloseNormal, updateMetrics, TypeOK
  <2> QED
    BY <2>1, <2>2, <2>3 DEF ErrorInv, ErrorOf
<1>4. ASSUME NEW s \in Streams, OnCloseError(s) PROVE ErrorInv'
  <2>1. /\ conn'[s] = "error" /\ status_code_'[s] = closeCode[s]
        /\ UNCHANGED <<closeCode, observed>>
    BY <1>4 DEF OnCloseError, metricVars, TypeOK
  <2>2. \A t \in Streams : t # s => conn'[t] = conn[t] /\ status_code_'[t] = status_code_[t]
    BY <1>4 DEF OnCloseError, TypeOK
  <2>3. \A t \in Streams : t # s => error_'[t] = error_[t]
    BY <1>4 DEF OnCloseError, TypeOK
  <2>4. ErrorOf(s)'
    BY <2>1 DEF ErrorOf
  <2>5. \A t \in Streams : t # s => ErrorOf(t)'
    BY <2>1, <2>2, <2>3 DEF ErrorInv, ErrorOf
  <2> QED
    BY <2>4, <2>5 DEF ErrorInv
<1>5. ASSUME NEW s \in Streams, OnCloseErrorMetrics(s) PROVE ErrorInv'
  <2>1. /\ conn[s] = "error" /\ UNCHANGED <<closeCode, error_, status_code_>>
        /\ observed' = [observed EXCEPT ![s] = Append(observed[s], status_code_[s])]
    BY <1>5 DEF OnCloseErrorMetrics, updateMetrics, streamVars
  <2>2. error_[s] /\ observed[s] = <<>>
    <3>1. error_[s] /\ Len(observed[s]) = 0
      BY <2>1 DEF EndInv, EndOf
    <3>2. observed[s] \in Seq(Nat)
      BY DEF TypeOK
    <3> QED
      BY <3>1, <3>2
  <2>3. status_code_[s] = closeCode[s]
    BY <2>2 DEF ErrorInv, ErrorOf
  <2>4. /\ observed'[s] = <<closeCode[s]>>
        /\ \A t \in Streams : t # s => observed'[t] = observed[t]
    <3>1. observed \in [Streams -> Seq(Nat)]
      BY DEF TypeOK
    <3> QED
      BY <2>1, <2>2, <2>3, <3>1
  <2>5. \A t \in Streams : t # s => conn'[t] = conn[t]
    BY <1>5 DEF OnCloseErrorMetrics, TypeOK
  <2>6. ErrorOf(s)'
    BY <2>1, <2>3, <2>4 DEF ErrorOf
  <2>7. \A t \in Streams : t # s => ErrorOf(t)'
    BY <2>1, <2>4, <2>5 DEF ErrorInv, ErrorOf
  <2> QED
    BY <2>6, <2>7 DEF ErrorInv
<1>6. ASSUME NEW s \in Streams, OnDataEnd(s) PROVE UNCHANGED errorVars
  BY <1>6 DEF OnDataEnd, ioVars, streamVars, metricVars
<1>7. ASSUME NEW s \in Streams, Dequeue(s) \/ PlanDelay(s) \/ Commit(s) \/ Post(s)
      PROVE  UNCHANGED errorVars
  BY <1>7 DEF Dequeue, PlanDelay, Commit, Post, ioVars, streamVars, metricVars
<1>8. ASSUME NEW s \in Streams,
             \/ TimerExpires(s) \/ TimerAborted(s) \/ TimerFired(s)
      PROVE  UNCHANGED errorVars
  BY <1>8 DEF TimerExpires, TimerAborted, TimerFired, ioVars, streamVars, metricVars
<1>9. ASSUME NEW s \in Streams, SendResponse(s) PROVE UNCHANGED errorVars
  BY <1>9 DEF SendResponse, streamVars, metricVars
<1>10. ASSUME Stop \/ UNCHANGED vars PROVE UNCHANGED errorVars
  BY <1>10 DEF Stop, vars, ioVars, streamVars, metricVars
<1>11. ASSUME UNCHANGED errorVars PROVE ErrorInv'
  BY <1>11 DEF ErrorInv, ErrorOf
<1> QED
  BY <1>1, <1>2, <1>3, <1>4, <1>5, <1>6, <1>7, <1>8, <1>9, <1>10, <1>11
     DEF Next, Progress, FinishClose

\* A server without workers counts each stream in error under its error code
\* (Stream.cpp, error() and updateMetrics(); Http2Server.cpp, one thread for each
\* connection).
THEOREM InlineErrorsAreCounted ==
    ASSUME ~HasQueueDispatcher PROVE Spec => []ErrorMetricsShowTheCode
<1>1. Init => ReceptionIsInline /\ ErrorInv
  BY DEF Init, ReceptionIsInline, ErrorInv, ErrorOf
<1>2. ServerInv /\ ReceptionIsInline /\ ErrorInv /\ [Next]_vars
         => ReceptionIsInline' /\ ErrorInv'
  BY InlineStep, ErrorStep DEF ServerInv, ResponseInv
<1>3. ErrorInv => ErrorMetricsShowTheCode
  BY DEF ErrorInv, ErrorOf, ErrorMetricsShowTheCode
<1> QED
  BY <1>1, <1>2, <1>3, ServerInvHolds, PTL DEF Spec

-----------------------------------------------------------------------------
(***************************************************************************)
(* Congestion control.  When a request is shed, the queue behind it is     *)
(* longer than the limit, and the requests taken before it that were not   *)
(* shed are as many as the other workers: the first time because all of    *)
(* them are busy, and later because these requests do not become less.     *)
(***************************************************************************)
Taken == {s \in Streams : pc[s] \notin {"on_data", "queued"}}

Spared == Taken \ congested

Excess == Cardinality(Streams) - queue_dispatcher_max_size_ - WorkerThreads

ShedInv ==
    /\ Busy \subseteq Taken
    /\ congested \subseteq Taken
    /\ congested # {} =>
         /\ queue_dispatcher_max_size_ >= 0
         /\ Cardinality(Spared) + 1 >= WorkerThreads
         /\ Cardinality(congested) <= Excess

\* A queue that holds nothing twice has as many elements as places.
LEMMA QueueCardinality ==
    ASSUME NEW S, NEW q \in Seq(S),
           \A i, j \in 1 .. Len(q) : q[i] = q[j] => i = j
    PROVE  LET Q == {q[i] : i \in 1 .. Len(q)}
           IN  IsFiniteSet(Q) /\ Cardinality(Q) = Len(q)
<1> DEFINE Q == {q[i] : i \in 1 .. Len(q)}
<1>1. Len(q) \in Nat /\ q \in [1 .. Len(q) -> Q]
  BY LenProperties
<1>2. q \in Bijection(1 .. Len(q), Q)
  BY <1>1 DEF Bijection, Injection, Surjection, IsInjective
<1>3. ExistsBijection(1 .. Len(q), Q)
  BY <1>2 DEF ExistsBijection
<1>4. IsFiniteSet(1 .. Len(q)) /\ Cardinality(1 .. Len(q)) = Len(q)
  <2> DEFINE n == Len(q)
  <2>1. n \in Nat
    BY <1>1
  <2> HIDE DEF n
  <2>2. /\ IsFiniteSet(1 .. n)
        /\ Cardinality(1 .. n) = IF 1 > n THEN 0 ELSE n - 1 + 1
    BY <2>1, FS_Interval
  <2>3. Cardinality(1 .. n) = n
    BY <2>1, <2>2
  <2> QED
    BY <2>2, <2>3 DEF n
<1>5. IsFiniteSet(Q) /\ Cardinality(Q) = Cardinality(1 .. Len(q))
  <2> HIDE DEF Q
  <2> QED
    BY <1>3, <1>4, FS_Bijection
<1> QED
  BY <1>4, <1>5

\* A request that has been taken stays taken, and a worker has only such requests.
LEMMA TakenStep ==
    ASSUME ResponseInv, Busy \subseteq Taken, [Next]_vars
    PROVE  \/ \E s \in Streams : Dequeue(s)
           \/ congested' = congested /\ Taken \subseteq Taken' /\ Busy' \subseteq Taken'
<1> DEFINE Kept == congested' = congested /\ Taken \subseteq Taken' /\ Busy' \subseteq Taken'
<1>1. PlaceOK /\ runner \in [Streams -> {"none", "io", "worker", "timers"}]
  BY DEF ResponseInv, TypeOK, PlaceOK
<1>2. ASSUME NEW s \in Streams, NEW label, NEW thread, Goto(s, label, thread),
             congested' = congested,
             \/ label \notin {"on_data", "queued"}
             \/ s \notin Taken /\ thread # "worker"
      PROVE  Kept
  <2>1. /\ pc'[s] = label /\ runner'[s] = thread
        /\ \A t \in Streams : t # s => pc'[t] = pc[t] /\ runner'[t] = runner[t]
    BY <1>1, <1>2 DEF Goto, PlaceOK
  <2> QED
    BY <1>2, <2>1 DEF Taken, Busy
<1>3. ASSUME UNCHANGED <<congested, pc, runner>> PROVE Kept
  BY <1>3 DEF Taken, Busy
<1>4. ASSUME NEW s \in Streams, OnDataEnd(s) PROVE Kept
  <2>1. /\ s \notin Taken /\ congested' = congested
        /\ Goto(s, "queued", "none") \/ Goto(s, "reception", "io")
    BY <1>4 DEF OnDataEnd, Taken
  <2> QED
    BY <1>2, <2>1
<1>5. ASSUME NEW s \in Streams, NEW o \in Outcomes, Receive(s, o) PROVE Kept
  BY <1>2, <1>5 DEF Receive
<1>6. ASSUME NEW s \in Streams, PlanDelay(s) PROVE Kept
  BY <1>2, <1>6 DEF PlanDelay
<1>7. ASSUME NEW s \in Streams, Commit(s) PROVE Kept
  BY <1>2, <1>7 DEF Commit
<1>8. ASSUME NEW s \in Streams, Post(s) PROVE Kept
  BY <1>2, <1>8 DEF Post
<1>9. ASSUME NEW s \in Streams, TimerFired(s) PROVE Kept
  BY <1>2, <1>9 DEF TimerFired
<1>10. ASSUME NEW s \in Streams,
              \/ SendResponse(s) \/ TimerExpires(s) \/ TimerAborted(s)
       PROVE  Kept
  BY <1>3, <1>10 DEF SendResponse, TimerExpires, TimerAborted, flowVars
<1>11. ASSUME NEW s \in Streams, NEW code \in PossibleCodes(s), OnClose(s, code) PROVE Kept
  BY <1>3, <1>11 DEF OnClose, flowVars
<1>12. ASSUME NEW s \in Streams, FinishClose(s) PROVE Kept
  BY <1>3, <1>12 DEF FinishClose, OnCloseNormal, OnCloseError, OnCloseErrorMetrics, flowVars
<1>13. ASSUME Stop \/ UNCHANGED vars PROVE Kept
  BY <1>3, <1>13 DEF Stop, vars, flowVars
<1> QED
  BY <1>4, <1>5, <1>6, <1>7, <1>8, <1>9, <1>10, <1>11, <1>12, <1>13 DEF Next, Progress

\* A worker takes a request: if it sheds it, the queue and the others leave room
\* for no more than the excess.
LEMMA ShedStep ==
    ASSUME IsFiniteSet(Streams), ResponseInv, ResponseInv', ShedInv,
           NEW s \in Streams, Dequeue(s)
    PROVE  ShedInv'
<1> DEFINE Q == {queue'[i] : i \in 1 .. Len(queue')}
<1>1. /\ pc[s] = "queued" /\ queue # <<>> /\ queue' = Tail(queue) /\ queue \in Seq(Streams)
      /\ Goto(s, "reception", "worker")
  BY HeadIsQueued DEF Dequeue, ResponseInv, TypeOK
<1>2. /\ Taken' = Taken \union {s} /\ s \notin Taken /\ s \notin congested
      /\ Busy' \subseteq Taken'
  <2>1. /\ DOMAIN pc = Streams /\ DOMAIN runner = Streams
    BY DEF ResponseInv, TypeOK
  <2>2. /\ pc'[s] = "reception"
        /\ \A t \in Streams : t # s => pc'[t] = pc[t] /\ runner'[t] = runner[t]
    BY <1>1, <2>1 DEF Goto
  <2> QED
    BY <1>1, <2>2 DEF ShedInv, Taken, Busy
<1>3. /\ Len(queue) \in Nat /\ Len(queue') = Len(queue) - 1 /\ queue' \in Seq(Streams)
  BY <1>1, HeadTailProperties, LenProperties
<1>4. IsFiniteSet(Q) /\ Cardinality(Q) = Len(queue')
  BY <1>3, QueueCardinality DEF ResponseInv, QueuedOnce
<1>5. Q \subseteq Streams /\ Q \intersect Taken' = {}
  <2>1. \A i \in 1 .. Len(queue') : queue'[i] \in Streams /\ pc'[queue'[i]] = "queued"
    BY <1>3 DEF ResponseInv, QueuedOnce
  <2> QED
    BY <2>1 DEF Taken
<1>6. /\ IsFiniteSet(Taken) /\ IsFiniteSet(congested) /\ IsFiniteSet(Spared)
      /\ IsFiniteSet(Busy) /\ IsFiniteSet(Taken')
      /\ Taken' \subseteq Streams
  <2>1. Taken \in SUBSET Streams /\ Taken' \in SUBSET Streams
    BY DEF Taken
  <2>2. congested \in SUBSET Streams /\ Spared \in SUBSET Streams /\ Busy \in SUBSET Streams
    BY <2>1 DEF ShedInv, Spared
  <2> QED
    BY <2>1, <2>2, FS_Subset
<1>7. /\ Cardinality(Streams) \in Nat /\ Cardinality(Spared) \in Nat
      /\ Cardinality(Busy) \in Nat /\ Cardinality(congested) \in Nat
      /\ queue_dispatcher_max_size_ \in Int /\ WorkerThreads \in Nat
  BY <1>6, FS_CardinalityType, ServerAssumption DEF queue_dispatcher_max_size_
<1>8. CASE ~Congestion(Len(queue) - 1)
  <2>1. congested' = congested
    BY <1>8 DEF Dequeue
  <2>2. Spared' = Spared \union {s} /\ s \notin Spared
    BY <1>2, <2>1 DEF Spared
  <2>3. Cardinality(Spared') = Cardinality(Spared) + 1
    BY <1>6, <2>2, FS_AddElement
  <2>4. congested' \subseteq Taken'
    BY <1>2, <2>1 DEF ShedInv
  <2> QED
    BY <1>2, <1>7, <2>1, <2>3, <2>4 DEF ShedInv, Excess, queue_dispatcher_max_size_
<1>9. CASE Congestion(Len(queue) - 1)
  <2>1. congested' = congested \union {s}
    BY <1>9 DEF Dequeue
  <2>2. Spared' = Spared /\ Spared \intersect congested' = {}
        /\ Spared \union congested' = Taken'
    BY <1>2, <2>1 DEF ShedInv, Spared
  <2>3. /\ queue_dispatcher_max_size_ >= 0 /\ Cardinality(Busy) + 1 = WorkerThreads
        /\ Len(queue') > queue_dispatcher_max_size_
    BY <1>3, <1>9 DEF Congestion
  <2>4. Cardinality(Spared) + 1 >= WorkerThreads
    <3>1. CASE congested = {}
      <4>1. Busy \in SUBSET Spared
        BY <3>1 DEF ShedInv, Spared
      <4>2. Cardinality(Busy) <= Cardinality(Spared)
        BY <1>6, <4>1, FS_Subset
      <4> QED
        BY <1>7, <2>3, <4>2
    <3> QED
      BY <3>1 DEF ShedInv
  <2>5. IsFiniteSet(congested') /\ Cardinality(congested') \in Nat
    BY <1>6, <2>1, FS_AddElement, FS_CardinalityType
  <2>6. Cardinality(Taken') = Cardinality(Spared) + Cardinality(congested')
    <3>1. Cardinality(Spared \union congested')
             = Cardinality(Spared) + Cardinality(congested')
                 - Cardinality(Spared \intersect congested')
      BY <1>6, <2>5, FS_Union
    <3>2. Cardinality(Spared \intersect congested') = 0
      BY <2>2, FS_EmptySet
    <3>3. Cardinality(Taken') = Cardinality(Spared) + Cardinality(congested') - 0
      BY <2>2, <3>1, <3>2, Zenon
    <3> QED
      BY <1>7, <2>5, <3>3
  <2>7. Cardinality(Taken' \union Q) = Cardinality(Taken') + Cardinality(Q)
    <3>1. Taken' \intersect Q = {}
      BY <1>5
    <3>2. Cardinality(Taken') \in Nat /\ Cardinality(Q) \in Nat
      BY <1>4, <1>6, FS_CardinalityType
    <3> HIDE DEF Q
    <3>3. Cardinality(Taken' \union Q)
             = Cardinality(Taken') + Cardinality(Q) - Cardinality({})
      BY <1>4, <1>6, <3>1, FS_Union
    <3> QED
      BY <3>2, <3>3, FS_EmptySet
  <2>8. Cardinality(Taken' \union Q) <= Cardinality(Streams)
    <3>1. Taken' \union Q \in SUBSET Streams
      BY <1>5, <1>6
    <3> QED
      BY <3>1, FS_Subset
  <2>9. Cardinality(congested') <= Excess
    <3>1. Len(queue') \in Nat /\ Cardinality(Q) = Len(queue')
      BY <1>3, <1>4, LenProperties
    <3> HIDE DEF Q
    <3> QED
      BY <1>7, <2>3, <2>4, <2>5, <2>6, <2>7, <2>8, <3>1 DEF Excess
  <2> QED
    BY <1>2, <2>1, <2>2, <2>3, <2>4, <2>9 DEF ShedInv, Excess, queue_dispatcher_max_size_
<1> QED
  BY <1>8, <1>9

\* Every step keeps it: those that take no request leave the excess as it is.
LEMMA ShedInvStep ==
    ASSUME IsFiniteSet(Streams), ResponseInv, ResponseInv', ShedInv, [Next]_vars
    PROVE  ShedInv'
<1>1. CASE \E s \in Streams : Dequeue(s)
  BY <1>1, ShedStep
<1>2. CASE congested' = congested /\ Taken \subseteq Taken' /\ Busy' \subseteq Taken'
  <2>1. Spared \in SUBSET Spared' /\ Spared' \in SUBSET Streams
    BY <1>2 DEF Spared, Taken
  <2>2. IsFiniteSet(Spared')
    BY <2>1, FS_Subset
  <2>3. Cardinality(Spared) <= Cardinality(Spared')
    BY <2>1, <2>2, FS_Subset
  <2>4. Cardinality(Spared) \in Nat /\ Cardinality(Spared') \in Nat
    BY <2>1, <2>2, FS_Subset, FS_CardinalityType
  <2> QED
    BY <1>2, <2>3, <2>4, ServerAssumption DEF ShedInv, Excess, queue_dispatcher_max_size_
<1>3. Busy \subseteq Taken
  BY DEF ShedInv
<1> QED
  BY <1>1, <1>2, <1>3, TakenStep

\* However many workers there are, and in whatever order they take the requests,
\* those that are shed are no more than the excess over the workers and the limit
\* of the queue (Stream.cpp, process()).
THEOREM OnlyTheExcessIsShed ==
    ASSUME IsFiniteSet(Streams)
    PROVE  Spec => []CongestionShedsOnlyTheExcess
<1>1. Init => ShedInv
  BY DEF Init, ShedInv, Taken, Busy
<1>2. ResponseInv /\ ResponseInv' /\ ShedInv /\ [Next]_vars => ShedInv'
  BY ShedInvStep
<1>3. ServerInv => ResponseInv
  BY DEF ServerInv
<1>4. ShedInv => CongestionShedsOnlyTheExcess
  BY DEF ShedInv, Excess, CongestionShedsOnlyTheExcess
<1> QED
  BY <1>1, <1>2, <1>3, <1>4, ServerInvHolds, PTL DEF Spec

-----------------------------------------------------------------------------
(***************************************************************************)
(* The server implements RequestLifecycle.  A request is abandoned in three*)
(* places, and each takes that the stream has ended: an aborted timer was  *)
(* cancelled by on_close, error_ is set by it, and so is closed_.          *)
(***************************************************************************)
AbortedByClose == \A s \in Streams : timer_[s] = "aborted" => conn[s] # "open"

\* Only cancelTimer(), in on_close, aborts a wait.
LEMMA AbortedStep == ASSUME TypeOK, AbortedByClose, [Next]_vars PROVE AbortedByClose'
<1>1. ASSUME NEW s \in Streams, NEW code \in PossibleCodes(s), OnClose(s, code)
      PROVE  AbortedByClose'
  BY <1>1 DEF OnClose, AbortedByClose, TypeOK
<1>2. ASSUME NEW s \in Streams, FinishClose(s) PROVE AbortedByClose'
  <2>1. conn[s] # "open" /\ UNCHANGED timer_
    BY <1>2 DEF FinishClose, OnCloseNormal, OnCloseError, OnCloseErrorMetrics, timerVars
  <2>2. \A t \in Streams : t # s => conn'[t] = conn[t]
    BY <1>2 DEF FinishClose, OnCloseNormal, OnCloseError, OnCloseErrorMetrics, TypeOK
  <2>3. conn'[s] # "open"
    BY <1>2 DEF FinishClose, OnCloseNormal, OnCloseError, OnCloseErrorMetrics, TypeOK
  <2> QED
    BY <2>1, <2>2, <2>3 DEF AbortedByClose
<1> DEFINE NoneAborted ==
      UNCHANGED conn /\ \A t \in Streams : timer_'[t] = "aborted" => timer_[t] = "aborted"
<1>3. ASSUME NEW s \in Streams, OnDataEnd(s) PROVE NoneAborted
  BY <1>3 DEF OnDataEnd, ioVars, timerVars
<1>4. ASSUME NEW s \in Streams, Dequeue(s) \/ Post(s) \/ SendResponse(s) PROVE NoneAborted
  BY <1>4 DEF Dequeue, Post, SendResponse, ioVars, timerVars
<1>5. ASSUME NEW s \in Streams, NEW o \in Outcomes, Receive(s, o) PROVE NoneAborted
  BY <1>5 DEF Receive, ioVars
<1>6. ASSUME NEW s \in Streams, PlanDelay(s) PROVE NoneAborted
  <2>1. UNCHANGED conn /\ timer_' \in {timer_, [timer_ EXCEPT ![s] = "idle"]}
    BY <1>6 DEF PlanDelay, ioVars
  <2> QED
    BY <2>1 DEF TypeOK
<1>7. ASSUME NEW s \in Streams, Commit(s) PROVE NoneAborted
  <2>1. UNCHANGED conn /\ timer_' \in {timer_, [timer_ EXCEPT ![s] = "pending"]}
    BY <1>7 DEF Commit, ioVars
  <2> QED
    BY <2>1 DEF TypeOK
<1>8. ASSUME NEW s \in Streams, TimerExpires(s) \/ TimerAborted(s) \/ TimerFired(s)
      PROVE  NoneAborted
  BY <1>8 DEF TimerExpires, TimerAborted, TimerFired, ioVars, TypeOK
<1>9. ASSUME Stop \/ UNCHANGED vars PROVE NoneAborted
  BY <1>9 DEF Stop, vars, ioVars, timerVars
<1>10. ASSUME NoneAborted PROVE AbortedByClose'
  BY <1>10 DEF AbortedByClose
<1> QED
  BY <1>1, <1>2, <1>3, <1>4, <1>5, <1>6, <1>7, <1>8, <1>9, <1>10 DEF Next, Progress

\* The phase and the end of one stream.
PhaseAt(s) ==
    IF pc[s] = "on_data" THEN "receiving"
    ELSE IF pc[s] # "returned" \/ Waiting(s) \/ posted[s] > 0 THEN "processing"
    ELSE IF sent[s] # <<>> THEN "answered" ELSE "abandoned"

EndAt(s) ==
    IF conn[s] = "open" THEN "open"
    ELSE IF closeCode[s] = 0 THEN "closed" ELSE "broken"

\* The mapping to RequestLifecycle, stream by stream.
LEMMA LifecycleOfEach ==
    /\ RequestPhase = [s \in Streams |-> PhaseAt(s)]
    /\ StreamEnd = [s \in Streams |-> EndAt(s)]
BY DEF RequestPhase, StreamEnd, PhaseAt, EndAt

\* What a step does to the phases, when it leaves all streams but one alone.
LEMMA PhaseOfOne ==
    ASSUME NEW s \in Streams, \A t \in Streams : t # s => PhaseAt(t)' = PhaseAt(t)
    PROVE  RequestPhase' = [RequestPhase EXCEPT ![s] = PhaseAt(s)']
<1>1. RequestPhase' = [t \in Streams |-> PhaseAt(t)']
  BY LifecycleOfEach DEF RequestPhase, PhaseAt
<1>2. RequestPhase = [t \in Streams |-> PhaseAt(t)]
  BY LifecycleOfEach
<1> QED
  BY <1>1, <1>2

\* The mapping depends on no other variable.
LEMMA PhasesKept ==
    ASSUME \A t \in Streams : PhaseAt(t)' = PhaseAt(t) PROVE UNCHANGED RequestPhase
<1>1. RequestPhase' = [t \in Streams |-> PhaseAt(t)']
  BY DEF RequestPhase, PhaseAt
<1>2. RequestPhase = [t \in Streams |-> PhaseAt(t)]
  BY LifecycleOfEach
<1> QED
  BY <1>1, <1>2

\* A thread that goes on from one place of the handling to another.
LEMMA StillProcessing ==
    ASSUME TypeOK, NEW s \in Streams, pc[s] \notin {"on_data", "returned"} \/ Waiting(s),
           pc[s] # "on_data", NEW label, label \notin {"on_data", "returned"},
           pc' = [pc EXCEPT ![s] = label], UNCHANGED <<posted, sent>>,
           \A t \in Streams : t # s => timer_'[t] = timer_[t]
    PROVE  UNCHANGED RequestPhase
<1>1. PhaseAt(s) = "processing"
  BY DEF PhaseAt
<1>2. PhaseAt(s)' = "processing"
  BY DEF PhaseAt, TypeOK
<1>3. \A t \in Streams : t # s => pc'[t] = pc[t]
  BY DEF TypeOK
<1>4. \A t \in Streams : t # s => PhaseAt(t)' = PhaseAt(t)
  BY <1>3 DEF PhaseAt, Waiting
<1> QED
  BY <1>1, <1>2, <1>4, PhasesKept

LifecycleStep == [Lifecycle!Next]_(Lifecycle!vars)

\* A stutter of the lifecycle, and its moves from "processing".
LEMMA LifecycleStutters ==
    ASSUME UNCHANGED <<RequestPhase, StreamEnd>> PROVE LifecycleStep
BY DEF LifecycleStep, Lifecycle!vars

\* An answer or the end of one request is a step of the lifecycle.
LEMMA LifecycleMoves ==
    ASSUME NEW s \in Streams, UNCHANGED StreamEnd, PhaseAt(s) = "processing",
           RequestPhase' = [RequestPhase EXCEPT ![s] = PhaseAt(s)'],
           \/ PhaseAt(s)' = "answered" /\ EndAt(s) # "closed"
           \/ PhaseAt(s)' = "abandoned" /\ EndAt(s) # "open"
    PROVE  LifecycleStep
<1>1. RequestPhase[s] = PhaseAt(s) /\ StreamEnd[s] = EndAt(s)
  BY LifecycleOfEach
<1>2. Lifecycle!Answer(s) \/ Lifecycle!Abandon(s)
  BY <1>1 DEF Lifecycle!Answer, Lifecycle!Abandon
<1> QED
  BY <1>2 DEF LifecycleStep, Lifecycle!Next

\* StreamEnd only depends on on_close.
LEMMA EndsKept == ASSUME UNCHANGED <<conn, closeCode>> PROVE UNCHANGED StreamEnd
BY DEF StreamEnd

\* Each step of the server is a step of the lifecycle or a stutter.
LEMMA LifecycleStepOfEach ==
    ASSUME ServerInv, AbortedByClose, [Next]_vars PROVE LifecycleStep
<1> USE DEF ServerInv, ResponseInv
<1>1. ASSUME NEW s \in Streams, OnDataEnd(s) PROVE LifecycleStep
  <2>1. /\ pc[s] = "on_data" /\ conn[s] = "open"
        /\ UNCHANGED <<conn, closeCode, sent, posted, timer_>>
    BY <1>1 DEF OnDataEnd, ioVars, timerVars
  <2>2. PICK label \in {"queued", "reception"} : pc' = [pc EXCEPT ![s] = label]
    BY <1>1 DEF OnDataEnd, Goto
  <2>3. pc'[s] = label /\ \A t \in Streams : t # s => pc'[t] = pc[t]
    BY <2>2 DEF TypeOK
  <2>4. PhaseAt(s) = "receiving" /\ PhaseAt(s)' = "processing" /\ EndAt(s) = "open"
    BY <2>1, <2>3 DEF PhaseAt, EndAt
  <2>5. RequestPhase' = [RequestPhase EXCEPT ![s] = "processing"]
    <3>1. \A t \in Streams : t # s => PhaseAt(t)' = PhaseAt(t)
      BY <2>1, <2>3 DEF PhaseAt, Waiting
    <3> QED
      BY <2>4, <3>1, PhaseOfOne
  <2>6. RequestPhase[s] = "receiving" /\ StreamEnd[s] = "open"
    BY <2>4, LifecycleOfEach
  <2>7. UNCHANGED StreamEnd
    BY <2>1, EndsKept
  <2> QED
    BY <2>5, <2>6, <2>7 DEF LifecycleStep, Lifecycle!Next, Lifecycle!Receive
<1>2. ASSUME NEW s \in Streams, Dequeue(s) PROVE LifecycleStep
  <2>1. /\ pc[s] = "queued" /\ pc' = [pc EXCEPT ![s] = "reception"]
        /\ UNCHANGED <<conn, closeCode, posted, sent, timer_>>
    BY <1>2, HeadIsQueued DEF Dequeue, Goto, ioVars, timerVars
  <2> QED
    BY <2>1, StillProcessing, EndsKept, LifecycleStutters
<1>3. ASSUME NEW s \in Streams, NEW o \in Outcomes, Receive(s, o) PROVE LifecycleStep
  <2>1. /\ pc[s] = "reception" /\ pc' = [pc EXCEPT ![s] = "delay"]
        /\ UNCHANGED <<conn, closeCode, posted, sent, timer_>>
    BY <1>3 DEF Receive, Goto, ioVars
  <2> QED
    BY <2>1, StillProcessing, EndsKept, LifecycleStutters
<1>4. ASSUME NEW s \in Streams, PlanDelay(s) PROVE LifecycleStep
  <2>1. /\ pc[s] = "delay" /\ pc' = [pc EXCEPT ![s] = "commit"]
        /\ UNCHANGED <<conn, closeCode, posted, sent>>
    BY <1>4 DEF PlanDelay, Goto, ioVars
  <2>2. \A t \in Streams : t # s => timer_'[t] = timer_[t]
    BY <1>4 DEF PlanDelay, TypeOK
  <2> QED
    BY <2>1, <2>2, StillProcessing, EndsKept, LifecycleStutters
<1>5. ASSUME NEW s \in Streams, Commit(s) PROVE LifecycleStep
  <2>1. pc[s] = "commit" /\ UNCHANGED <<conn, closeCode, posted, sent>>
    BY <1>5 DEF Commit, ioVars
  <2>2. posted[s] = 0 /\ sent[s] = <<>> /\ ~Waiting(s)
    BY <2>1 DEF OneContinuation
  <2>3. PhaseAt(s) = "processing"
    BY <2>1 DEF PhaseAt
  <2>4. \/ timer_' = [timer_ EXCEPT ![s] = "pending"] /\ pc' = [pc EXCEPT ![s] = "returned"]
        \/ UNCHANGED timer_ /\ error_[s] /\ pc' = [pc EXCEPT ![s] = "returned"]
        \/ UNCHANGED timer_ /\ pc' = [pc EXCEPT ![s] = "post"]
    BY <1>5 DEF Commit, Goto
  <2>5. \A t \in Streams : t # s => PhaseAt(t)' = PhaseAt(t)
    <3>1. ASSUME NEW t \in Streams, t # s PROVE pc'[t] = pc[t]
      BY <2>4, <3>1 DEF TypeOK
    <3>2. ASSUME NEW t \in Streams, t # s PROVE timer_'[t] = timer_[t]
      <4>1. timer_' = timer_ \/ timer_' = [timer_ EXCEPT ![s] = "pending"]
        BY <2>4
      <4> QED
        BY <3>2, <4>1 DEF TypeOK
    <3> QED
      BY <2>1, <3>1, <3>2 DEF PhaseAt, Waiting
  <2>6. CASE timer_' = [timer_ EXCEPT ![s] = "pending"]
    <3>1. Waiting(s)' /\ pc'[s] # "on_data"
      BY <2>4, <2>6 DEF Waiting, TypeOK
    <3>2. PhaseAt(s)' = "processing"
      BY <3>1 DEF PhaseAt
    <3> QED
      BY <2>1, <2>3, <2>5, <3>2, PhasesKept, EndsKept, LifecycleStutters
  <2>7. CASE UNCHANGED timer_ /\ error_[s] /\ pc' = [pc EXCEPT ![s] = "returned"]
    <3>1. EndAt(s) # "open"
      BY <2>7 DEF EndInv, EndOf, EndAt
    <3>2. pc'[s] = "returned"
      BY <2>7 DEF TypeOK
    <3>3. PhaseAt(s)' = "abandoned"
      BY <2>1, <2>2, <2>7, <3>2 DEF PhaseAt, Waiting
    <3> QED
      BY <2>1, <2>3, <2>5, <3>1, <3>3, PhaseOfOne, EndsKept, LifecycleMoves
  <2>8. CASE UNCHANGED timer_ /\ pc' = [pc EXCEPT ![s] = "post"]
    BY <2>1, <2>8, StillProcessing, EndsKept, LifecycleStutters
  <2> QED
    BY <2>4, <2>6, <2>7, <2>8
<1>6. ASSUME NEW s \in Streams, Post(s) PROVE LifecycleStep
  <2>1. /\ pc[s] = "post" /\ pc' = [pc EXCEPT ![s] = "returned"]
        /\ posted' = [posted EXCEPT ![s] = posted[s] + 1]
        /\ UNCHANGED <<conn, closeCode, sent, timer_>>
    BY <1>6 DEF Post, Goto, ioVars, timerVars
  <2>2. pc'[s] = "returned" /\ \A t \in Streams : t # s => pc'[t] = pc[t]
    BY <2>1 DEF TypeOK
  <2>3. posted'[s] > 0 /\ \A t \in Streams : t # s => posted'[t] = posted[t]
    <3>1. posted \in [Streams -> Nat]
      BY DEF TypeOK
    <3> HIDE DEF ServerInv, ResponseInv
    <3> QED
      BY <2>1, <3>1
  <2>4. PhaseAt(s) = "processing" /\ PhaseAt(s)' = "processing"
    BY <2>1, <2>2, <2>3 DEF PhaseAt
  <2>5. \A t \in Streams : t # s => PhaseAt(t)' = PhaseAt(t)
    BY <2>1, <2>2, <2>3 DEF PhaseAt, Waiting
  <2> QED
    BY <2>1, <2>4, <2>5, PhasesKept, EndsKept, LifecycleStutters
<1>7. ASSUME NEW s \in Streams, SendResponse(s) PROVE LifecycleStep
  <2>1. /\ posted[s] > 0 /\ conn[s] \in {"open", "closed"}
        /\ posted' = [posted EXCEPT ![s] = posted[s] - 1]
        /\ UNCHANGED <<pc, timer_, conn, closeCode>>
    BY <1>7 DEF SendResponse, IoFree, timerVars
  <2>2. posted[s] = 1 /\ sent[s] = <<>> /\ pc[s] = "returned" /\ ~Waiting(s)
    BY <2>1 DEF OneContinuation
  <2>3. posted'[s] = 0 /\ \A t \in Streams : t # s => posted'[t] = posted[t]
    <3>1. posted \in [Streams -> Nat]
      BY DEF TypeOK
    <3> HIDE DEF ServerInv, ResponseInv
    <3> QED
      BY <2>1, <2>2, <3>1
  <2>4. \A t \in Streams : t # s => sent'[t] = sent[t]
    <3>1. DOMAIN sent = Streams
      BY DEF TypeOK
    <3> QED
      BY <1>7, <3>1 DEF SendResponse
  <2>5. PhaseAt(s) = "processing"
    BY <2>1, <2>2 DEF PhaseAt
  <2>6. \A t \in Streams : t # s => PhaseAt(t)' = PhaseAt(t)
    BY <2>1, <2>3, <2>4 DEF PhaseAt, Waiting
  <2>7. CASE closed_[s]
    <3>1. UNCHANGED sent
      BY <1>7, <2>7 DEF SendResponse
    <3>2. EndAt(s) # "open"
      BY <2>7 DEF EndInv, EndOf, EndAt
    <3>3. PhaseAt(s)' = "abandoned"
      BY <2>1, <2>2, <2>3, <3>1 DEF PhaseAt, Waiting
    <3> QED
      BY <2>1, <2>5, <2>6, <3>2, <3>3, PhaseOfOne, EndsKept, LifecycleMoves
  <2>8. CASE ~closed_[s]
    <3>1. sent'[s] # <<>>
      <4>1. sent \in [Streams -> Seq(Nat)]
        BY DEF TypeOK
      <4>2. sent' = [sent EXCEPT ![s] = Append(sent[s], status_code_[s])]
        BY <1>7, <2>8 DEF SendResponse
      <4> HIDE DEF ServerInv, ResponseInv
      <4> QED
        BY <2>2, <4>1, <4>2
    <3>2. EndAt(s) # "closed"
      BY <2>1, <2>8 DEF EndInv, EndOf, EndAt
    <3>3. PhaseAt(s)' = "answered"
      BY <2>1, <2>2, <2>3, <3>1 DEF PhaseAt, Waiting
    <3> QED
      BY <2>1, <2>5, <2>6, <3>2, <3>3, PhaseOfOne, EndsKept, LifecycleMoves
  <2> QED
    BY <2>7, <2>8
<1>8. ASSUME NEW s \in Streams, TimerExpires(s) PROVE LifecycleStep
  <2>1. /\ timer_[s] = "pending" /\ timer_' = [timer_ EXCEPT ![s] = "expired"]
        /\ UNCHANGED <<pc, posted, sent, conn, closeCode>>
    BY <1>8 DEF TimerExpires, ioVars, flowVars
  <2>2. \A t \in Streams : Waiting(t)' <=> Waiting(t)
    BY <2>1 DEF Waiting, TypeOK
  <2>3. \A t \in Streams : PhaseAt(t)' = PhaseAt(t)
    BY <2>1, <2>2 DEF PhaseAt
  <2> QED
    BY <2>1, <2>3, PhasesKept, EndsKept, LifecycleStutters
<1>9. ASSUME NEW s \in Streams, TimerAborted(s) PROVE LifecycleStep
  <2>1. /\ timer_[s] = "aborted" /\ timer_' = [timer_ EXCEPT ![s] = "idle"]
        /\ UNCHANGED <<pc, posted, sent, conn, closeCode>>
    BY <1>9 DEF TimerAborted, ioVars, flowVars
  <2>2. Waiting(s) /\ pc[s] = "returned" /\ posted[s] = 0 /\ sent[s] = <<>>
    BY <2>1 DEF Waiting, OneContinuation
  <2>3. ~Waiting(s)' /\ \A t \in Streams : t # s => timer_'[t] = timer_[t]
    BY <2>1 DEF Waiting, TypeOK
  <2>4. PhaseAt(s) = "processing" /\ PhaseAt(s)' = "abandoned"
    BY <2>1, <2>2, <2>3 DEF PhaseAt
  <2>5. \A t \in Streams : t # s => PhaseAt(t)' = PhaseAt(t)
    BY <2>1, <2>3 DEF PhaseAt, Waiting
  <2>6. EndAt(s) # "open"
    BY <2>1 DEF AbortedByClose, EndAt
  <2> QED
    BY <2>1, <2>4, <2>5, <2>6, PhaseOfOne, EndsKept, LifecycleMoves
<1>10. ASSUME NEW s \in Streams, TimerFired(s) PROVE LifecycleStep
  <2>1. /\ timer_[s] = "expired" /\ pc' = [pc EXCEPT ![s] = "commit"]
        /\ UNCHANGED <<posted, sent, conn, closeCode>>
    BY <1>10 DEF TimerFired, Goto, ioVars
  <2>2. Waiting(s) /\ pc[s] = "returned"
    BY <2>1 DEF Waiting, OneContinuation
  <2>3. \A t \in Streams : t # s => timer_'[t] = timer_[t]
    BY <1>10 DEF TimerFired, TypeOK
  <2> QED
    BY <2>1, <2>2, <2>3, StillProcessing, EndsKept, LifecycleStutters
<1>11. ASSUME NEW s \in Streams, NEW code \in PossibleCodes(s), OnClose(s, code)
       PROVE  LifecycleStep
  <2>1. /\ conn[s] = "open" /\ conn' = [conn EXCEPT ![s] = "cancelled"]
        /\ closeCode' = [closeCode EXCEPT ![s] = code] /\ UNCHANGED <<pc, posted, sent>>
    BY <1>11 DEF OnClose, flowVars
  <2>2. \A t \in Streams : Waiting(t)' <=> Waiting(t)
    BY <1>11 DEF OnClose, Waiting, TypeOK
  <2>3. \A t \in Streams : PhaseAt(t)' = PhaseAt(t)
    BY <2>1, <2>2 DEF PhaseAt
  <2>4. EndAt(s) = "open"
    BY <2>1 DEF EndAt
  <2>5. EndAt(s)' \in {"closed", "broken"}
    BY <2>1 DEF EndAt, TypeOK
  <2>6. \A t \in Streams : t # s => EndAt(t)' = EndAt(t)
    BY <2>1 DEF EndAt, TypeOK
  <2>7. StreamEnd' = [StreamEnd EXCEPT ![s] = EndAt(s)']
    <3>1. StreamEnd' = [t \in Streams |-> EndAt(t)']
      BY DEF StreamEnd, EndAt
    <3>2. StreamEnd = [t \in Streams |-> EndAt(t)]
      BY LifecycleOfEach
    <3> QED
      BY <2>6, <3>1, <3>2
  <2>8. StreamEnd[s] = "open"
    BY <2>4, LifecycleOfEach
  <2>9. UNCHANGED RequestPhase
    BY <2>3, PhasesKept
  <2> QED
    BY <2>5, <2>7, <2>8, <2>9 DEF LifecycleStep, Lifecycle!Next, Lifecycle!End
<1>12. ASSUME NEW s \in Streams, FinishClose(s) PROVE LifecycleStep
  <2>1. /\ conn[s] # "open" /\ UNCHANGED <<closeCode, sent, flowVars, timerVars>>
        /\ \E how \in {"error", "closed"} : conn' = [conn EXCEPT ![s] = how]
    BY <1>12 DEF FinishClose, OnCloseNormal, OnCloseError, OnCloseErrorMetrics
  <2>2. \A t \in Streams : conn'[t] = "open" <=> conn[t] = "open"
    BY <2>1 DEF TypeOK
  <2>3. UNCHANGED StreamEnd
    BY <2>1, <2>2 DEF StreamEnd
  <2>4. UNCHANGED RequestPhase
    BY <2>1 DEF RequestPhase, Waiting, flowVars, timerVars
  <2> QED
    BY <2>3, <2>4, LifecycleStutters
<1>13. ASSUME Stop \/ UNCHANGED vars PROVE LifecycleStep
  <2>1. UNCHANGED <<conn, closeCode, pc, posted, sent, timer_>>
    BY <1>13 DEF Stop, vars, ioVars, flowVars, timerVars
  <2>2. UNCHANGED RequestPhase
    BY <2>1 DEF RequestPhase, Waiting
  <2> QED
    BY <2>1, <2>2, EndsKept, LifecycleStutters
<1> QED
  BY <1>1, <1>2, <1>3, <1>4, <1>5, <1>6, <1>7, <1>8, <1>9, <1>10, <1>11, <1>12, <1>13
     DEF Next, Progress

\* The server implements the promise, for any requests, workers and outcomes:
\* answered once, never after a normal close, abandoned only when the stream has
\* ended (Stream.cpp, commit()).
THEOREM ServerKeepsLifecycle == Spec => KeepsLifecycle
<1>1. Init => Lifecycle!Init /\ AbortedByClose
  BY DEF Init, Lifecycle!Init, AbortedByClose, RequestPhase, StreamEnd
<1>2. ServerInv /\ AbortedByClose /\ [Next]_vars => AbortedByClose'
  BY AbortedStep DEF ServerInv, ResponseInv
<1>3. ServerInv /\ AbortedByClose /\ [Next]_vars => [Lifecycle!Next]_(Lifecycle!vars)
  BY LifecycleStepOfEach DEF LifecycleStep
<1> QED
  BY <1>1, <1>2, <1>3, ServerInvHolds, PTL DEF Spec, KeepsLifecycle, Lifecycle!Spec
=============================================================================
