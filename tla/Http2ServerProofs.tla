-------------------------- MODULE Http2ServerProofs --------------------------
(***************************************************************************)
(* What holds of Http2Server for any requests, workers and outcomes.       *)
(***************************************************************************)
EXTENDS Http2Server, TLAPS, SequenceTheorems

-----------------------------------------------------------------------------
(***************************************************************************)
(* Type correctness, one lemma for each group of actions.                  *)
(***************************************************************************)
LEMMA InitType == Init => TypeOK
<1> SUFFICES ASSUME Init PROVE TypeOK
  OBVIOUS
<1>1. sent \in [Streams -> Seq(Nat)] /\ observed \in [Streams -> Seq(Nat)] /\ queue \in Seq(Streams)
  BY DEF Init
<1>2. /\ closeCode \in [Streams -> Nat] /\ posted \in [Streams -> Nat] /\ id_ \in [Streams -> Nat]
      /\ reported \in [Streams -> Nat] /\ status_code_ \in [Streams -> Nat]
      /\ accepted \in [Streams -> Nat] /\ errored \in [Streams -> Nat] /\ reception_id_ \in Nat
  BY DEF Init
<1> QED
  BY <1>1, <1>2 DEF Init, TypeOK

\* The error that reception() finds is a status code.
LEMMA ReceptionErrorType == ASSUME NEW s, NEW o PROVE ReceptionError(s, o) \in Nat
BY DEF ReceptionError, SERVICE_UNAVAILABLE, METHOD_NOT_ALLOWED, METHOD_NOT_IMPLEMENTED,
       UNSUPPORTED_MEDIA_TYPE, WRONG_API_NAME_OR_VERSION, NO_ERROR

\* Where the threads are, the part of TypeOK that most actions change.
PlaceOK ==
    /\ pc \in [Streams -> {"on_data", "queued", "reception", "delay", "commit",
                           "post", "returned"}]
    /\ runner \in [Streams -> {"none", "io", "worker", "timers"}]

\* The actions of a thread that handles a request keep the types.
LEMMA FlowType ==
    ASSUME TypeOK, NEW s \in Streams,
           \/ OnDataEnd(s) \/ Dequeue(s) \/ (\E o \in Outcomes : Receive(s, o))
           \/ PlanDelay(s) \/ Commit(s) \/ Post(s) \/ SendResponse(s)
    PROVE  TypeOK'
<1>1. CASE OnDataEnd(s)
  <2>1. queue' \in Seq(Streams)
    <3>1. queue \in Seq(Streams)
      BY DEF TypeOK
    <3>2. queue' \in {queue, Append(queue, s)}
      BY <1>1 DEF OnDataEnd
    <3> QED
      BY <3>1, <3>2
  <2>2. reception_id_' \in Nat /\ id_' \in [Streams -> Nat]
    <3>1. reception_id_ \in Nat /\ id_ \in [Streams -> Nat]
      BY DEF TypeOK
    <3>2. /\ reception_id_' = reception_id_ + 1
          /\ id_' = [id_ EXCEPT ![s] = reception_id_ + 1]
      BY <1>1 DEF OnDataEnd
    <3> QED
      BY <3>1, <3>2
  <2>3. PlaceOK'
    BY <1>1 DEF OnDataEnd, TypeOK, Goto, PlaceOK
  <2> QED
    BY <1>1, <2>1, <2>2, <2>3
    DEF OnDataEnd, TypeOK, PlaceOK, ioVars, streamVars, timerVars, metricVars
<1>2. CASE Dequeue(s)
  <2>1. queue' \in Seq(Streams)
    BY <1>2 DEF Dequeue, TypeOK
  <2>2. congested' \subseteq Streams
    BY <1>2 DEF Dequeue, TypeOK
  <2>3. PlaceOK'
    BY <1>2 DEF Dequeue, TypeOK, Goto, PlaceOK
  <2> QED
    BY <1>2, <2>1, <2>2, <2>3
    DEF Dequeue, TypeOK, PlaceOK, ioVars, idVars, streamVars, timerVars, metricVars
<1>3. ASSUME NEW o \in Outcomes, Receive(s, o) PROVE TypeOK'
  <2>1. o.status \in Nat /\ o.delay \in BOOLEAN
    BY ServerAssumption DEF Outcome
  <2>2. status_code_' \in [Streams -> Nat]
    <3>1. PICK code \in Nat : status_code_' = [status_code_ EXCEPT ![s] = code]
      BY <1>3, <2>1, ReceptionErrorType DEF Receive, receiveError
    <3> QED
      BY <3>1 DEF TypeOK
  <2>3. accepted' \in [Streams -> Nat] /\ errored' \in [Streams -> Nat]
    <3>1. accepted \in [Streams -> Nat] /\ errored \in [Streams -> Nat]
      BY DEF TypeOK
    <3>2. /\ accepted' \in {accepted, [accepted EXCEPT ![s] = accepted[s] + 1]}
          /\ errored' \in {errored, [errored EXCEPT ![s] = errored[s] + 1]}
      BY <1>3 DEF Receive, receiveError
    <3> QED
      BY <3>1, <3>2
  <2>4. provisioned' \in [Streams -> BOOLEAN]
    BY <1>3, <2>1 DEF Receive, receiveError, TypeOK
  <2>5. PlaceOK'
    BY <1>3 DEF Receive, receiveError, TypeOK, Goto, PlaceOK
  <2> QED
    BY <1>3, <2>2, <2>3, <2>4, <2>5 DEF Receive, receiveError, TypeOK, PlaceOK, ioVars, idVars
<1>4. CASE PlanDelay(s)
  <2>1. held' \in [Streams -> BOOLEAN]
    BY <1>4 DEF PlanDelay, responseDelayMs, TypeOK
  <2>2. /\ timer_' \in [Streams -> {"null", "idle", "pending", "expired", "aborted"}]
        /\ need_timer_' \in [Streams -> BOOLEAN]
    BY <1>4 DEF PlanDelay, TypeOK
  <2>3. PlaceOK'
    BY <1>4 DEF PlanDelay, TypeOK, Goto, PlaceOK
  <2> QED
    BY <1>4, <2>1, <2>2, <2>3
    DEF PlanDelay, TypeOK, PlaceOK, ioVars, idVars, streamVars, metricVars
<1>5. CASE Commit(s)
  <2>1. timer_' \in [Streams -> {"null", "idle", "pending", "expired", "aborted"}]
    BY <1>5 DEF Commit, TypeOK
  <2>2. PlaceOK'
    BY <1>5 DEF Commit, TypeOK, Goto, PlaceOK
  <2> QED
    BY <1>5, <2>1, <2>2 DEF Commit, TypeOK, PlaceOK, ioVars, idVars, streamVars, metricVars
<1>6. CASE Post(s)
  <2>1. posted' \in [Streams -> Nat]
    BY <1>6 DEF Post, TypeOK
  <2>2. PlaceOK'
    BY <1>6 DEF Post, TypeOK, Goto, PlaceOK
  <2> QED
    BY <1>6, <2>1, <2>2
    DEF Post, TypeOK, PlaceOK, ioVars, idVars, streamVars, timerVars, metricVars
<1>7. CASE SendResponse(s)
  <2>1. posted' \in [Streams -> Nat]
    <3>1. posted \in [Streams -> Nat]
      BY DEF TypeOK
    <3>2. posted[s] > 0 /\ posted' = [posted EXCEPT ![s] = posted[s] - 1]
      BY <1>7 DEF SendResponse
    <3> QED
      BY <3>1, <3>2
  <2>2. sent' \in [Streams -> Seq(Nat)]
    <3>1. sent \in [Streams -> Seq(Nat)] /\ status_code_[s] \in Nat
      BY DEF TypeOK
    <3>2. sent' \in {sent, [sent EXCEPT ![s] = Append(sent[s], status_code_[s])]}
      BY <1>7 DEF SendResponse
    <3>3. Append(sent[s], status_code_[s]) \in Seq(Nat)
      BY <3>1
    <3> QED
      BY <3>1, <3>2, <3>3
  <2> QED
    BY <1>7, <2>1, <2>2 DEF SendResponse, TypeOK, idVars, streamVars, timerVars, metricVars
<1> QED
  BY <1>1, <1>2, <1>3, <1>4, <1>5, <1>6, <1>7

\* The actions of the timers keep the types.
LEMMA TimerType ==
    ASSUME TypeOK, NEW s \in Streams,
           TimerExpires(s) \/ TimerAborted(s) \/ TimerFired(s)
    PROVE  TypeOK'
<1>1. CASE TimerExpires(s)
  BY <1>1 DEF TimerExpires, TypeOK, ioVars, flowVars, idVars, streamVars, metricVars
<1>2. CASE TimerAborted(s)
  BY <1>2 DEF TimerAborted, TypeOK, ioVars, flowVars, idVars, streamVars, metricVars
<1>3. CASE TimerFired(s)
  <2>1. PICK delay \in BOOLEAN : held' = [held EXCEPT ![s] = delay]
    BY <1>3 DEF TimerFired, responseDelayMs
  <2>2. held' \in [Streams -> BOOLEAN] /\ held'[s] \in BOOLEAN
    BY <2>1 DEF TypeOK
  <2>3. PlaceOK'
    BY <1>3 DEF TimerFired, TypeOK, Goto, PlaceOK
  <2> QED
    BY <1>3, <2>2, <2>3
    DEF TimerFired, TypeOK, PlaceOK, ioVars, idVars, streamVars, metricVars
<1> QED
  BY <1>1, <1>2, <1>3

\* The steps of on_close, and stop(), keep the types.
LEMMA CloseType ==
    ASSUME TypeOK,
           \/ Stop
           \/ \E s \in Streams :
                (\E code \in PossibleCodes(s) : OnClose(s, code)) \/ FinishClose(s)
    PROVE  TypeOK'
<1>1. CASE Stop
  BY <1>1 DEF Stop, TypeOK, flowVars, idVars, streamVars, timerVars, metricVars
<1>2. ASSUME NEW s \in Streams, NEW code \in PossibleCodes(s), OnClose(s, code)
      PROVE  TypeOK'
  <2>1. code \in Nat
    <3>1. sent[s] # <<>> => sent[s][1] \in Nat
      BY DEF TypeOK
    <3> QED
      BY <3>1, ServerAssumption DEF PossibleCodes
  <2> QED
    BY <1>2, <2>1 DEF OnClose, TypeOK, flowVars, idVars, streamVars, metricVars
<1>3. ASSUME NEW s \in Streams, OnCloseNormal(s) PROVE TypeOK'
  <2>1. observed' \in [Streams -> Seq(Nat)]
    BY <1>3 DEF OnCloseNormal, updateMetrics, TypeOK
  <2> QED
    BY <1>3, <2>1 DEF OnCloseNormal, TypeOK, flowVars, timerVars
<1>4. ASSUME NEW s \in Streams, OnCloseError(s) PROVE TypeOK'
  BY <1>4 DEF OnCloseError, TypeOK, flowVars, idVars, timerVars, metricVars
<1>5. ASSUME NEW s \in Streams, OnCloseErrorMetrics(s) PROVE TypeOK'
  <2>1. observed' \in [Streams -> Seq(Nat)]
    BY <1>5 DEF OnCloseErrorMetrics, updateMetrics, TypeOK
  <2> QED
    BY <1>5, <2>1 DEF OnCloseErrorMetrics, updateMetrics, TypeOK, flowVars, streamVars, timerVars
<1> QED
  BY <1>1, <1>2, <1>3, <1>4, <1>5 DEF FinishClose

\* A step of any thread keeps the types.
LEMMA NextType == TypeOK /\ [Next]_vars => TypeOK'
<1> SUFFICES ASSUME TypeOK, [Next]_vars PROVE TypeOK'
  OBVIOUS
<1>1. CASE UNCHANGED vars
  BY <1>1 DEF vars, TypeOK, ioVars, flowVars, idVars, streamVars, timerVars, metricVars
<1>2. CASE Next
  BY <1>2, FlowType, TimerType, CloseType DEF Next, Progress
<1> QED
  BY <1>1, <1>2

\* Every variable of the server keeps its type, whatever the threads do.
THEOREM TypeCorrect == Spec => []TypeOK
BY InitType, NextType, PTL DEF Spec
-----------------------------------------------------------------------------
(***************************************************************************)
(* The response of a request is sent at most once.  AtMostOneResponse is   *)
(* not inductive: a request must also have one continuation only, be it a  *)
(* thread in reception() or commit(), a timer or a posted response, and a  *)
(* queue that holds it once.                                               *)
(***************************************************************************)
OneContinuation ==
    \A s \in Streams :
        /\ pc[s] # "returned" => posted[s] = 0 /\ sent[s] = <<>> /\ ~Waiting(s)
        /\ Waiting(s) => posted[s] = 0 /\ sent[s] = <<>>
        /\ posted[s] > 0 => posted[s] = 1 /\ sent[s] = <<>>
        /\ Len(sent[s]) <= 1

QueuedOnce ==
    /\ \A i \in 1 .. Len(queue) : pc[queue[i]] = "queued"
    /\ \A i, j \in 1 .. Len(queue) : queue[i] = queue[j] => i = j

ResponseInv == TypeOK /\ OneContinuation /\ QueuedOnce

\* The head of the queue is a request that waits for a consumer.
LEMMA HeadIsQueued ==
    ASSUME ResponseInv, queue # <<>> PROVE pc[Head(queue)] = "queued"
BY DEF ResponseInv, TypeOK, QueuedOnce

\* The timers, on_close and stop() leave the threads and the queue alone.
LEMMA FlowIsKept ==
    ASSUME \/ UNCHANGED vars
           \/ Stop
           \/ \E s \in Streams :
                \/ TimerExpires(s) \/ TimerAborted(s) \/ FinishClose(s)
                \/ \E code \in PossibleCodes(s) : OnClose(s, code)
    PROVE  UNCHANGED <<queue, pc, posted, sent>>
BY DEF vars, ioVars, flowVars, Stop, TimerExpires, TimerAborted, FinishClose,
       OnCloseNormal, OnCloseError, OnCloseErrorMetrics, OnClose

\* They start no timer either, and the stream they are about is the only one
\* whose timer they touch.
LEMMA NoTimerIsStarted ==
    ASSUME TypeOK,
           \/ UNCHANGED vars
           \/ Stop
           \/ \E s \in Streams :
                \/ TimerExpires(s) \/ TimerAborted(s) \/ FinishClose(s)
                \/ \E code \in PossibleCodes(s) : OnClose(s, code)
    PROVE  \A t \in Streams : Waiting(t)' => Waiting(t)
<1> USE DEF TypeOK, Waiting
<1>1. ASSUME NEW s \in Streams, TimerExpires(s) PROVE \A t \in Streams : Waiting(t)' => Waiting(t)
  BY <1>1 DEF TimerExpires
<1>2. ASSUME NEW s \in Streams, TimerAborted(s) PROVE \A t \in Streams : Waiting(t)' => Waiting(t)
  BY <1>2 DEF TimerAborted
<1>3. ASSUME NEW s \in Streams, NEW code \in PossibleCodes(s), OnClose(s, code)
      PROVE  \A t \in Streams : Waiting(t)' => Waiting(t)
  BY <1>3 DEF OnClose
<1>4. ASSUME NEW s \in Streams, FinishClose(s) PROVE UNCHANGED timer_
  BY <1>4 DEF FinishClose, OnCloseNormal, OnCloseError, OnCloseErrorMetrics, timerVars
<1>5. ASSUME Stop \/ UNCHANGED vars PROVE UNCHANGED timer_
  BY <1>5 DEF Stop, vars, timerVars
<1> QED
  BY <1>1, <1>2, <1>3, <1>4, <1>5

\* Each action leaves a request one continuation.
LEMMA OneContinuationStep == ASSUME ResponseInv, [Next]_vars PROVE OneContinuation'
<1> USE DEF ResponseInv, TypeOK, OneContinuation
<1>1. ASSUME NEW s \in Streams, OnDataEnd(s) PROVE OneContinuation'
  BY <1>1, SMTT(30) DEF OnDataEnd, Goto, Waiting, ioVars, timerVars
<1>2. ASSUME NEW s \in Streams, Dequeue(s) PROVE OneContinuation'
  <2>1. pc[s] = "queued" /\ pc' = [pc EXCEPT ![s] = "reception"]
    BY <1>2, HeadIsQueued DEF Dequeue, Goto
  <2>2. UNCHANGED <<posted, sent, timer_>>
    BY <1>2 DEF Dequeue, ioVars, timerVars
  <2> QED
    BY <2>1, <2>2 DEF Waiting
<1>3. ASSUME NEW s \in Streams, NEW o \in Outcomes, Receive(s, o) PROVE OneContinuation'
  BY <1>3, SMTT(30) DEF Receive, Goto, Waiting, ioVars
<1>4. ASSUME NEW s \in Streams, PlanDelay(s) PROVE OneContinuation'
  <2>1. pc[s] = "delay" /\ pc' = [pc EXCEPT ![s] = "commit"]
    BY <1>4 DEF PlanDelay, Goto
  <2>2. UNCHANGED <<posted, sent>>
    BY <1>4 DEF PlanDelay, ioVars
  <2>3. \A t \in Streams : Waiting(t)' => Waiting(t)
    BY <1>4, SMTT(30) DEF PlanDelay, Waiting
  <2> QED
    BY <2>1, <2>2, <2>3
<1>5. ASSUME NEW s \in Streams, Commit(s) PROVE OneContinuation'
  <2>1. pc[s] = "commit" /\ UNCHANGED <<posted, sent>>
    BY <1>5 DEF Commit, ioVars
  <2>2. posted[s] = 0 /\ sent[s] = <<>> /\ ~Waiting(s)
    BY <2>1
  <2>3. \/ /\ timer_' = [timer_ EXCEPT ![s] = "pending"]
           /\ pc' = [pc EXCEPT ![s] = "returned"]
        \/ /\ UNCHANGED timer_
           /\ \E label \in {"returned", "post"} : pc' = [pc EXCEPT ![s] = label]
    BY <1>5 DEF Commit, Goto
  <2>4. \A t \in Streams : t # s => pc'[t] = pc[t] /\ (Waiting(t)' <=> Waiting(t))
    BY <2>3, SMTT(30) DEF Waiting
  <2>5. pc'[s] # "returned" => ~Waiting(s)'
    BY <2>2, <2>3 DEF Waiting
  <2> QED
    BY <2>1, <2>2, <2>4, <2>5, SMTT(30)
<1>6. ASSUME NEW s \in Streams, Post(s) PROVE OneContinuation'
  <2>1. pc[s] = "post" /\ pc' = [pc EXCEPT ![s] = "returned"]
    BY <1>6 DEF Post, Goto
  <2>2. posted' = [posted EXCEPT ![s] = posted[s] + 1] /\ UNCHANGED <<sent, timer_>>
    BY <1>6 DEF Post, ioVars, timerVars
  <2>3. posted[s] = 0 /\ sent[s] = <<>> /\ ~Waiting(s)
    BY <2>1
  <2>4. posted'[s] = 1 /\ \A t \in Streams : t # s => posted'[t] = posted[t]
    BY <2>2, <2>3
  <2> QED
    BY <2>1, <2>2, <2>3, <2>4 DEF Waiting
<1>7. ASSUME NEW s \in Streams, SendResponse(s) PROVE OneContinuation'
  <2>1. posted[s] = 1 /\ sent[s] = <<>> /\ pc[s] = "returned" /\ ~Waiting(s)
    BY <1>7 DEF SendResponse
  <2>2. /\ posted' = [posted EXCEPT ![s] = posted[s] - 1]
        /\ sent' \in {sent, [sent EXCEPT ![s] = Append(sent[s], status_code_[s])]}
        /\ UNCHANGED <<pc, timer_>>
    BY <1>7 DEF SendResponse, timerVars
  <2>3. posted \in [Streams -> Nat] /\ sent \in [Streams -> Seq(Nat)] /\ status_code_[s] \in Nat
    OBVIOUS
  <2>4. posted'[s] = 0 /\ \A t \in Streams : t # s => posted'[t] = posted[t]
    <3> HIDE DEF ResponseInv, TypeOK, OneContinuation
    <3> QED
      BY <2>1, <2>2, <2>3
  <2>5. Len(sent'[s]) <= 1 /\ \A t \in Streams : t # s => sent'[t] = sent[t]
    <3> HIDE DEF ResponseInv, TypeOK, OneContinuation
    <3>1. Len(sent[s]) = 0 /\ Len(Append(sent[s], status_code_[s])) = Len(sent[s]) + 1
      BY <2>1, <2>3, AppendProperties
    <3>2. CASE sent' = sent
      BY <2>1, <3>1, <3>2
    <3>3. CASE sent' = [sent EXCEPT ![s] = Append(sent[s], status_code_[s])]
      BY <2>3, <3>1, <3>3
    <3> QED
      BY <2>2, <3>2, <3>3
  <2> SUFFICES ASSUME NEW t \in Streams
               PROVE  /\ pc'[t] # "returned" => posted'[t] = 0 /\ sent'[t] = <<>> /\ ~Waiting(t)'
                      /\ Waiting(t)' => posted'[t] = 0 /\ sent'[t] = <<>>
                      /\ posted'[t] > 0 => posted'[t] = 1 /\ sent'[t] = <<>>
                      /\ Len(sent'[t]) <= 1
    OBVIOUS
  <2>6. pc'[t] = pc[t] /\ (Waiting(t)' <=> Waiting(t))
    BY <2>2 DEF Waiting
  <2>7. CASE t = s
    BY <2>1, <2>4, <2>5, <2>6, <2>7
  <2>8. CASE t # s
    BY <2>4, <2>5, <2>6, <2>8
  <2> QED
    BY <2>7, <2>8
<1>8. ASSUME NEW s \in Streams, TimerFired(s) PROVE OneContinuation'
  BY <1>8 DEF TimerFired, Goto, Waiting, ioVars
<1>9. ASSUME UNCHANGED <<queue, pc, posted, sent>>,
             \A t \in Streams : Waiting(t)' => Waiting(t)
      PROVE  OneContinuation'
  BY <1>9
<1> QED
  BY <1>1, <1>2, <1>3, <1>4, <1>5, <1>6, <1>7, <1>8, <1>9, FlowIsKept, NoTimerIsStarted
  DEF Next, Progress

\* The queue stays in order when a request that is not in it moves on.
LEMMA QueuedOnceKept ==
    ASSUME ResponseInv, NEW s \in Streams, pc[s] # "queued", NEW label,
           UNCHANGED queue, pc' = [pc EXCEPT ![s] = label]
    PROVE  QueuedOnce'
<1>1. queue \in Seq(Streams) /\ PlaceOK /\ QueuedOnce
  BY DEF ResponseInv, TypeOK, PlaceOK
<1>2. \A i \in 1 .. Len(queue) : queue[i] \in Streams /\ queue[i] # s
  BY <1>1 DEF QueuedOnce
<1> QED
  BY <1>1, <1>2 DEF QueuedOnce, PlaceOK

\* Each action leaves the queue in order.
LEMMA QueuedOnceStep == ASSUME ResponseInv, [Next]_vars PROVE QueuedOnce'
<1>1. ASSUME NEW s \in Streams, OnDataEnd(s) PROVE QueuedOnce'
  <2>1. CASE HasQueueDispatcher
    <3>1. queue' = Append(queue, s) /\ pc' = [pc EXCEPT ![s] = "queued"] /\ pc[s] = "on_data"
      BY <1>1, <2>1 DEF OnDataEnd, Goto
    <3>2. queue \in Seq(Streams) /\ PlaceOK /\ QueuedOnce
      BY DEF ResponseInv, TypeOK, PlaceOK
    <3>3. \A i \in 1 .. Len(queue) : queue[i] \in Streams /\ queue[i] # s
      BY <3>1, <3>2 DEF QueuedOnce
    <3>4. /\ Len(queue') = Len(queue) + 1 /\ queue'[Len(queue) + 1] = s
          /\ \A i \in 1 .. Len(queue) : queue'[i] = queue[i]
      BY <3>1, <3>2, AppendProperties
    <3>5. \A i \in 1 .. Len(queue') : pc'[queue'[i]] = "queued"
      BY <3>1, <3>2, <3>3, <3>4 DEF QueuedOnce, PlaceOK
    <3>6. \A i, j \in 1 .. Len(queue') : queue'[i] = queue'[j] => i = j
      BY <3>2, <3>3, <3>4 DEF QueuedOnce
    <3> QED
      BY <3>5, <3>6 DEF QueuedOnce
  <2>2. CASE ~HasQueueDispatcher
    BY <1>1, <2>2, QueuedOnceKept DEF OnDataEnd, Goto
  <2> QED
    BY <2>1, <2>2
<1>2. ASSUME NEW s \in Streams, Dequeue(s) PROVE QueuedOnce'
  <2>1. queue # <<>> /\ s = Head(queue) /\ queue' = Tail(queue)
    BY <1>2 DEF Dequeue
  <2>2. pc' = [pc EXCEPT ![s] = "reception"]
    BY <1>2 DEF Dequeue, Goto
  <2>3. queue \in Seq(Streams) /\ PlaceOK /\ QueuedOnce
    BY DEF ResponseInv, TypeOK, PlaceOK
  <2>4. /\ Len(queue') = Len(queue) - 1
        /\ \A i \in 1 .. Len(queue') : queue'[i] = queue[i + 1]
        /\ queue[1] = s
    BY <2>1, <2>3, HeadTailProperties
  <2>5. \A i \in 1 .. Len(queue') :
           /\ i + 1 \in 1 .. Len(queue)
           /\ queue[i + 1] \in Streams /\ queue[i + 1] # s
    BY <2>3, <2>4 DEF QueuedOnce
  <2>6. \A i \in 1 .. Len(queue') : pc'[queue'[i]] = "queued"
    BY <2>2, <2>3, <2>4, <2>5 DEF QueuedOnce, PlaceOK
  <2>7. \A i, j \in 1 .. Len(queue') : queue'[i] = queue'[j] => i = j
    BY <2>3, <2>4, <2>5, SMTT(30) DEF QueuedOnce
  <2> QED
    BY <2>6, <2>7 DEF QueuedOnce
<1>3. ASSUME NEW s \in Streams, NEW o \in Outcomes, Receive(s, o) PROVE QueuedOnce'
  BY <1>3, QueuedOnceKept DEF Receive, Goto
<1>4. ASSUME NEW s \in Streams, PlanDelay(s) PROVE QueuedOnce'
  BY <1>4, QueuedOnceKept DEF PlanDelay, Goto
<1>5. ASSUME NEW s \in Streams, Commit(s) PROVE QueuedOnce'
  BY <1>5, QueuedOnceKept DEF Commit, Goto
<1>6. ASSUME NEW s \in Streams, Post(s) PROVE QueuedOnce'
  BY <1>6, QueuedOnceKept DEF Post, Goto
<1>7. ASSUME NEW s \in Streams, SendResponse(s) PROVE QueuedOnce'
  BY <1>7 DEF SendResponse, ResponseInv, QueuedOnce
<1>8. ASSUME NEW s \in Streams, TimerFired(s) PROVE QueuedOnce'
  <2>1. pc[s] # "queued"
    BY <1>8 DEF TimerFired, ResponseInv, OneContinuation, Waiting
  <2> QED
    BY <1>8, <2>1, QueuedOnceKept DEF TimerFired, Goto
<1>9. ASSUME UNCHANGED <<queue, pc>> PROVE QueuedOnce'
  BY <1>9 DEF ResponseInv, QueuedOnce
<1> QED
  BY <1>1, <1>2, <1>3, <1>4, <1>5, <1>6, <1>7, <1>8, <1>9, FlowIsKept DEF Next, Progress

\* No request is answered twice, however its delays, threads and on_close
\* interleave.
THEOREM AnsweredAtMostOnce == Spec => []AtMostOneResponse
<1>1. Init => ResponseInv
  BY InitType DEF Init, ResponseInv, OneContinuation, QueuedOnce, Waiting
<1>2. ResponseInv /\ [Next]_vars => ResponseInv'
  BY NextType, OneContinuationStep, QueuedOnceStep DEF ResponseInv
<1>3. ResponseInv => AtMostOneResponse
  BY DEF ResponseInv, OneContinuation, AtMostOneResponse
<1> QED
  BY <1>1, <1>2, <1>3, PTL DEF Spec

-----------------------------------------------------------------------------
(***************************************************************************)
(* A response with a delay is not sent early.  It takes that commit()      *)
(* without need_timer_ is only reached when both delays are over.          *)
(***************************************************************************)
Due(s) == ~held[s] /\ ~provisioned[s]

DelaysAreKept ==
    TimersIoContext =>
        \A s \in Streams :
            /\ pc[s] = "commit" /\ ~need_timer_[s] => Due(s)
            /\ pc[s] = "post" \/ posted[s] > 0 \/ sent[s] # <<>> => Due(s)
            /\ timer_[s] = "expired" => ~provisioned[s]

\* Each action keeps the delays.
LEMMA DelaysStep ==
    ASSUME ResponseInv, DelaysAreKept, [Next]_vars PROVE DelaysAreKept'
<1> USE DEF ResponseInv, TypeOK, OneContinuation, DelaysAreKept, Due
<1>1. ASSUME NEW s \in Streams, OnDataEnd(s) PROVE DelaysAreKept'
  <2>1. PICK label \in {"queued", "reception"} : pc' = [pc EXCEPT ![s] = label]
    BY <1>1 DEF OnDataEnd, Goto
  <2>2. UNCHANGED <<posted, sent, need_timer_, timer_, provisioned, held>>
    BY <1>1 DEF OnDataEnd, ioVars, timerVars
  <2> QED
    BY <2>1, <2>2
<1>2. ASSUME NEW s \in Streams, Dequeue(s) PROVE DelaysAreKept'
  BY <1>2 DEF Dequeue, Goto, ioVars, timerVars
<1>3. ASSUME NEW s \in Streams, NEW o \in Outcomes, Receive(s, o) PROVE DelaysAreKept'
  <2>1. pc[s] = "reception" /\ pc' = [pc EXCEPT ![s] = "delay"]
    BY <1>3 DEF Receive, Goto
  <2>2. posted[s] = 0 /\ sent[s] = <<>> /\ timer_[s] # "expired"
    BY <2>1 DEF Waiting
  <2>3. /\ UNCHANGED <<posted, sent, need_timer_, timer_, held>>
        /\ \A t \in Streams : t # s => provisioned'[t] = provisioned[t]
    BY <1>3 DEF Receive, receiveError, ioVars
  <2> QED
    BY <2>1, <2>2, <2>3, SMTT(30)
<1>4. ASSUME NEW s \in Streams, PlanDelay(s) PROVE DelaysAreKept'
  <2>1. pc[s] = "delay" /\ pc' = [pc EXCEPT ![s] = "commit"]
    BY <1>4 DEF PlanDelay, Goto
  <2>2. posted[s] = 0 /\ sent[s] = <<>>
    BY <2>1
  <2>3. /\ UNCHANGED <<posted, sent, provisioned>>
        /\ \A t \in Streams : t # s => held'[t] = held[t] /\ need_timer_'[t] = need_timer_[t]
        /\ \A t \in Streams : timer_'[t] = "expired" => timer_[t] = "expired"
    <3>1. \A t \in Streams : t # s => held'[t] = held[t]
      BY <1>4 DEF PlanDelay, responseDelayMs
    <3> QED
      BY <1>4, <3>1 DEF PlanDelay, ioVars
  <2>4. TimersIoContext /\ ~need_timer_'[s] => Due(s)'
    BY <1>4 DEF PlanDelay
  <2> QED
    BY <2>1, <2>2, <2>3, <2>4, SMTT(30)
<1>5. ASSUME NEW s \in Streams, Commit(s) PROVE DelaysAreKept'
  <2>1. UNCHANGED <<posted, sent, need_timer_, provisioned, held>>
    BY <1>5 DEF Commit, ioVars
  <2>2. /\ pc[s] = "commit"
        /\ \/ pc' = [pc EXCEPT ![s] = "returned"]
           \/ ~need_timer_[s] /\ pc' = [pc EXCEPT ![s] = "post"]
    BY <1>5 DEF Commit, Goto
  <2>3. \A t \in Streams : timer_'[t] = "expired" => timer_[t] = "expired"
    BY <1>5, SMTT(30) DEF Commit
  <2> QED
    BY <2>1, <2>2, <2>3, SMTT(30)
<1>6. ASSUME NEW s \in Streams, Post(s) PROVE DelaysAreKept'
  <2>1. pc[s] = "post" /\ pc' = [pc EXCEPT ![s] = "returned"]
    BY <1>6 DEF Post, Goto
  <2>2. /\ UNCHANGED <<sent, need_timer_, timer_, provisioned, held>>
        /\ \A t \in Streams : t # s => posted'[t] = posted[t]
    BY <1>6 DEF Post, ioVars, timerVars
  <2> QED
    BY <2>1, <2>2
<1>7. ASSUME NEW s \in Streams, SendResponse(s) PROVE DelaysAreKept'
  <2>1. posted[s] > 0
    BY <1>7 DEF SendResponse
  <2>2. /\ UNCHANGED <<pc, need_timer_, timer_, provisioned, held>>
        /\ \A t \in Streams : t # s => posted'[t] = posted[t] /\ sent'[t] = sent[t]
    BY <1>7 DEF SendResponse, timerVars
  <2> QED
    BY <2>1, <2>2
<1>8. ASSUME NEW s \in Streams, TimerExpires(s) PROVE DelaysAreKept'
  BY <1>8 DEF TimerExpires, Waiting, ioVars, flowVars
<1>9. ASSUME NEW s \in Streams, TimerAborted(s) PROVE DelaysAreKept'
  BY <1>9 DEF TimerAborted, ioVars, flowVars
<1>10. ASSUME NEW s \in Streams, TimerFired(s) PROVE DelaysAreKept'
  <2>1. timer_[s] = "expired" /\ timer_' = [timer_ EXCEPT ![s] = "idle"]
    BY <1>10 DEF TimerFired
  <2>2. posted[s] = 0 /\ sent[s] = <<>>
    BY <2>1 DEF Waiting
  <2>3. PICK delay \in BOOLEAN : held' = [held EXCEPT ![s] = delay]
    BY <1>10 DEF TimerFired, responseDelayMs
  <2>4. /\ pc' = [pc EXCEPT ![s] = "commit"]
        /\ need_timer_' = [need_timer_ EXCEPT ![s] = held'[s]]
        /\ UNCHANGED <<posted, sent, provisioned>>
    BY <1>10 DEF TimerFired, Goto, ioVars
  <2>5. held'[s] = delay /\ need_timer_'[s] = delay
    BY <2>3, <2>4
  <2>6. \A t \in Streams : t # s => /\ pc'[t] = pc[t] /\ timer_'[t] = timer_[t]
                                   /\ held'[t] = held[t] /\ need_timer_'[t] = need_timer_[t]
    BY <2>1, <2>3, <2>4
  <2> QED
    BY <2>1, <2>2, <2>4, <2>5, <2>6, SMTT(30)
<1>11. ASSUME NEW s \in Streams, NEW code \in PossibleCodes(s), OnClose(s, code)
       PROVE  DelaysAreKept'
  BY <1>11 DEF OnClose, flowVars
<1>12. ASSUME NEW s \in Streams, FinishClose(s)
       PROVE  UNCHANGED <<pc, posted, sent, timerVars>>
  BY <1>12 DEF FinishClose, OnCloseNormal, OnCloseError, OnCloseErrorMetrics, flowVars
<1>13. ASSUME Stop \/ UNCHANGED vars PROVE UNCHANGED <<pc, posted, sent, timerVars>>
  BY <1>13 DEF Stop, vars, ioVars, flowVars
<1>14. ASSUME UNCHANGED <<pc, posted, sent, timerVars>> PROVE DelaysAreKept'
  BY <1>14 DEF timerVars
<1> QED
  BY <1>1, <1>2, <1>3, <1>4, <1>5, <1>6, <1>7, <1>8, <1>9, <1>10, <1>11, <1>12,
     <1>13, <1>14
  DEF Next, Progress

\* No delayed response is sent before both of its delays are over.
THEOREM NeverEarly == Spec => []NoEarlyResponse
<1>1. Init => ResponseInv /\ DelaysAreKept
  BY InitType DEF Init, ResponseInv, OneContinuation, QueuedOnce, DelaysAreKept, Waiting
<1>2. ResponseInv /\ DelaysAreKept /\ [Next]_vars => (ResponseInv /\ DelaysAreKept)'
  BY NextType, OneContinuationStep, QueuedOnceStep, DelaysStep DEF ResponseInv
<1>3. ResponseInv /\ DelaysAreKept => NoEarlyResponse
  BY DEF DelaysAreKept, Due, NoEarlyResponse
<1> QED
  BY <1>1, <1>2, <1>3, PTL DEF Spec
=============================================================================
