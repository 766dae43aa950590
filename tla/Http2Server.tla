----------------------------- MODULE Http2Server -----------------------------
(***************************************************************************)
(* The server side of http2comm: what Http2Server::handler() and Stream do *)
(* with each request, from the end of its body to the close of its stream. *)
(*                                                                         *)
(* Three kinds of threads run the code of a stream, without a common lock: *)
(*   io       the nghttp2 thread of its connection: on_data, the posted    *)
(*            response, on_close;                                          *)
(*   worker   a consumer of the queue dispatcher: reception() and commit();*)
(*   timers   the thread that runs the timers io_context: the async_wait   *)
(*            handler of a delayed response.                               *)
(* The handlers of one stream exclude each other on the io thread (IoFree);*)
(* all the rest interleaves, one action for each run of statements between *)
(* two accesses to state another thread can change.  Variables whose names *)
(* end in _ are data members of the code, one value for each stream.       *)
(***************************************************************************)
EXTENDS Integers, Sequences, FiniteSets

CONSTANTS
    Streams,                \* the requests this server is given
    WorkerThreads,          \* constructor argument workerThreads
    QueueDispatcherMaxSize, \* constructor argument queueDispatcherMaxSize
    TimersIoContext,        \* whether an io_context for timers was provided
    Outcomes,               \* what the virtual methods may say of a request
    CloseCodes              \* the error codes on_close may be called with

Outcome == [allowed : BOOLEAN, implemented : BOOLEAN, headers : BOOLEAN,
            api : BOOLEAN, status : Nat, delay : BOOLEAN]

ASSUME ServerAssumption ==
    /\ WorkerThreads \in Nat
    /\ QueueDispatcherMaxSize \in Int
    /\ TimersIoContext \in BOOLEAN
    /\ Outcomes \subseteq Outcome
    /\ CloseCodes \subseteq Nat

VARIABLES
    conn,           \* the HTTP/2 stream and how far its on_close has run
    closeCode,      \* the error code of that on_close
    stopped,        \* Http2Server::stop() has stopped the io contexts
    sent,           \* the statuses handed to res_ (write_head/end or cancel)
    queue,          \* the queue of queue_dispatcher_
    pc,             \* where the thread that handles the request is
    runner,         \* what kind of thread that is
    posted,         \* posted responses the io context has not run yet
    congested,      \* requests for which process() found congestion
    reception_id_,  \* Http2Server::reception_id_
    id_,            \* Stream::reception_id_
    closed_, error_, status_code_, need_timer_,
    timer_,         \* Stream::timer_ and the state of its async_wait
    provisioned,    \* the delay receive() asked for has not elapsed yet
    held,           \* responseDelayMs() has not returned zero, last time or yet
    accepted, errored, \* requests counters of the metrics
    observed,       \* statuses counted by observed_responses_counter
    reported        \* the reception id told to streamError()/streamClose()

ioVars     == <<conn, closeCode, stopped, sent>>
flowVars   == <<queue, pc, runner, posted, congested>>
idVars     == <<reception_id_, id_, reported>>
streamVars == <<closed_, error_, status_code_>>
timerVars  == <<need_timer_, timer_, provisioned, held>>
metricVars == <<accepted, errored, observed>>
vars == <<ioVars, flowVars, idVars, streamVars, timerVars, metricVars>>

TypeOK ==
    /\ conn \in [Streams -> {"open", "cancelled", "error", "closed"}]
    /\ closeCode \in [Streams -> Nat]
    /\ stopped \in BOOLEAN
    /\ sent \in [Streams -> Seq(Nat)]
    /\ queue \in Seq(Streams)
    /\ pc \in [Streams -> {"on_data", "queued", "reception", "delay", "commit",
                           "post", "returned"}]
    /\ runner \in [Streams -> {"none", "io", "worker", "timers"}]
    /\ posted \in [Streams -> Nat]
    /\ congested \subseteq Streams
    /\ reception_id_ \in Nat
    /\ id_ \in [Streams -> Nat]
    /\ reported \in [Streams -> Nat]
    /\ closed_ \in [Streams -> BOOLEAN]
    /\ error_ \in [Streams -> BOOLEAN]
    /\ status_code_ \in [Streams -> Nat]
    /\ need_timer_ \in [Streams -> BOOLEAN]
    /\ timer_ \in [Streams -> {"null", "idle", "pending", "expired", "aborted"}]
    /\ provisioned \in [Streams -> BOOLEAN]
    /\ held \in [Streams -> BOOLEAN]
    /\ accepted \in [Streams -> Nat]
    /\ errored \in [Streams -> Nat]
    /\ observed \in [Streams -> Seq(Nat)]

(***************************************************************************)
(* handler() makes a Stream for each request, of which the application was *)
(* not asked for a delay yet.                                              *)
(***************************************************************************)
Init ==
    /\ conn = [s \in Streams |-> "open"]
    /\ closeCode = [s \in Streams |-> 0]
    /\ stopped = FALSE
    /\ sent = [s \in Streams |-> <<>>]
    /\ queue = <<>>
    /\ pc = [s \in Streams |-> "on_data"]
    /\ runner = [s \in Streams |-> "none"]
    /\ posted = [s \in Streams |-> 0]
    /\ congested = {}
    /\ reception_id_ = 0
    /\ id_ = [s \in Streams |-> 0]
    /\ reported = [s \in Streams |-> 0]
    /\ closed_ = [s \in Streams |-> FALSE]
    /\ error_ = [s \in Streams |-> FALSE]
    /\ status_code_ = [s \in Streams |-> 0]
    /\ need_timer_ = [s \in Streams |-> FALSE]
    /\ timer_ = [s \in Streams |-> "null"]
    /\ provisioned = [s \in Streams |-> FALSE]
    /\ held = [s \in Streams |-> TRUE]
    /\ accepted = [s \in Streams |-> 0]
    /\ errored = [s \in Streams |-> 0]
    /\ observed = [s \in Streams |-> <<>>]

-----------------------------------------------------------------------------
\* Mutant of HasQueueDispatcher: a dispatcher for a single worker, too.
HasQueueDispatcherForOne == WorkerThreads > 0

HasQueueDispatcher == WorkerThreads > 1

queue_dispatcher_max_size_ ==
    IF QueueDispatcherMaxSize >= -1 THEN QueueDispatcherMaxSize ELSE -1

\* The consumers that are inside process().
Busy == {s \in Streams : runner[s] = "worker"}

\* The io thread of the stream's connection can start a handler of the stream.
IoFree(s) == ~stopped /\ runner[s] # "io" /\ conn[s] \in {"open", "closed"}

Goto(s, label, thread) ==
    /\ pc' = [pc EXCEPT ![s] = label]
    /\ runner' = [runner EXCEPT ![s] = thread]

\* Mutant of OnDataEnd: the id is the value fetch_add returns.
OnDataEndOldId(s) ==
    /\ IoFree(s) /\ conn[s] = "open" /\ pc[s] = "on_data"
    /\ reception_id_' = reception_id_ + 1
    /\ id_' = [id_ EXCEPT ![s] = reception_id_]
    /\ queue' = Append(queue, s) /\ Goto(s, "queued", "none")
    /\ UNCHANGED <<ioVars, posted, congested, reported, streamVars, timerVars, metricVars>>

\* on_data with len = 0: the request is complete.
OnDataEnd(s) ==
    /\ IoFree(s)
    /\ conn[s] = "open"
    /\ pc[s] = "on_data"
    /\ reception_id_' = reception_id_ + 1
    /\ id_' = [id_ EXCEPT ![s] = reception_id_ + 1]
    /\ IF HasQueueDispatcher
       THEN queue' = Append(queue, s) /\ Goto(s, "queued", "none")
       ELSE Goto(s, "reception", "io") /\ UNCHANGED queue
    /\ UNCHANGED <<ioVars, posted, congested, reported, streamVars, timerVars, metricVars>>

\* Mutant of Congestion: off by one.
CongestionAtTheLimit(waiting) ==
    /\ queue_dispatcher_max_size_ >= 0
    /\ Cardinality(Busy) + 1 = WorkerThreads
    /\ waiting >= queue_dispatcher_max_size_

\* What process() makes of the consumers and of the queue it left behind.
Congestion(waiting) ==
    /\ queue_dispatcher_max_size_ >= 0
    /\ Cardinality(Busy) + 1 = WorkerThreads
    /\ waiting > queue_dispatcher_max_size_

\* An idle consumer takes the oldest stream and calls its process().
Dequeue(s) ==
    /\ queue # <<>>
    /\ s = Head(queue)
    /\ Cardinality(Busy) < WorkerThreads
    /\ queue' = Tail(queue)
    /\ congested' = IF Congestion(Len(queue) - 1) THEN congested \union {s} ELSE congested
    /\ Goto(s, "reception", "worker")
    /\ UNCHANGED <<ioVars, posted, idVars, streamVars, timerVars, metricVars>>

\* The error pairs of Http.hpp that reception() answers with.
SERVICE_UNAVAILABLE       == 503
METHOD_NOT_ALLOWED        == 405
METHOD_NOT_IMPLEMENTED    == 501
UNSUPPORTED_MEDIA_TYPE    == 415
WRONG_API_NAME_OR_VERSION == 400

\* The error reception() finds, in the order of its checks, or NO_ERROR.
NO_ERROR == 0
ReceptionError(s, o) ==
    IF s \in congested        THEN SERVICE_UNAVAILABLE
    ELSE IF ~o.allowed        THEN METHOD_NOT_ALLOWED
    ELSE IF ~o.implemented    THEN METHOD_NOT_IMPLEMENTED
    ELSE IF ~o.headers        THEN UNSUPPORTED_MEDIA_TYPE
    ELSE IF ~o.api            THEN WRONG_API_NAME_OR_VERSION
    ELSE NO_ERROR

\* receiveError() as the library implements it: the errored counter, and the
\* code of the error pair as status.
receiveError(s, error) ==
    /\ errored' = [errored EXCEPT ![s] = @ + 1]
    /\ status_code_' = [status_code_ EXCEPT ![s] = error]

\* The checks of reception() and then receive(), or receiveError().
Receive(s, o) ==
    /\ pc[s] = "reception"
    /\ \/ /\ ReceptionError(s, o) = NO_ERROR
          /\ accepted' = [accepted EXCEPT ![s] = @ + 1]
          /\ status_code_' = [status_code_ EXCEPT ![s] = o.status]
          /\ provisioned' = [provisioned EXCEPT ![s] = o.delay]
          /\ UNCHANGED errored
       \/ /\ ReceptionError(s, o) # NO_ERROR
          /\ receiveError(s, ReceptionError(s, o))
          /\ UNCHANGED <<accepted, provisioned>>
    /\ Goto(s, "delay", runner[s])
    /\ UNCHANGED <<ioVars, queue, posted, congested, idVars, closed_, error_,
                   need_timer_, timer_, held, observed>>

\* The application says whether the response has to wait, as it likes at each
\* call: zero does not bind it, should it be asked again.
responseDelayMs(s) == \E delay \in BOOLEAN : held' = [held EXCEPT ![s] = delay]

\* The end of reception(): a timer is made if receive() or, failing that,
\* responseDelayMs() asks for a delay and there is an io context to run it.
PlanDelay(s) ==
    /\ pc[s] = "delay"
    /\ \/ provisioned[s] /\ UNCHANGED held
       \/ ~provisioned[s] /\ responseDelayMs(s)
    /\ IF (provisioned[s] \/ held'[s]) /\ TimersIoContext
       THEN /\ timer_' = [timer_ EXCEPT ![s] = "idle"]
            /\ need_timer_' = [need_timer_ EXCEPT ![s] = TRUE]
       ELSE UNCHANGED <<timer_, need_timer_>>
    /\ Goto(s, "commit", runner[s])
    /\ UNCHANGED <<ioVars, queue, posted, congested, idVars, streamVars,
                   provisioned, metricVars>>

\* Mutants of Commit: the return after async_wait is missing; the thread waits
\* for the application's condition instead of starting a timer.
CommitWithoutReturn(s) ==
    /\ pc[s] = "commit"
    /\ timer_' = [timer_ EXCEPT ![s] = IF need_timer_[s] THEN "pending" ELSE @]
    /\ Goto(s, "post", runner[s])
    /\ UNCHANGED <<ioVars, queue, posted, congested, idVars, streamVars,
                   need_timer_, provisioned, held, metricVars>>
CommitBlocking(s) ==
    /\ pc[s] = "commit" /\ ~held[s]
    /\ Goto(s, "post", runner[s])
    /\ UNCHANGED <<ioVars, queue, posted, congested, idVars, streamVars, timerVars,
                   metricVars>>

\* commit() up to the post: wait for the timer, or give the response up on a
\* broken connection, or go on to send it.
Commit(s) ==
    /\ pc[s] = "commit"
    /\ \/ /\ need_timer_[s]
          /\ timer_' = [timer_ EXCEPT ![s] = "pending"]
          /\ Goto(s, "returned", "none")
       \/ /\ ~need_timer_[s]
          /\ error_[s]
          /\ Goto(s, "returned", "none")
          /\ UNCHANGED timer_
       \/ /\ ~need_timer_[s]
          /\ ~error_[s]
          /\ Goto(s, "post", runner[s])
          /\ UNCHANGED timer_
    /\ UNCHANGED <<ioVars, queue, posted, congested, idVars, streamVars,
                   need_timer_, provisioned, held, metricVars>>

\* boost::asio::post of the response to the io context of the connection.
Post(s) ==
    /\ pc[s] = "post"
    /\ posted' = [posted EXCEPT ![s] = @ + 1]
    /\ Goto(s, "returned", "none")
    /\ UNCHANGED <<ioVars, queue, congested, idVars, streamVars, timerVars, metricVars>>

\* Mutant of SendResponse: closed_ is not checked.
SendUnchecked(s) ==
    /\ IoFree(s) /\ posted[s] > 0
    /\ posted' = [posted EXCEPT ![s] = @ - 1]
    /\ sent' = [sent EXCEPT ![s] = Append(@, status_code_[s])]
    /\ UNCHANGED <<conn, closeCode, stopped, queue, pc, runner, congested, idVars,
                   streamVars, timerVars, metricVars>>

\* The posted response runs on the io thread.
SendResponse(s) ==
    /\ IoFree(s)
    /\ posted[s] > 0
    /\ posted' = [posted EXCEPT ![s] = @ - 1]
    /\ IF closed_[s]
       THEN UNCHANGED sent
       ELSE sent' = [sent EXCEPT ![s] = Append(@, status_code_[s])]
    /\ UNCHANGED <<conn, closeCode, stopped, queue, pc, runner, congested, idVars,
                   streamVars, timerVars, metricVars>>

-----------------------------------------------------------------------------
\* The steady_timer expires: its handler can no longer be cancelled.
TimerExpires(s) ==
    /\ timer_[s] = "pending"
    /\ timer_' = [timer_ EXCEPT ![s] = "expired"]
    /\ provisioned' = [provisioned EXCEPT ![s] = FALSE]
    /\ UNCHANGED <<ioVars, flowVars, idVars, streamVars, need_timer_, held, metricVars>>

\* The async_wait handler when the timer was cancelled.
TimerAborted(s) ==
    /\ timer_[s] = "aborted"
    /\ timer_' = [timer_ EXCEPT ![s] = "idle"]
    /\ UNCHANGED <<ioVars, flowVars, idVars, streamVars, need_timer_,
                   provisioned, held, metricVars>>

\* Mutants of TimerFired: the delay is not asked for again; the request is
\* processed again and not only committed.
FireInto(s, again, label) ==
    /\ timer_[s] = "expired"
    /\ timer_' = [timer_ EXCEPT ![s] = "idle"]
    /\ need_timer_' = [need_timer_ EXCEPT ![s] = again]
    /\ Goto(s, label, "timers")
    /\ UNCHANGED <<ioVars, queue, posted, congested, idVars, streamVars,
                   provisioned, held, metricVars>>
TimerFiredOnce(s) == FireInto(s, FALSE, "commit")
TimerFiredIntoProcess(s) == FireInto(s, FALSE, "reception")

\* The async_wait handler after expiry: the delay is asked for again.
TimerFired(s) ==
    /\ timer_[s] = "expired"
    /\ timer_' = [timer_ EXCEPT ![s] = "idle"]
    /\ responseDelayMs(s)
    /\ need_timer_' = [need_timer_ EXCEPT ![s] = held'[s]]
    /\ Goto(s, "commit", "timers")
    /\ UNCHANGED <<ioVars, queue, posted, congested, idVars, streamVars,
                   provisioned, metricVars>>

-----------------------------------------------------------------------------
\* The codes nghttp2 can close the stream with.  The code of a res_.cancel()
\* comes back to on_close; a peer or the transport may end any stream before.
PossibleCodes(s) ==
    IF sent[s] # <<>> /\ sent[s][1] < 100
    THEN (CloseCodes \ {0}) \union {sent[s][1]}
    ELSE CloseCodes

\* on_close begins with stream->cancelTimer().
OnClose(s, code) ==
    /\ IoFree(s)
    /\ conn[s] = "open"
    /\ conn' = [conn EXCEPT ![s] = "cancelled"]
    /\ closeCode' = [closeCode EXCEPT ![s] = code]
    /\ timer_' = [timer_ EXCEPT ![s] = IF @ = "pending" THEN "aborted" ELSE @]
    /\ UNCHANGED <<stopped, sent, flowVars, idVars, streamVars, need_timer_,
                   provisioned, held, metricVars>>

\* updateMetrics(): the response is counted under status_code_.
updateMetrics(s) == observed' = [observed EXCEPT ![s] = Append(@, status_code_[s])]

\* Stream::close() and streamClose().
OnCloseNormal(s) ==
    /\ conn[s] = "cancelled"
    /\ closeCode[s] = 0
    /\ conn' = [conn EXCEPT ![s] = "closed"]
    /\ closed_' = [closed_ EXCEPT ![s] = TRUE]
    /\ updateMetrics(s)
    /\ reported' = [reported EXCEPT ![s] = id_[s]]
    /\ UNCHANGED <<closeCode, stopped, sent, flowVars, reception_id_, id_, error_,
                   status_code_, timerVars, accepted, errored>>

\* Stream::error(): the error code is stored in status_code_ ...
OnCloseError(s) ==
    /\ conn[s] = "cancelled"
    /\ closeCode[s] # 0
    /\ conn' = [conn EXCEPT ![s] = "error"]
    /\ error_' = [error_ EXCEPT ![s] = TRUE]
    /\ status_code_' = [status_code_ EXCEPT ![s] = closeCode[s]]
    /\ UNCHANGED <<closeCode, stopped, sent, flowVars, idVars, closed_, timerVars,
                   metricVars>>

\* Mutant of OnCloseErrorMetrics: ids counted from zero.
OnCloseErrorMetricsFromZero(s) ==
    /\ conn[s] = "error"
    /\ conn' = [conn EXCEPT ![s] = "closed"]
    /\ updateMetrics(s)
    /\ reported' = [reported EXCEPT ![s] = reception_id_ - 1]
    /\ UNCHANGED <<closeCode, stopped, sent, flowVars, reception_id_, id_, streamVars,
                   timerVars, accepted, errored>>

\* ... and read back for the metrics, while a worker may be in reception();
\* then streamError().
OnCloseErrorMetrics(s) ==
    /\ conn[s] = "error"
    /\ conn' = [conn EXCEPT ![s] = "closed"]
    /\ updateMetrics(s)
    /\ reported' = [reported EXCEPT ![s] = reception_id_]
    /\ UNCHANGED <<closeCode, stopped, sent, flowVars, reception_id_, id_, streamVars,
                   timerVars, accepted, errored>>

\* Http2Server::stop(): the io contexts start no further handler.
Stop ==
    /\ ~stopped
    /\ stopped' = TRUE
    /\ UNCHANGED <<conn, closeCode, sent, flowVars, idVars, streamVars, timerVars,
                   metricVars>>

-----------------------------------------------------------------------------
\* What moves a received request forward, on whichever thread.
Progress(s) ==
    \/ Dequeue(s)
    \/ \E o \in Outcomes : Receive(s, o)
    \/ PlanDelay(s)
    \/ Commit(s)
    \/ Post(s)
    \/ SendResponse(s)
    \/ TimerExpires(s)
    \/ TimerAborted(s)
    \/ TimerFired(s)

\* The rest of an on_close that has begun.
FinishClose(s) == OnCloseNormal(s) \/ OnCloseError(s) \/ OnCloseErrorMetrics(s)

Next ==
    \/ \E s \in Streams :
         \/ OnDataEnd(s)
         \/ Progress(s)
         \/ \E code \in PossibleCodes(s) : OnClose(s, code)
         \/ FinishClose(s)
    \/ Stop

Spec == Init /\ [][Next]_vars

\* Workers, io threads and the timers thread keep running and timers expire;
\* nothing is assumed of clients, of what responseDelayMs() returns or of stop().
Fairness == \A s \in Streams : WF_vars(Progress(s)) /\ WF_vars(FinishClose(s))

FairSpec == Spec /\ Fairness
-----------------------------------------------------------------------------
(***************************************************************************)
(* Safety.                                                                 *)
(***************************************************************************)

\* The response of a request is handed to nghttp2 at most once, however often
\* commit() is entered again by the timer handler (Stream.cpp, commit()).
AtMostOneResponse == \A s \in Streams : Len(sent[s]) <= 1

\* With a timers io context, the response is not on its way to nghttp2 before
\* the delay receive() asked for has elapsed and the application, asked since by
\* responseDelayMs(), has returned zero; a delay instead, however often, holds the
\* response back (Stream.cpp, reception() and the async_wait handler of commit()).
NoEarlyResponse ==
    TimersIoContext =>
        \A s \in Streams :
            pc[s] = "post" \/ posted[s] > 0 \/ sent[s] # <<>>
                => ~held[s] /\ ~provisioned[s]

\* The metrics neither lose nor repeat a request: one accepted or errored count
\* as soon as reception() is over, one observed response when on_close is over,
\* whatever the order of the two (Stream.cpp, reception() and updateMetrics()).
RequestsAreCountedOnce ==
    \A s \in Streams :
        /\ accepted[s] + errored[s] =
             IF pc[s] \in {"on_data", "queued", "reception"} THEN 0 ELSE 1
        /\ Len(observed[s]) = IF conn[s] = "closed" THEN 1 ELSE 0

\* When an answered stream closes normally, the status that close() counts is
\* the one that was sent, although the worker wrote it and the io thread reads
\* it without a common lock (Stream.cpp, close() and updateMetrics()).
ObservedStatusWasSent ==
    \A s \in Streams :
        closed_[s] /\ sent[s] # <<>> => observed[s] = sent[s]

\* Complete requests have distinct reception ids between 1 and the number given
\* so far, and streamClose() reports the id of the stream that was closed
\* (Http2Server.cpp, handler()).
ReceptionIdentity ==
    /\ \A s \in Streams : id_[s] <= reception_id_ /\ (id_[s] = 0 <=> pc[s] = "on_data")
    /\ \A s, t \in Streams : s # t /\ id_[s] = id_[t] => id_[s] = 0
    /\ \A s \in Streams : closed_[s] => reported[s] = id_[s]

\* A stream that ends in error is counted under its error code, the value that
\* Stream.hpp says status_code_ transports, never under the status of a response
\* it shares the member with.  It holds while the io thread runs reception();
\* a worker may write the member between error() and its updateMetrics().
ErrorMetricsShowTheCode ==
    \A s \in Streams : error_[s] /\ conn[s] = "closed" => observed[s] = <<closeCode[s]>>

\* Congestion control sheds the excess only: of N requests, those taken while a
\* consumer is idle and the last queue_dispatcher_max_size_ + 1 of a burst are
\* served (Stream.cpp, process()).
CongestionShedsOnlyTheExcess ==
    congested # {} =>
        /\ queue_dispatcher_max_size_ >= 0
        /\ Cardinality(congested) <=
             Cardinality(Streams) - queue_dispatcher_max_size_ - WorkerThreads

(***************************************************************************)
(* The server keeps the promise of RequestLifecycle.                       *)
(***************************************************************************)
Waiting(s) == timer_[s] \in {"pending", "expired", "aborted"}

RequestPhase ==
    [s \in Streams |->
        IF pc[s] = "on_data" THEN "receiving"
        ELSE IF pc[s] # "returned" \/ Waiting(s) \/ posted[s] > 0 THEN "processing"
        ELSE IF sent[s] # <<>> THEN "answered" ELSE "abandoned"]

StreamEnd ==
    [s \in Streams |->
        IF conn[s] = "open" THEN "open"
        ELSE IF closeCode[s] = 0 THEN "closed" ELSE "broken"]

Lifecycle == INSTANCE RequestLifecycle WITH phase <- RequestPhase, ended <- StreamEnd

\* Each request is answered once, never after a normal close, and is abandoned
\* only if its stream has ended: the three ways out of Stream::commit(), also when
\* the timer handler goes on to it after cancelTimer().
KeepsLifecycle == Lifecycle!Spec

(***************************************************************************)
(* Liveness.                                                               *)
(***************************************************************************)

\* commit() is entered because of a delay, by a worker or the timer handler.
CommitsADelay(s) == pc[s] = "commit" /\ need_timer_[s]

\* A complete request is answered, or its stream ends, or the server is stopped,
\* unless the application delays it over and over; even then commit() comes back
\* to ask again.  A delayed response keeps no worker, so nobody waits for those
\* that are held back for ever (Stream.cpp, commit()).
FreeRequestsAreAnswered ==
    \A s \in Streams :
        pc[s] # "on_data"
            ~> sent[s] # <<>> \/ conn[s] # "open" \/ stopped \/ CommitsADelay(s)

(***************************************************************************)
(* What comments and documentation say of the code, and it does not do.    *)
(***************************************************************************)

\* "Discarding response over broken connection" (Stream.cpp, commit()): nothing
\* is sent on a stream after error().
BrokenConnectionGetsNoResponse ==
    [][\A s \in Streams : sent'[s] # sent[s] => ~error_[s]]_vars
=============================================================================
