# http2comm in TLA+

`http2comm` is a C++ library that wraps nghttp2-asio: an HTTP/2 server whose
requests are processed by worker threads, and an HTTP/2 client with timeouts and
reconnection. This directory models its concurrent core, checks the models with
TLC and proves the central invariants with TLAPS. Paths below are relative to the
repository (`src/Stream.cpp`, `include/ert/http2comm/...`).

## 1. The system

### Components

| Component | State | Operations | Interacts with |
|---|---|---|---|
| `Stream` | `request_body_`, `status_code_`, `closed_`, `error_`, `timer_`, `need_timer_`, `reception_id_`, a mutex | constructor, `appendData`, `process`, `reception`, `commit`, `close`, `error`, `cancelTimer`, `updateMetrics` | called by io threads, workers and the timers thread; posts to the io context; calls the server's virtual methods |
| `Http2Server` | `reception_id_`, `maximum_request_body_size_` (atomics), queue dispatcher, congestion limit | `handler()` (on_data, on_close), `receiveError`, `streamError`, `streamClose`, `serve`, `join`, `stop` | makes a `Stream` per request and hands it to the queue dispatcher |
| Queue dispatcher (external, ert_queuedispatcher) | queue, consumers | `dispatch`, busy and size getters | calls `Stream::process` |
| `Http2Connection` | `status_`, `session_`, one io thread, condition variable | constructor, session callbacks, `reconnect`, `notifyClose`, `close`, `waitToBeConnected`, `waitToBeDisconnected`, destructor | called by `Http2Client` from any thread and by nghttp2 on the io thread |
| `Http2Client` | `connection_`, a timed mutex, a `task` per request | `asyncSend`, `send`, `async_send`, `reconnect`, `getUri` and the lambdas they register | posts to the io context of the connection |
| `URLFunctions`, `Http2Headers`, `Http` | none, a multimap, constants | pure conversions, a builder, error pairs | used by the above |

### What is hard

* A request of the server is continued by four kinds of code in turn (worker,
  timer handler, posted lambda, on_close) on three kinds of threads, and the members
  they share are protected by a mutex only in part.
* Timers are cancelled with `cancel()`, which does nothing to a handler that is
  already queued, nor to a wait that has not begun.
* A request of the client has four places that may complete it; the caller of
  `send()` waits for exactly one.
* `reconnect()` runs on a caller's thread, or on the io thread itself, while the
  callbacks it waits for change the same atomic.
* The status of a connection is changed and notified without the mutex of its
  condition variable, so a wake-up may be lost or go to the wrong thread; the
  destructor joins a thread that may itself be waiting.
* The conversions of texts have indices that move inside their loops, tests at the
  end of the text, and bytes that break what they are put in.
* `maximum_request_body_size_` is updated by a compare-and-exchange loop on every
  io thread.

`PROJECT.json` lists each hazard at its line. The properties that make the
components correct: one response for each request, not before its delays, never
after a normal close; counters that agree with what was sent; ids that are
unique; congestion control that sheds the excess only; a free worker for every
request that is not held back (server). One callback for each request, counters
that agree with it, no success on old news, a `send()` that returns (client); waits
that end and tell the truth, a destructor that returns and is the last to touch
the object (connection); conversions that agree with what they are meant to
compute (texts).

## 2. Modules

| Module | Models | Notes |
|---|---|---|
| `RequestLifecycle` | what the server promises for each request | abstract specification |
| `Http2Server` | `Http2Server::handler()`, `stop()` and `Stream` | implements `RequestLifecycle` |
| `RequestBody` | the body of a request and the registered maximum | finer grain than `Http2Server`: one action for each atomic access |
| `Http2Connection` | status, session and `reconnect()`, with a wait of one step | instantiated by `Http2Client`; abstract specification for `ConnectionThreads` |
| `ConnectionThreads` | the same class thread by thread: `reconnect`, both waits, `close`, the destructor, with `mutex_` and `status_change_cond_var_` | implements `Http2Connection` |
| `ClientRequest` | what the client promises for each request | abstract specification |
| `Http2Client` | `asyncSend`, `send`, `async_send`, `reconnect` | composes requests with the connection; implements `ClientRequest` |
| `URLFunctions` | `encode`, `decode`, `matchPrefix`, and `Http2Server::getApiPath()` | operators on sequences of bytes |
| `ErrorResponse` | the JSON body and the optional headers of `receiveError()`, `Http2Headers` | operators on sequences of bytes |
| `Texts` | reference definitions of the two, over every short text | |
| `MCHttp2Server`, `MCRequestBody`, `MCHttp2Client` | instances for TLC | values of constants, symmetry |
| `Http2ServerProofs`, `Http2ServerEndProofs`, `RequestBodyProofs`, `ConnectionThreadsProofs`, `Http2ClientProofs`, `TextsProofs`, `ErrorTextsProofs` | theorems | |
| `SequenceFacts` | lemmas on sequences | induction and recursion over positions, concatenations; names nothing of the library |

A definition introduced by "Mutant of" is a deliberately wrong version of the
definition that follows it. No specification uses it; it serves to see that a
property notices the mistake.

### Http2Server

`pc[s]` is the position of the thread that handles request `s`, and `runner[s]`
the kind of thread: `on_data` (body still arriving), `queued`, `reception`,
`delay`, `commit`, `post`, `returned`. Everything else has the code's name, or:
`conn` is how far on_close of the stream has come (`open`, `cancelled` after
`cancelTimer()`, `error` after `error_` and `status_code_` are set, `closed`),
`sent` the statuses handed to `res_`, `posted` the lambdas waiting in the io
context, `accepted`/`errored`/`observed` the metric counters, `provisioned` a
delay from `receive()` that has not elapsed, and `held` says that the application's
`responseDelayMs()` has not returned zero, the last time or yet. The operator
`responseDelayMs(s)` is one call of it: the answer is any, at each call, and zero
does not bind the application for the next one.

| Action | Code |
|---|---|
| `OnDataEnd` | on_data with `len == 0`: id, then dispatch or inline reception |
| `Dequeue` | a consumer calls `process()`; the congestion condition |
| `Receive` | the checks of `reception()` in their order, `receive()` or `receiveError()`, the counter |
| `PlanDelay` | the end of `reception()`: `responseDelayMs()` if `receive()` gave no delay, `timer_`, `need_timer_` |
| `Commit` | `commit()`: start the wait, discard, or go on |
| `Post`, `SendResponse` | `boost::asio::post` and the lambda |
| `TimerExpires`, `TimerAborted`, `TimerFired` | the `async_wait` and its handler; `TimerFired` calls `responseDelayMs()` again and leads back to `Commit` |
| `OnClose`, `OnCloseNormal`, `OnCloseError`, `OnCloseErrorMetrics` | on_close, split where a worker can come between |
| `Stop` | `stop()` |

`close()` and the first half of `error()` are one action each: the mutex and the
single io thread of a connection make them so. `error()` followed by the metrics is
two, because a worker writes `status_code_` without the mutex. Status values,
bodies and headers are abstracted: a status below 100 is a cancelled stream, and
its code comes back to on_close.

### RequestBody

A body is its size; on_data runs `load`, then `swap` until the exchange succeeds
or the chunk is no longer than what was read. What may be registered or reserved
is the length of a chunk (`TypeOK`), never that of the body so far. `compare_exchange_weak` may fail
spuriously (`ExchangeFails` is always possible). `begun` and `ended` are history
variables. If `receiveDataLen()` says no, on_data does nothing, which is a
stuttering step.

### Http2Connection and Http2Client

`at` is the position of the thread inside `reconnect()`. A session that is reset
only loses its handle: nghttp2 keeps what it has begun, so `dropped` holds the
transports that may still call the callbacks. `news` remembers that on_connect
came since the status was renewed. A new session begins to connect in
`createSession()`, before `configureSession()` registers its callbacks, so
`CreateSession` leaves it connecting, connected or failed with nothing heard of it;
only connecting if the io thread itself reconnects, since nobody is left to run
the session. `CreateFails` is the TLS branch of
`createSession()`. A wait is one step that may come at any time (`WaitReturns`).
`ConnectionThreads` shows that this is right: whatever its threads do with the
mutex and the condition variable, they stay within it.

A request of the client is `idle`, waits for its delay (`delay`), is on its way
through `Http2Client::reconnect()` (`lock`, `reconnect`, `recheck`), `posted`, or
`over` for `async_send()`; what remains is its `timer` and its `stream`. A delayed
request runs `async_send()` on the io thread, so `IoFree` is false as long as it is
reconnecting, and no handler of the connection runs.

`ClientRequest` knows only how far a request has come (`idle`, `sending`, `posted`,
`submitted`, `told`) and the codes the application was given; -1 is possible only
before it is posted, -3 only in place of the submission, an answer, -2 and -4 only
after it.

### ConnectionThreads

`pc[t]` is where thread `t` is and `op[t]` the operation it is in; `IO` is
`thread_`, which runs the callbacks and the delayed requests that reconnect.
`mutex` is `mutex_`, `woken` the sleeping threads that were notified, `caller` the
thread that holds `Http2Client::mutex_` around `reconnect()`, and `life` how far the
destructor has come. `down` is a history variable: the connection was not open at
some time of the wait.

| Action | Code |
|---|---|
| `BeginClose`, `Notify` | `notifyClose()`: the store, then `notify_one()` without the mutex; `OnConnect` and `OnError` have the same two steps |
| `BeginReconnect`, `DropSession`, `CreateSession`, `CreateFails`, `RenewStatus`, `Return` | `reconnect()` around its wait |
| `BeginWait`, `Enter`, `Check`, `Block`, `WakeUp`, `TimesOut`, `Read` | `waitToBeConnected()` and `waitToBeDisconnected()`: the lock, the predicate, the sleep, which begins however the status has changed since the predicate was evaluated, and what is returned |
| `BeginCloseCall`, `Shutdown` | `close()` |
| `BeginDestroy`, `Stop`, `Join`, `Shutdown` | `closeImpl()`, called by the destructor |

`Check` returns at once from a wait for a disconnection that finds the connection
down, with what `Read` would return; the status cannot make it false any more.

### URLFunctions, ErrorResponse and Texts

A text is a sequence of bytes, 0 to 255. `decode` reads one place beyond the last
byte, as the code does with the terminator of `std::string`. `Texts` lets TLC
enumerate the texts; its properties compare each conversion with a definition of
another kind: `decode` with the set of escapes in the text, `matchPrefix` with
prefixes of the sequence of path segments, the cause with what a JSON reader
makes of it (an error without a cause has the body `{}`), and the Allow header with the elements of a comma separated list.
The reader takes bytes that are no UTF-8 as they come, which a strict reader does
not: nothing is said about the encoding of a cause.
Where texts are split, `Ascending` puts the positions of the separators in order.

## 3. Runs

Passing runs:

| Run | Instance | Shows |
|---|---|---|
| `server_safety` | 2 streams, 2 workers, timers, 4 outcomes, closes 0 and 2 | one response, delays, counters, observed status, ids; refinement of `RequestLifecycle` |
| `server_inline` | 2 streams, no dispatcher, all outcomes | error metrics are right without workers, for every outcome of `reception()` |
| `server_pool` | 3 streams, 2 workers, limit 0, no close | only the excess is rejected; every request is answered that is not delayed over and over, whatever is done to the others |
| `body_maximum` | 3 streams, 3 lengths, 2 chunks each | the maximum is the largest chunk and never shrinks; only lengths of chunks are registered |
| `client_safety` | 3 requests, one delayed | one callback, no request forgotten, counters, late answers, reconnection; refinement of `ClientRequest` |
| `client_liveness` | 2 requests, one delayed | `send()` returns |
| `connection_threads` | 2 users and the io thread, one call each | refinement of `Http2Connection`; true connections and disconnections; someone can always go on; nothing follows the join; waits end, the destructor returns |
| `texts` | every text of up to 4 bytes out of 11 | the five statements about conversions |

Why the bounds are enough: the members of a stream are its own, and streams
interact only through the queue, the id counter and the pool. Two streams give
every pair of orders of ids and closes, and two workers are the smallest pool
(`workerThreads > 1`). Congestion needs a busy pool, one waiting request that is
allowed and one that is not, and starvation needs as many delayed requests as
workers and one that is free: three streams with a limit of 0. A lost update needs two writers
and one more thread that reads between them; the chunks of a body matter only by
their lengths. For the client, two callers give the contention for the mutex, and a
third one, delayed, occupies the io thread. A wake-up that is lost or given to the
wrong thread takes one thread that notifies and two that wait, one of them with
another predicate: two users and the io thread, which may itself be in
`reconnect()` when one of the users runs the destructor. The eleven bytes of `texts`
are one of each kind the code tells apart (control characters with a short escape
and without one, the quote, the backslash, the percent sign, plus, slash, a
digit, a digit that is a letter, another letter, a byte above 127), and a percent
escape with a byte behind it is four bytes long.

Every stream ends at most once and is not reused, as in the code. The bounds that
are not in the code are `MaxChunks` (`RequestBody`), `MaxCalls` (`ConnectionThreads`)
and `MaxLength` (`Texts`). `CHECK_DEADLOCK FALSE` appears in each
configuration because all requests may be over (or the calls made, the text at its
full length), with nothing left to happen.

A timer handler that is already queued when on_close calls `cancelTimer()`, or whose
wait `commit()` starts after it, still goes on to `commit()`, although a comment
(`src/Stream.cpp:165`) has it that a cancelled timer does not. It is harmless after
a normal close, where the lambda finds `closed_`: `KeepsLifecycle` shows that.

Runs that refute a statement of the documentation or of a comment (`findings` in
`PROJECT.json` quotes each):

| Run | Statement | What happens |
|---|---|---|
| `server_broken_connection` | responses over a broken connection are discarded | a posted one is not: only `closed_` is checked there, and the lambda calls `res_.cancel()` with the error code |
| `server_error_metrics` | `status_code_` transports the error code | a worker overwrites it before it is counted |
| `client_late_timer` | cancelling avoids a duplicated error by the timer | the handler was queued: a timeout is counted as well |
| `client_reconnect` | reconnect() is true if the connection is established | the session connects while `reconnect()` is still busy: an on_connect before the callbacks are registered is not heard, one before the store of `NOT_OPEN` is overwritten; the next request reconnects |

Two more disagreements need no run to be seen. `streamError()` is given the
server's counter `reception_id_` (`src/Http2Server.cpp:265`) and not the "Unique
recepcion identifier" of the request
(`include/ert/http2comm/Http2Server.hpp:343`). And what is registered as the
maximum body for the reservation is the largest chunk, since on_data gets chunks
(`src/Http2Server.cpp:239`): the models call it so.

## 4. Fairness

Server: weak fairness of `Progress(s)` (consumers, io threads and the timers
thread keep running, a timer expires) and of `FinishClose(s)` (a handler that has
begun returns). Nothing is assumed of clients, of `stop()`, or of what
`responseDelayMs()` returns: `FreeRequestsAreAnswered` has the exception of a request
whose delay is renewed, and says that `commit()` then comes back to ask again. The code justifies it: nothing in these paths blocks, except the short
critical sections of the stream's mutex.

Client: weak fairness of `Progress(r)` (callers, the io thread, waits with a
limit) and of `Timer(r)`. Nothing is assumed of the server or of the network:
`OnResponse`, `OnDataEnd`, `OnClose`, `OnConnect` and `OnError` are not fair, and
`SendReturns` rests on the timer alone. It presumes that the `Http2Connection`
lives: its destructor stops the io context and with it the timers.

Connection: weak fairness of `Step(t)`, the steps of a thread that is inside an
operation, and strong fairness of `TimesOut(t)`: the limit of `wait_for()` is a
point in time, which passes however often the thread is woken before, or the mutex
taken by another thread. `wait_for()` returns with the mutex, which is why the
action is not enabled all the time. Nothing is assumed of the session: `OnConnect`
and `OnError` are not fair, and no call is.

## 5. Proofs

Each module of proofs rests on the assumption of the module it is about, which
gives the constants their types and nothing more; `OnlyTheExcessIsShed` adds that
the set of streams is finite. Every invariant of the passing runs, every action
property and every refinement is a theorem; what is left to TLC alone is at the
end of this section.

`Http2ServerProofs` (`ServerAssumption`):

* `TypeCorrect`: `TypeOK` is inductive by itself; the proof has a lemma for each
  group of variables (`FlowType`, `TimerType`, `CloseType`).
* `AnsweredAtMostOnce`: "at most one response" is not inductive. What makes it so
  is `OneContinuation`: each request has one continuation, which is a thread
  before its post, a started wait, a posted lambda, or the response that was sent,
  and never two of them. That in turn needs `QueuedOnce` (a stream is in the queue
  once, and only while it is `queued`), or two consumers could take it.
* `NeverEarly`: `DelaysAreKept` says that `need_timer_` is set as long as a delay
  is outstanding, at each point from `PlanDelay` on. A delay may come back with each
  call of `responseDelayMs()`, and is then in `need_timer_` by the same step.

`Http2ServerEndProofs` builds on it. `EndInv` says how far on_close has come: it
decides `closed_`, `error_` and the number of observed responses.

* `CountedOnce`: `CountInv` (counted as accepted or errored once the checks of
  `reception()` are over) together with `EndInv`.
* `IdsAreUnique`: `IdsOf` (no two streams share an id, none is above the counter)
  and `ReportedOf`.
* `CountedAsSent`: `StatusInv` says that without an error `status_code_` is what was
  sent, from the response on: the only writer after it is `error()`.
* `InlineErrorsAreCounted`: for a server without workers. `ReceptionIsInline`: a
  reception that has not finished means that its stream is open, since on_close has
  to wait for the io thread. With workers the statement is false, as
  `server_error_metrics` shows.
* `OnlyTheExcessIsShed`: for any finite set of streams. `ShedInv` says that once a
  request was shed, the requests that were taken and spared are as many as the
  other workers: the first time all of those are busy with such requests, and
  later the spared do not become less. With the requests that wait behind the one
  that is shed, more than the limit, they leave room for the excess only; the queue
  holds nothing twice, so that its length counts streams (`QueueCardinality`).
* `ServerKeepsLifecycle`: the refinement of `RequestLifecycle`. A request is
  abandoned in three places, and each takes that the stream has ended; for an
  aborted timer that is `AbortedByClose`. The remaining steps move one stream from
  `processing` to `answered`, change its end, or stutter.

`RequestBodyProofs` (`RequestBodyAssumption`): the strengthening is `ReadsAreOld`:
what a thread has read is no more than the maximum is now, each reservation is
within it, and the length in the loop is one that has begun. `TypeOK` is inductive
with it: what is registered comes from a chunk through every exchange. From it follow
`BodyTypes`, `LargestChunk` and `NeverShrinks` for any number of threads and retries.

`ConnectionThreadsProofs` (`ThreadsAssumption`), for any number of users and calls:
`ThreadInv` ties where a thread is to the operation it is in (`OperationAt`), the
operation `reconnect` to `caller`, and a wait for a disconnection to what it has
lived through (`Noticed`).

* `ThreadsTypes` and `DisconnectionsAreTrue` follow from it.
* `ThreadsKeepConnection`: the refinement of `Http2Connection`. The mutex and the
  condition variable play no part in the argument: waits, wake-ups and time limits
  are stutters, and only the reading of the status is the step of the abstract
  wait. Safety does not depend on wake-ups; `WaitsEnd` does.
* `NothingFollowsTheJoin`: `JoinInv` says that the io thread is idle from the join
  on, and no thread can give it anything to do.
* `TrueIsNews`: `reconnect()` is true only after an on_connect of its own time. It is
  proved of `Http2Connection` (`ConnectionOnNews`, where an `OPEN` status during the
  wait is news) and carried over by the refinement: nothing of the threads is in
  the argument, but that `done` with a true result is `connected` there.
* `NoDeadlock`: somebody inside an operation can go on. `MutexInv` says that a thread
  has the mutex just when it is at `check`, `block` or `read`, where it waits for
  nothing; and that a destructor that joins has stopped the io context. So if the
  mutex is free, whoever wants it can take it, and the destructor waits only for
  an io thread that is such a thread itself. `CanGoOn(t)` is the condition under
  which `Step(t)` is enabled, written out, since the prover has no `ENABLED`.
  `WaitsEnd` and `DestructorReturns` add fairness to this.

`Http2ClientProofs` (`ClientAssumption`), for any number of requests:

* `ReconnectedOnNews`: an `OPEN` status means that on_connect came since the
  status was renewed (`OpenIsNews`), whatever the old sessions still report.
* `CalledAtMostOnce`: results of length one at most is not inductive. `OneOutcome`
  adds that nothing was started for a request before its submission, and that an
  outcome without `cb_invoked` is that of a failed connection, for which no timer
  or stream exists that could call again.
* `DelayedNeverReconnect`: `DelayedInv` says that the status a delayed request has
  renewed stays as it is while it waits, since it occupies the io thread.
* `ClientKeepsRequest`: the refinement of `ClientRequest`, from `OneOutcome`.
* `ClientCountersAgree` and `ClientTypes`: `CounterInv` ties each counter to the flag
  or the state of the stream that keeps it from being incremented twice.
* `LateAnswersIgnored`: `OpenIsUntold` says that as long as the stream is open and the
  timer was not handled, nothing was told. (`NoTimeoutAfterTheOutcome` is the
  mirror image of it, and false.)
* `ClientForgetsNothing`: whoever was submitted and told nothing has a timer whose
  handler is still to come, and none of the flags that would silence it is set. It
  takes the invariant of `CalledAtMostOnce`: a guarded callback tells nothing only if
  something was told before (`GuardedCallbackTells`). With the fairness of the
  timers, this is why `SendReturns` holds.
* `ClientKeepsConnection`: the client drives its connection only by steps of
  `Http2Connection`, so that what is proved of that module alone holds inside it.

`SequenceFacts` has what proofs about texts need. The induction theorems of the
library take an operator as a parameter, which the provers here cannot
instantiate. The lemmas `SetInduction`, `UpwardInduction` and `DownwardInduction`
say the same of a set of numbers, which can be a parameter: the least
counterexample is that of `WellFoundedInduction`. A recursive function is by its
definition one that satisfies an equation, if there is one: `DownwardRecursion`
shows that there is, for a recursion that goes on at a later place of a
sequence, as `decode` and the reader of JSON do. `FlattenPlaces` says which byte of
which piece is at a place of a concatenation.

`TextsProofs` (`TextsAssumption`) is about texts of every length, over any set of
bytes:

* `EncodingIsReversibleHolds`: the pieces of `encode()` are one byte or an escape.
  `decode` reads a piece as a whole and makes its byte of it (`DecodeAPiece`), and by
  induction from the end of the text the rest of the bytes of what follows
  (`DecodeEncode`).
* `DecodesEachEscapeOnceHolds`: the index of `decode` visits just the places that are
  not inside an escape, in ascending order (`NextIsMeant`), and reads beyond the last
  byte without using it (`EscapesAreEscaped`). `Ascending` has all members of a set
  in order and is the only sequence that does (`AscendingEnumerates`, `AscendingIs`).
* `PrefixesAreWholeSegmentsHolds`: a path in normal form is determined by its slashes.
  If one is a prefix of another, its slashes are the first of the other
  (`PrefixHasSegments`); if the segments agree, so do the places of the slashes, by
  induction, and the bytes between them (`SegmentsMakePrefix`). `MatchIsBySegments`
  says it of any two paths; the prefixes of the run are a part of them.

`ErrorTextsProofs` builds on it:

* `CauseIsReadBackHolds`: the reader takes one piece of `escaped_cause` at a time and
  gets its byte (`ReadAPiece`), whether it is plain, a short escape or `\u00XX`; the
  quote behind the cause is the first that ends it (`ReadBack`).
* `AllowNamesTheMethodsHolds`: the commas of the list are those between its methods
  (`PlacesInTheList`), so that its elements are the methods (`ElementsAreMethods`).

Only model-checked: the liveness properties `FreeRequestsAreAnswered`, `SendReturns`,
`WaitsEnd` and `DestructorReturns`, since fairness is outside the prover. The
statements that the four runs of section 3 refute are false and have no proof.

## 6. What is not modelled

* Object lifetime: `commit()` and the client's delayed send capture raw pointers.
  The models keep each object for ever, so nothing is said of a handler that
  runs after its object is gone.
* `Http2Connection::reconnect()` called directly from several threads. It is public
  and has no guard of its own; one caller at a time is the mutex of `Http2Client`,
  its only caller here, and `caller` in `ConnectionThreads`.
* Torn or stale reads of non-atomic members (`timer_`, `session_`): each access
  is a step of its own, but reads one of the values that were written.
* What an application does in the `onClose` callback: it runs in the middle of
  `reconnect()`, `close()` and the destructor, and may call the connection again.
* A destructor that runs on the io thread itself, when a posted submission holds
  the last reference to the client: it would join its own thread.
* Spurious wake-ups: one that finds the predicate false goes back to sleep, and one
  that finds it true ends the wait as `TimesOut` does, which may come at any time.
* A worker pool that grows (`maxWorkerThreads`): the pool is fixed, as by default,
  and its policy is not in this repository.
* Histograms, gauges, labels and clock values; traces; the content-type and
  content-length headers, whose values are constants and a size.
* `serve()`, `join()` and TLS hand their arguments to nghttp2-asio and return its
  error: I/O without state of this library. `AsioCompat` is resolved by the
  compiler.

## 7. Plan

Done: the modules, runs and theorems above. What is left, in this order:

1. Lifetime: the references that posted lambdas and timers hold to `Stream` and
   `Http2Client`, with a destructor on each thread that may drop the last one.
2. The `onClose` callback as a reentrant user of `ConnectionThreads`.
