----------------------------- MODULE Http2Client -----------------------------
(***************************************************************************)
(* The client side of http2comm: what Http2Client does with each request,  *)
(* over one Http2Connection.  A request runs on the thread of its caller   *)
(* until it is posted, and then on the only io thread of the connection:   *)
(* the posted submission, the timer of the request and the callbacks of    *)
(* its HTTP/2 stream, one action for each of them.  A request with a delay *)
(* runs on the io thread from the beginning, which is then not free for    *)
(* any other handler.                                                      *)
(***************************************************************************)
EXTENDS Integers, Sequences, FiniteSets

CONSTANTS
    Requests,       \* the calls of asyncSend() or send()
    Delayed         \* those of them with a sendDelayMs

ASSUME ClientAssumption == Delayed \subseteq Requests

VARIABLES
    status_, session_, link, dropped, at, news, \* the Http2Connection
    pc,             \* where async_send() is
    timer,          \* the deadline timer of the request
    stream,         \* the HTTP/2 stream, and which of its callbacks have come
    timed_out, cb_invoked,          \* the flags of the task
    results,        \* the status codes the application's callback was given
    sents, unsents, received, timedout  \* the counters of the metrics

Connection == INSTANCE Http2Connection

connVars == <<status_, session_, link, dropped, at, news>>
taskVars == <<timer, stream, timed_out, cb_invoked>>
metricVars == <<sents, unsents, received, timedout>>
vars == <<connVars, pc, taskVars, results, metricVars>>

ANSWER == 200       \* the status code of any response

TypeOK ==
    /\ Connection!TypeOK
    /\ pc \in [Requests -> {"idle", "delay", "lock", "reconnect", "recheck",
                            "posted", "over"}]
    /\ timer \in [Requests -> {"null", "pending", "expired", "aborted", "over"}]
    /\ stream \in [Requests -> {"none", "open", "ignored", "responded", "answered",
                                "closed"}]
    /\ timed_out \in [Requests -> BOOLEAN]
    /\ cb_invoked \in [Requests -> BOOLEAN]
    /\ results \in [Requests -> Seq({ANSWER, -1, -2, -3, -4})]
    /\ sents \in [Requests -> Nat]
    /\ unsents \in [Requests -> Nat]
    /\ received \in [Requests -> Nat]
    /\ timedout \in [Requests -> Nat]

Init ==
    /\ Connection!Init
    /\ pc = [r \in Requests |-> "idle"]
    /\ timer = [r \in Requests |-> "null"]
    /\ stream = [r \in Requests |-> "none"]
    /\ timed_out = [r \in Requests |-> FALSE]
    /\ cb_invoked = [r \in Requests |-> FALSE]
    /\ results = [r \in Requests |-> <<>>]
    /\ sents = [r \in Requests |-> 0]
    /\ unsents = [r \in Requests |-> 0]
    /\ received = [r \in Requests |-> 0]
    /\ timedout = [r \in Requests |-> 0]

-----------------------------------------------------------------------------
isConnected == Connection!isConnected

\* async_send() of a delayed request keeps the io thread until it has posted.
IoFree == \A r \in Delayed : pc[r] \notin {"lock", "reconnect", "recheck"}

Goto(r, label) == pc' = [pc EXCEPT ![r] = label]

cb(r, code) == results' = [results EXCEPT ![r] = Append(@, code)]

\* The callback, unless it was invoked before.
cbOnce(r, code) ==
    /\ cb_invoked' = [cb_invoked EXCEPT ![r] = TRUE]
    /\ IF cb_invoked[r] THEN UNCHANGED results ELSE cb(r, code)

\* timer->cancel(): no effect on a handler that is already queued.
Cancelled(r) == [timer EXCEPT ![r] = IF @ = "pending" THEN "aborted" ELSE @]

\* The rest of async_send() over an open connection: count and post.
SendOrGoto(r, label) ==
    IF isConnected
    THEN /\ sents' = [sents EXCEPT ![r] = @ + 1]
         /\ Goto(r, "posted")
    ELSE /\ Goto(r, label)
         /\ UNCHANGED sents

\* asyncSend() with a delay starts a timer.
AsyncSendDelayed(r) ==
    /\ r \in Delayed
    /\ pc[r] = "idle"
    /\ Goto(r, "delay")
    /\ UNCHANGED <<connVars, taskVars, results, metricVars>>

\* Mutant of AsyncSend: a request is counted as unsent before reconnecting.
AsyncSendCountsFirst(r) ==
    /\ IF r \in Delayed THEN pc[r] = "delay" /\ IoFree ELSE pc[r] = "idle"
    /\ SendOrGoto(r, "lock")
    /\ unsents' = [unsents EXCEPT ![r] = IF isConnected THEN @ ELSE 1]
    /\ UNCHANGED <<connVars, taskVars, results, received, timedout>>

\* async_send(), at once or when the delay is over.
AsyncSend(r) ==
    /\ IF r \in Delayed THEN pc[r] = "delay" /\ IoFree ELSE pc[r] = "idle"
    /\ SendOrGoto(r, "lock")
    /\ UNCHANGED <<connVars, taskVars, results, unsents, received, timedout>>

\* Http2Client::reconnect() with its mutex held: another thread may have
\* reconnected already.
Lock(r) ==
    /\ pc[r] = "lock"
    /\ \A q \in Requests : pc[q] # "reconnect"
    /\ Goto(r, IF isConnected THEN "recheck" ELSE "reconnect")
    /\ UNCHANGED <<connVars, taskVars, results, metricVars>>

\* The mutex was not free for two seconds and a half.
LockTimesOut(r) ==
    /\ pc[r] = "lock"
    /\ \E q \in Requests : pc[q] = "reconnect"
    /\ Goto(r, "recheck")
    /\ UNCHANGED <<connVars, taskVars, results, metricVars>>

\* The steps of Http2Connection::reconnect().  A delayed request takes them on the
\* io thread, where nothing is done for the new session meanwhile.
Reconnect(r) ==
    /\ pc[r] = "reconnect"
    /\ Connection!ReconnectStep
    /\ at = "create" /\ ~IoFree => link' \in {"none", "connecting"}
    /\ UNCHANGED <<pc, taskVars, results, metricVars>>

ReconnectReturns(r) ==
    /\ pc[r] = "reconnect"
    /\ Connection!ReconnectReturns
    /\ Goto(r, "recheck")
    /\ UNCHANGED <<taskVars, results, metricVars>>

\* Mutants of Recheck: there is no return behind the callback; the callback is
\* given a default response.
RecheckWithoutReturn(r) ==
    /\ pc[r] = "recheck"
    /\ SendOrGoto(r, "posted")
    /\ IF isConnected
       THEN UNCHANGED <<unsents, results>>
       ELSE unsents' = [unsents EXCEPT ![r] = @ + 1] /\ cb(r, -1)
    /\ UNCHANGED <<connVars, taskVars, received, timedout>>
RecheckDefault(r) ==
    /\ pc[r] = "recheck"
    /\ SendOrGoto(r, "over")
    /\ IF isConnected THEN UNCHANGED results ELSE cb(r, 0)
    /\ UNCHANGED <<connVars, taskVars, unsents, received, timedout>>

\* The second look at the connection: send after all, or fail.
Recheck(r) ==
    /\ pc[r] = "recheck"
    /\ SendOrGoto(r, "over")
    /\ IF isConnected
       THEN UNCHANGED <<unsents, results>>
       ELSE unsents' = [unsents EXCEPT ![r] = @ + 1] /\ cb(r, -1)
    /\ UNCHANGED <<connVars, taskVars, received, timedout>>

-----------------------------------------------------------------------------
\* The posted lambda: start the timer and submit the request.
Submit(r) ==
    /\ IoFree
    /\ pc[r] = "posted"
    /\ isConnected
    /\ session_
    /\ timer' = [timer EXCEPT ![r] = "pending"]
    /\ stream' = [stream EXCEPT ![r] = "open"]
    /\ Goto(r, "over")
    /\ UNCHANGED <<connVars, timed_out, cb_invoked, results, metricVars>>

\* Mutant of SubmitFails: no callback before the return.
SubmitFailsSilently(r) ==
    /\ IoFree /\ pc[r] = "posted"
    /\ Connection!notifyClose
    /\ timer' = [timer EXCEPT ![r] = "aborted"]
    /\ Goto(r, "over")
    /\ UNCHANGED <<stream, timed_out, cb_invoked, results, metricVars>>

\* The posted lambda when the connection is not open, or submit() fails: the
\* timer it has started is cancelled.
SubmitFails(r) ==
    /\ IoFree
    /\ pc[r] = "posted"
    /\ Connection!notifyClose
    /\ timer' = [timer EXCEPT ![r] = "aborted"]
    /\ cbOnce(r, -3)
    /\ Goto(r, "over")
    /\ UNCHANGED <<stream, timed_out, metricVars>>

\* Mutant of OnResponse: timed_out is not checked.
OnAnyResponse(r) ==
    /\ IoFree /\ stream[r] = "open"
    /\ stream' = [stream EXCEPT ![r] = "responded"]
    /\ received' = [received EXCEPT ![r] = @ + 1]
    /\ UNCHANGED <<connVars, pc, timer, timed_out, cb_invoked, results, sents, unsents,
                   timedout>>

\* on_response: the header of the response.  After a timeout it is ignored.
OnResponse(r) ==
    /\ IoFree
    /\ stream[r] = "open"
    /\ IF timed_out[r]
       THEN /\ stream' = [stream EXCEPT ![r] = "ignored"]
            /\ UNCHANGED received
       ELSE /\ stream' = [stream EXCEPT ![r] = "responded"]
            /\ received' = [received EXCEPT ![r] = @ + 1]
    /\ UNCHANGED <<connVars, pc, timer, timed_out, cb_invoked, results, sents, unsents,
                   timedout>>

\* on_data with len = 0: the end of the response.
OnDataEnd(r) ==
    /\ IoFree
    /\ stream[r] = "responded"
    /\ stream' = [stream EXCEPT ![r] = "answered"]
    /\ timer' = Cancelled(r)
    /\ cbOnce(r, ANSWER)
    /\ UNCHANGED <<connVars, pc, timed_out, metricVars>>

\* Mutants of OnClose: a response that has begun is taken for an answer; cb_invoked
\* is not checked.
OnCloseAfterHeader(r) ==
    /\ IoFree /\ stream[r] \in {"open", "ignored", "responded", "answered"}
    /\ stream' = [stream EXCEPT ![r] = "closed"]
    /\ timer' = Cancelled(r)
    /\ IF stream[r] = "open" THEN cbOnce(r, -4) ELSE UNCHANGED <<cb_invoked, results>>
    /\ UNCHANGED <<connVars, pc, timed_out, metricVars>>
OnCloseAlways(r) ==
    /\ IoFree /\ stream[r] \in {"open", "ignored", "responded", "answered"}
    /\ stream' = [stream EXCEPT ![r] = "closed"]
    /\ timer' = Cancelled(r)
    /\ cb(r, -4)
    /\ UNCHANGED <<connVars, pc, timed_out, cb_invoked, metricVars>>

\* on_close of the stream, after its response or instead of it.
OnClose(r) ==
    /\ IoFree
    /\ stream[r] \in {"open", "ignored", "responded", "answered"}
    /\ stream' = [stream EXCEPT ![r] = "closed"]
    /\ IF timed_out[r]
       THEN UNCHANGED <<timer, cb_invoked, results>>
       ELSE /\ timer' = Cancelled(r)
            /\ cbOnce(r, -4)
    /\ UNCHANGED <<connVars, pc, timed_out, metricVars>>

\* The deadline passes: the handler is queued and can no longer be cancelled.
TimerExpires(r) ==
    /\ timer[r] = "pending"
    /\ timer' = [timer EXCEPT ![r] = "expired"]
    /\ UNCHANGED <<connVars, pc, stream, timed_out, cb_invoked, results, metricVars>>

\* The handler of the timer.
TimerHandler(r) ==
    /\ IoFree
    /\ timer[r] \in {"expired", "aborted"}
    /\ timer' = [timer EXCEPT ![r] = "over"]
    /\ IF timer[r] = "expired" /\ ~timed_out[r]
       THEN /\ timed_out' = [timed_out EXCEPT ![r] = TRUE]
            /\ timedout' = [timedout EXCEPT ![r] = @ + 1]
            /\ cbOnce(r, -2)
       ELSE UNCHANGED <<timed_out, timedout, cb_invoked, results>>
    /\ UNCHANGED <<connVars, pc, stream, sents, unsents, received>>

\* Mutant of OnConnect: a second io thread.
OnConnectAnyThread ==
    /\ Connection!OnConnect
    /\ UNCHANGED <<pc, taskVars, results, metricVars>>

\* The callbacks of the session, and of those that were reset.
OnConnect ==
    /\ IoFree
    /\ Connection!OnConnect \/ Connection!OldOnConnect
    /\ UNCHANGED <<pc, taskVars, results, metricVars>>

OnError ==
    /\ IoFree
    /\ Connection!OnError \/ Connection!OldOnError
    /\ UNCHANGED <<pc, taskVars, results, metricVars>>

-----------------------------------------------------------------------------
\* What moves a request forward that has been sent.
Progress(r) ==
    \/ r \in Delayed /\ AsyncSend(r)
    \/ Lock(r)
    \/ LockTimesOut(r)
    \/ Reconnect(r)
    \/ ReconnectReturns(r)
    \/ Recheck(r)
    \/ Submit(r)
    \/ SubmitFails(r)

Timer(r) == TimerExpires(r) \/ TimerHandler(r)

Next ==
    \/ \E r \in Requests :
         \/ AsyncSendDelayed(r)
         \/ AsyncSend(r)
         \/ Progress(r)
         \/ Timer(r)
         \/ OnResponse(r)
         \/ OnDataEnd(r)
         \/ OnClose(r)
    \/ OnConnect
    \/ OnError

Spec == Init /\ [][Next]_vars

\* The threads keep running, waits and timers end; nothing is assumed of the
\* server or of the network.
Fairness == \A r \in Requests : WF_vars(Progress(r)) /\ WF_vars(Timer(r))

FairSpec == Spec /\ Fairness
-----------------------------------------------------------------------------
\* The application's callback is invoked at most once, although the submission,
\* the timer and two callbacks of the stream may each invoke it (Http2Client.cpp,
\* async_send()).
CallbackAtMostOnce == \A r \in Requests : Len(results[r]) <= 1

\* The metrics agree with what the application was told: a request is counted
\* as sent or as unsent, the latter just when it was given -1; one that was given
\* -2 is counted as timed out and one that was answered as received.
CountersAgree ==
    \A r \in Requests :
        /\ sents[r] + unsents[r] = IF pc[r] \in {"posted", "over"} THEN 1 ELSE 0
        /\ unsents[r] = 1 <=> results[r] = <<-1>>
        /\ results[r] = <<-2>> => timedout[r] = 1
        /\ results[r] = <<ANSWER>> => received[r] = 1
        /\ received[r] <= 1 /\ timedout[r] <= 1

\* No caller is left without an outcome: whatever ended the submission, the stream
\* or the timer, a request that has left async_send() and was told nothing has a
\* timer whose handler is still to come, and which neither cb_invoked nor timed_out
\* will silence (Http2Client.cpp, async_send()).
NothingIsForgotten ==
    \A r \in Requests :
        /\ cb_invoked[r] \/ timed_out[r] => results[r] # <<>>
        /\ pc[r] = "over" /\ results[r] = <<>> => timer[r] \in {"pending", "expired"}

\* No response is counted as received once the application has been told the
\* outcome: an answer that comes after the timeout is ignored.
LateAnswersAreIgnored ==
    [][\A r \in Requests : results[r] # <<>> => received'[r] = received[r]]_vars

(***************************************************************************)
(* The client keeps the promise of ClientRequest.                          *)
(***************************************************************************)
RequestPhase ==
    [r \in Requests |->
        IF results[r] # <<>> THEN "told"
        ELSE CASE pc[r] = "idle"   -> "idle"
               [] pc[r] = "posted" -> "posted"
               [] pc[r] = "over"   -> "submitted"
               [] OTHER            -> "sending"]

Request == INSTANCE ClientRequest
           WITH Answers <- {ANSWER}, phase <- RequestPhase, outcome <- results

\* Each request has one outcome, whose code tells how far it came: -1 only before
\* it was posted, -3 only instead of its submission, an answer, a timeout or a
\* close only after it (Http2Client.cpp, async_send()).
KeepsRequest == Request!Spec

\* reconnect() succeeds only on what happened while it waited.
ConnectedIsNews == Connection!ConnectedIsNews

\* A delayed request that reconnects never succeeds: it waits for on_connect on
\* the thread that would have to run it (Http2Client.cpp,
\* asyncSend(); Http2Connection.cpp, one io thread).
DelayedRequestsCannotReconnect ==
    \A r \in Delayed : pc[r] = "reconnect" => at # "connected"

\* Each request is answered or fails, so that send() returns: no lost session,
\* missing response or failed submission leaves the caller waiting.
SendReturns == \A r \in Requests : pc[r] # "idle" ~> results[r] # <<>>

\* "avoid duplicated error by timer" (Http2Client.cpp, on_close): no timeout is
\* reported for a request whose outcome was told before.
NoTimeoutAfterTheOutcome ==
    [][\A r \in Requests : results[r] # <<>> => timedout'[r] = timedout[r]]_vars

\* "true if connection is finally established" (Http2Connection.hpp).
ReconnectIsTrue == Connection!ReconnectIsTrue
=============================================================================
