-------------------------- MODULE Http2ClientProofs --------------------------
(***************************************************************************)
(* Proofs of Http2Client for any number of requests, any of them delayed,  *)
(* over any behaviour of the connection.                                   *)
(***************************************************************************)
EXTENDS Http2Client, TLAPS, SequenceTheorems

Code == {ANSWER, -1, -2, -3, -4}

-----------------------------------------------------------------------------
(***************************************************************************)
(* The connection: no step of it depends on a request.                     *)
(***************************************************************************)

\* What reconnect() knows of the status once it waits: it is OPEN only because of
\* an on_connect that came in the meantime.
OpenIsNews ==
    /\ at = "wait" /\ status_ = "OPEN" => news
    /\ at = "connected" => news

ConnectionInv == Connection!TypeOK /\ OpenIsNews

\* The steps a client makes its connection take.
ConnectionStep ==
    \/ Connection!Next
    \/ UNCHANGED connVars

\* Each step of the connection keeps its invariant (Http2Connection.cpp, reconnect()
\* and the callbacks).
LEMMA ConnectionInvStep == ASSUME ConnectionInv, ConnectionStep PROVE ConnectionInv'
<1> USE DEF ConnectionInv, OpenIsNews, Connection!TypeOK
<1>1. ASSUME Connection!OnConnect \/ Connection!OldOnConnect PROVE ConnectionInv'
  BY <1>1 DEF Connection!OnConnect, Connection!OldOnConnect
<1>2. ASSUME Connection!OnError \/ Connection!OldOnError PROVE ConnectionInv'
  BY <1>2 DEF Connection!OnError, Connection!OldOnError
<1>3. ASSUME Connection!notifyClose PROVE ConnectionInv'
  BY <1>3 DEF Connection!notifyClose
<1>4. ASSUME Connection!ReconnectStep PROVE ConnectionInv'
  <2>1. CASE Connection!BeginReconnect
    BY <2>1 DEF Connection!BeginReconnect
  <2>2. CASE Connection!DropSession
    BY <2>2 DEF Connection!DropSession
  <2>3. CASE Connection!CreateSession \/ Connection!CreateFails
    BY <2>3 DEF Connection!CreateSession, Connection!CreateFails
  <2>4. CASE Connection!RenewStatus
    BY <2>4 DEF Connection!RenewStatus
  <2>5. CASE Connection!WaitReturns
    BY <2>5 DEF Connection!WaitReturns, Connection!isConnected
  <2> QED
    BY <1>4, <2>1, <2>2, <2>3, <2>4, <2>5 DEF Connection!ReconnectStep
<1>5. ASSUME Connection!ReconnectReturns PROVE ConnectionInv'
  BY <1>5 DEF Connection!ReconnectReturns
<1>6. ASSUME Connection!Shutdown PROVE ConnectionInv'
  BY <1>6 DEF Connection!Shutdown
<1>7. ASSUME UNCHANGED connVars PROVE ConnectionInv'
  BY <1>7 DEF connVars
<1> QED
  BY <1>1, <1>2, <1>3, <1>4, <1>5, <1>6, <1>7 DEF ConnectionStep, Connection!Next

\* Each step of the client is one of the connection, or leaves it alone.
LEMMA StepsOfTheConnection == [Next]_vars => ConnectionStep
  BY DEF Next, Progress, Timer, ConnectionStep, Connection!Next, vars,
         AsyncSendDelayed, AsyncSend, Lock, LockTimesOut, Reconnect, ReconnectReturns,
         Recheck, Submit, SubmitFails, OnResponse, OnDataEnd, OnClose, TimerExpires,
         TimerHandler, OnConnect, OnError

\* reconnect() succeeds only on an on_connect that came while it waited, whichever
\* thread runs it and whatever the callbacks of old sessions do.
THEOREM ReconnectedOnNews == Spec => []ConnectedIsNews
<1>1. Init => ConnectionInv
  BY DEF Init, Connection!Init, ConnectionInv, OpenIsNews, Connection!TypeOK
<1>2. ConnectionInv /\ [Next]_vars => ConnectionInv'
  BY ConnectionInvStep, StepsOfTheConnection
<1>3. ConnectionInv => ConnectedIsNews
  BY DEF ConnectionInv, OpenIsNews, ConnectedIsNews, Connection!ConnectedIsNews
<1> QED
  BY <1>1, <1>2, <1>3, PTL DEF Spec

-----------------------------------------------------------------------------
(***************************************************************************)
(* The callback of a request is invoked once.  It takes that nothing was   *)
(* started for a request before its submission, nor for one that was told  *)
(* of a failed connection, the only outcome that leaves cb_invoked alone.  *)
(***************************************************************************)
Untouched(r) == timer[r] = "null" /\ stream[r] = "none" /\ ~cb_invoked[r]

TaskTypes ==
    /\ pc \in [Requests -> {"idle", "delay", "lock", "reconnect", "recheck",
                            "posted", "over"}]
    /\ timer \in [Requests -> {"null", "pending", "expired", "aborted", "over"}]
    /\ stream \in [Requests -> {"none", "open", "ignored", "responded", "answered",
                                "closed"}]
    /\ cb_invoked \in [Requests -> BOOLEAN]
    /\ results \in [Requests -> Seq(Code)]

OneOutcome ==
    \A r \in Requests :
        /\ pc[r] # "over" => Untouched(r) /\ results[r] = <<>>
        /\ ~cb_invoked[r] => results[r] = <<>> \/ Untouched(r)
        /\ Len(results[r]) <= 1

CallbackInv == TaskTypes /\ OneOutcome

\* The requests but r are as they were.
Others(r) ==
    \A q \in Requests : q # r =>
        /\ pc'[q] = pc[q]
        /\ timer'[q] = timer[q]
        /\ stream'[q] = stream[q]
        /\ cb_invoked'[q] = cb_invoked[q]
        /\ results'[q] = results[q]

\* What a step of one request has to keep.
LEMMA OneRequest ==
    ASSUME CallbackInv, TaskTypes', NEW r \in Requests, Others(r),
           pc'[r] # "over" => Untouched(r)' /\ results'[r] = <<>>,
           ~cb_invoked'[r] => results'[r] = <<>> \/ Untouched(r)',
           Len(results'[r]) <= 1
    PROVE  CallbackInv'
  BY DEF CallbackInv, OneOutcome, Others, Untouched

\* The first outcome of a request is the only one in its results.
LEMMA FirstOutcome ==
    ASSUME TaskTypes, NEW r \in Requests, NEW code \in Code, cb(r, code), results[r] = <<>>
    PROVE  /\ results' \in [Requests -> Seq(Code)]
           /\ Len(results'[r]) = 1
           /\ \A q \in Requests : q # r => results'[q] = results[q]
<1>1. results \in [Requests -> Seq(Code)] /\ results[r] \in Seq(Code) /\ Len(results[r]) = 0
  BY DEF TaskTypes
<1>2. results' = [results EXCEPT ![r] = Append(results[r], code)]
  BY DEF cb
<1>3. /\ Append(results[r], code) \in Seq(Code)
      /\ Len(Append(results[r], code)) = Len(results[r]) + 1
  BY <1>1, AppendProperties
<1> QED
  BY <1>1, <1>2, <1>3

\* The same, when the callback is guarded by cb_invoked.
LEMMA GuardedOutcome ==
    ASSUME TaskTypes, NEW r \in Requests, NEW code \in Code, cbOnce(r, code),
           ~cb_invoked[r] => results[r] = <<>>, Len(results[r]) <= 1
    PROVE  /\ results' \in [Requests -> Seq(Code)]
           /\ cb_invoked' \in [Requests -> BOOLEAN]
           /\ cb_invoked'[r]
           /\ Len(results'[r]) <= 1
           /\ \A q \in Requests : q # r =>
                 results'[q] = results[q] /\ cb_invoked'[q] = cb_invoked[q]
<1>1. cb_invoked \in [Requests -> BOOLEAN] /\ cb_invoked' = [cb_invoked EXCEPT ![r] = TRUE]
  BY DEF TaskTypes, cbOnce
<1>2. CASE cb_invoked[r]
  BY <1>1, <1>2 DEF TaskTypes, cbOnce
<1>3. CASE ~cb_invoked[r]
  <2>1. cb(r, code) /\ results[r] = <<>>
    BY <1>3 DEF cbOnce
  <2>2. /\ results' \in [Requests -> Seq(Code)]
        /\ Len(results'[r]) = 1
        /\ \A q \in Requests : q # r => results'[q] = results[q]
    BY <2>1, FirstOutcome
  <2>3. Len(results'[r]) <= 1
    BY <2>2
  <2>4. /\ cb_invoked' \in [Requests -> BOOLEAN] /\ cb_invoked'[r]
        /\ \A q \in Requests : q # r => cb_invoked'[q] = cb_invoked[q]
    BY <1>1
  <2> QED
    BY <2>2, <2>3, <2>4
<1> QED
  BY <1>2, <1>3

\* Each action keeps to one outcome for each request.
LEMMA CallbackStep == ASSUME CallbackInv, [Next]_vars PROVE CallbackInv'
<1> USE ClientAssumption
<1>1. ASSUME NEW r \in Requests, AsyncSendDelayed(r) PROVE CallbackInv'
  <2>1. pc[r] # "over" /\ pc' = [pc EXCEPT ![r] = "delay"] /\ UNCHANGED <<taskVars, results>>
    BY <1>1 DEF AsyncSendDelayed, Goto
  <2> QED
    BY <2>1 DEF CallbackInv, TaskTypes, OneOutcome, Untouched, taskVars
<1>2. ASSUME NEW r \in Requests, AsyncSend(r) PROVE CallbackInv'
  <2>1. /\ pc[r] # "over" /\ UNCHANGED <<taskVars, results>>
        /\ \E label \in {"posted", "lock"} : pc' = [pc EXCEPT ![r] = label]
    BY <1>2 DEF AsyncSend, SendOrGoto, Goto
  <2> QED
    BY <2>1 DEF CallbackInv, TaskTypes, OneOutcome, Untouched, taskVars
<1>3. ASSUME NEW r \in Requests, Lock(r) \/ LockTimesOut(r) \/ ReconnectReturns(r)
      PROVE  CallbackInv'
  <2>1. /\ pc[r] # "over" /\ UNCHANGED <<taskVars, results>>
        /\ \E label \in {"recheck", "reconnect"} : pc' = [pc EXCEPT ![r] = label]
    BY <1>3 DEF Lock, LockTimesOut, ReconnectReturns, Goto
  <2> QED
    BY <2>1 DEF CallbackInv, TaskTypes, OneOutcome, Untouched, taskVars
<1>4. ASSUME NEW r \in Requests, Recheck(r) PROVE CallbackInv'
  <2>1. pc[r] = "recheck" /\ Untouched(r) /\ results[r] = <<>> /\ UNCHANGED taskVars
    BY <1>4 DEF Recheck, CallbackInv, OneOutcome
  <2>2. CASE isConnected
    <3>1. pc' = [pc EXCEPT ![r] = "posted"] /\ UNCHANGED results
      BY <1>4, <2>2 DEF Recheck, SendOrGoto, Goto
    <3> QED
      BY <2>1, <3>1 DEF CallbackInv, TaskTypes, OneOutcome, Untouched, taskVars
  <2>3. CASE ~isConnected
    <3>1. pc' = [pc EXCEPT ![r] = "over"] /\ cb(r, -1)
      BY <1>4, <2>3 DEF Recheck, SendOrGoto, Goto
    <3>2. /\ results' \in [Requests -> Seq(Code)] /\ Len(results'[r]) = 1
          /\ \A q \in Requests : q # r => results'[q] = results[q]
      BY <2>1, <3>1, FirstOutcome DEF CallbackInv, Code
    <3>3. TaskTypes'
      BY <2>1, <3>1, <3>2 DEF CallbackInv, TaskTypes, taskVars
    <3>4. Others(r) /\ pc'[r] = "over"
      BY <2>1, <3>1, <3>2 DEF Others, CallbackInv, TaskTypes, taskVars
    <3>5. Untouched(r)'
      BY <2>1 DEF Untouched, taskVars
    <3>6. Len(results'[r]) <= 1
      BY <3>2
    <3> QED
      BY <3>3, <3>4, <3>5, <3>6, OneRequest
  <2> QED
    BY <2>2, <2>3
<1>5. ASSUME NEW r \in Requests, Submit(r) PROVE CallbackInv'
  <2>1. /\ pc[r] = "posted" /\ pc' = [pc EXCEPT ![r] = "over"]
        /\ timer' = [timer EXCEPT ![r] = "pending"]
        /\ stream' = [stream EXCEPT ![r] = "open"]
        /\ UNCHANGED <<cb_invoked, results>>
    BY <1>5 DEF Submit, Goto
  <2>2. results[r] = <<>> /\ Len(results[r]) <= 1
    BY <2>1 DEF CallbackInv, OneOutcome
  <2>3. TaskTypes' /\ Others(r)
    BY <2>1 DEF CallbackInv, TaskTypes, Others
  <2>4. pc'[r] = "over"
    BY <2>1 DEF CallbackInv, TaskTypes
  <2> QED
    BY <2>1, <2>2, <2>3, <2>4, OneRequest
<1>6. ASSUME NEW r \in Requests, SubmitFails(r) PROVE CallbackInv'
  <2>1. /\ pc[r] = "posted" /\ pc' = [pc EXCEPT ![r] = "over"]
        /\ timer' = [timer EXCEPT ![r] = "aborted"]
        /\ UNCHANGED stream /\ cbOnce(r, -3)
    BY <1>6 DEF SubmitFails, Goto
  <2>2. results[r] = <<>> /\ Len(results[r]) <= 1
    BY <2>1 DEF CallbackInv, OneOutcome
  <2>3. /\ results' \in [Requests -> Seq(Code)] /\ cb_invoked' \in [Requests -> BOOLEAN]
        /\ cb_invoked'[r] /\ Len(results'[r]) <= 1
        /\ \A q \in Requests : q # r =>
              results'[q] = results[q] /\ cb_invoked'[q] = cb_invoked[q]
    BY <2>1, <2>2, GuardedOutcome DEF CallbackInv, Code
  <2>4. TaskTypes' /\ Others(r) /\ pc'[r] = "over"
    BY <2>1, <2>3 DEF CallbackInv, TaskTypes, Others
  <2> QED
    BY <2>3, <2>4, OneRequest
<1>7. ASSUME NEW r \in Requests, OnResponse(r) PROVE CallbackInv'
  <2>1. /\ stream[r] = "open" /\ UNCHANGED <<pc, timer, cb_invoked, results>>
        /\ \E label \in {"ignored", "responded"} : stream' = [stream EXCEPT ![r] = label]
    BY <1>7 DEF OnResponse
  <2> QED
    BY <2>1 DEF CallbackInv, TaskTypes, OneOutcome, Untouched
<1>8. ASSUME NEW r \in Requests, TimerExpires(r) PROVE CallbackInv'
  <2>1. /\ timer[r] = "pending" /\ timer' = [timer EXCEPT ![r] = "expired"]
        /\ UNCHANGED <<pc, stream, cb_invoked, results>>
    BY <1>8 DEF TimerExpires
  <2> QED
    BY <2>1 DEF CallbackInv, TaskTypes, OneOutcome, Untouched
<1>9. ASSUME NEW r \in Requests, OnDataEnd(r) \/ OnClose(r) \/ TimerHandler(r)
      PROVE  CallbackInv'
  <2>1. /\ ~Untouched(r) /\ UNCHANGED pc
        /\ \E state \in {"pending", "aborted", "over", timer[r]} :
              timer' = [timer EXCEPT ![r] = state]
        /\ \E state \in {"answered", "closed", stream[r]} :
              stream' = [stream EXCEPT ![r] = state]
    BY <1>9 DEF CallbackInv, TaskTypes, OnDataEnd, OnClose, TimerHandler, Cancelled, Untouched
  <2>2. \/ UNCHANGED <<cb_invoked, results>>
        \/ \E code \in Code : cbOnce(r, code)
    BY <1>9 DEF OnDataEnd, OnClose, TimerHandler, Code
  <2>3. /\ pc[r] = "over" /\ Len(results[r]) <= 1
        /\ ~cb_invoked[r] => results[r] = <<>>
    BY <2>1 DEF CallbackInv, OneOutcome
  <2>4. /\ results' \in [Requests -> Seq(Code)] /\ cb_invoked' \in [Requests -> BOOLEAN]
        /\ Len(results'[r]) <= 1
        /\ ~cb_invoked'[r] => results'[r] = <<>>
        /\ \A q \in Requests : q # r =>
              results'[q] = results[q] /\ cb_invoked'[q] = cb_invoked[q]
    <3>1. CASE UNCHANGED <<cb_invoked, results>>
      <4>1. results \in [Requests -> Seq(Code)] /\ cb_invoked \in [Requests -> BOOLEAN]
        BY DEF CallbackInv, TaskTypes
      <4> QED
        BY <2>3, <3>1, <4>1
    <3>2. CASE \E code \in Code : cbOnce(r, code)
      <4>1. PICK code \in Code : cbOnce(r, code)
        BY <3>2
      <4>2. TaskTypes
        BY DEF CallbackInv
      <4> QED
        BY <2>3, <4>1, <4>2, GuardedOutcome
    <3> QED
      BY <2>2, <3>1, <3>2
  <2>5. TaskTypes'
    <3> DEFINE TimerStates == {"null", "pending", "expired", "aborted", "over"}
               StreamStates == {"none", "open", "ignored", "responded", "answered", "closed"}
    <3>1. timer \in [Requests -> TimerStates] /\ stream \in [Requests -> StreamStates]
      BY DEF CallbackInv, TaskTypes
    <3>2. timer' \in [Requests -> TimerStates]
      <4>1. PICK state \in {"pending", "aborted", "over", timer[r]} :
               timer' = [timer EXCEPT ![r] = state]
        BY <2>1
      <4>2. state \in TimerStates
        BY <3>1
      <4> QED
        BY <3>1, <4>1, <4>2
    <3>3. stream' \in [Requests -> StreamStates]
      <4>1. PICK state \in {"answered", "closed", stream[r]} :
               stream' = [stream EXCEPT ![r] = state]
        BY <2>1
      <4>2. state \in StreamStates
        BY <3>1
      <4> QED
        BY <3>1, <4>1, <4>2
    <3> QED
      BY <2>1, <2>4, <3>2, <3>3 DEF CallbackInv, TaskTypes
  <2>6. Others(r) /\ pc'[r] = "over"
    BY <2>1, <2>3, <2>4 DEF CallbackInv, TaskTypes, Others
  <2> QED
    BY <2>4, <2>5, <2>6, OneRequest
<1>10. ASSUME UNCHANGED <<pc, taskVars, results>> PROVE CallbackInv'
  BY <1>10 DEF CallbackInv, TaskTypes, OneOutcome, Untouched, taskVars
<1>11. ASSUME NEW r \in Requests, Reconnect(r) PROVE CallbackInv'
  BY <1>10, <1>11 DEF Reconnect
<1>12. ASSUME OnConnect \/ OnError \/ UNCHANGED vars PROVE CallbackInv'
  BY <1>10, <1>12 DEF OnConnect, OnError, vars
<1> QED
  BY <1>1, <1>2, <1>3, <1>4, <1>5, <1>6, <1>7, <1>8, <1>9, <1>11, <1>12
     DEF Next, Progress, Timer

\* However submission, timer and callbacks of the stream interleave, the callback
\* of a request is invoked at most once (Http2Client.cpp, async_send()).
THEOREM CalledAtMostOnce == Spec => []CallbackAtMostOnce
<1>1. Init => CallbackInv
  BY DEF Init, CallbackInv, TaskTypes, OneOutcome, Untouched
<1>2. CallbackInv /\ [Next]_vars => CallbackInv'
  BY CallbackStep
<1>3. CallbackInv => CallbackAtMostOnce
  BY DEF CallbackInv, OneOutcome, CallbackAtMostOnce
<1> QED
  BY <1>1, <1>2, <1>3, PTL DEF Spec

-----------------------------------------------------------------------------
(***************************************************************************)
(* A delayed request cannot reconnect.  While it tries, no callback of the *)
(* connection runs, so the status it renewed stays as it is.               *)
(***************************************************************************)
DelayedInv ==
    /\ (\A r \in Requests : pc[r] # "reconnect") => at = "idle"
    /\ \A r \in Delayed : pc[r] = "reconnect" =>
          at # "connected" /\ (at = "wait" => status_ # "OPEN")

\* A delayed request that reconnects keeps the io thread, and with it on_connect.
LEMMA DelayedStep == ASSUME TaskTypes, DelayedInv, [Next]_vars PROVE DelayedInv'
<1> USE ClientAssumption DEF DelayedInv
<1>1. ASSUME OnConnect \/ OnError PROVE DelayedInv'
  <2>1. UNCHANGED <<pc, at>> /\ \A r \in Delayed : pc[r] # "reconnect"
    BY <1>1 DEF OnConnect, OnError, IoFree, Connection!OnConnect, Connection!OldOnConnect,
          Connection!OnError, Connection!OldOnError
  <2> QED
    BY <2>1
<1>2. ASSUME NEW r \in Requests, Reconnect(r) PROVE DelayedInv'
  <2>1. pc[r] = "reconnect" /\ UNCHANGED pc
    BY <1>2 DEF Reconnect
  <2>2. at' \in {"connected", "wait"} =>
           \/ at' = "wait" /\ status_' = "NOT_OPEN"
           \/ at = "wait" /\ at' = "connected" /\ status_ = "OPEN"
    BY <1>2 DEF Reconnect, Connection!ReconnectStep, Connection!BeginReconnect,
          Connection!DropSession, Connection!CreateSession, Connection!CreateFails,
          Connection!RenewStatus, Connection!WaitReturns, Connection!isConnected
  <2> QED
    BY <2>1, <2>2
<1>3. ASSUME NEW r \in Requests, ReconnectReturns(r) PROVE DelayedInv'
  BY <1>3 DEF ReconnectReturns, Connection!ReconnectReturns
<1>4. ASSUME NEW r \in Requests, Lock(r) PROVE DelayedInv'
  BY <1>4 DEF Lock, connVars, Goto, TaskTypes
<1>5. ASSUME NEW r \in Requests, SubmitFails(r) PROVE DelayedInv'
  BY <1>5 DEF SubmitFails, Connection!notifyClose, Goto, TaskTypes
<1>6. ASSUME NEW r \in Requests,
             \/ AsyncSendDelayed(r) \/ AsyncSend(r) \/ LockTimesOut(r) \/ Recheck(r)
             \/ Submit(r)
      PROVE  DelayedInv'
  <2>1. pc[r] # "reconnect" /\ UNCHANGED connVars
    BY <1>6 DEF AsyncSendDelayed, AsyncSend, LockTimesOut, Recheck, Submit
  <2>2. \E label \in {"delay", "lock", "recheck", "posted", "over"} :
           pc' = [pc EXCEPT ![r] = label]
    BY <1>6 DEF AsyncSendDelayed, AsyncSend, LockTimesOut, Recheck, Submit, SendOrGoto, Goto
  <2> QED
    BY <2>1, <2>2 DEF connVars, TaskTypes
<1>7. ASSUME NEW r \in Requests, Timer(r) \/ OnResponse(r) \/ OnDataEnd(r) \/ OnClose(r)
      PROVE  DelayedInv'
  BY <1>7 DEF Timer, TimerExpires, TimerHandler, OnResponse, OnDataEnd, OnClose, connVars
<1>8. CASE UNCHANGED vars
  BY <1>8 DEF vars, connVars
<1> QED
  BY <1>1, <1>2, <1>3, <1>4, <1>5, <1>6, <1>7, <1>8 DEF Next, Progress

\* In every reachable state a request is told at most one outcome (the strengthening
\* the theorems below start from).
LEMMA CallbackInvHolds == Spec => []CallbackInv
<1>1. Init => CallbackInv
  BY DEF Init, CallbackInv, TaskTypes, OneOutcome, Untouched
<1> QED
  BY <1>1, CallbackStep, PTL DEF Spec

\* No delayed request ever reconnects: it waits on the thread that would have to
\* run on_connect (Http2Client.cpp, asyncSend()).
THEOREM DelayedNeverReconnect == Spec => []DelayedRequestsCannotReconnect
<1>1. Init => DelayedInv
  BY ClientAssumption DEF Init, Connection!Init, DelayedInv
<1>2. CallbackInv /\ DelayedInv /\ [Next]_vars => DelayedInv'
  BY DelayedStep DEF CallbackInv
<1>3. DelayedInv => DelayedRequestsCannotReconnect
  BY DEF DelayedInv, DelayedRequestsCannotReconnect
<1> QED
  BY <1>1, <1>2, <1>3, CallbackInvHolds, PTL DEF Spec

-----------------------------------------------------------------------------
(***************************************************************************)
(* The client implements ClientRequest.                                    *)
(***************************************************************************)
RequestStep == [Request!Next]_(Request!vars)

\* async_send() before it has posted the request.
Sending == {"delay", "lock", "reconnect", "recheck"}

\* Where a request is, from its own variables.
LEMMA PhaseOf ==
    ASSUME TaskTypes, NEW r \in Requests
    PROVE  /\ results[r] # <<>> => RequestPhase[r] = "told"
           /\ results[r] = <<>> /\ pc[r] = "idle" => RequestPhase[r] = "idle"
           /\ results[r] = <<>> /\ pc[r] = "posted" => RequestPhase[r] = "posted"
           /\ results[r] = <<>> /\ pc[r] = "over" => RequestPhase[r] = "submitted"
           /\ results[r] = <<>> /\ pc[r] \in Sending => RequestPhase[r] = "sending"
  BY DEF RequestPhase, TaskTypes, Sending

\* A step that leaves pc and the results alone is no step of the requests.
LEMMA PhaseKept == ASSUME UNCHANGED <<pc, results>> PROVE RequestStep
  BY DEF RequestStep, RequestPhase, Request!vars

\* A step that moves one request and tells it nothing.
LEMMA PhaseMoves ==
    ASSUME TaskTypes, NEW r \in Requests, NEW label, UNCHANGED results,
           pc' = [pc EXCEPT ![r] = label], results[r] = <<>>,
           \/ pc[r] \in {"idle"} \union Sending /\ label \in Sending
           \/ pc[r] \in {"idle"} \union Sending /\ label = "posted"
           \/ pc[r] = "posted" /\ label = "over"
    PROVE  RequestStep
<1> USE DEF RequestStep, Request!Next, Request!Become, Sending
<1>1. CASE label \in Sending
  <2>1. RequestPhase' = [RequestPhase EXCEPT ![r] = "sending"]
    BY <1>1 DEF RequestPhase, TaskTypes
  <2>2. CASE pc[r] = "idle"
    BY <1>1, <2>1, <2>2, PhaseOf DEF Request!Send
  <2>3. CASE pc[r] \in Sending
    <3>1. RequestPhase[r] = "sending" /\ RequestPhase' = RequestPhase
      BY <2>1, <2>3, PhaseOf DEF RequestPhase
    <3> QED
      BY <3>1 DEF Request!vars
  <2> QED
    BY <1>1, <2>2, <2>3
<1>2. CASE label = "posted"
  <2>1. RequestPhase' = [RequestPhase EXCEPT ![r] = "posted"]
    BY <1>2 DEF RequestPhase, TaskTypes
  <2>2. RequestPhase[r] \in {"idle", "sending"}
    BY <1>2, PhaseOf
  <2> QED
    BY <2>1, <2>2 DEF Request!Post
<1>3. CASE label = "over"
  <2>1. RequestPhase' = [RequestPhase EXCEPT ![r] = "submitted"]
    BY <1>3 DEF RequestPhase, TaskTypes
  <2>2. RequestPhase[r] = "posted"
    BY <1>3, PhaseOf
  <2> QED
    BY <2>1, <2>2 DEF Request!Submit
<1> QED
  BY <1>1, <1>2, <1>3

\* A step that tells a request its outcome.
LEMMA PhaseTold ==
    ASSUME TaskTypes, NEW r \in Requests, NEW code \in Code, cb(r, code),
           results[r] = <<>>, \A q \in Requests : q # r => pc'[q] = pc[q],
           \/ pc[r] = "recheck" /\ code = -1
           \/ pc[r] = "posted" /\ code = -3
           \/ pc[r] = "over" /\ code \in {ANSWER, -2, -4}
    PROVE  RequestStep
<1>1. results' = [results EXCEPT ![r] = <<code>>]
  BY DEF cb
<1>2. RequestPhase' = [RequestPhase EXCEPT ![r] = "told"]
  <2>1. results'[r] = <<code>> /\ <<code>> # <<>>
    BY <1>1 DEF TaskTypes
  <2>2. \A q \in Requests : q # r => results'[q] = results[q] /\ pc'[q] = pc[q]
    BY <1>1 DEF TaskTypes
  <2> QED
    BY <2>1, <2>2 DEF RequestPhase
<1>3. Request!Tell(r, code)
  BY <1>1, <1>2 DEF Request!Tell, Request!Become
<1> QED
  BY <1>3, PhaseOf DEF RequestStep, Request!Next, Request!Unsent, Request!NotSubmitted,
     Request!Outcome, Sending

\* Each step of the client is a step of ClientRequest or a stutter.
LEMMA RequestStepOfEach == ASSUME CallbackInv, [Next]_vars PROVE RequestStep
<1> USE DEF CallbackInv
<1>1. ASSUME NEW r \in Requests, AsyncSendDelayed(r) PROVE RequestStep
  <2>1. pc[r] = "idle" /\ pc' = [pc EXCEPT ![r] = "delay"] /\ UNCHANGED results
    BY <1>1 DEF AsyncSendDelayed, Goto
  <2> QED
    BY <2>1, PhaseMoves DEF OneOutcome, Sending
<1>2. ASSUME NEW r \in Requests, AsyncSend(r) PROVE RequestStep
  <2>1. pc[r] \in {"idle", "delay"} /\ UNCHANGED results
    BY <1>2 DEF AsyncSend
  <2>2. PICK label \in {"posted", "lock"} : pc' = [pc EXCEPT ![r] = label]
    BY <1>2 DEF AsyncSend, SendOrGoto, Goto
  <2> QED
    BY <2>1, <2>2, PhaseMoves DEF OneOutcome, Sending
<1>3. ASSUME NEW r \in Requests, Lock(r) \/ LockTimesOut(r) \/ ReconnectReturns(r)
      PROVE  RequestStep
  <2>1. pc[r] \in {"lock", "reconnect"} /\ UNCHANGED results
    BY <1>3 DEF Lock, LockTimesOut, ReconnectReturns
  <2>2. PICK label \in {"recheck", "reconnect"} : pc' = [pc EXCEPT ![r] = label]
    BY <1>3 DEF Lock, LockTimesOut, ReconnectReturns, Goto
  <2> QED
    BY <2>1, <2>2, PhaseMoves DEF OneOutcome, Sending
<1>4. ASSUME NEW r \in Requests, Recheck(r) PROVE RequestStep
  <2>1. pc[r] = "recheck" /\ results[r] = <<>>
    BY <1>4 DEF Recheck, OneOutcome
  <2>2. CASE isConnected
    <3>1. pc' = [pc EXCEPT ![r] = "posted"] /\ UNCHANGED results
      BY <1>4, <2>2 DEF Recheck, SendOrGoto, Goto
    <3> QED
      BY <2>1, <3>1, PhaseMoves DEF Sending
  <2>3. CASE ~isConnected
    <3>1. pc' = [pc EXCEPT ![r] = "over"] /\ cb(r, -1)
      BY <1>4, <2>3 DEF Recheck, SendOrGoto, Goto
    <3>2. \A q \in Requests : q # r => pc'[q] = pc[q]
      BY <3>1 DEF TaskTypes
    <3> QED
      BY <2>1, <3>1, <3>2, PhaseTold DEF Code
  <2> QED
    BY <2>2, <2>3
<1>5. ASSUME NEW r \in Requests, Submit(r) PROVE RequestStep
  <2>1. pc[r] = "posted" /\ pc' = [pc EXCEPT ![r] = "over"] /\ UNCHANGED results
    BY <1>5 DEF Submit, Goto
  <2> QED
    BY <2>1, PhaseMoves DEF OneOutcome, Sending
<1>6. ASSUME NEW r \in Requests, SubmitFails(r) PROVE RequestStep
  <2>1. /\ pc[r] = "posted" /\ pc' = [pc EXCEPT ![r] = "over"]
        /\ results[r] = <<>> /\ ~cb_invoked[r] /\ cbOnce(r, -3)
    BY <1>6 DEF SubmitFails, Goto, OneOutcome, Untouched
  <2>2. cb(r, -3) /\ \A q \in Requests : q # r => pc'[q] = pc[q]
    BY <2>1 DEF cbOnce, TaskTypes
  <2> QED
    BY <2>1, <2>2, PhaseTold DEF Code
<1>7. ASSUME NEW r \in Requests, OnDataEnd(r) \/ OnClose(r) \/ TimerHandler(r)
      PROVE  RequestStep
  <2>1. /\ ~Untouched(r) /\ UNCHANGED pc
        /\ \/ UNCHANGED results
           \/ \E code \in {ANSWER, -2, -4} : cbOnce(r, code)
    BY <1>7 DEF OnDataEnd, OnClose, TimerHandler, Untouched, TaskTypes
  <2>2. CASE UNCHANGED results
    BY <2>1, <2>2, PhaseKept
  <2>3. CASE results' # results
    <3>1. PICK code \in {ANSWER, -2, -4} : cbOnce(r, code)
      BY <2>1, <2>3
    <3>2. ~cb_invoked[r] /\ cb(r, code)
      BY <2>3, <3>1 DEF cbOnce
    <3>3. results[r] = <<>> /\ pc[r] = "over"
      BY <2>1, <3>2 DEF OneOutcome
    <3> QED
      BY <2>1, <3>2, <3>3, PhaseTold DEF Code
  <2> QED
    BY <2>2, <2>3
<1>8. ASSUME NEW r \in Requests, Reconnect(r) \/ OnResponse(r) \/ TimerExpires(r)
      PROVE  RequestStep
  BY <1>8, PhaseKept DEF Reconnect, OnResponse, TimerExpires
<1>9. CASE OnConnect \/ OnError \/ UNCHANGED vars
  BY <1>9, PhaseKept DEF OnConnect, OnError, vars
<1> QED
  BY <1>1, <1>2, <1>3, <1>4, <1>5, <1>6, <1>7, <1>8, <1>9 DEF Next, Progress, Timer

\* Whatever its threads and timers do, the client keeps the promise of ClientRequest:
\* one outcome, of the kind that belongs to where the request was
\* (Http2Client.cpp, async_send()).
THEOREM ClientKeepsRequest == Spec => KeepsRequest
<1>1. Init => Request!Init
  BY DEF Init, Request!Init, RequestPhase
<1>2. CallbackInv /\ [Next]_vars => [Request!Next]_(Request!vars)
  BY RequestStepOfEach DEF RequestStep
<1> QED
  BY <1>1, <1>2, CallbackInvHolds, PTL DEF Spec, KeepsRequest, Request!Spec

-----------------------------------------------------------------------------
(***************************************************************************)
(* The counters.  What makes them agree is that a timeout is counted with  *)
(* the flag that excludes the second one, and an answer with the step of   *)
(* the stream that can only be made once.                                  *)
(***************************************************************************)
CounterTypes ==
    /\ timed_out \in [Requests -> BOOLEAN]
    /\ sents \in [Requests -> Nat] /\ unsents \in [Requests -> Nat]
    /\ received \in [Requests -> Nat] /\ timedout \in [Requests -> Nat]

SendCounted(r) ==
    /\ sents[r] + unsents[r] = IF pc[r] \in {"posted", "over"} THEN 1 ELSE 0
    /\ unsents[r] = 1 <=> results[r] = <<-1>>

TimeoutCounted(r) ==
    /\ timedout[r] = IF timed_out[r] THEN 1 ELSE 0
    /\ results[r] = <<-2>> => timed_out[r]

AnswerCounted(r) ==
    /\ stream[r] \in {"none", "open", "ignored"} => received[r] = 0
    /\ stream[r] \in {"responded", "answered"} => received[r] = 1
    /\ received[r] <= 1
    /\ results[r] = <<ANSWER>> => received[r] = 1

CounterInv ==
    /\ CounterTypes
    /\ \A r \in Requests : SendCounted(r) /\ TimeoutCounted(r) /\ AnswerCounted(r)

\* A guarded callback leaves the results alone or gives a request its first one.
LEMMA FirstOrNone ==
    ASSUME CallbackInv, NEW r \in Requests, NEW code \in Code, cbOnce(r, code),
           pc[r] = "posted" \/ ~Untouched(r)
    PROVE  /\ \/ results'[r] = results[r]
              \/ results[r] = <<>> /\ results'[r] = <<code>>
           /\ \A q \in Requests : q # r => results'[q] = results[q]
<1>1. CASE cb_invoked[r]
  BY <1>1 DEF cbOnce
<1>2. CASE ~cb_invoked[r]
  <2>1. results[r] = <<>> /\ results' = [results EXCEPT ![r] = Append(results[r], code)]
    BY <1>2 DEF CallbackInv, OneOutcome, cbOnce, cb
  <2> QED
    BY <2>1 DEF CallbackInv, TaskTypes
<1> QED
  BY <1>1, <1>2

\* The requests but r keep what CounterInv says of them.
LEMMA CountOne ==
    ASSUME CallbackInv, CounterInv, NEW r \in Requests, CounterTypes',
           SendCounted(r)', TimeoutCounted(r)', AnswerCounted(r)',
           \A q \in Requests : q # r =>
              /\ pc'[q] = pc[q] /\ results'[q] = results[q] /\ stream'[q] = stream[q]
              /\ timed_out'[q] = timed_out[q] /\ sents'[q] = sents[q]
              /\ unsents'[q] = unsents[q] /\ received'[q] = received[q]
              /\ timedout'[q] = timedout[q]
    PROVE  CounterInv'
  BY DEF CounterInv, SendCounted, TimeoutCounted, AnswerCounted

\* A counter moves together with the outcome or the submission it counts.
LEMMA CounterStep == ASSUME CallbackInv, CounterInv, [Next]_vars PROVE CounterInv'
<1> DEFINE OthersKept(r) == \A q \in Requests : q # r =>
              /\ pc'[q] = pc[q] /\ results'[q] = results[q] /\ stream'[q] = stream[q]
              /\ timed_out'[q] = timed_out[q] /\ sents'[q] = sents[q]
              /\ unsents'[q] = unsents[q] /\ received'[q] = received[q]
              /\ timedout'[q] = timedout[q]
<1>1. ASSUME NEW r \in Requests, AsyncSendDelayed(r) PROVE CounterInv'
  BY <1>1 DEF AsyncSendDelayed, Goto, taskVars, metricVars, CallbackInv, TaskTypes,
     CounterInv, CounterTypes, SendCounted, TimeoutCounted, AnswerCounted
<1>2. ASSUME NEW r \in Requests, AsyncSend(r) PROVE CounterInv'
  <2>1. /\ pc[r] \in {"idle", "delay"} /\ sents[r] = 0 /\ unsents[r] = 0
        /\ UNCHANGED <<stream, timed_out, results, unsents, received, timedout>>
    BY <1>2 DEF AsyncSend, taskVars, CounterInv, CounterTypes, SendCounted
  <2>2. /\ \/ pc' = [pc EXCEPT ![r] = "posted"] /\ sents' = [sents EXCEPT ![r] = sents[r] + 1]
           \/ pc' = [pc EXCEPT ![r] = "lock"] /\ sents' = sents
    BY <1>2 DEF AsyncSend, SendOrGoto, Goto
  <2>3. /\ CounterTypes'
        /\ \/ pc'[r] = "posted" /\ sents'[r] = 1
           \/ pc'[r] = "lock" /\ sents'[r] = 0
        /\ \A q \in Requests : q # r => pc'[q] = pc[q] /\ sents'[q] = sents[q]
    <3>1. CounterTypes
      BY DEF CounterInv
    <3>2. DOMAIN pc = Requests
      BY DEF CallbackInv, TaskTypes
    <3>3. CASE pc' = [pc EXCEPT ![r] = "posted"] /\ sents' = [sents EXCEPT ![r] = sents[r] + 1]
      <4>1. CounterTypes'
        BY <2>1, <3>1, <3>3 DEF CounterTypes
      <4>2. pc'[r] = "posted" /\ \A q \in Requests : q # r => pc'[q] = pc[q]
        BY <3>2, <3>3
      <4>3. sents'[r] = 1 /\ \A q \in Requests : q # r => sents'[q] = sents[q]
        BY <2>1, <3>1, <3>3 DEF CounterTypes
      <4> QED
        BY <4>1, <4>2, <4>3
    <3>4. CASE pc' = [pc EXCEPT ![r] = "lock"] /\ sents' = sents
      <4>1. CounterTypes'
        BY <2>1, <3>1, <3>4 DEF CounterTypes
      <4>2. pc'[r] = "lock" /\ \A q \in Requests : q # r => pc'[q] = pc[q]
        BY <3>2, <3>4
      <4> QED
        BY <2>1, <3>4, <4>1, <4>2
    <3> QED
      BY <2>2, <3>3, <3>4
  <2>4. SendCounted(r)'
    BY <2>1, <2>3 DEF CounterInv, SendCounted
  <2>5. TimeoutCounted(r)' /\ AnswerCounted(r)'
    BY <2>1 DEF CounterInv, TimeoutCounted, AnswerCounted
  <2>6. OthersKept(r)
    BY <2>1, <2>3
  <2> QED
    BY <2>3, <2>4, <2>5, <2>6, CountOne
<1>3. ASSUME NEW r \in Requests, Lock(r) \/ LockTimesOut(r) \/ ReconnectReturns(r)
      PROVE  CounterInv'
  <2>1. pc[r] \in {"lock", "reconnect"} /\ UNCHANGED <<taskVars, results, metricVars>>
    BY <1>3 DEF Lock, LockTimesOut, ReconnectReturns
  <2>2. PICK label \in {"recheck", "reconnect"} : pc' = [pc EXCEPT ![r] = label]
    BY <1>3 DEF Lock, LockTimesOut, ReconnectReturns, Goto
  <2> QED
    BY <2>1, <2>2 DEF taskVars, metricVars, CallbackInv, TaskTypes,
       CounterInv, CounterTypes, SendCounted, TimeoutCounted, AnswerCounted
<1>4. ASSUME NEW r \in Requests, Recheck(r) PROVE CounterInv'
  <2>1. /\ pc[r] = "recheck" /\ results[r] = <<>> /\ sents[r] = 0 /\ unsents[r] = 0
        /\ UNCHANGED <<stream, timed_out, received, timedout>>
    BY <1>4 DEF Recheck, taskVars, CallbackInv, OneOutcome,
       CounterInv, CounterTypes, SendCounted
  <2>2. \/ /\ pc' = [pc EXCEPT ![r] = "posted"]
           /\ sents' = [sents EXCEPT ![r] = sents[r] + 1]
           /\ UNCHANGED <<unsents, results>>
        \/ /\ pc' = [pc EXCEPT ![r] = "over"]
           /\ unsents' = [unsents EXCEPT ![r] = unsents[r] + 1]
           /\ UNCHANGED sents
           /\ results' = [results EXCEPT ![r] = Append(results[r], -1)]
    BY <1>4 DEF Recheck, SendOrGoto, Goto, cb
  <2>3. /\ \/ /\ pc'[r] = "posted" /\ sents'[r] = 1 /\ unsents'[r] = 0
              /\ results'[r] = <<>>
           \/ /\ pc'[r] = "over" /\ sents'[r] = 0 /\ unsents'[r] = 1
              /\ results'[r] = <<-1>>
        /\ CounterTypes' /\ OthersKept(r)
    <3>1. DOMAIN pc = Requests /\ results \in [Requests -> Seq(Code)]
      <4>1. DOMAIN pc = Requests
        BY DEF CallbackInv, TaskTypes
      <4>2. results \in [Requests -> Seq(Code)]
        BY DEF CallbackInv, TaskTypes
      <4> QED
        BY <4>1, <4>2
    <3>2. CounterTypes
      BY DEF CounterInv
    <3>3. CASE pc' = [pc EXCEPT ![r] = "posted"] /\ UNCHANGED <<unsents, results>>
               /\ sents' = [sents EXCEPT ![r] = sents[r] + 1]
      BY <2>1, <3>1, <3>2, <3>3 DEF CounterTypes
    <3>4. CASE /\ pc' = [pc EXCEPT ![r] = "over"] /\ UNCHANGED sents
               /\ unsents' = [unsents EXCEPT ![r] = unsents[r] + 1]
               /\ results' = [results EXCEPT ![r] = Append(results[r], -1)]
      <4>1. results'[r] = <<-1>>
        BY <2>1, <3>1, <3>4
      <4>2. \A q \in Requests : q # r => results'[q] = results[q]
        BY <3>1, <3>4
      <4> QED
        BY <2>1, <3>1, <3>2, <3>4, <4>1, <4>2 DEF CounterTypes
    <3> QED
      BY <2>2, <3>3, <3>4
  <2>4. SendCounted(r)'
    BY <2>3 DEF SendCounted
  <2>5. TimeoutCounted(r)' /\ AnswerCounted(r)'
    BY <2>1, <2>3 DEF CounterInv, TimeoutCounted, AnswerCounted, ANSWER
  <2> QED
    BY <2>3, <2>4, <2>5, CountOne
<1>5. ASSUME NEW r \in Requests, Submit(r) PROVE CounterInv'
  <2>1. Untouched(r)
    BY <1>5 DEF Submit, CallbackInv, OneOutcome
  <2> QED
    BY <1>5, <2>1 DEF Submit, Goto, metricVars, CallbackInv, TaskTypes, Untouched,
       CounterInv, CounterTypes, SendCounted, TimeoutCounted, AnswerCounted
<1>6. ASSUME NEW r \in Requests, SubmitFails(r) PROVE CounterInv'
  <2>1. /\ pc[r] = "posted" /\ cbOnce(r, -3) /\ UNCHANGED <<stream, timed_out, metricVars>>
        /\ pc' = [pc EXCEPT ![r] = "over"]
    BY <1>6 DEF SubmitFails, Goto
  <2>2. /\ \/ results'[r] = results[r]
           \/ results[r] = <<>> /\ results'[r] = <<-3>>
        /\ \A q \in Requests : q # r => results'[q] = results[q]
    BY <2>1, FirstOrNone DEF Code
  <2>3. pc'[r] = "over" /\ CounterTypes' /\ OthersKept(r)
    BY <2>1, <2>2 DEF metricVars, CallbackInv, TaskTypes, CounterInv, CounterTypes
  <2>4. SendCounted(r)'
    BY <2>1, <2>2, <2>3 DEF metricVars, CounterInv, SendCounted
  <2>5. TimeoutCounted(r)' /\ AnswerCounted(r)'
    BY <2>1, <2>2 DEF metricVars, CounterInv, TimeoutCounted, AnswerCounted, ANSWER
  <2> QED
    BY <2>3, <2>4, <2>5, CountOne
<1>7. ASSUME NEW r \in Requests, OnResponse(r) PROVE CounterInv'
  <2>1. /\ stream[r] = "open" /\ UNCHANGED <<pc, timed_out, results, sents, unsents, timedout>>
        /\ \/ stream' = [stream EXCEPT ![r] = "ignored"] /\ UNCHANGED received
           \/ /\ ~timed_out[r] /\ stream' = [stream EXCEPT ![r] = "responded"]
              /\ received' = [received EXCEPT ![r] = received[r] + 1]
    BY <1>7 DEF OnResponse
  <2>2. /\ CounterTypes'
        /\ \A q \in Requests : q # r => stream'[q] = stream[q] /\ received'[q] = received[q]
        /\ \/ stream'[r] = "ignored" /\ received'[r] = received[r]
           \/ stream'[r] = "responded" /\ received'[r] = received[r] + 1
    <3>1. CounterTypes /\ DOMAIN stream = Requests
      BY DEF CallbackInv, TaskTypes, CounterInv
    <3>2. CASE stream' = [stream EXCEPT ![r] = "ignored"] /\ UNCHANGED received
      BY <2>1, <3>1, <3>2 DEF CounterTypes
    <3>3. CASE /\ stream' = [stream EXCEPT ![r] = "responded"]
               /\ received' = [received EXCEPT ![r] = received[r] + 1]
      BY <2>1, <3>1, <3>3 DEF CounterTypes
    <3> QED
      BY <2>1, <3>2, <3>3
  <2>3. OthersKept(r)
    BY <2>1, <2>2
  <2>4. SendCounted(r)' /\ TimeoutCounted(r)'
    BY <2>1 DEF CounterInv, SendCounted, TimeoutCounted
  <2>5. AnswerCounted(r)'
    BY <2>1, <2>2 DEF CounterInv, CounterTypes, AnswerCounted
  <2> QED
    BY <2>2, <2>3, <2>4, <2>5, CountOne
<1>8. ASSUME NEW r \in Requests, OnDataEnd(r) PROVE CounterInv'
  <2>1. /\ stream[r] = "responded" /\ stream' = [stream EXCEPT ![r] = "answered"]
        /\ cbOnce(r, ANSWER) /\ UNCHANGED <<pc, timed_out, metricVars>>
    BY <1>8 DEF OnDataEnd
  <2>2. /\ \/ results'[r] = results[r]
           \/ results[r] = <<>> /\ results'[r] = <<ANSWER>>
        /\ \A q \in Requests : q # r => results'[q] = results[q]
    BY <2>1, FirstOrNone DEF Code, Untouched
  <2>3. stream'[r] = "answered" /\ CounterTypes' /\ OthersKept(r)
    BY <2>1, <2>2 DEF metricVars, CallbackInv, TaskTypes, CounterInv, CounterTypes
  <2>4. SendCounted(r)' /\ TimeoutCounted(r)'
    BY <2>1, <2>2 DEF metricVars, CounterInv, SendCounted, TimeoutCounted, ANSWER
  <2>5. AnswerCounted(r)'
    BY <2>1, <2>2, <2>3 DEF metricVars, CounterInv, AnswerCounted
  <2> QED
    BY <2>3, <2>4, <2>5, CountOne
<1>9. ASSUME NEW r \in Requests, OnClose(r) PROVE CounterInv'
  <2>1. /\ stream[r] \in {"open", "ignored", "responded", "answered"}
        /\ stream' = [stream EXCEPT ![r] = "closed"]
        /\ UNCHANGED results \/ cbOnce(r, -4)
        /\ UNCHANGED <<pc, timed_out, metricVars>>
    BY <1>9 DEF OnClose
  <2>2. /\ \/ results'[r] = results[r]
           \/ results[r] = <<>> /\ results'[r] = <<-4>>
        /\ \A q \in Requests : q # r => results'[q] = results[q]
    BY <2>1, FirstOrNone DEF Code, Untouched
  <2>3. stream'[r] = "closed" /\ CounterTypes' /\ OthersKept(r)
    BY <2>1, <2>2 DEF metricVars, CallbackInv, TaskTypes, CounterInv, CounterTypes
  <2>4. SendCounted(r)' /\ TimeoutCounted(r)'
    BY <2>1, <2>2 DEF metricVars, CounterInv, SendCounted, TimeoutCounted
  <2>5. AnswerCounted(r)'
    BY <2>1, <2>2, <2>3 DEF metricVars, CounterInv, AnswerCounted, ANSWER
  <2> QED
    BY <2>3, <2>4, <2>5, CountOne
<1>10. ASSUME NEW r \in Requests, TimerHandler(r) PROVE CounterInv'
  <2>1. timer[r] \in {"expired", "aborted"} /\ UNCHANGED <<pc, stream, sents, unsents, received>>
    BY <1>10 DEF TimerHandler
  <2>2. CASE timer[r] = "expired" /\ ~timed_out[r]
    <3>1. /\ timed_out' = [timed_out EXCEPT ![r] = TRUE]
          /\ timedout' = [timedout EXCEPT ![r] = timedout[r] + 1] /\ cbOnce(r, -2)
      BY <1>10, <2>2 DEF TimerHandler
    <3>2. /\ \/ results'[r] = results[r]
             \/ results[r] = <<>> /\ results'[r] = <<-2>>
          /\ \A q \in Requests : q # r => results'[q] = results[q]
      BY <2>1, <3>1, FirstOrNone DEF Code, Untouched
    <3>3. /\ timed_out' \in [Requests -> BOOLEAN] /\ timed_out'[r]
          /\ \A q \in Requests : q # r => timed_out'[q] = timed_out[q]
      BY <3>1 DEF CounterInv, CounterTypes
    <3>4. /\ timedout' \in [Requests -> Nat] /\ timedout'[r] = 1
          /\ \A q \in Requests : q # r => timedout'[q] = timedout[q]
      <4>1. timedout[r] = 0
        BY <2>2 DEF CounterInv, TimeoutCounted
      <4> QED
        BY <3>1, <4>1 DEF CounterInv, CounterTypes
    <3>5. CounterTypes'
      BY <2>1, <3>3, <3>4 DEF CounterInv, CounterTypes
    <3>6. OthersKept(r)
      BY <2>1, <3>2, <3>3, <3>4
    <3>7. SendCounted(r)' /\ AnswerCounted(r)'
      BY <2>1, <3>2 DEF CounterInv, SendCounted, AnswerCounted, ANSWER
    <3>8. TimeoutCounted(r)'
      BY <3>3, <3>4 DEF TimeoutCounted
    <3> QED
      BY <3>5, <3>6, <3>7, <3>8, CountOne
  <2>3. CASE ~(timer[r] = "expired" /\ ~timed_out[r])
    BY <1>10, <2>1, <2>3 DEF TimerHandler,
       CounterInv, CounterTypes, SendCounted, TimeoutCounted, AnswerCounted
  <2> QED
    BY <2>2, <2>3
<1>11. ASSUME NEW r \in Requests, Reconnect(r) \/ TimerExpires(r) PROVE CounterInv'
  BY <1>11 DEF Reconnect, TimerExpires, taskVars, metricVars,
     CounterInv, CounterTypes, SendCounted, TimeoutCounted, AnswerCounted
<1>12. CASE OnConnect \/ OnError \/ UNCHANGED vars
  BY <1>12 DEF OnConnect, OnError, vars, taskVars, metricVars,
     CounterInv, CounterTypes, SendCounted, TimeoutCounted, AnswerCounted
<1> QED
  BY <1>1, <1>2, <1>3, <1>4, <1>5, <1>6, <1>7, <1>8, <1>9, <1>10, <1>11, <1>12
     DEF Next, Progress, Timer

\* The invariant of the counters, in every reachable state.
LEMMA CounterInvHolds == Spec => []CounterInv
<1>1. Init => CounterInv
  BY DEF Init, CounterInv, CounterTypes, SendCounted, TimeoutCounted, AnswerCounted
<1>2. CallbackInv /\ CounterInv /\ [Next]_vars => CounterInv'
  BY CounterStep
<1> QED
  BY <1>1, <1>2, CallbackInvHolds, PTL DEF Spec

\* The counters of the metrics agree with what the application was told, for any
\* number of requests (Http2Client.cpp, async_send()).
THEOREM ClientCountersAgree == Spec => []CountersAgree
<1>1. CallbackInv /\ CounterInv => CountersAgree
  <2> SUFFICES ASSUME CallbackInv, CounterInv, NEW r \in Requests
               PROVE  /\ sents[r] + unsents[r] = IF pc[r] \in {"posted", "over"} THEN 1 ELSE 0
                      /\ unsents[r] = 1 <=> results[r] = <<-1>>
                      /\ results[r] = <<-2>> => timedout[r] = 1
                      /\ results[r] = <<ANSWER>> => received[r] = 1
                      /\ received[r] <= 1 /\ timedout[r] <= 1
    BY DEF CountersAgree
  <2> QED
    BY DEF CounterInv, SendCounted, TimeoutCounted, AnswerCounted
<1> QED
  BY <1>1, CallbackInvHolds, CounterInvHolds, PTL

(***************************************************************************)
(* Late answers.  As long as a stream is open and its timer has not been   *)
(* handled, the application knows nothing of the request: all else that    *)
(* tells it comes before the submission or ends the stream.                *)
(***************************************************************************)
OpenIsUntold ==
    \A r \in Requests : stream[r] = "open" /\ ~timed_out[r] => results[r] = <<>>

\* Each step keeps it: the step that tells an outcome also closes, answers or
\* times out the stream.
LEMMA UntoldStep ==
    ASSUME CallbackInv, CounterInv, OpenIsUntold, [Next]_vars PROVE OpenIsUntold'
<1>1. ASSUME NEW r \in Requests,
             AsyncSendDelayed(r) \/ AsyncSend(r) \/ Lock(r) \/ LockTimesOut(r)
                \/ ReconnectReturns(r) \/ Reconnect(r) \/ TimerExpires(r)
      PROVE  OpenIsUntold'
  BY <1>1 DEF AsyncSendDelayed, AsyncSend, Lock, LockTimesOut, ReconnectReturns,
     Reconnect, TimerExpires, taskVars, OpenIsUntold
<1>2. ASSUME NEW r \in Requests, Recheck(r) PROVE OpenIsUntold'
  <2>1. /\ stream[r] = "none" /\ UNCHANGED <<stream, timed_out>>
        /\ \A q \in Requests : q # r => results'[q] = results[q]
    <3>1. stream[r] = "none" /\ results \in [Requests -> Seq(Code)]
      BY <1>2 DEF Recheck, CallbackInv, TaskTypes, OneOutcome, Untouched
    <3> QED
      BY <1>2, <3>1 DEF Recheck, taskVars, cb
  <2> QED
    BY <2>1 DEF OpenIsUntold
<1>3. ASSUME NEW r \in Requests, Submit(r) PROVE OpenIsUntold'
  <2>1. /\ results[r] = <<>> /\ UNCHANGED <<timed_out, results>>
        /\ \A q \in Requests : q # r => stream'[q] = stream[q]
    BY <1>3 DEF Submit, CallbackInv, OneOutcome, TaskTypes
  <2> QED
    BY <2>1 DEF OpenIsUntold
<1>4. ASSUME NEW r \in Requests, SubmitFails(r) PROVE OpenIsUntold'
  <2>1. /\ pc[r] = "posted" /\ cbOnce(r, -3) /\ UNCHANGED <<stream, timed_out>>
    BY <1>4 DEF SubmitFails
  <2>2. stream[r] = "none"
    BY <2>1 DEF CallbackInv, OneOutcome, Untouched
  <2>3. \A q \in Requests : q # r => results'[q] = results[q]
    BY <2>1, FirstOrNone DEF Code
  <2> QED
    BY <2>1, <2>2, <2>3 DEF OpenIsUntold
<1>5. ASSUME NEW r \in Requests, OnResponse(r) PROVE OpenIsUntold'
  <2>1. UNCHANGED <<timed_out, results>>
    BY <1>5 DEF OnResponse
  <2>2. stream' \in {[stream EXCEPT ![r] = "ignored"], [stream EXCEPT ![r] = "responded"]}
    BY <1>5 DEF OnResponse
  <2>3. \A q \in Requests : stream'[q] = "open" => stream[q] = "open"
    BY <2>2 DEF CallbackInv, TaskTypes
  <2> QED
    BY <2>1, <2>3 DEF OpenIsUntold
<1>6. ASSUME NEW r \in Requests, OnDataEnd(r) PROVE OpenIsUntold'
  <2>1. /\ stream[r] = "responded" /\ stream' = [stream EXCEPT ![r] = "answered"]
        /\ cbOnce(r, ANSWER) /\ UNCHANGED timed_out
    BY <1>6 DEF OnDataEnd
  <2>2. \A q \in Requests : q # r => results'[q] = results[q]
    BY <2>1, FirstOrNone DEF Code, Untouched
  <2>3. stream'[r] # "open" /\ \A q \in Requests : q # r => stream'[q] = stream[q]
    BY <2>1 DEF CallbackInv, TaskTypes
  <2> QED
    BY <2>1, <2>2, <2>3 DEF OpenIsUntold
<1>7. ASSUME NEW r \in Requests, OnClose(r) PROVE OpenIsUntold'
  <2>1. /\ stream[r] \in {"open", "ignored", "responded", "answered"}
        /\ stream' = [stream EXCEPT ![r] = "closed"]
        /\ UNCHANGED results \/ cbOnce(r, -4)
        /\ UNCHANGED timed_out
    BY <1>7 DEF OnClose
  <2>2. \A q \in Requests : q # r => results'[q] = results[q]
    BY <2>1, FirstOrNone DEF Code, Untouched
  <2>3. stream'[r] # "open" /\ \A q \in Requests : q # r => stream'[q] = stream[q]
    BY <2>1 DEF CallbackInv, TaskTypes
  <2> QED
    BY <2>1, <2>2, <2>3 DEF OpenIsUntold
<1>8. ASSUME NEW r \in Requests, TimerHandler(r) PROVE OpenIsUntold'
  <2>1. timer[r] # "null" /\ UNCHANGED stream
    BY <1>8 DEF TimerHandler
  <2>2. CASE timer[r] = "expired" /\ ~timed_out[r]
    <3>1. timed_out' = [timed_out EXCEPT ![r] = TRUE] /\ cbOnce(r, -2)
      BY <1>8, <2>2 DEF TimerHandler
    <3>2. \A q \in Requests : q # r => results'[q] = results[q]
      BY <2>1, <3>1, FirstOrNone DEF Code, Untouched
    <3>3. timed_out'[r] /\ \A q \in Requests : q # r => timed_out'[q] = timed_out[q]
      BY <3>1 DEF CounterInv, CounterTypes
    <3> QED
      BY <2>1, <3>2, <3>3 DEF OpenIsUntold
  <2>3. CASE ~(timer[r] = "expired" /\ ~timed_out[r])
    BY <1>8, <2>1, <2>3 DEF TimerHandler, OpenIsUntold
  <2> QED
    BY <2>2, <2>3
<1>9. CASE OnConnect \/ OnError \/ UNCHANGED vars
  BY <1>9 DEF OnConnect, OnError, vars, taskVars, OpenIsUntold
<1> QED
  BY <1>1, <1>2, <1>3, <1>4, <1>5, <1>6, <1>7, <1>8, <1>9 DEF Next, Progress, Timer

\* Only on_response counts an answer, of an open stream that has not timed out.
LEMMA AnswerIsCounted ==
    ASSUME CallbackInv, CounterInv, OpenIsUntold, [Next]_vars, NEW r \in Requests,
           results[r] # <<>>
    PROVE  received'[r] = received[r]
<1>1. CASE UNCHANGED received
  BY <1>1
<1>2. ASSUME NEW q \in Requests, OnResponse(q) PROVE received'[r] = received[r]
  <2>1. CASE timed_out[q]
    BY <1>2, <2>1 DEF OnResponse
  <2>2. CASE ~timed_out[q]
    <3>1. stream[q] = "open" /\ received' = [received EXCEPT ![q] = received[q] + 1]
      BY <1>2, <2>2 DEF OnResponse
    <3>2. q # r
      BY <2>2, <3>1 DEF OpenIsUntold
    <3> QED
      BY <3>1, <3>2 DEF CounterInv, CounterTypes
  <2> QED
    BY <2>1, <2>2
<1> QED
  BY <1>1, <1>2 DEF Next, Progress, Timer, vars, metricVars, AsyncSendDelayed, AsyncSend,
     Lock, LockTimesOut, Reconnect, ReconnectReturns, Recheck, Submit, SubmitFails,
     OnDataEnd, OnClose, TimerExpires, TimerHandler, OnConnect, OnError

\* An answer that comes when the application has been told of the timeout is not
\* counted as received (Http2Client.cpp, on_response).
THEOREM LateAnswersIgnored == Spec => LateAnswersAreIgnored
<1>1. Init => OpenIsUntold
  BY DEF Init, OpenIsUntold
<1>2. CallbackInv /\ CounterInv /\ OpenIsUntold /\ [Next]_vars => OpenIsUntold'
  BY UntoldStep
<1>3. Spec => []OpenIsUntold
  BY <1>1, <1>2, CallbackInvHolds, CounterInvHolds, PTL DEF Spec
<1>4. CallbackInv /\ CounterInv /\ OpenIsUntold /\ [Next]_vars
        => [\A r \in Requests : results[r] # <<>> => received'[r] = received[r]]_vars
  BY AnswerIsCounted
<1> QED
  BY <1>3, <1>4, CallbackInvHolds, CounterInvHolds, PTL DEF Spec, LateAnswersAreIgnored

\* Every reachable state has its types.
THEOREM ClientTypes == Spec => []TypeOK
<1>1. Init => ConnectionInv
  BY DEF Init, Connection!Init, ConnectionInv, OpenIsNews, Connection!TypeOK
<1>2. Spec => []ConnectionInv
  BY <1>1, ConnectionInvStep, StepsOfTheConnection, PTL DEF Spec
<1>3. ConnectionInv /\ CallbackInv /\ CounterInv => TypeOK
  BY DEF ConnectionInv, CallbackInv, TaskTypes, CounterInv, CounterTypes, Code, TypeOK
<1> QED
  BY <1>2, <1>3, CallbackInvHolds, CounterInvHolds, PTL

-----------------------------------------------------------------------------
(***************************************************************************)
(* Nothing is forgotten.  NothingIsForgotten is inductive: a step that     *)
(* takes the last handler away from a request tells it an outcome.         *)
(***************************************************************************)
Remembered(r) ==
    /\ cb_invoked[r] \/ timed_out[r] => results[r] # <<>>
    /\ pc[r] = "over" /\ results[r] = <<>> => timer[r] \in {"pending", "expired"}

\* What a step of one request has to keep.
LEMMA RememberOne ==
    ASSUME NothingIsForgotten, NEW r \in Requests, Remembered(r)',
           \A q \in Requests : q # r =>
              /\ pc'[q] = pc[q] /\ results'[q] = results[q] /\ timer'[q] = timer[q]
              /\ timed_out'[q] = timed_out[q] /\ cb_invoked'[q] = cb_invoked[q]
    PROVE  NothingIsForgotten'
  BY DEF NothingIsForgotten, Remembered

\* After a guarded callback the request has an outcome, this one or one from before.
LEMMA GuardedCallbackTells ==
    ASSUME CallbackInv, NothingIsForgotten, NEW r \in Requests, NEW code \in Code,
           cbOnce(r, code), pc[r] = "posted" \/ ~Untouched(r)
    PROVE  /\ results'[r] # <<>>
           /\ \A q \in Requests : q # r =>
                 results'[q] = results[q] /\ cb_invoked'[q] = cb_invoked[q]
<1>1. cb_invoked \in [Requests -> BOOLEAN] /\ cb_invoked' = [cb_invoked EXCEPT ![r] = TRUE]
  BY DEF CallbackInv, TaskTypes, cbOnce
<1>2. \A q \in Requests : q # r => results'[q] = results[q]
  BY FirstOrNone
<1>3. CASE cb_invoked[r]
  BY <1>1, <1>2, <1>3 DEF cbOnce, NothingIsForgotten
<1>4. CASE ~cb_invoked[r]
  <2>1. results[r] = <<>> /\ results' = [results EXCEPT ![r] = Append(results[r], code)]
    BY <1>4 DEF CallbackInv, OneOutcome, cbOnce, cb
  <2>2. results'[r] # <<>>
    BY <2>1 DEF CallbackInv, TaskTypes
  <2> QED
    BY <1>1, <1>2, <2>2
<1> QED
  BY <1>3, <1>4

\* Each action either leaves a handler to come or tells the outcome.
LEMMA RememberStep ==
    ASSUME CallbackInv, NothingIsForgotten, [Next]_vars PROVE NothingIsForgotten'
<1> USE DEF CallbackInv, TaskTypes, Goto
<1>1. ASSUME NEW r \in Requests, AsyncSendDelayed(r) PROVE NothingIsForgotten'
  BY <1>1 DEF AsyncSendDelayed, taskVars, NothingIsForgotten
<1>2. ASSUME NEW r \in Requests, AsyncSend(r) PROVE NothingIsForgotten'
  BY <1>2 DEF AsyncSend, SendOrGoto, taskVars, NothingIsForgotten
<1>3. ASSUME NEW r \in Requests, Lock(r) \/ LockTimesOut(r) \/ ReconnectReturns(r)
      PROVE  NothingIsForgotten'
  BY <1>3 DEF Lock, LockTimesOut, ReconnectReturns, taskVars, NothingIsForgotten
<1>4. ASSUME NEW r \in Requests, Reconnect(r) PROVE NothingIsForgotten'
  BY <1>4 DEF Reconnect, taskVars, NothingIsForgotten
<1>5. ASSUME NEW r \in Requests, Recheck(r) PROVE NothingIsForgotten'
  <2>1. pc[r] = "recheck" /\ UNCHANGED <<timer, timed_out, cb_invoked>>
    BY <1>5 DEF Recheck, taskVars
  <2>2. CASE isConnected
    BY <1>5, <2>1, <2>2 DEF Recheck, SendOrGoto, NothingIsForgotten
  <2>3. CASE ~isConnected
    <3>1. pc' = [pc EXCEPT ![r] = "over"] /\ cb(r, -1)
      BY <1>5, <2>3 DEF Recheck, SendOrGoto
    <3>2. results' = [results EXCEPT ![r] = Append(results[r], -1)]
      BY <3>1 DEF cb
    <3>3. results'[r] # <<>> /\ \A q \in Requests : q # r => results'[q] = results[q]
      BY <3>2
    <3> QED
      BY <2>1, <3>1, <3>3, RememberOne DEF Remembered
  <2> QED
    BY <2>2, <2>3
<1>6. ASSUME NEW r \in Requests, Submit(r) PROVE NothingIsForgotten'
  <2>1. /\ pc' = [pc EXCEPT ![r] = "over"] /\ timer' = [timer EXCEPT ![r] = "pending"]
        /\ UNCHANGED <<timed_out, cb_invoked, results>>
    BY <1>6 DEF Submit
  <2> QED
    BY <2>1 DEF NothingIsForgotten
<1>7. ASSUME NEW r \in Requests, SubmitFails(r) PROVE NothingIsForgotten'
  <2>1. /\ pc[r] = "posted" /\ pc' = [pc EXCEPT ![r] = "over"]
        /\ timer' = [timer EXCEPT ![r] = "aborted"] /\ cbOnce(r, -3)
        /\ UNCHANGED timed_out
    BY <1>7 DEF SubmitFails
  <2>2. /\ results'[r] # <<>>
        /\ \A q \in Requests : q # r =>
              results'[q] = results[q] /\ cb_invoked'[q] = cb_invoked[q]
    BY <2>1, GuardedCallbackTells DEF Code
  <2> QED
    BY <2>1, <2>2, RememberOne DEF Remembered
<1>8. ASSUME NEW r \in Requests, OnResponse(r) PROVE NothingIsForgotten'
  BY <1>8 DEF OnResponse, NothingIsForgotten
<1>9. ASSUME NEW r \in Requests, OnDataEnd(r) PROVE NothingIsForgotten'
  <2>1. /\ stream[r] # "none" /\ timer' = Cancelled(r) /\ cbOnce(r, ANSWER)
        /\ UNCHANGED <<pc, timed_out>>
    BY <1>9 DEF OnDataEnd
  <2>2. /\ results'[r] # <<>>
        /\ \A q \in Requests : q # r =>
              results'[q] = results[q] /\ cb_invoked'[q] = cb_invoked[q]
    BY <2>1, GuardedCallbackTells DEF Code, Untouched
  <2> QED
    BY <2>1, <2>2, RememberOne DEF Remembered, Cancelled
<1>10. ASSUME NEW r \in Requests, OnClose(r) PROVE NothingIsForgotten'
  <2>1. stream[r] # "none" /\ UNCHANGED <<pc, timed_out>>
    BY <1>10 DEF OnClose
  <2>2. CASE timed_out[r]
    BY <1>10, <2>1, <2>2 DEF OnClose, NothingIsForgotten
  <2>3. CASE ~timed_out[r]
    <3>1. timer' = Cancelled(r) /\ cbOnce(r, -4)
      BY <1>10, <2>3 DEF OnClose
    <3>2. /\ results'[r] # <<>>
          /\ \A q \in Requests : q # r =>
                results'[q] = results[q] /\ cb_invoked'[q] = cb_invoked[q]
      BY <2>1, <3>1, GuardedCallbackTells DEF Code, Untouched
    <3> QED
      BY <2>1, <3>1, <3>2, RememberOne DEF Remembered, Cancelled
  <2> QED
    BY <2>2, <2>3
<1>11. ASSUME NEW r \in Requests, TimerExpires(r) PROVE NothingIsForgotten'
  BY <1>11 DEF TimerExpires, NothingIsForgotten
<1>12. ASSUME NEW r \in Requests, TimerHandler(r) PROVE NothingIsForgotten'
  <2>1. /\ timer[r] \in {"expired", "aborted"} /\ timer' = [timer EXCEPT ![r] = "over"]
        /\ UNCHANGED pc
    BY <1>12 DEF TimerHandler
  <2>2. CASE timer[r] = "expired" /\ ~timed_out[r]
    <3>1. timed_out' = [timed_out EXCEPT ![r] = TRUE] /\ cbOnce(r, -2)
      BY <1>12, <2>2 DEF TimerHandler
    <3>2. /\ results'[r] # <<>>
          /\ \A q \in Requests : q # r =>
                results'[q] = results[q] /\ cb_invoked'[q] = cb_invoked[q]
      BY <2>1, <3>1, GuardedCallbackTells DEF Code, Untouched
    <3>3. \A q \in Requests : q # r => timed_out'[q] = timed_out[q]
      BY <3>1
    <3> QED
      BY <2>1, <3>2, <3>3, RememberOne DEF Remembered
  <2>3. CASE ~(timer[r] = "expired" /\ ~timed_out[r])
    <3>1. UNCHANGED <<timed_out, cb_invoked, results>>
      BY <1>12, <2>3 DEF TimerHandler
    <3>2. pc[r] = "over" => results[r] # <<>>
      BY <2>1, <2>3 DEF NothingIsForgotten
    <3> QED
      BY <2>1, <3>1, <3>2 DEF NothingIsForgotten
  <2> QED
    BY <2>2, <2>3
<1>13. CASE OnConnect \/ OnError \/ UNCHANGED vars
  BY <1>13 DEF OnConnect, OnError, vars, taskVars, NothingIsForgotten
<1> QED
  BY <1>1, <1>2, <1>3, <1>4, <1>5, <1>6, <1>7, <1>8, <1>9, <1>10, <1>11, <1>12, <1>13
     DEF Next, Progress, Timer

\* No caller is left without an outcome and without a handler that will bring it:
\* what send() relies on when it waits without a limit (Http2Client.cpp,
\* async_send()).
THEOREM ClientForgetsNothing == Spec => []NothingIsForgotten
<1>1. Init => NothingIsForgotten
  BY DEF Init, NothingIsForgotten
<1> QED
  BY <1>1, RememberStep, CallbackInvHolds, PTL DEF Spec

\* The client uses its connection as Http2Connection allows, so that what is proved
\* of that module alone holds of the connection of a client (Http2Client.cpp,
\* reconnect(); Http2Connection.cpp).
THEOREM ClientKeepsConnection == Spec => Connection!Spec
<1>1. Init => Connection!Init
  BY DEF Init
<1>2. [Next]_vars => [Connection!Next]_(Connection!vars)
  BY StepsOfTheConnection DEF ConnectionStep, connVars, Connection!vars
<1> QED
  BY <1>1, <1>2, PTL DEF Spec, Connection!Spec
=============================================================================
