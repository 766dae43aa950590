--------------------------- MODULE ConnectionThreads ---------------------------
(***************************************************************************)
(* Http2Connection thread by thread: the operations its users call, the    *)
(* callbacks of the io thread, and the mutex and condition variable that   *)
(* waitToBeConnected() and waitToBeDisconnected() use.  status_ is changed *)
(* and notified without the mutex, in two steps.  The module implements    *)
(* Http2Connection, in which a wait is a single step.                      *)
(***************************************************************************)
EXTENDS Naturals

CONSTANTS
    Users,      \* threads that call the operations
    IO,         \* thread_, the one that runs io_context_
    NoThread,
    MaxCalls    \* bound: the calls each thread makes

ASSUME ThreadsAssumption ==
    /\ IO \notin Users
    /\ NoThread \notin Users \union {IO}
    /\ MaxCalls \in Nat

Threads == Users \union {IO}

VARIABLES
    status_, session_, link, dropped, news, \* as in Http2Connection
    mutex,      \* the thread that holds mutex_
    woken,      \* the sleeping threads that were notified
    pc, op,     \* where each thread is, and in which operation
    result,     \* what its last wait returned
    down,       \* the connection was not open at some time of its wait
    calls,      \* the calls it has made
    caller,     \* the thread in reconnect(), which holds Http2Client::mutex_
    life        \* of the object: used, stopped (io_context_.stop()), joined, gone

sessionVars == <<session_, link, dropped>>
waitVars == <<mutex, woken, result>>
callVars == <<op, calls, caller, life>>
vars == <<status_, news, down, sessionVars, waitVars, pc, callVars>>

Labels == {"idle", "notify", "drop", "create", "renew", "enter", "check", "block",
           "asleep", "read", "done", "shutdown", "stop", "join"}
Operations == {"callback", "reconnect", "connected", "disconnected", "close", "destroy"}

TypeOK ==
    /\ status_ \in {"NOT_OPEN", "OPEN", "CLOSED"}
    /\ session_ \in BOOLEAN /\ news \in BOOLEAN
    /\ link \in {"none", "connecting", "up", "down"}
    /\ dropped \subseteq {"connecting", "up"}
    /\ mutex \in Threads \union {NoThread} /\ caller \in Threads \union {NoThread}
    /\ woken \subseteq Threads
    /\ pc \in [Threads -> Labels]
    /\ op \in [Threads -> Operations]
    /\ result \in [Threads -> BOOLEAN] /\ down \in [Threads -> BOOLEAN]
    /\ calls \in [Threads -> 0..MaxCalls]
    /\ life \in {"used", "stopped", "joined", "gone"}

Init ==
    /\ status_ = "NOT_OPEN" /\ session_ = TRUE /\ link = "connecting"
    /\ dropped = {} /\ news = FALSE
    /\ mutex = NoThread /\ caller = NoThread
    /\ woken = {}
    /\ pc = [t \in Threads |-> "idle"]
    /\ op = [t \in Threads |-> "callback"]
    /\ result = [t \in Threads |-> FALSE] /\ down = [t \in Threads |-> FALSE]
    /\ calls = [t \in Threads |-> 0]
    /\ life = "used"

-----------------------------------------------------------------------------
isConnected == status_ = "OPEN"

Goto(t, label) == pc' = [pc EXCEPT ![t] = label]

\* A new status, which the threads in waitToBeDisconnected() live through.
SetStatus(status) ==
    /\ status_' = status
    /\ down' = [t \in Threads |-> op[t] = "disconnected" /\ (down[t] \/ status # "OPEN")]

\* The first step of notifyClose(), at the head of an operation.
BeginClose(t, operation) ==
    /\ SetStatus("CLOSED")
    /\ op' = [op EXCEPT ![t] = operation]
    /\ Goto(t, "notify")

\* notify_one(): one of the threads that sleep, if any does.
NotifyOne ==
    LET asleep == {t \in Threads : pc[t] = "asleep"} \ woken
    IN  IF asleep = {} THEN UNCHANGED woken
        ELSE \E t \in asleep : woken' = woken \union {t}

\* What follows notify_one() and the callback of onClose().
AfterNotify(t) ==
    CASE op[t] = "reconnect" -> "drop"
      [] op[t] = "close"     -> "shutdown"
      [] op[t] = "destroy"   -> "stop"
      [] OTHER               -> "idle"

Notify(t) ==
    /\ pc[t] = "notify"
    /\ NotifyOne
    /\ Goto(t, AfterNotify(t))
    /\ UNCHANGED <<status_, news, down, sessionVars, mutex, result, callVars>>

-----------------------------------------------------------------------------
(***************************************************************************)
(* The callbacks of the session, on the io thread until it is stopped.     *)
(***************************************************************************)
IoFree == pc[IO] = "idle" /\ life = "used"

\* on_connect of the session, or of one that was reset.
OnConnect ==
    /\ IoFree
    /\ \/ link = "connecting" /\ link' = "up" /\ UNCHANGED dropped
       \/ /\ "connecting" \in dropped
          /\ dropped' \in {dropped \union {"up"}, {"up"}}
          /\ UNCHANGED link
    /\ SetStatus("OPEN")
    /\ news' = TRUE
    /\ op' = [op EXCEPT ![IO] = "callback"]
    /\ Goto(IO, "notify")
    /\ UNCHANGED <<session_, waitVars, calls, caller, life>>

\* on_error of either.
OnError ==
    /\ IoFree
    /\ \/ link \in {"connecting", "up"} /\ link' = "down" /\ UNCHANGED dropped
       \/ /\ \E transport \in dropped : dropped' \in {dropped, dropped \ {transport}}
          /\ UNCHANGED link
    /\ BeginClose(IO, "callback")
    /\ UNCHANGED <<session_, news, waitVars, calls, caller, life>>

-----------------------------------------------------------------------------
(***************************************************************************)
(* The operations.                                                         *)
(***************************************************************************)

\* A thread may call: a user until another one destroys the object, or the io
\* thread for a delayed request, as long as it runs handlers.
CanCall(t) ==
    /\ pc[t] = "idle"
    /\ life = "used"
    /\ t \in Users => \A u \in Users : pc[u] = "idle" \/ op[u] # "destroy"
    /\ calls[t] < MaxCalls

Called(t) == calls' = [calls EXCEPT ![t] = @ + 1]

\* reconnect(), by one thread at a time: Http2Client::reconnect() holds a mutex.
BeginReconnect(t) ==
    /\ CanCall(t)
    /\ caller = NoThread
    /\ caller' = t
    /\ BeginClose(t, "reconnect")
    /\ Called(t)
    /\ UNCHANGED <<news, sessionVars, waitVars, life>>

\* Mutant of DropSession: a session that has ended goes on as well.
DropAnySession(t) ==
    /\ pc[t] = "drop"
    /\ session_' = FALSE /\ link' = "none" /\ dropped' = dropped \union {link}
    /\ Goto(t, "create")
    /\ UNCHANGED <<status_, news, down, waitVars, callVars>>

\* session_.reset(): what it has begun goes on.
DropSession(t) ==
    /\ pc[t] = "drop"
    /\ session_' = FALSE
    /\ link' = "none"
    /\ dropped' = dropped \union ({link} \ {"none", "down"})
    /\ Goto(t, "create")
    /\ UNCHANGED <<status_, news, down, waitVars, callVars>>

\* createSession() and configureSession(), before which nobody hears what the io
\* thread does for the session, if it is not this one.
CreateSession(t) ==
    /\ pc[t] = "create"
    /\ session_' = TRUE
    /\ link' \in IF t = IO THEN {"connecting"} ELSE {"connecting", "up", "down"}
    /\ Goto(t, "renew")
    /\ UNCHANGED <<status_, news, down, dropped, waitVars, callVars>>

\* createSession() cannot configure TLS: reconnect() returns false.
CreateFails(t) ==
    /\ pc[t] = "create"
    /\ result' = [result EXCEPT ![t] = FALSE]
    /\ Goto(t, "done")
    /\ UNCHANGED <<status_, news, down, sessionVars, mutex, woken, callVars>>

\* Mutant of RenewStatus: the status is left as it is.
KeepStatus(t) ==
    /\ pc[t] = "renew"
    /\ news' = FALSE
    /\ Goto(t, "enter")
    /\ UNCHANGED <<status_, down, sessionVars, waitVars, callVars>>

\* NOT_OPEN is stored for waitToBeConnected(), which follows.
RenewStatus(t) ==
    /\ pc[t] = "renew"
    /\ SetStatus("NOT_OPEN")
    /\ news' = FALSE
    /\ Goto(t, "enter")
    /\ UNCHANGED <<sessionVars, waitVars, callVars>>

\* waitToBeConnected() and waitToBeDisconnected() called by a user.
BeginWait(t) ==
    /\ t \in Users
    /\ CanCall(t)
    /\ \E operation \in {"connected", "disconnected"} :
         /\ op' = [op EXCEPT ![t] = operation]
         /\ down' = [down EXCEPT ![t] = operation = "disconnected" /\ ~isConnected]
    /\ Called(t)
    /\ Goto(t, "enter")
    /\ UNCHANGED <<status_, news, sessionVars, waitVars, caller, life>>

\* It locks mutex_.
Enter(t) ==
    /\ pc[t] = "enter"
    /\ mutex = NoThread
    /\ mutex' = t
    /\ Goto(t, "check")
    /\ UNCHANGED <<status_, news, down, sessionVars, woken, result, callVars>>

\* The predicate of the wait.
Awaited(t) == IF op[t] = "disconnected" THEN ~isConnected ELSE status_ # "NOT_OPEN"

\* wait_for() evaluates it; waitToBeDisconnected() then returns true at once.
Check(t) ==
    /\ pc[t] = "check"
    /\ IF ~Awaited(t)
       THEN Goto(t, "block") /\ UNCHANGED <<mutex, result>>
       ELSE IF op[t] = "disconnected"
       THEN /\ Goto(t, "done")
            /\ result' = [result EXCEPT ![t] = TRUE]
            /\ mutex' = NoThread
       ELSE Goto(t, "read") /\ UNCHANGED <<mutex, result>>
    /\ UNCHANGED <<status_, news, down, sessionVars, woken, callVars>>

\* Mutant of Block: it sleeps with the mutex.
BlockWithMutex(t) ==
    /\ pc[t] = "block"
    /\ Goto(t, "asleep")
    /\ UNCHANGED <<status_, news, down, sessionVars, waitVars, callVars>>

\* It releases the mutex and sleeps, however the status has changed since.
Block(t) ==
    /\ pc[t] = "block"
    /\ mutex' = NoThread
    /\ Goto(t, "asleep")
    /\ UNCHANGED <<status_, news, down, sessionVars, woken, result, callVars>>

\* Notified: the predicate is evaluated again with the mutex.
WakeUp(t) ==
    /\ pc[t] = "asleep"
    /\ t \in woken
    /\ mutex = NoThread
    /\ mutex' = t
    /\ woken' = woken \ {t}
    /\ Goto(t, "check")
    /\ UNCHANGED <<status_, news, down, sessionVars, result, callVars>>

\* Mutant of TimesOut: wait() and not wait_for(), which only a notification ends.
WaitWithoutLimit(t) ==
    /\ pc[t] = "asleep" /\ t \in woken /\ mutex = NoThread
    /\ mutex' = t /\ woken' = woken \ {t} /\ Goto(t, "check")
    /\ UNCHANGED <<status_, news, down, sessionVars, result, callVars>>

\* The time is over: what the status is now will be returned.
TimesOut(t) ==
    /\ pc[t] = "asleep"
    /\ mutex = NoThread
    /\ mutex' = t
    /\ woken' = woken \ {t}
    /\ Goto(t, "read")
    /\ UNCHANGED <<status_, news, down, sessionVars, result, callVars>>

\* Mutants of Read: what the predicate says; whether the wait was in time.
ReadPredicate(t) ==
    /\ pc[t] = "read"
    /\ result' = [result EXCEPT ![t] = Awaited(t)]
    /\ mutex' = NoThread /\ Goto(t, "done")
    /\ UNCHANGED <<status_, news, down, sessionVars, woken, callVars>>
ReadTrue(t) ==
    /\ pc[t] = "read"
    /\ result' = [result EXCEPT ![t] = op[t] = "disconnected" \/ isConnected]
    /\ mutex' = NoThread /\ Goto(t, "done")
    /\ UNCHANGED <<status_, news, down, sessionVars, woken, callVars>>

\* What it returns: isConnected(), or the predicate of waitToBeDisconnected().
Read(t) ==
    /\ pc[t] = "read"
    /\ result' = [result EXCEPT ![t] = (op[t] = "disconnected") # isConnected]
    /\ mutex' = NoThread
    /\ Goto(t, "done")
    /\ UNCHANGED <<status_, news, down, sessionVars, woken, callVars>>

\* Back in the caller.
Return(t) ==
    /\ pc[t] = "done"
    /\ caller' = IF caller = t THEN NoThread ELSE caller
    /\ op' = [op EXCEPT ![t] = "callback"]
    /\ result' = [result EXCEPT ![t] = FALSE] /\ down' = [down EXCEPT ![t] = FALSE]
    /\ Goto(t, "idle")
    /\ UNCHANGED <<status_, news, sessionVars, mutex, woken, calls, life>>

\* close() begins with notifyClose(),
BeginCloseCall(t) ==
    /\ t \in Users
    /\ CanCall(t)
    /\ BeginClose(t, "close")
    /\ Called(t)
    /\ UNCHANGED <<news, sessionVars, waitVars, caller, life>>

\* as does closeImpl(), the destructor: the last user is gone, but the io thread
\* may be in a handler, even one that reconnects for a delayed request.
BeginDestroy(t) ==
    /\ t \in Users
    /\ CanCall(t)
    /\ \A u \in Users : pc[u] = "idle"
    /\ BeginClose(t, "destroy")
    /\ Called(t)
    /\ UNCHANGED <<news, sessionVars, waitVars, caller, life>>

\* Mutant of Stop: the io context is stopped after the join.
StopLate(t) ==
    /\ pc[t] = "stop"
    /\ Goto(t, "join")
    /\ UNCHANGED <<status_, news, down, sessionVars, waitVars, callVars>>

\* io_context_.stop(): no further handler starts.
Stop(t) ==
    /\ pc[t] = "stop"
    /\ life' = "stopped"
    /\ Goto(t, "join")
    /\ UNCHANGED <<status_, news, down, sessionVars, waitVars, op, calls, caller>>

\* Mutant of Join: a detached thread.
JoinNothing(t) ==
    /\ pc[t] = "join" /\ life = "stopped"
    /\ life' = "joined"
    /\ Goto(t, "shutdown")
    /\ UNCHANGED <<status_, news, down, sessionVars, waitVars, op, calls, caller>>

\* thread_.join(): the handler that runs has returned, and with it the thread.
Join(t) ==
    /\ pc[t] = "join"
    /\ life = "stopped"
    /\ pc[IO] = "idle"
    /\ life' = "joined"
    /\ Goto(t, "shutdown")
    /\ UNCHANGED <<status_, news, down, sessionVars, waitVars, op, calls, caller>>

\* session_->shutdown(), with or without an effect that can be seen.
Shutdown(t) ==
    /\ pc[t] = "shutdown"
    /\ \/ UNCHANGED link
       \/ link \in {"connecting", "up"} /\ link' = "down"
    /\ life' = IF op[t] = "destroy" THEN "gone" ELSE life
    /\ op' = [op EXCEPT ![t] = "callback"]
    /\ Goto(t, "idle")
    /\ UNCHANGED <<status_, news, down, session_, dropped, waitVars, calls, caller>>

-----------------------------------------------------------------------------
\* What a thread does without being called.
Step(t) ==
    \/ Notify(t)
    \/ DropSession(t)
    \/ CreateSession(t)
    \/ CreateFails(t)
    \/ RenewStatus(t)
    \/ Enter(t)
    \/ Check(t)
    \/ Block(t)
    \/ WakeUp(t)
    \/ TimesOut(t)
    \/ Read(t)
    \/ Return(t)
    \/ Stop(t)
    \/ Join(t)
    \/ Shutdown(t)

Next ==
    \/ OnConnect
    \/ OnError
    \/ \E t \in Threads :
         \/ Step(t)
         \/ BeginReconnect(t)
         \/ BeginWait(t)
         \/ BeginCloseCall(t)
         \/ BeginDestroy(t)

Spec == Init /\ [][Next]_vars

\* Threads run on, and do not sleep past the end of the time, however often they
\* are woken before; the session may be silent.
Fairness == \A t \in Threads : WF_vars(Step(t)) /\ SF_vars(TimesOut(t))

FairSpec == Spec /\ Fairness
-----------------------------------------------------------------------------
(***************************************************************************)
(* The connection its clients see.                                         *)
(***************************************************************************)
At ==
    IF caller = NoThread THEN "idle"
    ELSE CASE pc[caller] \in {"notify", "drop"}    -> "drop"
           [] pc[caller] \in {"create", "renew"}   -> pc[caller]
           [] pc[caller] = "done"                  -> IF result[caller] THEN "connected"
                                                      ELSE "failed"
           [] OTHER                                -> "wait"

Connection == INSTANCE Http2Connection WITH at <- At

\* Whatever happens to the mutex and to the wake-ups, the status, the session and
\* the outcome of reconnect() are those of Http2Connection, whose wait is one step
\* that reads the status once (Http2Connection.cpp, waitToBeConnected()).
KeepsConnection == Connection!Spec

\* waitToBeDisconnected() returns true only if the connection was not open at
\* some time of the wait, also when the status changes between the wake-up of
\* the thread and its return (Http2Connection.cpp, waitToBeDisconnected()).
TrueMeansDisconnected ==
    \A t \in Users :
        pc[t] = "done" /\ op[t] = "disconnected" /\ result[t] => down[t]

\* reconnect() returns true only if on_connect came after it renewed the status,
\* whichever thread was woken for it (Http2Connection.cpp, reconnect() and
\* waitToBeConnected()).
TrueMeansNews ==
    \A t \in Threads : pc[t] = "done" /\ op[t] = "reconnect" /\ result[t] => news

\* What a thread inside an operation may have to wait for: the mutex to enter a
\* wait or to leave it, and the end of the io thread.
CanGoOn(t) ==
    /\ pc[t] # "idle"
    /\ pc[t] \in {"enter", "asleep"} => mutex = NoThread
    /\ pc[t] = "join" => life = "stopped" /\ pc[IO] = "idle"

\* Not everyone waits for everyone: as long as a thread is inside an operation, one
\* of them can go on, also when the destructor waits for the io thread, which waits
\* for the mutex (Http2Connection.cpp, closeImpl() and the two waits).
SomeoneCanGoOn ==
    (\E t \in Threads : pc[t] # "idle") => \E t \in Threads : CanGoOn(t)

\* Once the destructor has joined the io thread, no callback changes the object
\* any more (Http2Connection.cpp, closeImpl()).
NothingAfterTheJoin ==
    [][(life \in {"joined", "gone"}) => UNCHANGED <<status_, woken, pc[IO]>>]_vars

\* A wait ends: notify_one() without the mutex may come before the thread sleeps,
\* or wake another one whose predicate does not hold; the time limit makes up for
\* it (Http2Connection.cpp, notifyClose() and the two waits).
WaitsEnd == \A t \in Threads : pc[t] = "enter" ~> pc[t] = "done"

\* The destructor returns, even if it finds the io thread in reconnect()
\* (Http2Connection.cpp, closeImpl(); Http2Client.cpp, asyncSend()).
DestructorReturns == \A t \in Users : pc[t] = "stop" ~> life = "gone"
=============================================================================
