--------------------------- MODULE Http2Connection ---------------------------
(***************************************************************************)
(* Http2Connection: the status of the connection of a client, its nghttp2  *)
(* session, and the steps of reconnect(), which one thread at a time runs  *)
(* (Http2Client::reconnect() holds a mutex) while the callbacks of the     *)
(* session run on the io thread.  A session that is reset is not told to   *)
(* stop: what it has begun goes on, and its callbacks still refer to the   *)
(* connection.  status_ is atomic, session_ is not; one action for each    *)
(* access to either.                                                       *)
(***************************************************************************)
VARIABLES
    status_,    \* NOT_OPEN, OPEN or CLOSED
    session_,   \* whether the session pointer is set
    link,       \* the transport of that session
    dropped,    \* the transports that sessions reset before may still have
    at,         \* where reconnect() is
    news        \* on_connect has come since reconnect() began to wait

vars == <<status_, session_, link, dropped, at, news>>

TypeOK ==
    /\ status_ \in {"NOT_OPEN", "OPEN", "CLOSED"}
    /\ session_ \in BOOLEAN
    /\ link \in {"none", "connecting", "up", "down"}
    /\ dropped \subseteq {"connecting", "up"}
    /\ news \in BOOLEAN
    /\ at \in {"idle", "drop", "create", "renew", "wait", "connected", "failed"}

\* The constructor; the thread that lets its session connect starts last.
Init ==
    /\ status_ = "NOT_OPEN"
    /\ session_ = TRUE
    /\ link = "connecting"
    /\ dropped = {}
    /\ at = "idle"
    /\ news = FALSE

isConnected == status_ = "OPEN"

\* The on_connect callback of the session.
OnConnect ==
    /\ link = "connecting"
    /\ link' = "up"
    /\ status_' = "OPEN"
    /\ news' = TRUE
    /\ UNCHANGED <<session_, dropped, at>>

\* The on_error callback: notifyClose().
OnError ==
    /\ link \in {"connecting", "up"}
    /\ link' = "down"
    /\ status_' = "CLOSED"
    /\ UNCHANGED <<session_, dropped, at, news>>

\* The same callbacks of a session that was reset.
OldOnConnect ==
    /\ "connecting" \in dropped
    /\ dropped' \in {dropped \union {"up"}, {"up"}}
    /\ status_' = "OPEN"
    /\ news' = TRUE
    /\ UNCHANGED <<session_, link, at>>

OldOnError ==
    /\ \E transport \in dropped : dropped' \in {dropped, dropped \ {transport}}
    /\ status_' = "CLOSED"
    /\ UNCHANGED <<session_, link, at, news>>

\* notifyClose() called by the client, whatever the session does.
notifyClose ==
    /\ status_' = "CLOSED"
    /\ UNCHANGED <<session_, link, dropped, at, news>>

\* session_->shutdown() at the end of close() and of the destructor.
Shutdown ==
    /\ link \in {"connecting", "up"}
    /\ link' = "down"
    /\ UNCHANGED <<status_, session_, dropped, at, news>>

\* reconnect() begins with notifyClose(),
BeginReconnect ==
    /\ at = "idle"
    /\ at' = "drop"
    /\ status_' = "CLOSED"
    /\ UNCHANGED <<session_, link, dropped, news>>

\* resets the session,
DropSession ==
    /\ at = "drop"
    /\ at' = "create"
    /\ session_' = FALSE
    /\ link' = "none"
    /\ dropped' = dropped \union ({link} \ {"none", "down"})
    /\ UNCHANGED <<status_, news>>

\* creates another one, which begins to connect at once: what it has done before
\* configureSession() registers its callbacks is never heard of,
CreateSession ==
    /\ at = "create"
    /\ at' = "renew"
    /\ session_' = TRUE
    /\ link' \in {"connecting", "up", "down"}
    /\ UNCHANGED <<status_, dropped, news>>

\* (or none when TLS cannot be configured)
CreateFails ==
    /\ at = "create"
    /\ at' = "failed"
    /\ UNCHANGED <<status_, session_, link, dropped, news>>

\* Mutant of RenewStatus: the status is left as it is.
KeepStatus ==
    /\ at = "renew"
    /\ at' = "wait"
    /\ news' = FALSE
    /\ UNCHANGED <<status_, session_, link, dropped>>

\* sets the status for waitToBeConnected(),
RenewStatus ==
    /\ at = "renew"
    /\ at' = "wait"
    /\ status_' = "NOT_OPEN"
    /\ news' = FALSE
    /\ UNCHANGED <<session_, link, dropped>>

\* and waits until the status changes or two seconds have passed.
WaitReturns ==
    /\ at = "wait"
    /\ at' = IF isConnected THEN "connected" ELSE "failed"
    /\ UNCHANGED <<status_, session_, link, dropped, news>>

\* Back in the caller.
ReconnectReturns ==
    /\ at \in {"connected", "failed"}
    /\ at' = "idle"
    /\ UNCHANGED <<status_, session_, link, dropped, news>>

ReconnectStep ==
    \/ BeginReconnect
    \/ DropSession
    \/ CreateSession
    \/ CreateFails
    \/ RenewStatus
    \/ WaitReturns

Next ==
    \/ OnConnect
    \/ OnError
    \/ OldOnConnect
    \/ OldOnError
    \/ notifyClose
    \/ Shutdown
    \/ ReconnectStep
    \/ ReconnectReturns

Spec == Init /\ [][Next]_vars
-----------------------------------------------------------------------------
\* reconnect() returns true only if some session has connected since it began to
\* wait, never because of a status left from before: on_connect may come between
\* its notifyClose() and its wait (Http2Connection.cpp, reconnect()).
ConnectedIsNews == at = "connected" => news

\* "true if connection is finally established" (Http2Connection.hpp,
\* reconnect()): it does not return false over a connected session.
ReconnectIsTrue ==
    [][at = "wait" /\ at' = "failed" => link # "up"]_vars
=============================================================================
