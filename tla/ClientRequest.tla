---------------------------- MODULE ClientRequest ----------------------------
(***************************************************************************)
(* What the client promises for each request, whatever the threads, the    *)
(* timers and the connection do: the application is told one outcome, and  *)
(* its code says how far the request came.                                 *)
(***************************************************************************)
EXTENDS Integers

CONSTANTS Requests, Answers         \* the calls, and the status codes of responses

VARIABLES phase,        \* how far the request has come
          outcome       \* what the application was told: a sequence of codes

vars == <<phase, outcome>>

Init ==
    /\ phase = [r \in Requests |-> "idle"]
    /\ outcome = [r \in Requests |-> <<>>]

Become(r, state) == phase' = [phase EXCEPT ![r] = state]

Tell(r, code) ==
    /\ Become(r, "told")
    /\ outcome' = [outcome EXCEPT ![r] = <<code>>]

Send(r) ==              \* the call, which may have to wait for a connection
    /\ phase[r] = "idle"
    /\ Become(r, "sending")
    /\ UNCHANGED outcome

Post(r) ==              \* the request is counted as sent
    /\ phase[r] \in {"idle", "sending"}
    /\ Become(r, "posted")
    /\ UNCHANGED outcome

Submit(r) ==            \* nghttp2 has the request
    /\ phase[r] = "posted"
    /\ Become(r, "submitted")
    /\ UNCHANGED outcome

Unsent(r) == phase[r] = "sending" /\ Tell(r, -1)
NotSubmitted(r) == phase[r] = "posted" /\ Tell(r, -3)

Outcome(r) ==           \* an answer, a timeout or the close of the stream
    /\ phase[r] = "submitted"
    /\ \E code \in Answers \union {-2, -4} : Tell(r, code)

Next ==
    \E r \in Requests :
        Send(r) \/ Post(r) \/ Submit(r) \/ Unsent(r) \/ NotSubmitted(r) \/ Outcome(r)

Spec == Init /\ [][Next]_vars
=============================================================================
