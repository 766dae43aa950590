-------------------------- MODULE RequestLifecycle --------------------------
(***************************************************************************)
(* What the server promises for each request, whatever the threads do: a   *)
(* request that was received completely is answered once or abandoned, it  *)
(* is never answered after a normal close of its stream, and it is never   *)
(* abandoned while its stream is open.                                     *)
(***************************************************************************)
CONSTANT Streams        \* the requests

VARIABLES phase,        \* how far the request has come
          ended         \* how its HTTP/2 stream stands

vars == <<phase, ended>>

TypeOK ==
    /\ phase \in [Streams -> {"receiving", "processing", "answered", "abandoned"}]
    /\ ended \in [Streams -> {"open", "closed", "broken"}]

Init ==
    /\ phase = [s \in Streams |-> "receiving"]
    /\ ended = [s \in Streams |-> "open"]

Receive(s) ==           \* the whole request body has arrived
    /\ phase[s] = "receiving"
    /\ ended[s] = "open"
    /\ phase' = [phase EXCEPT ![s] = "processing"]
    /\ UNCHANGED ended

Answer(s) ==            \* a response is handed to the HTTP/2 library
    /\ phase[s] = "processing"
    /\ ended[s] # "closed"
    /\ phase' = [phase EXCEPT ![s] = "answered"]
    /\ UNCHANGED ended

Abandon(s) ==           \* nobody is left to answer
    /\ phase[s] = "processing"
    /\ ended[s] # "open"
    /\ phase' = [phase EXCEPT ![s] = "abandoned"]
    /\ UNCHANGED ended

End(s) ==               \* the stream ends, normally or with an error
    /\ ended[s] = "open"
    /\ \E how \in {"closed", "broken"} : ended' = [ended EXCEPT ![s] = how]
    /\ UNCHANGED phase

Next == \E s \in Streams : Receive(s) \/ Answer(s) \/ Abandon(s) \/ End(s)

Spec == Init /\ [][Next]_vars
=============================================================================
