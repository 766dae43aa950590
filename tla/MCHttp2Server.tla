---------------------------- MODULE MCHttp2Server ----------------------------
(***************************************************************************)
(* Instances of Http2Server for TLC.                                       *)
(***************************************************************************)
EXTENDS Http2Server, TLC

Answer(status, delay) ==
    [allowed |-> TRUE, implemented |-> TRUE, headers |-> TRUE, api |-> TRUE,
     status |-> status, delay |-> delay]

\* A response at once, one after a delay, a cancelled stream, a rejection.
MixedOutcomes ==
    {Answer(200, FALSE), Answer(200, TRUE), Answer(8, FALSE),
     [Answer(200, FALSE) EXCEPT !.allowed = FALSE]}

\* One outcome for each branch of reception().
EveryOutcome ==
    MixedOutcomes \union
    {[Answer(200, FALSE) EXCEPT !.implemented = FALSE],
     [Answer(200, FALSE) EXCEPT !.headers = FALSE],
     [Answer(200, FALSE) EXCEPT !.api = FALSE]}

PlainOutcomes == {Answer(200, FALSE)}

\* NO_ERROR, and INTERNAL_ERROR for any failure.
AnyClose == {0, 2}
NormalClose == {0}
NoClose == {}

NoLimit == -1      \* no congestion control

StreamSymmetry == Permutations(Streams)
=============================================================================
