\* Two requests at once and one after a delay, over one connection.
SPECIFICATION Spec
CONSTANTS
    Requests = {r1, r2, r3}
    Delayed = {r3}
SYMMETRY RequestSymmetry
INVARIANTS
    TypeOK
    CallbackAtMostOnce
    CountersAgree
    ConnectedIsNews
    DelayedRequestsCannotReconnect
    NothingIsForgotten
PROPERTIES
    KeepsRequest
    LateAnswersAreIgnored
\* Every request may be over and the connection closed.
CHECK_DEADLOCK FALSE
