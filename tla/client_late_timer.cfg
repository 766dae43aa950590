\* The timer of a request that has been answered or closed.
SPECIFICATION Spec
CONSTANTS
    Requests = {r1}
    Delayed = {}
PROPERTIES
    NoTimeoutAfterTheOutcome
\* Every request may be over and the connection closed.
CHECK_DEADLOCK FALSE
