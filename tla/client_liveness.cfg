\* One request at once and one after a delay, over one connection.
SPECIFICATION FairSpec
CONSTANTS
    Requests = {r1, r2}
    Delayed = {r2}
PROPERTIES
    SendReturns
\* Every request may be over and the connection closed.
CHECK_DEADLOCK FALSE
