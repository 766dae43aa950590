\* A reconnect() while the session connects.
SPECIFICATION Spec
CONSTANTS
    Requests = {r1}
    Delayed = {}
PROPERTIES
    ReconnectIsTrue
\* Every request may be over and the connection closed.
CHECK_DEADLOCK FALSE
