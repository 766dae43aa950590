\* Two requests, a pool of two workers, every kind of close.
SPECIFICATION Spec
CONSTANTS
    Streams = {s1, s2}
    WorkerThreads = 2
    QueueDispatcherMaxSize <- NoLimit
    TimersIoContext = TRUE
    Outcomes <- MixedOutcomes
    CloseCodes <- AnyClose
SYMMETRY StreamSymmetry
INVARIANTS
    TypeOK
    AtMostOneResponse
    NoEarlyResponse
    RequestsAreCountedOnce
    ObservedStatusWasSent
    ReceptionIdentity
PROPERTIES
    KeepsLifecycle
\* Every request may be over, its stream closed and the server stopped.
CHECK_DEADLOCK FALSE
