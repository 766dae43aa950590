\* A response after error().
SPECIFICATION Spec
CONSTANTS
    Streams = {s1}
    WorkerThreads = 2
    QueueDispatcherMaxSize <- NoLimit
    TimersIoContext = FALSE
    Outcomes <- PlainOutcomes
    CloseCodes <- AnyClose
PROPERTIES
    BrokenConnectionGetsNoResponse
\* Every request may be over, its stream closed and the server stopped.
CHECK_DEADLOCK FALSE
