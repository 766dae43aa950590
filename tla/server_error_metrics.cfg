\* The metrics of a stream in error, with workers.
SPECIFICATION Spec
CONSTANTS
    Streams = {s1}
    WorkerThreads = 2
    QueueDispatcherMaxSize <- NoLimit
    TimersIoContext = FALSE
    Outcomes <- PlainOutcomes
    CloseCodes <- AnyClose
INVARIANTS
    ErrorMetricsShowTheCode
\* Every request may be over, its stream closed and the server stopped.
CHECK_DEADLOCK FALSE
