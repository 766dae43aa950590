\* Two requests, no queue dispatcher: the io threads do the work.
SPECIFICATION Spec
CONSTANTS
    Streams = {s1, s2}
    WorkerThreads = 1
    QueueDispatcherMaxSize <- NoLimit
    TimersIoContext = TRUE
    Outcomes <- EveryOutcome
    CloseCodes <- AnyClose
SYMMETRY StreamSymmetry
INVARIANTS
    ErrorMetricsShowTheCode
\* Every request may be over, its stream closed and the server stopped.
CHECK_DEADLOCK FALSE
