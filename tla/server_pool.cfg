\* Three requests, two workers, congestion control with no room in the queue; the
\* application may delay any of the requests over and over.
SPECIFICATION FairSpec
CONSTANTS
    Streams = {s1, s2, s3}
    WorkerThreads = 2
    QueueDispatcherMaxSize = 0
    TimersIoContext = TRUE
    Outcomes <- PlainOutcomes
    CloseCodes <- NoClose
INVARIANTS
    CongestionShedsOnlyTheExcess
PROPERTIES
    FreeRequestsAreAnswered
\* Every request may be over, its stream closed and the server stopped.
CHECK_DEADLOCK FALSE
