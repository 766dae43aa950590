\* Two users and the io thread.
SPECIFICATION FairSpec
CONSTANTS
    Users = {u1, u2}
    IO = io
    NoThread = none
    MaxCalls = 1
INVARIANTS
    TypeOK
    TrueMeansDisconnected
    TrueMeansNews
    SomeoneCanGoOn
PROPERTIES
    KeepsConnection
    NothingAfterTheJoin
    WaitsEnd
    DestructorReturns
\* Every thread may have made its calls and the object be gone.
CHECK_DEADLOCK FALSE
