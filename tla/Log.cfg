SPECIFICATION FairSpec
CONSTANTS
    server = server
    client = client
    s1 = s1
    s2 = s2
    c1 = c1
    Stop = Stop
    Empty = Empty
    Server = server
    Processes <- MCProcesses
    Threads <- MCThreads
    ProcessOf <- MCProcessOf
    Capacity = 2
    Batch = 1
    QueueCapacity = 1
    LoggerCapacity = 2
    FlushEvery = 1
    MaxEvents = 2
CHECK_DEADLOCK FALSE
INVARIANTS
    LogTypeOK
    ThreadOrderKept
    CloseSendsItsLines
PROPERTIES
    ImplementsChannel
    AcceptedIsWritten
