SPECIFICATION FairSpec
CONSTANTS
    reader = reader
    writer = writer
    socket = socket
    t1 = t1
    t2 = t2
    s1 = s1
    s2 = s2
    DHEAP = 4
    Programs <- MCPrograms
    Fds = {socket}
    FdOf <- MCFdOf
    EventsOf <- MCEventsOf
    Priority <- MCPriority
    MAX_BLOCKTIME = 2
    MaxLag = 2
INVARIANTS
    TypeOK
    BookkeepingSound
    KernelWatches
    TimersOnTime
    NoLostWakeup
PROPERTIES
    RequestEndsLoop
    EveryoneServed
