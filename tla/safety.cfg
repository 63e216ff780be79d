SPECIFICATION Spec
CONSTANTS
    Roles = {"client", "server"}
    MaxAddresses = 2
    FaultSets = {{"connect_error", "eof", "partial_eof", "read_error", "write_error", "write_blocks"},
                 {"connect_error", "eof", "partial_eof", "read_error", "write_blocks"},
                 {"connect_error", "eof", "partial_eof", "read_error", "write_error"},
                 {"connect_error", "eof"},
                 {"connect_error", "write_blocks"}}
INVARIANTS
    TypeOK
    WriterConsistent
    SocketConsistent
    ReadIsAwaited
    LayersInOrder
    NeverStranded
    NeverAborts
    HaltIsClean
    TimerServes
    DataHasOneOwner
PROPERTIES
    LifeCycleKept
    DescriptorKept
