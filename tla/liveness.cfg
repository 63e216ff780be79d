SPECIFICATION FairSpec
CONSTANTS
    Roles = {"client", "server"}
    MaxAddresses = 2
    FaultSets = {{"connect_error", "eof", "partial_eof", "read_error", "write_error", "write_blocks"},
                 {"connect_error", "eof", "partial_eof", "read_error", "write_error"}}
PROPERTIES
    HandlersReturn
    ShutdownCompletes
