SPECIFICATION Spec
CONSTANTS
    Roles = {"client"}
    MaxAddresses = 2
    FaultSets = {{"write_error"}}
INVARIANTS
    OneReadAtATime
