SPECIFICATION Spec
CONSTANTS
    Roles = {"server"}
    MaxAddresses = 2
    FaultSets = {{"read_error"}}
INVARIANTS
    ReadsAreSupported
