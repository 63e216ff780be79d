SPECIFICATION Spec
CONSTANTS
    Roles = {"client"}
    MaxAddresses = 2
    FaultSets = {{"eof"}}
INVARIANTS
    DrainGetsItsBuffer
