SPECIFICATION Spec
CONSTANTS
    Roles = {"client"}
    MaxAddresses = 2
    FaultSets = {{"write_blocks"}}
INVARIANTS
    ShutdownStageIsTimed
