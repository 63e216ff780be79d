SPECIFICATION BusySpec
CONSTANTS
    Roles = {"client"}
    MaxAddresses = 2
    FaultSets = {{}}
PROPERTIES
    DrainEnds
