SPECIFICATION LibrarySpec
CONSTANTS
    FragmentSize = 2
    Fragments = 3
    Given = {0, 1}
    MaxGiven = 2
    Base = 36
    Two = 2
    Four = 3
    Eight = 4
    Sixteen = 5
    Capacities = {9, 64}
    Numbers <- MCNumbers
    Payloads <- MCPayloads
    Uses <- MCUses
    Received <- MCReceived
    MaxReceived = 4
    Arriving <- MCArriving
    Slots = {1, 2, 3}
    Plain = {"binary", "symbol"}
    Held = {1, 2}
    Cells = {1, 2, 3, 4}
    Texts <- MCTexts
    Incoming <- MCIncoming
    Keys <- MCKeys
    Data = {d1, d2}
    Nothing = nothing
    HashOf <- MCHashOf
    InitialCapacities = {1, 2, 3}
    Width = 8
    Addresses = {1, 2, 3}
    Sizes = {0, 9}
    WordBytes = 8
    SizeLimit = 256
    Chunk = 2
    MaxElements = 4
    Root = "root"
    Clones = {"c1", "c2"}
    Mechanisms = {"PLAIN", "ANONYMOUS"}
    NameLength <- MCNameLength
    MaxPlugins = 3
    MaxInstances = 2
    Threads = {"t1", "t2", "t3"}
    Nobody = "nobody"
    MaxPending = 2
INVARIANTS
    MemoryAccounted
PROPERTIES
    BufferIsBytes
    CodecAgrees
    FramesComeAndGo
    ValuesOwnTheirs
    TableIsDictionary
    ContextsShare
    
CHECK_DEADLOCK FALSE
