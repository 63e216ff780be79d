SPECIFICATION Spec
CONSTANTS
    b1 = b1
    b2 = b2
    b3 = b3
    b4 = b4
    b5 = b5
    Blocks = {b1, b2, b3, b4, b5}
    NULL = NULL
    CharBit = 2
    LongBit = 4
    SizeTBytes = 1
    MinFragments = 1
    BlockHeader = 2
    ObjectHeader = 1
    PreferredSize = 16
    ObjectSizes = {1, 2}
    BlockSizes = {8, 16, 32}
    MaxHeld = 5
SYMMETRY Symmetry
INVARIANTS
    TypeOK
    BlocksSound
    ListsComplete
    NoFatal
PROPERTIES
    PromiseKept
