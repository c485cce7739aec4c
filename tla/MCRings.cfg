SPECIFICATION RingsSpec
CONSTANTS
    Slots = 4
    Values = {z, a}
    Zero = z
    Size = 4
    Bytes = {z, a}
    Stale = z
    Chunks <- MCChunks
    Lengths <- MCLengths
    LfSlots = 4
    Words = {z, a}
    ZeroWord = z
INVARIANTS RingCoherent
PROPERTIES IsQueue  IsLockFreeQueue
