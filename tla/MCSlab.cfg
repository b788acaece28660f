CONSTANTS
    SizeMax = 63
    Null = Null
    Garbage = Garbage
    ClassSizes <- MCClassSizes
    ChunkBytes = 8
    ChunkAlign = 4
    Words <- MCWords
    ParentAddrs = {8, 16, 24}
    Layouts <- MCLayouts
    MaxBlocks = 3
SPECIFICATION Spec
INVARIANTS DeallocFindsClass ListsExact
PROPERTY ImplementsAllocator
