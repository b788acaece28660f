CONSTANTS
    SizeMax = 15
    Null = Null
    Garbage = Garbage
    Bases = {4, 5, 16, 20}
    Caps = {9, 11}
    Counts = {4, 9}
    Sizes = {1, 2, 3, 15}
    Aligns = {1, 4}
    PtrSize = 2
    PtrAlign = 2
    HeapAddrs <- MCHeapAddrs
    Layouts <- MCLayouts
    PlainAlign = 2
    MaxAlignSize = 4
    MaxHeld = 2
SPECIFICATION SpecBoth
CONSTRAINT Small
INVARIANTS PoolSound LogAddsUp
PROPERTIES ImplementsAllocator LogImplementsAllocator
