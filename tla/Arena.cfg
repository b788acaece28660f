CONSTANTS
    Bases = {4, 5}
    Caps = {6}
    Sizes = {1, 2, 4, 7}
    Aligns = {1, 2, 4}
    SizeMax = 7
    MaxBlocks = 3
    MaxMarks = 2
    ReuseMarks = FALSE
    Null = Null
SPECIFICATION Spec
INVARIANTS TypeOK RewindCutsNoBlock LiveBlocksApart ParentIsOwed
PROPERTY ImplementsAllocator
