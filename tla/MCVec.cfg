CONSTANTS
    Names = {v1, v2}
    Als = {al1, al2}
    Elem = {0, 1}
    Zero = 0
    ElemSize = 1
    SizeMax = 4
    Garbage = Garbage
    MaxSpan = 2
    MaxRaws = 1
    HeapMax = 4
    Kinds <- MCKinds
    Null = Null
VIEW StateView
SYMMETRY Alike
SPECIFICATION ArraysSpec
INVARIANTS BlocksOwned
PROPERTIES RoomServes ImplementsSeq
