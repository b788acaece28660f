CONSTANTS
    Names = {q1, q2}
    Als = {al1, al2}
    Elem = {0, 1}
    Zero = 0
    ElemSize = 1
    SizeMax = 5
    MaxSpan = 2
    HeapMax = 5
    Kinds <- MCKinds
    Null = Null
    Garbage = Garbage
VIEW StateView
SYMMETRY Alike
CONSTRAINT SmallPairs
SPECIFICATION QueueSpec
INVARIANTS BlocksOwned LoopsMoveAtOnce
PROPERTIES ImplementsSeq
