CONSTANTS
    Names = {q1, q2}
    Als = {al1}
    Elem = {1, 2, 3}
    Zero = 1
    ElemSize = 1
    SizeMax = 5
    Garbage = Garbage
    MaxSpan = 2
    MaxRaws = 1
    HeapMax = 5
    Orders <- MCOrders
    Null = Null
VIEW StateView
SYMMETRY Symmetry
SPECIFICATION PQueueSpec
INVARIANTS HeapKept
PROPERTIES ImplementsPQueue
