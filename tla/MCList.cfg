CONSTANTS
    Names = {l1, l2}
    Spare = spare
    Als = {al1, al2}
    Elem = {10, 11, 20}
    Key <- KeyOf
    MaxSpan = 2
    MaxNodes = 5
    SizeMax = 8
    Null = Null
VIEW StateView
SYMMETRY Symmetry
SPECIFICATION Spec
INVARIANTS NodesOwned
PROPERTIES NodesStay ImplementsList
