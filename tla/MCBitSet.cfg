CONSTANTS
    Names = {b1, b2}
    Als = {al1, al2}
    WordBits = 2
    SizeMax = 5
    Null = Null
VIEW StateView
SYMMETRY Symmetry
SPECIFICATION Spec
INVARIANTS WordsSound
PROPERTIES ImplementsBitSet
