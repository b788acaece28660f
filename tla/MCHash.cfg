CONSTANTS
    Names = {m1, m2}
    Als = {al1, al2}
    Keys <- MCKeys
    Class <- MCClass
    Vals = {0, 1}
    Hashers = {"h1", "h2"}
    Hash <- MCHash
    HashBits = 3
    Multiplier = 5
    BucketsBase = 2
    PtrSize = 2
    SizeMax = 11
    Keeps <- MCKeeps
    ValEqs <- MCValEqs
    Kinds = {"hmap", "hset"}
    Pairs <- MCPairs
    Null = Null
VIEW StateView
SYMMETRY Alike
CONSTRAINT Small
SPECIFICATION HashSpec
INVARIANTS MemoryOwned NodesInPlace
PROPERTIES EntriesStay ImplementsMap
