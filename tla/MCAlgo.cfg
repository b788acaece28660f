SPECIFICATION Spec
CONSTANTS
    Elem <- MCElem
    Key <- MCKey
    Null = Null
    InsertionThreshold = 2
    Spans <- MCSpans
    Subs <- MCSubs
    Preds <- MCPreds
    Slacks = {0, 1, 2}
    DrawBits = {1, 2, 3, 4}
    Scalars <- MCScalars
    PrintMax = 2
    NodeMax = 31
    Links <- MCLinks
    Types <- MCTypes
    WordBits = 2
    Gamma = 3
    Mul1 = 3
    Mul2 = 1
    MixShift1 = 1
    MixShift2 = 1
    MixShift3 = 1
    OutRot = 1
    StateShift = 1
    StateRot = 1
    Bits = 4
    Nans = 2
    PrintDigits = 1
    HashSeed = 5
    FnvBasis = 9
    FnvPrime = 11
    Fmix1 = 13
    Fmix2 = 7
    FmixShift = 2
    NullStr = NullStr
INVARIANTS
    SearchesAnswer
    SortsInOrder
    PassesWriteRight
    DrawsUniform
    ScalarsAgree
PROPERTY
    LoopsEnd
