CONSTANTS
    SizeMax = 15
    Null = Null
    Empty = Empty
    Addrs = {8, 16, 24, 32}
    Hash <- MCHash
    TableMinCap = 4
    Layouts <- MCLayouts
    GuardSize = 2
    QuarantineLen = 2
    CountMax = 7
    MaxRequests = 4
    FailAfter = {0, 1, 6, 7}
    BreakAt = {0, 2}
VIEW StateView
CONSTRAINT FewWhenTold
SPECIFICATION Spec
INVARIANTS ReportsExact TableIsBlocks ParentIsOwed InjectionExact
PROPERTIES OverrunStops
CHECK_DEADLOCK FALSE
