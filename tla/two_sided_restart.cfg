SPECIFICATION Spec
CONSTANTS
    o1 = o1
    o2 = o2
    p1 = p1
    p2 = p2
    Orders = {o1, o2}
    Pairs = {p1}
    NoOrder = NoOrder
    NoSnap = NoSnap
    NoPair = NoPair
    PairOf <- OnePair
    DirOf <- Mixed
    PriceOf <- Prices
    EntryOf <- Prices
    MaxEvents = 1
    MaxLevels = 2
    GridStep = 2
    Width = 1
    Verdicts = {"NORMAL", "EXIT"}
    ReconcileMayTimeOut = TRUE
    PlaceMayTimeOut = TRUE
    MaxCrashes = 1
INVARIANT CidUnique
INVARIANT MetaHasLevel
INVARIANT FilledLevelsAreReal
CHECK_DEADLOCK FALSE
