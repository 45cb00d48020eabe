SPECIFICATION Spec
CONSTANTS
    o1 = o1
    o2 = o2
    p1 = p1
    p2 = p2
    Orders = {o1, o2}
    Pairs = {p1}
    NoOrder = NoOrder
    NoSnap = NoSnap
    NoPair = NoPair
    PairOf <- OnePair
    DirOf <- AllLong
    PriceOf <- Prices
    EntryOf <- Prices
    MaxEvents = 2
    MaxLevels = 1
    GridStep = 2
    Width = 1
    Verdicts = {"NORMAL"}
    ReconcileMayTimeOut = FALSE
    PlaceMayTimeOut = FALSE
    MaxCrashes = 0
INVARIANT PositionsWithinCap
CHECK_DEADLOCK FALSE
