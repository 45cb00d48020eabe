SPECIFICATION Spec
CONSTANTS
    o1 = o1
    o2 = o2
    p1 = p1
    p2 = p2
    Orders = {o1, o2}
    Pairs = {p1, p2}
    NoOrder = NoOrder
    NoSnap = NoSnap
    NoPair = NoPair
    PairOf <- TwoPairs
    DirOf <- AllLong
    PriceOf <- NoPrice
    EntryOf <- NoPrice
    MaxEvents = 2
    Modes = {"AUTO"}
    PairInfoFields = 6
    MaxRetries = 1
    ReconcileMayTimeOut = FALSE
    PlaceMayTimeOut = FALSE
    MaxCrashes = 0
INVARIANT TrackedIsGuarded
INVARIANT EntryIsBacked
INVARIANT InTradeEnds
CHECK_DEADLOCK FALSE
