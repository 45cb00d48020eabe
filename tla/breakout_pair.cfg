SPECIFICATION Spec
CONSTANTS
    o1 = o1
    o2 = o2
    p1 = p1
    p2 = p2
    Orders = {o1, o2}
    Pairs = {p1}
    NoOrder = NoOrder
    NoSnap = NoSnap
    NoPair = NoPair
    PairOf <- OnePair
    DirOf <- AllLong
    PriceOf <- NoPrice
    EntryOf <- NoPrice
    MaxEvents = 2
    Modes = {"AUTO", "MANUAL"}
    PairInfoFields = 6
    MaxRetries = 2
    ReconcileMayTimeOut = TRUE
    PlaceMayTimeOut = TRUE
    MaxCrashes = 1
INVARIANT TypeOK
INVARIANT TrackedIsGuarded
INVARIANT EntryIsBacked
INVARIANT InTradeEnds
CHECK_DEADLOCK FALSE
PROPERTY EntryEnds
