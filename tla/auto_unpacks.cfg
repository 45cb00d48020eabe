SPECIFICATION Spec
CONSTANTS
    o1 = o1
    o2 = o2
    p1 = p1
    p2 = p2
    Orders = {o1}
    Pairs = {p1}
    NoOrder = NoOrder
    NoSnap = NoSnap
    NoPair = NoPair
    PairOf <- OnePair
    DirOf <- AllLong
    PriceOf <- NoPrice
    EntryOf <- NoPrice
    MaxEvents = 2
    Modes = {"AUTO"}
    PairInfoFields = 7
    MaxRetries = 1
    ReconcileMayTimeOut = FALSE
    PlaceMayTimeOut = FALSE
    MaxCrashes = 0
PROPERTY SignalsAreExecuted
CHECK_DEADLOCK FALSE
