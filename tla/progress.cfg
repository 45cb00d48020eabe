SPECIFICATION FairSpec
CONSTANTS
    o1 = o1
    o2 = o2
    p1 = p1
    p2 = p2
    Orders = {o1, o2}
    Pairs = {p1}
    NoOrder = NoOrder
    NoSnap = NoSnap
    NoPair = NoPair
    PairOf <- OnePair
    DirOf <- AllLong
    PriceOf <- Prices
    EntryOf <- Prices
    MaxEvents = 1
    MaxLevels = 2
    GridStep = 2
    Width = 1
    Verdicts = {"NORMAL", "EXIT"}
    ReconcileMayTimeOut = FALSE
    PlaceMayTimeOut = TRUE
    MaxCrashes = 0
PROPERTY BarEnds
PROPERTY PhantomsGo
PROPERTY PositionsGetKnown
CHECK_DEADLOCK FALSE
