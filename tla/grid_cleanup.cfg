SPECIFICATION FairSession
CONSTANTS
    o1 = o1
    p1 = p1
    Orders = {o1}
    Pairs = {p1}
    NoOrder = NoOrder
    NoSnap = NoSnap
    NoPair = NoPair
    PairOf <- OnePair
    DirOf <- AllLong
    PriceOf <- Prices
    EntryOf <- Prices
    MaxEvents = 1
    MaxLevels = 2
    GridStep = 2
    Width = 1
    Verdicts = {"NORMAL", "FREEZE", "EXIT", "TPSL"}
    ReconcileMayTimeOut = FALSE
    PlaceMayTimeOut = TRUE
    MaxCrashes = 1
CHECK_DEADLOCK FALSE
INVARIANT SessionTypeOK
INVARIANT NothingPendingWhenClosing
PROPERTY EntriesEnd
PROPERTY LevelsOfDeadGo
