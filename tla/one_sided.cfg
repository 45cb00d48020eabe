SPECIFICATION Spec
CONSTANTS
    o1 = o1
    o2 = o2
    p1 = p1
    p2 = p2
    Orders = {o1, o2}
    Pairs = {p1}
    NoOrder = NoOrder
    NoSnap = NoSnap
    NoPair = NoPair
    PairOf <- OnePair
    DirOf <- AllLong
    PriceOf <- Prices
    EntryOf <- Slipped
    MaxEvents = 2
    MaxLevels = 2
    GridStep = 2
    Width = 1
    Verdicts = {"NORMAL", "FREEZE", "EXIT", "TPSL"}
    ReconcileMayTimeOut = FALSE
    PlaceMayTimeOut = FALSE
    MaxCrashes = 0
INVARIANT TypeOK
INVARIANT CidUnique
INVARIANT PendingHasMeta
INVARIANT OneKnownOrderPerGrid
INVARIANT FilledLevelsAreReal
CHECK_DEADLOCK FALSE
PROPERTY KeepsLedger
