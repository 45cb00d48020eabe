SPECIFICATION Spec
CONSTANTS
    bars = bars
    cleanup = cleanup
    balance = balance
    reconcile = reconcile
    deal1 = deal1
    deal2 = deal2
    Callers = {bars, cleanup}
    Keys = {balance, reconcile, deal1, deal2}
    Slots = {balance, reconcile, deal1, deal2}
    SlotOf <- OwnSlot
    Scenarios <- AllScenarios
    ClearsOnExit = {reconcile, deal1, deal2}
    Cached = {reconcile}
    FailsOnLimit = {balance, reconcile}
    Timeout = 2
    TTL = 1
    MaxRequests = 2
INVARIANT TypeOK
INVARIANT RequestsAreShared
INVARIANT CacheIsRecent
PROPERTY OnlyWipedGoEmpty
PROPERTY AnswersItsQuestion
PROPERTY EveryCallEnds
