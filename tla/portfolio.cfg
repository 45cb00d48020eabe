SPECIFICATION Spec
CONSTANTS
    p1 = p1
    p2 = p2
    Pairs = {p1, p2}
    Margin <- Margins
    Balances = {0, 10, 20}
    Profits <- Results
    RawVolumes = {1, 3}
    AdoptedVolumes = {2}
    MinVolume = 1
    StepVolume = 1
    MaxLot = 2
    MaxLevels = 2
    Scores = {65, 90}
    EntryScore = 70
    AddScore = 60
    ConservativeScore = 15
    ImbalanceScore = 10
    Target = 15
    Drawdown <- MaxDrawdown
    ExitDrawdown <- ExitAt
    PairExposure = 30
    TotalExposure = 50
    SoftImbalance = 60
    HardImbalance = 80
    ConservativeVolume = 70
    WarnVolume = 50
    ConservativeAfter = 1
    FreezeAfter = 2
INVARIANT TypeOK
PROPERTY OpensWithinLimits
PROPERTY LoneGridStaysSingle
PROPERTY FreezeEndsByFirstLevel
CHECK_DEADLOCK FALSE
