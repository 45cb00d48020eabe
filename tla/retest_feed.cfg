SPECIFICATION Spec
CONSTANTS
    Bars <- Few
    Opening <- Rise
    WarmBars = 3
    ChunkBars = 2
    MaxLen = 20
    PollBars = 3
    MaxBars = 7
    MayServeForming = FALSE
    MayTimeOut = TRUE
    MinDisp = 3
    MaxDisp = 4
    DispBars = 2
    RetestBars = 1
    MinRetrace = 30
    MaxRetrace = 70
    Tolerance = 0
    StopBuffer = 1
    UpdateBars = 3
    ColdBars = 4
    EmitBars = 1
    MayClose = TRUE
    MaxLag = 2
INVARIANT TypeOK
INVARIANT BufferIsMarket
INVARIANT RetestTimesOut
INVARIANT StopIsBehind
CHECK_DEADLOCK FALSE
