SPECIFICATION WalkSpec
CONSTANTS
    OrderIds <- SarOrderIds
    SlippageBps = 0
    BrokerageBps = 0
    Proposals <- SarProposals
    MarketPrices = {10}
    InitialCash = 1000
    Days <- SarDays
    MaxPositionSize = 2
    MaxOrderQuantity = 4
    MaxPyramids = 2
    DailyLossLimit = 4
    NBars = 6
    Bars <- TrendBars
    BarDay <- SarDayOfBar
    MacroSnapshots <- SarRegimes
    MaxBatch = 0
    PyramidCounts = {0}
    HookSettings <- SarRejections
    SlowPeriod = 2
    Quantity = 1
    Shapes <- SarShapes
    MaxSwitches = 2
INVARIANTS
    SarKnowsPosition
    OneLotOrNothing
    FollowsTrend
    WindowsStartCold
    TestBarsOnce
CHECK_DEADLOCK FALSE
