SPECIFICATION GridBacktestSpec
CONSTANTS
    OrderIds <- GridOrderIds
    SlippageBps = 0
    BrokerageBps = 0
    Proposals <- GridProposals
    MarketPrices <- GridPrices
    InitialCash = 1000
    Days <- GridDays
    MaxPositionSize = 2
    MaxOrderQuantity = 4
    MaxPyramids = 2
    DailyLossLimit = 4
    NBars = 5
    Bars <- GridBars
    BarDay <- GridDayOfBar
    MacroSnapshots <- GridRegimes
    MaxBatch = 0
    PyramidCounts = {0}
    HookSettings <- GridRejections
    Levels = 2
    Spacing = 2
    PositionCap = 2
    QuantityPerLevel = 1
    AtrPeriod = 1
    MaxSwitches = 1
INVARIANTS
    StrategyKnowsPosition
    LegsExplainPosition
    ExitsCloseOpenLegs
    LegsAreDistinct
CHECK_DEADLOCK FALSE
