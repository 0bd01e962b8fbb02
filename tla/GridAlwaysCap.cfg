SPECIFICATION GridBacktestSpec
CONSTANTS
    OrderIds <- GridOrderIds
    SlippageBps = 0
    BrokerageBps = 0
    Proposals <- GridProposals
    MarketPrices <- GridPrices
    InitialCash = 1000
    Days <- GridDays
    MaxPositionSize = 1
    MaxOrderQuantity = 4
    MaxPyramids = 3
    DailyLossLimit = 1000
    NBars = 5
    Bars <- GridBars
    BarDay <- GridDayOfBar
    MacroSnapshots <- GridCalm
    MaxBatch = 0
    PyramidCounts = {0}
    HookSettings <- GridRejections
    Levels = 2
    Spacing = 2
    PositionCap = 2
    QuantityPerLevel = 1
    AtrPeriod = 1
    MaxSwitches = 0
INVARIANTS
    CapAlways
CHECK_DEADLOCK FALSE
