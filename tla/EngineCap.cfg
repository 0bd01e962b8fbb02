SPECIFICATION Spec
CONSTANTS
    OrderIds <- CapOrderIds
    SlippageBps = 0
    BrokerageBps = 0
    Proposals <- CapProposals
    MarketPrices <- CapPrices
    InitialCash = 1000
    Days <- TwoDays
    MaxPositionSize = 2
    MaxOrderQuantity = 3
    MaxPyramids = 2
    DailyLossLimit = 1000
    NBars = 3
    Bars <- CapBars
    BarDay <- DayOfBar
    MacroSnapshots <- Calm
    MaxBatch = 2
    PyramidCounts = {0}
    HookSettings <- HooksOff
INVARIANTS
    PositionWithinCap
    ProjectionMatchesBook
    ExecutedAtNextOpen
    LogMatchesBook
PROPERTIES
    FillsLandOnApprovedPositions
CHECK_DEADLOCK FALSE
