SPECIFICATION ClientSpec
CONSTANTS
    InitialCash = 1000
    Days <- MCDays
    FillDeltas <- MCFillDeltas
    FillPrices <- MCFillPrices
    Fees <- MCFees
    MaxTraded = 6
INVARIANTS
    EquityMatchesPnl
    FlatMeansClean
    DailyPnlAddsUp
