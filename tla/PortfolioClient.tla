--------------------------- MODULE PortfolioClient ---------------------------
(***************************************************************************)
(* The portfolio on its own: any sequence of fills (opening, adding,       *)
(* reducing, closing, reversing) on any dates, with marks in between.      *)
(***************************************************************************)
EXTENDS Portfolio, FiniteSets, Functions

CONSTANTS
    FillDeltas,    \* signed sizes of the fills: bought > 0, sold < 0
    FillPrices,    \* their prices and the marks, in paise
    Fees,          \* their brokerage, in paise
    MaxTraded      \* bound on the volume of a behaviour

ASSUME ClientAssumption ==
    /\ FillDeltas \subseteq Int \ {0}
    /\ FillPrices \subseteq Nat \ {0}
    /\ Fees \subseteq Nat
    /\ MaxTraded \in Nat
    /\ IsFiniteSet(Days)

Trade(delta, price, fee, day) ==
    /\ position.total_quantity_traded + AbsVal(delta) <= MaxTraded
    /\ ProcessFill(delta, price, fee, day)

ClientNext ==
    \/ \E delta \in FillDeltas, price \in FillPrices, fee \in Fees, day \in Days :
          Trade(delta, price, fee, day)
    \/ \E price \in FillPrices : MarkToMarket(price)

ClientSpec == PortfolioInit /\ [][ClientNext]_portfolioVars

\* The per-day figures the loss limit is read from and the cumulative figure
\* the result reports are updated separately; they always add up.
DailyPnlAddsUp ==
    FoldFunction(LAMBDA a, b : a + b, 0, daily_realized_pnl) = position.realized_pnl
==============================================================================
