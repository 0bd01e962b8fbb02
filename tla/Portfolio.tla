------------------------------ MODULE Portfolio ------------------------------
(***************************************************************************)
(* portfolio/portfolio.py: average-cost accounting of the fills of one     *)
(* symbol.  Money is in paise (module Money); every round_money of a       *)
(* product or a sum of paise amounts is exact and only the average entry   *)
(* price and the drawdown percentage really round.                         *)
(***************************************************************************)
EXTENDS Money, Sequences

CONSTANTS
    InitialCash,   \* _initial_cash
    Days           \* the calendar dates fills may carry

ASSUME PortfolioAssumption == InitialCash \in Nat

VARIABLES
    cash,                   \* _cash
    position,               \* _positions[symbol]
    market_price,           \* _latest_market_prices[symbol]; 0: none yet
    daily_realized_pnl,     \* _daily_realized_pnl, 0 for a date not in the dict
    total_brokerage,        \* _total_brokerage
    peak_equity,            \* _peak_equity
    drawdown                \* _drawdown

portfolioVars == <<cash, position, market_price, daily_realized_pnl, total_brokerage,
                   peak_equity, drawdown>>

Position == [quantity : Int, average_entry_price : Int, realized_pnl : Int,
             unrealized_pnl : Int, total_quantity_traded : Nat]

PortfolioTypeOK ==
    /\ cash \in Int
    /\ position \in Position
    /\ market_price \in Int
    /\ daily_realized_pnl \in [Days -> Int]
    /\ total_brokerage \in Int
    /\ peak_equity \in Int
    /\ drawdown \in Int

PortfolioInit ==
    /\ cash = InitialCash
    /\ position = [quantity |-> 0, average_entry_price |-> 0, realized_pnl |-> 0,
                   unrealized_pnl |-> 0, total_quantity_traded |-> 0]
    /\ market_price = 0
    /\ daily_realized_pnl = [d \in Days |-> 0]
    /\ total_brokerage = 0
    /\ peak_equity = InitialCash
    /\ drawdown = 0

\* _calculate_equity
EquityAt(balance, quantity, price) == balance + quantity * price

\* Long: (price - average) * quantity; short: (average - price) * |quantity|.
UnrealizedAt(quantity, average, price) == (price - average) * quantity

\* _update_equity_and_drawdown
UpdateEquityAndDrawdown(equity) ==
    /\ peak_equity' = IF equity > peak_equity THEN equity ELSE peak_equity
    /\ drawdown' = IF equity > peak_equity THEN 0 ELSE peak_equity - equity

(* ----------------------------- process_fill ---------------------------- *)

\* The fill trades against the open position.
Opposes(delta, quantity) == (quantity > 0 /\ delta < 0) \/ (quantity < 0 /\ delta > 0)

ClosedQty(delta, quantity) ==
    IF Opposes(delta, quantity) THEN LesserOf(AbsVal(delta), AbsVal(quantity)) ELSE 0

\* A fault: a short is closed as if it were long.
RealizedByLong(delta, price, quantity, average) == (price - average) * ClosedQty(delta, quantity)

RealizedBy(delta, price, quantity, average) ==
    (IF quantity > 0 THEN price - average ELSE average - price) * ClosedQty(delta, quantity)

\* A fault: closing the position leaves its average price behind.
AverageAfterKept(delta, price, quantity, average) ==
    IF quantity # 0 /\ ~Opposes(delta, quantity)
    THEN RoundDiv(AbsVal(quantity) * average + AbsVal(delta) * price, AbsVal(quantity + delta))
    ELSE IF AbsVal(delta) <= AbsVal(quantity) THEN average ELSE price

\* Open or reverse: the fill's price; add: the rounded weighted average;
\* reduce: unchanged; close: zero.
AverageAfter(delta, price, quantity, average) ==
    CASE quantity + delta = 0 -> 0
      [] quantity + delta # 0 /\ quantity # 0 /\ ~Opposes(delta, quantity) ->
            RoundDiv(AbsVal(quantity) * average + AbsVal(delta) * price, AbsVal(quantity + delta))
      [] quantity + delta # 0 /\ Opposes(delta, quantity) /\ AbsVal(delta) < AbsVal(quantity) -> average
      [] OTHER -> price

ProcessFill(delta, price, brokerage, day) ==
    LET quantity == position.quantity + delta
        average == AverageAfter(delta, price, position.quantity, position.average_entry_price)
        realized == RealizedBy(delta, price, position.quantity, position.average_entry_price)
    IN  /\ cash' = cash - delta * price - brokerage
        /\ total_brokerage' = total_brokerage + brokerage
        /\ position' = [quantity |-> quantity, average_entry_price |-> average,
                        realized_pnl |-> position.realized_pnl + realized,
                        unrealized_pnl |-> UnrealizedAt(quantity, average, price),
                        total_quantity_traded |-> position.total_quantity_traded + AbsVal(delta)]
        /\ daily_realized_pnl' = [daily_realized_pnl EXCEPT ![day] = @ + realized]
        /\ market_price' = price
        /\ UpdateEquityAndDrawdown(EquityAt(cash', quantity, price))

\* A fault: a mark begins a new day.
MarkToMarketZeroing(price) ==
    /\ daily_realized_pnl' = [d \in Days |-> 0]
    /\ UNCHANGED <<cash, position, market_price, total_brokerage, peak_equity, drawdown>>

MarkToMarket(price) ==
    /\ market_price' = price
    /\ position' = [position EXCEPT !.unrealized_pnl =
                       UnrealizedAt(position.quantity, position.average_entry_price, price)]
    /\ UpdateEquityAndDrawdown(EquityAt(cash, position.quantity, price))
    /\ UNCHANGED <<cash, daily_realized_pnl, total_brokerage>>

(* ------------------------------ properties ------------------------------ *)

Equity == EquityAt(cash, position.quantity, market_price)

\* The rounding error of the books: what the equity is off the profit and
\* loss the portfolio reports.
Drift == Equity - (InitialCash + position.realized_pnl + position.unrealized_pnl - total_brokerage)

\* Equity (from cash and market value) and reported profit and loss (from the
\* average price) are computed from different state; through any sequence of
\* adds, reductions and reversals they differ by no more than the half paisa
\* per lot that rounding the average price may lose each time it is rounded.
EquityMatchesPnl ==
    2 * AbsVal(Drift) <= position.total_quantity_traded * position.total_quantity_traded

\* The drawdown is always that of the current equity against a peak that the
\* equity has never exceeded, also after a fill that no mark has followed.
DrawdownIsCurrent == drawdown = peak_equity - Equity /\ drawdown >= 0

\* A flat book carries nothing over: no cost basis and no open profit, so the
\* next entry starts from its own price.
FlatMeansClean ==
    position.quantity = 0 => position.average_entry_price = 0 /\ position.unrealized_pnl = 0
==============================================================================
