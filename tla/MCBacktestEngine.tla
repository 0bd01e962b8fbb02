--------------------------- MODULE MCBacktestEngine ---------------------------
(***************************************************************************)
(* Small runs of the engine.  Each constant comes in a version for the     *)
(* run that varies it and a fixed one for the runs that do not.            *)
(***************************************************************************)
EXTENDS BacktestEngine

Order(id, side, qty) == [client_order_id |-> id, side |-> side, quantity |-> qty, price |-> 0]

Bar(open, close) == [open |-> open, close |-> close]

\* Batches that build up, reduce, close and reverse a position of at most 2.
CapOrderIds == 1..5
CapProposals == {Order(1, "BUY", 1), Order(2, "BUY", 2), Order(3, "SELL", 1), Order(4, "SELL", 3),
                 Order(5, "BUY", 1)}
CapBars == {Bar(100, 100)}
CapPrices == {100}

\* Two ids, one of them also under conflicting terms, and prices that make or
\* lose money, for the gates and the failure hooks.
GateOrderIds == 1..3
GateProposals == {Order(1, "BUY", 1), Order(2, "SELL", 1), Order(2, "SELL", 2), Order(3, "BUY", 1)}
GateBars == {Bar(100, 90), Bar(90, 100)}
GatePrices == {90, 100}

HooksOff == {<<FALSE, FALSE, FALSE>>}
BrokerHooks == {<<FALSE, FALSE, FALSE>>, <<FALSE, TRUE, FALSE>>, <<FALSE, FALSE, TRUE>>}
AllHooks == BrokerHooks \cup {<<TRUE, FALSE, FALSE>>}

Calm == {NoSnapshot}
Regimes == {[regime |-> "BEARISH", india_vix |-> 20], [regime |-> "BEARISH", india_vix |-> 21]}

TwoDays == 1..2
DayOfBar == <<1, 2, 2>>
==============================================================================
