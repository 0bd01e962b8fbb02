----------------------------- MODULE MCWalkForward -----------------------------
(***************************************************************************)
(* One price: the strategy looks at the averages only, and so the model    *)
(* varies only these.  Shapes with windows that touch, windows that        *)
(* overlap, one window with its train slice, and no window at all.         *)
(***************************************************************************)
EXTENDS WalkForward

SarOrderIds == {CrossoverId(n, side) : n \in 1 .. NBars, side \in OrderSide} \cup {SarFlattenId}

SarProposals ==
    [client_order_id : SarOrderIds, side : OrderSide, quantity : 1 .. 2 * Quantity, price : {10}]

TrendBars == {[open |-> 10, close |-> 10, trend |-> t] : t \in {-1, 0, 1}}

SarRejections == {<<FALSE, FALSE, FALSE>>, <<FALSE, FALSE, TRUE>>}
SarRegimes == {NoSnapshot, [regime |-> "BEARISH", india_vix |-> 25]}
SarDays == 1 .. 2
SarDayOfBar == <<1, 1, 1, 1, 2, 2>>

Shape(train, step, total, both) ==
    [train_size |-> train, step |-> step, total_bars |-> total, evaluate_train |-> both]

SarShapes == {Shape(1, 6, 13, FALSE), Shape(2, 3, 12, FALSE), Shape(6, 7, 12, TRUE), Shape(2, 1, 7, FALSE)}
================================================================================
