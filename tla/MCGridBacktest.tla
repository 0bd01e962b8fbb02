----------------------------- MODULE MCGridBacktest -----------------------------
(***************************************************************************)
(* A grid of two levels a side, spacing 2, anchored at 10: L1 = 8, L2 = 6, *)
(* S1 = 12, S2 = 14.  The bars drop to a buy level, rise to a sell level,  *)
(* swing through both, and gap at the open, so that fills land away from   *)
(* the level that signalled and legs of both sides can be open together.   *)
(***************************************************************************)
EXTENDS GridBacktest

Bar(open, high, low, close) == [open |-> open, high |-> high, low |-> low, close |-> close]

GridBars == {Bar(10, 10, 10, 10), Bar(10, 10, 6, 7), Bar(7, 14, 7, 14), Bar(14, 14, 6, 6), Bar(6, 8, 6, 8)}
GridPrices == {6, 7, 8, 10, 14}

GridProposals ==
    [client_order_id : GridOrderIds, side : OrderSide, quantity : 1..4, price : 0..20]

GridHooksOff == {<<FALSE, FALSE, FALSE>>}
GridRejections == {<<FALSE, FALSE, FALSE>>, <<FALSE, FALSE, TRUE>>}
GridCalm == {NoSnapshot}
GridRegimes == {NoSnapshot, [regime |-> "BEARISH", india_vix |-> 15]}
GridDays == 1..2
GridDayOfBar == <<1, 1, 1, 2, 2, 2>>
==============================================================================
