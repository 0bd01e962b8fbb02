---------------------------- MODULE MCPaperBroker ----------------------------
(***************************************************************************)
(* The broker with three ids, one of which is submitted under conflicting  *)
(* terms, and a price at which slippage and brokerage round.               *)
(***************************************************************************)
EXTENDS PaperBroker

MCOrderIds == {"a", "b", "c"}

Order(id, side, qty, price) ==
    [client_order_id |-> id, side |-> side, quantity |-> qty, price |-> price]

MCProposals == {Order("a", "BUY", 1, 100), Order("a", "SELL", 1, 100), Order("a", "BUY", 2, 100),
                Order("b", "SELL", 2, 100), Order("c", "BUY", 1, 0)}

MCMarketPrices == {10050}
==============================================================================
