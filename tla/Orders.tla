-------------------------------- MODULE Orders -------------------------------
(***************************************************************************)
(* orders/models.py: the order sides, the order status machine and the     *)
(* records that pass between strategy, risk manager, broker and portfolio. *)
(***************************************************************************)
EXTENDS Integers

OrderSide == {"BUY", "SELL"}

OrderStatus == {"PENDING", "FILLED", "CANCELLED", "REJECTED"}

\* _LEGAL_TRANSITIONS: PENDING is the only status an order can leave.
LegalTransitions ==
    [s \in OrderStatus |->
        IF s = "PENDING" THEN {"FILLED", "CANCELLED", "REJECTED"} ELSE {}]

\* The change of net position an order or fill of this side and size makes.
SignedQty(side, quantity) == IF side = "BUY" THEN quantity ELSE -quantity

\* What a strategy hands to the engine: a new Order, always in PENDING status.
Proposal(Ids) ==
    [client_order_id : Ids, side : OrderSide, quantity : Nat \ {0}, price : Nat]
==============================================================================
