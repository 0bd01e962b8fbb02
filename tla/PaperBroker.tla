----------------------------- MODULE PaperBroker -----------------------------
(***************************************************************************)
(* broker/paper.py: the in-memory broker.  Orders are kept in a dict by    *)
(* client_order_id; submission (place_order) and execution are separate    *)
(* calls.  The broker is single threaded: a call is one step.              *)
(*                                                                         *)
(* The dict's insertion order is observable only through the orders that   *)
(* are still PENDING (execute_pending_orders filters them in dict order),  *)
(* so it is kept as the sequence pending of their ids.                     *)
(***************************************************************************)
EXTENDS Orders, Money, Sequences, SequencesExt, FiniteSets

CONSTANTS
    OrderIds,      \* the client_order_ids strategies may generate
    SlippageBps,   \* slippage_pct, in hundredths of a percent
    BrokerageBps,  \* brokerage_pct, in hundredths of a percent
    Proposals,     \* the orders callers may submit
    MarketPrices   \* the prices, in paise, they may execute or value them at

\* A sale at the lowest price is still filled at a paisa or more: the constructor of a fill
\* refuses a price of 0 when its order is FILLED already, and that is not modelled.
ASSUME BrokerAssumption ==
    /\ SlippageBps \in 0..9999
    /\ BrokerageBps \in Nat
    /\ Proposals \subseteq Proposal(OrderIds)
    /\ MarketPrices \subseteq Nat \ {0}
    /\ \A p \in MarketPrices : RoundDiv(p * (10000 - SlippageBps), 10000) > 0

VARIABLES
    orders,                     \* _orders: client_order_id -> Order, or NoOrder
    pending,                    \* ids of the PENDING orders, in insertion order
    fills,                      \* _fills, the broker's execution log
    simulate_broker_failure,    \* test hooks: every call raises BrokerError,
    simulate_order_rejection    \* every new order is stored as REJECTED

brokerVars == <<orders, pending, fills, simulate_broker_failure, simulate_order_rejection>>

BrokerOrder == [side : OrderSide, quantity : Nat \ {0}, price : Nat, status : OrderStatus]

NoOrder == [status |-> "ABSENT"]

Fill == [order_id : OrderIds, side : OrderSide, filled_qty : Nat \ {0}, filled_price : Int,
         brokerage : Int]

BrokerTypeOK ==
    /\ orders \in [OrderIds -> BrokerOrder \cup {NoOrder}]
    /\ pending \in Seq(OrderIds)
    /\ fills \in Seq(Fill)
    /\ simulate_broker_failure \in BOOLEAN
    /\ simulate_order_rejection \in BOOLEAN

Known(id) == orders[id].status # "ABSENT"

(* ----------------------------- place_order ----------------------------- *)

SameTerms(id, o) ==
    /\ orders[id].side = o.side
    /\ orders[id].quantity = o.quantity
    /\ orders[id].price = o.price

\* BrokerError, or IdempotencyConflictError; the book is left as it was.
PlaceRaises(o) ==
    \/ simulate_broker_failure
    \/ Known(o.client_order_id) /\ ~SameTerms(o.client_order_id, o)

\* A fault the queue invariant must notice: a resubmitted order queued again.
PlaceExistingAgain(o) ==
    /\ ~simulate_broker_failure
    /\ Known(o.client_order_id)
    /\ SameTerms(o.client_order_id, o)
    /\ pending' = Append(pending, o.client_order_id)
    /\ UNCHANGED <<orders, fills>>

\* Identical resubmission: the stored order is returned, whatever its status.
PlaceExisting(o) ==
    /\ ~simulate_broker_failure
    /\ Known(o.client_order_id)
    /\ SameTerms(o.client_order_id, o)
    /\ UNCHANGED <<orders, pending, fills>>

Store(o, s) ==
    orders' = [orders EXCEPT ![o.client_order_id] =
                  [side |-> o.side, quantity |-> o.quantity, price |-> o.price, status |-> s]]

\* A fault: the rejection hook is looked at before the idempotency check.
PlaceRejectedFirst(o) ==
    /\ ~simulate_broker_failure
    /\ simulate_order_rejection
    /\ Store(o, "REJECTED")
    /\ UNCHANGED <<pending, fills>>

\* A rejected order is stored too, so its id is used up.
PlaceRejected(o) ==
    /\ ~simulate_broker_failure
    /\ ~Known(o.client_order_id)
    /\ simulate_order_rejection
    /\ Store(o, "REJECTED")
    /\ UNCHANGED <<pending, fills>>

PlaceNew(o) ==
    /\ ~simulate_broker_failure
    /\ ~Known(o.client_order_id)
    /\ ~simulate_order_rejection
    /\ Store(o, "PENDING")
    /\ pending' = Append(pending, o.client_order_id)
    /\ UNCHANGED fills

(* ----------------------- cancel_order and execution -------------------- *)

\* A fault: a scan of the book that starts one order late.
PendingIdsButFirst == {pending[i] : i \in 2..Len(pending)}

\* The orders a scan of the book for PENDING ones finds.
PendingIds == {pending[i] : i \in 1..Len(pending)}

\* transition_to: raises unless the status machine has the transition.
Transition(ids, target) ==
    /\ \A id \in ids : Known(id) /\ target \in LegalTransitions[orders[id].status]
    /\ orders' = [id \in OrderIds |->
                     IF id \in ids THEN [orders[id] EXCEPT !.status = target] ELSE orders[id]]

\* An order that leaves PENDING leaves the execution queue.
Dequeue(id) ==
    \E k \in 1..Len(pending) : pending[k] = id /\ pending' = RemoveAt(pending, k)

CancelOrder(id) ==
    /\ ~simulate_broker_failure
    /\ Transition({id}, "CANCELLED")
    /\ Dequeue(id)
    /\ UNCHANGED fills

\* Slippage moves the price against the order.
FillPrice(side, market_price) ==
    RoundDiv(market_price * (10000 + SignedQty(side, SlippageBps)), 10000)

FillOf(id, market_price) ==
    LET price == FillPrice(orders[id].side, market_price)
    IN  [order_id |-> id, side |-> orders[id].side, filled_qty |-> orders[id].quantity,
         filled_price |-> price,
         brokerage |-> RoundDiv(price * orders[id].quantity * BrokerageBps, 10000)]

\* A fault: execution without the PENDING check.
ExecuteOrderUnchecked(id, market_price) ==
    /\ Known(id)
    /\ orders' = [orders EXCEPT ![id].status = "FILLED"]
    /\ pending' = SelectSeq(pending, LAMBDA p : p # id)
    /\ fills' = Append(fills, FillOf(id, market_price))

ExecuteOrder(id, market_price) ==
    /\ Transition({id}, "FILLED")
    /\ Dequeue(id)
    /\ fills' = Append(fills, FillOf(id, market_price))

\* A fault: the youngest order is executed first.
PendingFillsReversed(market_price) ==
    [i \in 1..Len(pending) |-> FillOf(pending[Len(pending) + 1 - i], market_price)]

PendingFills(market_price) ==
    [i \in 1..Len(pending) |-> FillOf(pending[i], market_price)]

\* Every pending order is FILLED before the caller sees the first fill.
ExecutePendingOrders(market_price) ==
    /\ Transition({pending[i] : i \in 1..Len(pending)}, "FILLED")
    /\ pending' = <<>>
    /\ fills' = fills \o PendingFills(market_price)

(* ---------------- the broker alone, serving any caller ------------------ *)

BrokerInit ==
    /\ orders = [id \in OrderIds |-> NoOrder]
    /\ pending = <<>>
    /\ fills = <<>>
    /\ simulate_broker_failure = FALSE
    /\ simulate_order_rejection = FALSE

hooks == <<simulate_broker_failure, simulate_order_rejection>>

SetHooks ==
    /\ simulate_broker_failure' \in BOOLEAN
    /\ simulate_order_rejection' \in BOOLEAN
    /\ UNCHANGED <<orders, pending, fills>>

BrokerNext ==
    \/ \E o \in Proposals : PlaceExisting(o) /\ UNCHANGED hooks
    \/ \E o \in Proposals : PlaceRejected(o) /\ UNCHANGED hooks
    \/ \E o \in Proposals : PlaceNew(o) /\ UNCHANGED hooks
    \/ \E id \in OrderIds : CancelOrder(id) /\ UNCHANGED hooks
    \/ \E id \in OrderIds, p \in MarketPrices : ExecuteOrder(id, p) /\ UNCHANGED hooks
    \/ \E p \in MarketPrices : ExecutePendingOrders(p) /\ UNCHANGED hooks
    \/ SetHooks

BrokerSpec == BrokerInit /\ [][BrokerNext]_brokerVars

(* ------------------------------ properties ------------------------------ *)

\* The execution queue lists exactly the PENDING orders, each once: a cancel
\* or a single execution between two batch executions neither loses an order
\* nor leaves one behind to be executed a second time.
QueueMatchesBook ==
    /\ PendingIds = {id \in OrderIds : orders[id].status = "PENDING"}
    /\ \A i, j \in 1..Len(pending) : pending[i] = pending[j] => i = j

\* The execution log and the book agree: an order is FILLED exactly when the
\* log has one fill for it, with the order's side and whole quantity.  No
\* resubmission, cancellation or double execution call breaks that.
OneFillPerFilledOrder ==
    /\ \A i \in 1..Len(fills) :
          LET o == orders[fills[i].order_id]
          IN  /\ o.status = "FILLED"
              /\ o.side = fills[i].side
              /\ o.quantity = fills[i].filled_qty
    /\ \A i, j \in 1..Len(fills) : fills[i].order_id = fills[j].order_id => i = j
    /\ \A id \in OrderIds :
          orders[id].status = "FILLED" => \E i \in 1..Len(fills) : fills[i].order_id = id

\* An order once stored keeps its terms for ever, and its status only moves
\* along _LEGAL_TRANSITIONS: whatever callers do with the id afterwards.
OrdersOnlyProgress ==
    [][\A id \in OrderIds : Known(id) =>
          /\ orders'[id].side = orders[id].side
          /\ orders'[id].quantity = orders[id].quantity
          /\ orders'[id].price = orders[id].price
          /\ orders'[id].status \in {orders[id].status} \cup LegalTransitions[orders[id].status]
      ]_brokerVars
==============================================================================
