------------------------------ MODULE BooksProofs ------------------------------
(***************************************************************************)
(* Proofs about the two books of the engine: the orders of the paper       *)
(* broker, for any set of ids, any proposals and any prices, and the money *)
(* of the portfolio, for any sizes, prices, fees and dates.                *)
(*                                                                         *)
(* The broker's invariant is BrokerInv: the three properties the run       *)
(* PaperBroker checks support one another, since an execution of the queue *)
(* keeps the execution log right only because the queue lists each PENDING *)
(* order exactly once.                                                     *)
(*                                                                         *)
(* The portfolio's is PortfolioInv, which one fill and one mark preserve,  *)
(* so that it holds in every program that starts with PortfolioInit and    *)
(* touches the portfolio only through them, the engine among them.  Its    *)
(* client, any sequence of fills and marks, comes last.  The facts about   *)
(* rounding and about sums over a finite set that it needs come first.     *)
(***************************************************************************)
EXTENDS PaperBroker, PortfolioClient, SequenceTheorems, FiniteSetTheorems, TLAPS

(*************************** the paper broker ******************************)

BrokerInv == BrokerTypeOK /\ QueueMatchesBook /\ OneFillPerFilledOrder

(* ------------------------------- the helpers ---------------------------- *)

\* The statuses differ, and only PENDING may be left.
LEMMA StatusNames ==
  /\ "PENDING" \in OrderStatus /\ "FILLED" \in OrderStatus
  /\ "CANCELLED" \in OrderStatus /\ "REJECTED" \in OrderStatus
  BY DEF OrderStatus

\* Slippage and rounding yield an integer price for either side.
LEMMA FillPriceInt ==
  ASSUME NEW side \in OrderSide, NEW p \in MarketPrices
  PROVE  FillPrice(side, p) \in Int
<1>1. p \in Int /\ SlippageBps \in Int
  BY BrokerAssumption
<1>2. SignedQty(side, SlippageBps) \in Int
  BY <1>1 DEF SignedQty
<1>3. p * (10000 + SignedQty(side, SlippageBps)) \in Int
  BY <1>1, <1>2
<1>. QED  BY <1>3 DEF FillPrice, RoundDiv

\* The fill of a stored order is a Fill.
LEMMA FillOfType ==
  ASSUME BrokerTypeOK, NEW id \in OrderIds, Known(id), NEW p \in MarketPrices
  PROVE  /\ FillOf(id, p) \in Fill
         /\ FillOf(id, p).order_id = id
         /\ FillOf(id, p).side = orders[id].side
         /\ FillOf(id, p).filled_qty = orders[id].quantity
<1>1. orders[id] \in BrokerOrder
  BY DEF BrokerTypeOK, Known, NoOrder, BrokerOrder
<1>2. orders[id].side \in OrderSide /\ orders[id].quantity \in Nat \ {0}
  BY <1>1 DEF BrokerOrder
<1>3. FillPrice(orders[id].side, p) \in Int
  BY <1>2, FillPriceInt
<1>4. FillPrice(orders[id].side, p) * orders[id].quantity * BrokerageBps \in Int
  BY <1>2, <1>3, BrokerAssumption
<1>5. RoundDiv(FillPrice(orders[id].side, p) * orders[id].quantity * BrokerageBps, 10000) \in Int
  BY <1>4 DEF RoundDiv
<1>. QED  BY <1>2, <1>3, <1>5 DEF FillOf, Fill

\* Storing an order keeps the book well typed and touches only that id.
LEMMA StoreType ==
  ASSUME BrokerTypeOK, NEW o \in Proposals, NEW s \in OrderStatus, Store(o, s)
  PROVE  /\ o.client_order_id \in OrderIds
         /\ orders' \in [OrderIds -> BrokerOrder \cup {NoOrder}]
         /\ orders'[o.client_order_id].status = s
         /\ orders'[o.client_order_id].side = o.side
         /\ orders'[o.client_order_id].quantity = o.quantity
         /\ \A id \in OrderIds \ {o.client_order_id} : orders'[id] = orders[id]
<1>1. o \in Proposal(OrderIds)
  BY BrokerAssumption
<1>. QED  BY <1>1 DEF Store, BrokerTypeOK, Proposal, BrokerOrder

\* A transition keeps the book well typed, moves exactly the given ids from
\* PENDING to the target, and changes no order's terms.
LEMMA TransitionType ==
  ASSUME BrokerTypeOK, NEW ids \in SUBSET OrderIds, NEW target \in OrderStatus,
         Transition(ids, target)
  PROVE  /\ orders' \in [OrderIds -> BrokerOrder \cup {NoOrder}]
         /\ \A id \in ids : Known(id) /\ orders[id].status = "PENDING" /\ orders'[id].status = target
         /\ \A id \in OrderIds \ ids : orders'[id] = orders[id]
         /\ \A id \in OrderIds : Known(id) =>
               /\ orders'[id].side = orders[id].side
               /\ orders'[id].quantity = orders[id].quantity
               /\ orders'[id].price = orders[id].price
         /\ target \in {"FILLED", "CANCELLED", "REJECTED"} \/ ids = {}
<1>1. \A id \in OrderIds : Known(id) => orders[id] \in BrokerOrder
  BY DEF BrokerTypeOK, Known, NoOrder, BrokerOrder
<1>2. \A id \in ids : Known(id) /\ target \in LegalTransitions[orders[id].status]
  BY DEF Transition
<1>3. \A id \in ids : orders[id].status \in OrderStatus
  BY <1>1, <1>2 DEF BrokerOrder
<1>4. \A id \in ids : orders[id].status = "PENDING" /\ target \in {"FILLED", "CANCELLED", "REJECTED"}
  BY <1>2, <1>3 DEF LegalTransitions
<1>5. \A id \in OrderIds :
         orders'[id] = IF id \in ids THEN [orders[id] EXCEPT !.status = target] ELSE orders[id]
  BY DEF Transition
<1>6. \A id \in ids : orders'[id] \in BrokerOrder /\ orders'[id].status = target
  BY <1>1, <1>2, <1>5 DEF BrokerOrder
<1>7. \A id \in OrderIds \ ids : orders'[id] = orders[id]
  BY <1>5
<1>8. orders' \in [OrderIds -> BrokerOrder \cup {NoOrder}]
  <2>1. \A id \in OrderIds : orders'[id] \in BrokerOrder \cup {NoOrder}
    BY <1>6, <1>7 DEF BrokerTypeOK
  <2>2. orders' = [id \in OrderIds |-> orders'[id]]
    BY DEF Transition
  <2>. QED  BY <2>1, <2>2
<1>9. \A id \in OrderIds : Known(id) =>
               /\ orders'[id].side = orders[id].side
               /\ orders'[id].quantity = orders[id].quantity
               /\ orders'[id].price = orders[id].price
  BY <1>1, <1>5 DEF BrokerOrder
<1>. QED  BY <1>2, <1>4, <1>6, <1>7, <1>8, <1>9

\* The batch of fills is one Fill per queued order, in queue order.
LEMMA PendingFillsType ==
  ASSUME BrokerTypeOK, \A i \in 1..Len(pending) : Known(pending[i]), NEW p \in MarketPrices
  PROVE  /\ PendingFills(p) \in Seq(Fill)
         /\ Len(PendingFills(p)) = Len(pending)
         /\ \A i \in 1..Len(pending) :
               /\ PendingFills(p)[i].order_id = pending[i]
               /\ PendingFills(p)[i].side = orders[pending[i]].side
               /\ PendingFills(p)[i].filled_qty = orders[pending[i]].quantity
<1>1. pending \in Seq(OrderIds)
  BY DEF BrokerTypeOK
<1>2. \A i \in 1..Len(pending) : pending[i] \in OrderIds
  BY <1>1
<1>3. \A i \in 1..Len(pending) :
         /\ FillOf(pending[i], p) \in Fill
         /\ FillOf(pending[i], p).order_id = pending[i]
         /\ FillOf(pending[i], p).side = orders[pending[i]].side
         /\ FillOf(pending[i], p).filled_qty = orders[pending[i]].quantity
  BY <1>2, FillOfType
<1>4. Len(pending) \in Nat
  BY <1>1
<1>. QED  BY <1>3, <1>4 DEF PendingFills

(* ---------------------------- the invariant ----------------------------- *)

\* An empty broker satisfies the invariant.
LEMMA BrokerInitInv == BrokerInit => BrokerInv
<1> SUFFICES ASSUME BrokerInit PROVE BrokerInv
  OBVIOUS
<1>1. BrokerTypeOK
  <2>1. orders \in [OrderIds -> BrokerOrder \cup {NoOrder}]
    BY DEF BrokerInit
  <2>2. pending \in Seq(OrderIds) /\ fills \in Seq(Fill)
    BY DEF BrokerInit
  <2>3. simulate_broker_failure \in BOOLEAN /\ simulate_order_rejection \in BOOLEAN
    BY DEF BrokerInit
  <2>. QED  BY <2>1, <2>2, <2>3 DEF BrokerTypeOK
<1>2. \A id \in OrderIds : orders[id].status = "ABSENT"
  BY DEF BrokerInit, NoOrder
<1>3. Len(pending) = 0 /\ Len(fills) = 0
  BY DEF BrokerInit
<1>4. QueueMatchesBook
  BY <1>2, <1>3 DEF QueueMatchesBook, PendingIds
<1>5. OneFillPerFilledOrder
  BY <1>2, <1>3 DEF OneFillPerFilledOrder
<1>. QED  BY <1>1, <1>4, <1>5 DEF BrokerInv

\* Submission, whatever the broker answers, preserves the invariant: a new
\* order is stored under an id of which neither queue nor log know anything.
LEMMA PlaceInv ==
  ASSUME BrokerInv, NEW o \in Proposals, UNCHANGED hooks,
         PlaceExisting(o) \/ PlaceRejected(o) \/ PlaceNew(o)
  PROVE  BrokerInv'
<1>. USE DEF BrokerInv
<1>1. CASE PlaceExisting(o)
  BY <1>1 DEF PlaceExisting, hooks, BrokerTypeOK, QueueMatchesBook, PendingIds, OneFillPerFilledOrder
<1>2. ASSUME NEW s \in {"REJECTED", "PENDING"}, Store(o, s), ~Known(o.client_order_id), fills' = fills
      PROVE  /\ o.client_order_id \in OrderIds
             /\ \A i \in 1..Len(fills) : fills[i].order_id \in OrderIds
                                       /\ fills[i].order_id # o.client_order_id
             /\ OneFillPerFilledOrder'
  <2>1. /\ o.client_order_id \in OrderIds
        /\ orders'[o.client_order_id].status = s
        /\ \A id \in OrderIds \ {o.client_order_id} : orders'[id] = orders[id]
    <3>1. s \in OrderStatus
      BY DEF OrderStatus
    <3>2. Store(o, s)
      BY <1>2
    <3>. QED  BY <3>1, <3>2, StoreType
  <2>2. \A i \in 1..Len(fills) : fills[i] \in Fill
    BY DEF BrokerTypeOK
  <2>3. \A i \in 1..Len(fills) : fills[i].order_id \in OrderIds
    BY <2>2 DEF Fill
  <2>4. orders[o.client_order_id].status = "ABSENT"
    BY <1>2 DEF Known
  <2>5. \A i \in 1..Len(fills) : fills[i].order_id # o.client_order_id
    BY <2>4 DEF OneFillPerFilledOrder
  <2>6. OneFillPerFilledOrder'
    BY <1>2, <2>1, <2>3, <2>5 DEF OneFillPerFilledOrder
  <2>. QED  BY <2>1, <2>3, <2>5, <2>6
<1>3. CASE PlaceRejected(o)
  <2>1. Store(o, "REJECTED") /\ ~Known(o.client_order_id) /\ pending' = pending /\ fills' = fills
    BY <1>3 DEF PlaceRejected
  <2>2. /\ o.client_order_id \in OrderIds
        /\ orders' \in [OrderIds -> BrokerOrder \cup {NoOrder}]
        /\ orders'[o.client_order_id].status = "REJECTED"
        /\ \A id \in OrderIds \ {o.client_order_id} : orders'[id] = orders[id]
    BY <2>1, StatusNames, StoreType
  <2>3. OneFillPerFilledOrder'
    BY <1>2, <2>1
  <2>4. orders[o.client_order_id].status = "ABSENT"
    BY <2>1 DEF Known
  <2>5. QueueMatchesBook'
    BY <2>1, <2>2, <2>4 DEF QueueMatchesBook, PendingIds
  <2>6. BrokerTypeOK'
    BY <2>1, <2>2 DEF BrokerTypeOK, hooks
  <2>. QED  BY <2>3, <2>5, <2>6
<1>4. CASE PlaceNew(o)
  <2>1. /\ Store(o, "PENDING") /\ ~Known(o.client_order_id)
        /\ pending' = Append(pending, o.client_order_id) /\ fills' = fills
    BY <1>4 DEF PlaceNew
  <2>2. /\ o.client_order_id \in OrderIds
        /\ orders' \in [OrderIds -> BrokerOrder \cup {NoOrder}]
        /\ orders'[o.client_order_id].status = "PENDING"
        /\ \A id \in OrderIds \ {o.client_order_id} : orders'[id] = orders[id]
    BY <2>1, StatusNames, StoreType
  <2>3. OneFillPerFilledOrder'
    BY <1>2, <2>1
  <2>4. orders[o.client_order_id].status = "ABSENT"
    BY <2>1 DEF Known
  <2>5. pending \in Seq(OrderIds)
    BY DEF BrokerTypeOK
  <2>6. /\ pending' \in Seq(OrderIds)
        /\ Len(pending') = Len(pending) + 1
        /\ \A i \in 1..Len(pending) : pending'[i] = pending[i]
        /\ pending'[Len(pending) + 1] = o.client_order_id
    BY <2>1, <2>2, <2>5
  <2>7. PendingIds' = PendingIds \cup {o.client_order_id}
    BY <2>5, <2>6 DEF PendingIds
  <2>8. PendingIds = {id \in OrderIds : orders[id].status = "PENDING"}
    BY DEF QueueMatchesBook
  <2>9. PendingIds' = {id \in OrderIds : orders'[id].status = "PENDING"}
    BY <2>2, <2>4, <2>7, <2>8
  <2>10. \A i \in 1..Len(pending) : pending[i] # o.client_order_id
    BY <2>4, <2>8 DEF PendingIds
  <2>11. \A i, j \in 1..Len(pending') : pending'[i] = pending'[j] => i = j
    BY <2>5, <2>6, <2>10 DEF QueueMatchesBook
  <2>12. QueueMatchesBook'
    BY <2>9, <2>11 DEF QueueMatchesBook
  <2>13. BrokerTypeOK'
    BY <2>1, <2>2, <2>6 DEF BrokerTypeOK, hooks
  <2>. QED  BY <2>3, <2>12, <2>13
<1>. QED  BY <1>1, <1>3, <1>4

\* Executing the queue turns each queued order into one new fill.
LEMMA ExecutePendingInv ==
  ASSUME BrokerInv, NEW p \in MarketPrices, ExecutePendingOrders(p), UNCHANGED hooks
  PROVE  /\ BrokerInv'
         /\ PendingFills(p) \in Seq(Fill)
         /\ Len(PendingFills(p)) = Len(pending)
         /\ \A i \in 1..Len(pending) :
               /\ PendingFills(p)[i].order_id = pending[i]
               /\ PendingFills(p)[i].side = orders[pending[i]].side
               /\ PendingFills(p)[i].filled_qty = orders[pending[i]].quantity
<1>. USE DEF BrokerInv
<1>1. /\ pending \in Seq(OrderIds) /\ fills \in Seq(Fill)
      /\ Len(pending) \in Nat /\ Len(fills) \in Nat
      /\ \A i \in 1..Len(pending) : pending[i] \in OrderIds
  BY DEF BrokerTypeOK
<1>2. PendingIds \in SUBSET OrderIds
  BY <1>1 DEF PendingIds
<1>3. Transition(PendingIds, "FILLED") /\ pending' = <<>> /\ fills' = fills \o PendingFills(p)
  BY DEF ExecutePendingOrders, PendingIds
<1>4. /\ orders' \in [OrderIds -> BrokerOrder \cup {NoOrder}]
      /\ \A id \in PendingIds : Known(id) /\ orders[id].status = "PENDING" /\ orders'[id].status = "FILLED"
      /\ \A id \in OrderIds \ PendingIds : orders'[id] = orders[id]
      /\ \A id \in OrderIds : Known(id) =>
            /\ orders'[id].side = orders[id].side
            /\ orders'[id].quantity = orders[id].quantity
  BY <1>2, <1>3, StatusNames, TransitionType
<1>5. \A i \in 1..Len(pending) : Known(pending[i])
  BY <1>4 DEF PendingIds
<1>6. /\ PendingFills(p) \in Seq(Fill)
      /\ Len(PendingFills(p)) = Len(pending)
      /\ \A i \in 1..Len(pending) :
            /\ PendingFills(p)[i].order_id = pending[i]
            /\ PendingFills(p)[i].side = orders[pending[i]].side
            /\ PendingFills(p)[i].filled_qty = orders[pending[i]].quantity
  BY <1>5, PendingFillsType
<1>7. /\ fills' \in Seq(Fill)
      /\ Len(fills') = Len(fills) + Len(pending)
      /\ \A i \in 1..Len(fills) : fills'[i] = fills[i]
      /\ \A i \in 1..Len(pending) : fills'[Len(fills) + i] = PendingFills(p)[i]
  <2>1. /\ fills' \in Seq(Fill)
        /\ Len(fills') = Len(fills) + Len(pending)
        /\ \A i \in 1..Len(fills') :
              fills'[i] = IF i <= Len(fills) THEN fills[i] ELSE PendingFills(p)[i - Len(fills)]
    <3>1. fills \in Seq(Fill) /\ PendingFills(p) \in Seq(Fill) /\ Len(PendingFills(p)) = Len(pending)
      BY <1>1, <1>6
    <3>2. fills' = fills \o PendingFills(p)
      BY <1>3
    <3>. HIDE <1>1, <1>3, <1>6
    <3>3. ASSUME NEW s, s = PendingFills(p)
          PROVE  /\ fills \o s \in Seq(Fill)
                 /\ Len(fills \o s) = Len(fills) + Len(s)
                 /\ \A i \in 1..Len(fills) + Len(s) :
                       (fills \o s)[i] = IF i <= Len(fills) THEN fills[i] ELSE s[i - Len(fills)]
      BY <3>1, <3>3, ConcatProperties
    <3>. QED  BY <3>1, <3>2, <3>3
  <2>2. \A i \in 1..Len(fills) : i \in 1..Len(fills') /\ i <= Len(fills)
    BY <1>1, <2>1
  <2>3. \A i \in 1..Len(pending) :
           Len(fills) + i \in 1..Len(fills') /\ ~(Len(fills) + i <= Len(fills)) /\ Len(fills) + i - Len(fills) = i
    BY <1>1, <2>1
  <2>. QED  BY <2>1, <2>2, <2>3
<1>8. BrokerTypeOK'
  BY <1>3, <1>4, <1>7 DEF BrokerTypeOK, hooks
<1>9. QueueMatchesBook'
  <2>1. PendingIds = {id \in OrderIds : orders[id].status = "PENDING"}
    BY DEF QueueMatchesBook
  <2>2. \A id \in OrderIds : orders'[id].status # "PENDING"
    BY <1>4, <2>1
  <2>3. Len(pending') = 0
    BY <1>3
  <2>. QED  BY <2>2, <2>3 DEF QueueMatchesBook, PendingIds
<1>10. \A i \in 1..Len(fills) : fills[i].order_id \in OrderIds \ PendingIds
  <2>1. \A i \in 1..Len(fills) : fills[i].order_id \in OrderIds
    <3>1. \A i \in 1..Len(fills) : fills[i] \in Fill
      BY <1>1
    <3>. QED  BY <3>1 DEF Fill
  <2>2. \A i \in 1..Len(fills) : orders[fills[i].order_id].status = "FILLED"
    BY DEF OneFillPerFilledOrder
  <2>. QED  BY <1>4, <2>1, <2>2
<1>11. \A i \in 1..Len(fills') :
          \/ i \in 1..Len(fills)
          \/ \E k \in 1..Len(pending) : i = Len(fills) + k
  <2>. SUFFICES ASSUME NEW i \in 1..Len(fills'), i \notin 1..Len(fills)
                PROVE  i - Len(fills) \in 1..Len(pending) /\ i = Len(fills) + (i - Len(fills))
    OBVIOUS
  <2>. QED  BY <1>1, <1>7
<1>12. \A i \in 1..Len(fills') :
          /\ orders'[fills'[i].order_id].status = "FILLED"
          /\ orders'[fills'[i].order_id].side = fills'[i].side
          /\ orders'[fills'[i].order_id].quantity = fills'[i].filled_qty
  <2>1. ASSUME NEW i \in 1..Len(fills)
        PROVE  /\ orders'[fills'[i].order_id].status = "FILLED"
               /\ orders'[fills'[i].order_id].side = fills'[i].side
               /\ orders'[fills'[i].order_id].quantity = fills'[i].filled_qty
    BY <1>4, <1>7, <1>10 DEF OneFillPerFilledOrder
  <2>2. ASSUME NEW k \in 1..Len(pending)
        PROVE  /\ orders'[fills'[Len(fills) + k].order_id].status = "FILLED"
               /\ orders'[fills'[Len(fills) + k].order_id].side = fills'[Len(fills) + k].side
               /\ orders'[fills'[Len(fills) + k].order_id].quantity = fills'[Len(fills) + k].filled_qty
    <3>1. pending[k] \in PendingIds /\ pending[k] \in OrderIds
      BY <1>1 DEF PendingIds
    <3>2. /\ fills'[Len(fills) + k].order_id = pending[k]
          /\ fills'[Len(fills) + k].side = orders[pending[k]].side
          /\ fills'[Len(fills) + k].filled_qty = orders[pending[k]].quantity
      BY <1>6, <1>7
    <3>. QED  BY <1>4, <3>1, <3>2
  <2>. QED  BY <1>11, <2>1, <2>2
<1>13. \A i, j \in 1..Len(fills') : fills'[i].order_id = fills'[j].order_id => i = j
  <2>1. \A i, j \in 1..Len(fills) : fills'[i].order_id = fills'[j].order_id => i = j
    BY <1>7 DEF OneFillPerFilledOrder
  <2>2. \A k, l \in 1..Len(pending) :
           fills'[Len(fills) + k].order_id = fills'[Len(fills) + l].order_id => k = l
    <3>1. \A k \in 1..Len(pending) : fills'[Len(fills) + k].order_id = pending[k]
      BY <1>6, <1>7
    <3>2. \A k, l \in 1..Len(pending) : pending[k] = pending[l] => k = l
      BY DEF QueueMatchesBook
    <3>3. ASSUME NEW k \in 1..Len(pending), NEW l \in 1..Len(pending),
                 fills'[Len(fills) + k].order_id = fills'[Len(fills) + l].order_id
          PROVE  k = l
      <4>1. pending[k] = pending[l]
        BY <3>1, <3>3
      <4>. QED  BY <3>2, <4>1
    <3>. QED  BY <3>3
  <2>3. \A i \in 1..Len(fills), k \in 1..Len(pending) :
           fills'[i].order_id # fills'[Len(fills) + k].order_id
    <3>1. \A k \in 1..Len(pending) : fills'[Len(fills) + k].order_id \in PendingIds
      BY <1>6, <1>7 DEF PendingIds
    <3>. QED  BY <1>7, <1>10, <3>1
  <2>4. SUFFICES ASSUME NEW i \in 1..Len(fills'), NEW j \in 1..Len(fills'),
                        fills'[i].order_id = fills'[j].order_id
                 PROVE  i = j
    OBVIOUS
  <2>5. CASE i \in 1..Len(fills) /\ j \in 1..Len(fills)
    BY <2>1, <2>4, <2>5
  <2>6. CASE i \in 1..Len(fills) /\ \E k \in 1..Len(pending) : j = Len(fills) + k
    BY <2>3, <2>4, <2>6
  <2>7. CASE j \in 1..Len(fills) /\ \E k \in 1..Len(pending) : i = Len(fills) + k
    BY <2>3, <2>4, <2>7
  <2>8. CASE (\E k \in 1..Len(pending) : i = Len(fills) + k) /\ \E k \in 1..Len(pending) : j = Len(fills) + k
    BY <2>2, <2>4, <2>8
  <2>. QED  BY <1>11, <2>5, <2>6, <2>7, <2>8
<1>14. \A id \in OrderIds :
          orders'[id].status = "FILLED" => \E i \in 1..Len(fills') : fills'[i].order_id = id
  <2>. SUFFICES ASSUME NEW id \in OrderIds, orders'[id].status = "FILLED"
                PROVE  \E i \in 1..Len(fills') : fills'[i].order_id = id
    OBVIOUS
  <2>1. CASE id \in PendingIds
    <3>1. PICK k \in 1..Len(pending) : pending[k] = id
      BY <2>1 DEF PendingIds
    <3>2. Len(fills) + k \in 1..Len(fills') /\ fills'[Len(fills) + k].order_id = id
      BY <1>1, <1>6, <1>7, <3>1
    <3>. QED  BY <3>2
  <2>2. CASE id \notin PendingIds
    <3>1. PICK i \in 1..Len(fills) : fills[i].order_id = id
      BY <1>4, <2>2 DEF OneFillPerFilledOrder
    <3>2. i \in 1..Len(fills') /\ fills'[i].order_id = id
      BY <1>1, <1>7, <3>1
    <3>. QED  BY <3>2
  <2>. QED  BY <2>1, <2>2
<1>15. OneFillPerFilledOrder'
  BY <1>12, <1>13, <1>14 DEF OneFillPerFilledOrder
<1>. QED  BY <1>6, <1>8, <1>9, <1>15

\* Dequeue(id) takes id out of the queue, and nothing else.
LEMMA DequeueProperties ==
  ASSUME BrokerInv, NEW id \in OrderIds, Dequeue(id)
  PROVE  /\ pending' \in Seq(OrderIds)
         /\ PendingIds' = PendingIds \ {id}
         /\ \A i, j \in 1..Len(pending') : pending'[i] = pending'[j] => i = j
<1>1. PICK k \in 1..Len(pending) : pending[k] = id /\ pending' = RemoveAt(pending, k)
  BY DEF Dequeue
<1>2. /\ pending \in Seq(OrderIds) /\ Len(pending) \in Nat
      /\ \A i, j \in 1..Len(pending) : pending[i] = pending[j] => i = j
  BY DEF BrokerInv, BrokerTypeOK, QueueMatchesBook
<1>. DEFINE front == SubSeq(pending, 1, k-1)
            rest == SubSeq(pending, k+1, Len(pending))
<1>3. /\ front \in Seq(OrderIds) /\ Len(front) = k - 1
      /\ \A i \in 1..(k-1) : front[i] = pending[i]
  BY <1>2
<1>4. /\ rest \in Seq(OrderIds) /\ Len(rest) = Len(pending) - k
      /\ \A i \in 1..(Len(pending) - k) : rest[i] = pending[k + i]
  BY <1>2
<1>5. /\ pending' \in Seq(OrderIds) /\ Len(pending') = Len(pending) - 1
      /\ \A i \in 1..Len(pending') : pending'[i] = IF i <= k - 1 THEN front[i] ELSE rest[i - (k - 1)]
  <2>1. pending' = front \o rest
    BY <1>1 DEF RemoveAt
  <2>. HIDE DEF front, rest
  <2>2. Len(front) + Len(rest) = Len(pending) - 1
    BY <1>2, <1>3, <1>4
  <2>3. /\ front \o rest \in Seq(OrderIds)
        /\ Len(front \o rest) = Len(front) + Len(rest)
        /\ \A i \in 1..(Len(front) + Len(rest)) :
              (front \o rest)[i] = IF i <= Len(front) THEN front[i] ELSE rest[i - Len(front)]
    BY <1>3, <1>4, ConcatProperties
  <2>. QED  BY <1>3, <2>1, <2>2, <2>3
<1>. HIDE DEF front, rest
<1>6. \A i \in 1..Len(pending') : pending'[i] = pending[IF i < k THEN i ELSE i + 1]
  <2>. SUFFICES ASSUME NEW i \in 1..Len(pending')
                PROVE  pending'[i] = pending[IF i < k THEN i ELSE i + 1]
    OBVIOUS
  <2>1. CASE i < k
    BY <1>2, <1>3, <1>5, <2>1
  <2>2. CASE ~(i < k)
    <3>1. i - (k - 1) \in 1..(Len(pending) - k) /\ k + (i - (k - 1)) = i + 1 /\ ~(i <= k - 1)
      BY <1>2, <1>5, <2>2
    <3>. QED  BY <1>4, <1>5, <2>2, <3>1
  <2>. QED  BY <2>1, <2>2
<1>7. \A i \in 1..Len(pending') : (IF i < k THEN i ELSE i + 1) \in 1..Len(pending) \ {k}
  BY <1>2, <1>5
<1>8. \A i, j \in 1..Len(pending') : pending'[i] = pending'[j] => i = j
  <2>. SUFFICES ASSUME NEW i \in 1..Len(pending'), NEW j \in 1..Len(pending'), pending'[i] = pending'[j]
                PROVE  i = j
    OBVIOUS
  <2>1. (IF i < k THEN i ELSE i + 1) = (IF j < k THEN j ELSE j + 1)
    BY <1>2, <1>6, <1>7
  <2>. QED  BY <1>5, <2>1
<1>9. PendingIds' = PendingIds \ {id}
  <2>1. ASSUME NEW i \in 1..Len(pending') PROVE pending'[i] \in PendingIds \ {id}
    BY <1>1, <1>2, <1>6, <1>7 DEF PendingIds
  <2>2. ASSUME NEW i \in 1..Len(pending), pending[i] # id PROVE pending[i] \in PendingIds'
    <3>1. i # k
      BY <1>1, <2>2
    <3>2. CASE i < k
      <4>1. i \in 1..Len(pending')
        BY <1>2, <1>5, <3>2
      <4>2. pending'[i] = pending[i]
        BY <1>6, <3>2, <4>1
      <4>. QED  BY <4>1, <4>2 DEF PendingIds
    <3>3. CASE i > k
      <4>1. i - 1 \in 1..Len(pending') /\ ~(i - 1 < k) /\ i - 1 + 1 = i
        BY <1>2, <1>5, <3>3
      <4>2. pending'[i - 1] = pending[i]
        BY <1>6, <4>1
      <4>. QED  BY <4>1, <4>2 DEF PendingIds
    <3>. QED  BY <3>1, <3>2, <3>3
  <2>. QED  BY <2>1, <2>2 DEF PendingIds
<1>. QED  BY <1>5, <1>8, <1>9

\* Taking one order from the queue, whether by cancelling or by executing it,
\* keeps queue and book in step.
LEMMA LeavePendingInv ==
  ASSUME BrokerInv, NEW id \in OrderIds, NEW target \in {"FILLED", "CANCELLED"},
         Transition({id}, target), Dequeue(id)
  PROVE  /\ orders' \in [OrderIds -> BrokerOrder \cup {NoOrder}]
         /\ pending' \in Seq(OrderIds)
         /\ QueueMatchesBook'
         /\ Known(id) /\ orders[id].status = "PENDING" /\ orders'[id].status = target
         /\ orders'[id].side = orders[id].side /\ orders'[id].quantity = orders[id].quantity
         /\ \A other \in OrderIds \ {id} : orders'[other] = orders[other]
<1>1. {id} \in SUBSET OrderIds /\ target \in OrderStatus /\ target # "PENDING"
  BY DEF OrderStatus
<1>2. /\ orders' \in [OrderIds -> BrokerOrder \cup {NoOrder}]
      /\ \A i \in {id} : Known(i) /\ orders[i].status = "PENDING" /\ orders'[i].status = target
      /\ \A i \in OrderIds \ {id} : orders'[i] = orders[i]
      /\ \A i \in OrderIds : Known(i) =>
            orders'[i].side = orders[i].side /\ orders'[i].quantity = orders[i].quantity
  BY <1>1, TransitionType DEF BrokerInv
<1>3. /\ pending' \in Seq(OrderIds)
      /\ PendingIds' = PendingIds \ {id}
      /\ \A i, j \in 1..Len(pending') : pending'[i] = pending'[j] => i = j
  BY DequeueProperties
<1>4. PendingIds = {i \in OrderIds : orders[i].status = "PENDING"}
  BY DEF BrokerInv, QueueMatchesBook
<1>5. PendingIds' = {i \in OrderIds : orders'[i].status = "PENDING"}
  BY <1>1, <1>2, <1>3, <1>4
<1>6. QueueMatchesBook'
  BY <1>3, <1>5 DEF QueueMatchesBook
<1>. QED  BY <1>2, <1>3, <1>6

\* cancel_order takes a pending order out of the queue and leaves no fill.
LEMMA CancelInv ==
  ASSUME BrokerInv, NEW id \in OrderIds, CancelOrder(id), UNCHANGED hooks
  PROVE  BrokerInv'
<1>1. Transition({id}, "CANCELLED") /\ Dequeue(id) /\ fills' = fills
  BY DEF CancelOrder
<1>2. /\ orders' \in [OrderIds -> BrokerOrder \cup {NoOrder}]
      /\ pending' \in Seq(OrderIds)
      /\ QueueMatchesBook'
      /\ orders[id].status = "PENDING" /\ orders'[id].status = "CANCELLED"
      /\ \A other \in OrderIds \ {id} : orders'[other] = orders[other]
  BY <1>1, LeavePendingInv
<1>3. BrokerTypeOK'
  BY <1>1, <1>2 DEF BrokerInv, BrokerTypeOK, hooks
<1>4. \A i \in 1..Len(fills) : fills[i].order_id \in OrderIds \ {id}
  <2>1. \A i \in 1..Len(fills) : fills[i] \in Fill
    BY DEF BrokerInv, BrokerTypeOK
  <2>2. \A i \in 1..Len(fills) : fills[i].order_id \in OrderIds
    BY <2>1 DEF Fill
  <2>. QED  BY <1>2, <2>2 DEF BrokerInv, OneFillPerFilledOrder
<1>5. OneFillPerFilledOrder'
  BY <1>1, <1>2, <1>4 DEF BrokerInv, OneFillPerFilledOrder
<1>. QED  BY <1>2, <1>3, <1>5 DEF BrokerInv

\* execute_order takes one order out of the queue and logs its one fill.
LEMMA ExecuteInv ==
  ASSUME BrokerInv, NEW id \in OrderIds, NEW p \in MarketPrices, ExecuteOrder(id, p), UNCHANGED hooks
  PROVE  BrokerInv'
<1>1. Transition({id}, "FILLED") /\ Dequeue(id) /\ fills' = Append(fills, FillOf(id, p))
  BY DEF ExecuteOrder
<1>2. /\ orders' \in [OrderIds -> BrokerOrder \cup {NoOrder}]
      /\ pending' \in Seq(OrderIds)
      /\ QueueMatchesBook'
      /\ Known(id) /\ orders[id].status = "PENDING" /\ orders'[id].status = "FILLED"
      /\ orders'[id].side = orders[id].side /\ orders'[id].quantity = orders[id].quantity
      /\ \A other \in OrderIds \ {id} : orders'[other] = orders[other]
  BY <1>1, LeavePendingInv
<1>3. /\ FillOf(id, p) \in Fill
      /\ FillOf(id, p).order_id = id
      /\ FillOf(id, p).side = orders[id].side
      /\ FillOf(id, p).filled_qty = orders[id].quantity
  BY <1>2, FillOfType DEF BrokerInv
<1>4. /\ fills' \in Seq(Fill) /\ Len(fills') = Len(fills) + 1
      /\ \A i \in 1..Len(fills) : fills'[i] = fills[i]
      /\ fills'[Len(fills) + 1] = FillOf(id, p)
      /\ Len(fills) \in Nat
  BY <1>1, <1>3 DEF BrokerInv, BrokerTypeOK
<1>5. BrokerTypeOK'
  BY <1>2, <1>4 DEF BrokerInv, BrokerTypeOK, hooks
<1>6. \A i \in 1..Len(fills) : fills[i].order_id \in OrderIds \ {id}
  <2>1. \A i \in 1..Len(fills) : fills[i] \in Fill
    BY DEF BrokerInv, BrokerTypeOK
  <2>2. \A i \in 1..Len(fills) : fills[i].order_id \in OrderIds
    BY <2>1 DEF Fill
  <2>. QED  BY <1>2, <2>2 DEF BrokerInv, OneFillPerFilledOrder
<1>7. \A i \in 1..Len(fills') : i \in 1..Len(fills) \/ i = Len(fills) + 1
  BY <1>4
<1>8. \A i \in 1..Len(fills') :
         /\ orders'[fills'[i].order_id].status = "FILLED"
         /\ orders'[fills'[i].order_id].side = fills'[i].side
         /\ orders'[fills'[i].order_id].quantity = fills'[i].filled_qty
  <2>1. ASSUME NEW i \in 1..Len(fills)
        PROVE  /\ orders'[fills'[i].order_id].status = "FILLED"
               /\ orders'[fills'[i].order_id].side = fills'[i].side
               /\ orders'[fills'[i].order_id].quantity = fills'[i].filled_qty
    BY <1>2, <1>4, <1>6 DEF BrokerInv, OneFillPerFilledOrder
  <2>. QED  BY <1>2, <1>3, <1>4, <1>7, <2>1
<1>9. \A i, j \in 1..Len(fills') : fills'[i].order_id = fills'[j].order_id => i = j
  BY <1>3, <1>4, <1>6, <1>7 DEF BrokerInv, OneFillPerFilledOrder
<1>10. \A other \in OrderIds :
          orders'[other].status = "FILLED" => \E i \in 1..Len(fills') : fills'[i].order_id = other
  <2>. SUFFICES ASSUME NEW other \in OrderIds, orders'[other].status = "FILLED"
                PROVE  \E i \in 1..Len(fills') : fills'[i].order_id = other
    OBVIOUS
  <2>1. CASE other = id
    <3>1. Len(fills) + 1 \in 1..Len(fills')
      BY <1>4
    <3>. QED  BY <1>3, <1>4, <2>1, <3>1
  <2>2. CASE other # id
    <3>1. PICK i \in 1..Len(fills) : fills[i].order_id = other
      BY <1>2, <2>2 DEF BrokerInv, OneFillPerFilledOrder
    <3>. QED  BY <1>4, <3>1
  <2>. QED  BY <2>1, <2>2
<1>11. OneFillPerFilledOrder'
  BY <1>8, <1>9, <1>10 DEF OneFillPerFilledOrder
<1>. QED  BY <1>2, <1>5, <1>11 DEF BrokerInv

\* The test hooks touch neither the book nor the log.
LEMMA SetHooksInv == ASSUME BrokerInv, SetHooks PROVE BrokerInv'
<1>1. /\ orders' = orders /\ pending' = pending /\ fills' = fills
      /\ simulate_broker_failure' \in BOOLEAN /\ simulate_order_rejection' \in BOOLEAN
  BY DEF SetHooks
<1>2. BrokerTypeOK'
  BY Zenon, <1>1 DEF BrokerInv, BrokerTypeOK
<1>3. QueueMatchesBook' /\ OneFillPerFilledOrder'
  BY <1>1 DEF BrokerInv, QueueMatchesBook, PendingIds, OneFillPerFilledOrder
<1>. QED  BY <1>2, <1>3 DEF BrokerInv

\* Every call preserves the invariant.
LEMMA BrokerNextInv == BrokerInv /\ [BrokerNext]_brokerVars => BrokerInv'
<1> SUFFICES ASSUME BrokerInv, [BrokerNext]_brokerVars PROVE BrokerInv'
  OBVIOUS
<1>1. ASSUME NEW o \in Proposals, UNCHANGED hooks, PlaceExisting(o) \/ PlaceRejected(o) \/ PlaceNew(o)
      PROVE  BrokerInv'
  BY <1>1, PlaceInv
<1>2. ASSUME NEW id \in OrderIds, CancelOrder(id), UNCHANGED hooks PROVE BrokerInv'
  BY <1>2, CancelInv
<1>3. ASSUME NEW id \in OrderIds, NEW p \in MarketPrices, ExecuteOrder(id, p), UNCHANGED hooks
      PROVE  BrokerInv'
  BY <1>3, ExecuteInv
<1>4. ASSUME NEW p \in MarketPrices, ExecutePendingOrders(p), UNCHANGED hooks PROVE BrokerInv'
  BY <1>4, ExecutePendingInv
<1>5. CASE SetHooks
  BY <1>5, SetHooksInv
<1>6. CASE UNCHANGED brokerVars
  BY <1>6 DEF brokerVars, BrokerInv, BrokerTypeOK, QueueMatchesBook, PendingIds, OneFillPerFilledOrder
<1>. QED  BY <1>1, <1>2, <1>3, <1>4, <1>5, <1>6 DEF BrokerNext

\* The invariant holds after any sequence of calls.
LEMMA BrokerSpecInv == BrokerSpec => []BrokerInv
  BY BrokerInitInv, BrokerNextInv, PTL DEF BrokerSpec

(* ------------------------------- theorems ------------------------------- *)

\* The broker's state keeps its shape under any calls of any caller.
THEOREM BrokerTypeCorrect == BrokerSpec => []BrokerTypeOK
<1>1. BrokerInv => BrokerTypeOK
  BY DEF BrokerInv
<1>. QED  BY <1>1, BrokerSpecInv, PTL

\* The queue that execute_pending_orders works off lists exactly the PENDING
\* orders of the book, each once, whatever place, cancel and execute calls
\* came before.
THEOREM QueueCorrect == BrokerSpec => []QueueMatchesBook
<1>1. BrokerInv => QueueMatchesBook
  BY DEF BrokerInv
<1>. QED  BY <1>1, BrokerSpecInv, PTL

\* No order is filled twice, none is marked FILLED without a fill, and every
\* fill has the side and the whole quantity of its order.
THEOREM ExecutionExactlyOnce == BrokerSpec => []OneFillPerFilledOrder
<1>1. BrokerInv => OneFillPerFilledOrder
  BY DEF BrokerInv
<1>. QED  BY <1>1, BrokerSpecInv, PTL

\* Whatever is done with an id once it is stored, its terms never change and
\* its status only moves along _LEGAL_TRANSITIONS: the idempotency promise of
\* place_order and the status machine of Order, together.
THEOREM OrdersProgressOnly == BrokerSpec => OrdersOnlyProgress
<1>. DEFINE Progress ==
        \A id \in OrderIds : Known(id) =>
          /\ orders'[id].side = orders[id].side
          /\ orders'[id].quantity = orders[id].quantity
          /\ orders'[id].price = orders[id].price
          /\ orders'[id].status \in {orders[id].status} \cup LegalTransitions[orders[id].status]
<1>1. ASSUME BrokerInv, NEW ids \in SUBSET OrderIds, NEW target \in OrderStatus, Transition(ids, target)
      PROVE  Progress
  <2>1. /\ \A id \in ids : target \in LegalTransitions[orders[id].status]
        /\ \A id \in ids : orders'[id].status = target
        /\ \A id \in OrderIds \ ids : orders'[id] = orders[id]
        /\ \A id \in OrderIds : Known(id) =>
              /\ orders'[id].side = orders[id].side
              /\ orders'[id].quantity = orders[id].quantity
              /\ orders'[id].price = orders[id].price
    <3>1. \A id \in ids : target \in LegalTransitions[orders[id].status]
      BY <1>1 DEF Transition
    <3>. QED  BY <1>1, <3>1, TransitionType DEF BrokerInv
  <2>. QED  BY <2>1
<1>2. ASSUME BrokerInv, NEW o \in Proposals, NEW s \in OrderStatus, Store(o, s), ~Known(o.client_order_id)
      PROVE  Progress
  <2>1. \A id \in OrderIds \ {o.client_order_id} : orders'[id] = orders[id]
    BY <1>2, StoreType DEF BrokerInv
  <2>. QED  BY <1>2, <2>1
<1>3. ASSUME BrokerInv, BrokerNext PROVE Progress
  <2>1. CASE orders' = orders
    BY <2>1
  <2>2. ASSUME NEW o \in Proposals, PlaceExisting(o) \/ PlaceRejected(o) \/ PlaceNew(o)
        PROVE  Progress
    BY <1>2, <1>3, <2>1, <2>2, StatusNames DEF PlaceExisting, PlaceRejected, PlaceNew
  <2>3. ASSUME NEW id \in OrderIds, CancelOrder(id) PROVE Progress
    BY <1>1, <1>3, <2>3, StatusNames DEF CancelOrder
  <2>4. ASSUME NEW id \in OrderIds, NEW p \in MarketPrices, ExecuteOrder(id, p) PROVE Progress
    BY <1>1, <1>3, <2>4, StatusNames DEF ExecuteOrder
  <2>5. ASSUME NEW p \in MarketPrices, ExecutePendingOrders(p) PROVE Progress
    <3>1. Transition(PendingIds, "FILLED")
      BY <2>5 DEF ExecutePendingOrders, PendingIds
    <3>2. PendingIds \in SUBSET OrderIds
      BY <1>3 DEF PendingIds, BrokerInv, QueueMatchesBook
    <3>. QED  BY <1>1, <1>3, <3>1, <3>2, StatusNames
  <2>6. CASE SetHooks
    BY <2>1, <2>6 DEF SetHooks
  <2>. QED  BY <1>3, <2>2, <2>3, <2>4, <2>5, <2>6 DEF BrokerNext
<1>4. BrokerInv /\ [BrokerNext]_brokerVars => [Progress]_brokerVars
  BY <1>3
<1>. QED  BY <1>4, BrokerSpecInv, PTL DEF BrokerSpec, OrdersOnlyProgress

(***************************** the portfolio *******************************)

(* ------------------------------- rounding ------------------------------- *)

\* A rounded quotient of integers is an integer.
LEMMA RoundDivInt == ASSUME NEW n \in Int, NEW d \in Nat \ {0} PROVE RoundDiv(n, d) \in Int
  BY DEF RoundDiv

\* It is at most half a unit off the exact quotient.
LEMMA RoundDivError ==
  ASSUME NEW n \in Int, NEW d \in Nat \ {0}
  PROVE  2 * AbsVal(RoundDiv(n, d) * d - n) <= d
<1>. DEFINE f == n \div d
            m == n % d
<1>1. f \in Int /\ m \in 0..(d-1) /\ n = d * f + m
  OBVIOUS
<1>2. RoundDiv(n, d) = IF 2 * m > d \/ (2 * m = d /\ f % 2 = 1) THEN f + 1 ELSE f
  BY DEF RoundDiv
<1>. HIDE DEF f, m
<1>3. CASE RoundDiv(n, d) = f + 1 /\ 2 * m >= d
  <2>1. (f + 1) * d = d * f + d
    BY <1>1
  <2>. QED  BY <1>1, <1>3, <2>1 DEF AbsVal
<1>4. CASE RoundDiv(n, d) = f /\ 2 * m <= d
  <2>1. f * d = d * f
    BY <1>1
  <2>. QED  BY <1>1, <1>4, <2>1 DEF AbsVal
<1>. QED  BY <1>1, <1>2, <1>3, <1>4

(* ------------------------- sums over finite sets ------------------------ *)

\* A set of numbers has a least one.
LEMMA LeastNumber ==
  ASSUME NEW S, S \subseteq Nat, S # {}
  PROVE  \E m \in S : \A k \in S : m <= k
<1>1. \E m \in S : \A k \in S : <<k, m>> \notin OpToRel(<, Nat)
  BY NatLessThanWellFounded, WFMin
<1>2. PICK m \in S : \A k \in S : <<k, m>> \notin OpToRel(<, Nat)
  BY <1>1
<1>3. ASSUME NEW k \in S PROVE m <= k
  <2>1. k \in Nat /\ m \in Nat
    OBVIOUS
  <2>2. ~(k < m)
    BY <1>2, <2>1 DEF OpToRel
  <2>. QED  BY <2>1, <2>2
<1>. QED  BY <1>3

\* Induction, for a set of numbers.
LEMMA InductiveSet ==
  ASSUME NEW P \in SUBSET Nat, 0 \in P, \A n \in P : n + 1 \in P
  PROVE  P = Nat
<1>. SUFFICES ASSUME Nat \ P # {} PROVE FALSE
  OBVIOUS
<1>1. PICK m \in Nat \ P : \A k \in Nat \ P : m <= k
  BY LeastNumber
<1>2. m \in Nat \ {0} /\ m - 1 \in Nat /\ ~(m <= m - 1) /\ m - 1 + 1 = m
  BY <1>1
<1>. QED  BY <1>1, <1>2

\* c takes the elements of the subsets of S one by one, and g sums d in that order.
Takes(c, S) == \A s \in SUBSET S : s # {} => c[s] \in s

Sums(g, S, d, c) ==
    \A s \in SUBSET S : g[s] = IF s = {} THEN 0 ELSE d[c[s]] + g[s \ {c[s]}]

\* e is d but for x more at a.
MoreAt(e, d, S, a, x) == \A i \in S : e[i] = d[i] + (IF i = a THEN x ELSE 0)

\* h is g, but for x more on the subsets that hold a.
Shifted(h, g, S, a, x) == \A s \in SUBSET S : h[s] = g[s] + (IF a \in s THEN x ELSE 0)

\* g sums d, and h sums e, over S in the order c; e is d but for x more at a.
TwoSums(S, c, d, g, e, h, a, x) ==
    /\ IsFiniteSet(S) /\ Takes(c, S) /\ x \in Int
    /\ d \in [S -> Int] /\ g \in [SUBSET S -> Int]
    /\ Sums(g, S, d, c) /\ Sums(h, S, e, c) /\ MoreAt(e, d, S, a, x)

\* A sum over a finite set whose elements are taken one by one in the order c
\* is well defined ...
LEMMA SumExists ==
  ASSUME NEW S, IsFiniteSet(S), NEW d \in [S -> Int],
         NEW c, Takes(c, S)
  PROVE  \E g \in [SUBSET S -> Int] : Sums(g, S, d, c)
<1>. USE DEF Takes, Sums
<1>. DEFINE Solves(g, n) == \A s \in SUBSET S : Cardinality(s) <= n =>
                g[s] = IF s = {} THEN 0 ELSE d[c[s]] + g[s \ {c[s]}]
            P == {n \in Nat : \E g \in [SUBSET S -> Int] : Solves(g, n)}
<1>1. \A s \in SUBSET S : /\ IsFiniteSet(s) /\ Cardinality(s) \in Nat
                          /\ Cardinality(s) = 0 <=> s = {}
                          /\ Cardinality(s) <= Cardinality(S)
  BY FS_Subset, FS_CardinalityType, FS_EmptySet
<1>2. \A s \in SUBSET S : s # {} =>
         c[s] \in S /\ s \ {c[s]} \in SUBSET S /\ Cardinality(s \ {c[s]}) = Cardinality(s) - 1
  BY <1>1, FS_RemoveElement
<1>3. 0 \in P
  <2>. DEFINE g == [s \in SUBSET S |-> 0]
  <2>1. g \in [SUBSET S -> Int]
    OBVIOUS
  <2>2. Solves(g, 0)
    BY <1>1
  <2>. QED  BY <2>1, <2>2
<1>4. ASSUME NEW n \in P PROVE n + 1 \in P
  <2>1. PICK g \in [SUBSET S -> Int] : Solves(g, n)
    BY <1>4
  <2>. HIDE DEF P
  <2>2. n \in Nat
    BY <1>4 DEF P
  <2>. DEFINE h == [s \in SUBSET S |-> IF s = {} THEN 0
                                       ELSE IF Cardinality(s) <= n THEN g[s] ELSE d[c[s]] + g[s \ {c[s]}]]
  <2>3. h \in [SUBSET S -> Int]
    BY <1>2
  <2>4. ASSUME NEW s \in SUBSET S, Cardinality(s) <= n PROVE h[s] = g[s]
    BY <2>1, <2>4
  <2>5. ASSUME NEW s \in SUBSET S, Cardinality(s) <= n + 1
        PROVE  h[s] = IF s = {} THEN 0 ELSE d[c[s]] + h[s \ {c[s]}]
    <3>1. CASE s = {}
      BY <3>1
    <3>2. CASE s # {}
      <4>1. s \ {c[s]} \in SUBSET S /\ Cardinality(s \ {c[s]}) <= n
        BY <1>1, <1>2, <2>2, <2>5, <3>2
      <4>2. h[s \ {c[s]}] = g[s \ {c[s]}]
        BY <2>4, <4>1
      <4>3. h[s] = d[c[s]] + g[s \ {c[s]}]
        BY <2>1, <3>2
      <4>. QED  BY <3>2, <4>2, <4>3
    <3>. QED  BY <3>1, <3>2
  <2>. HIDE DEF h
  <2>6. n + 1 \in Nat
    BY <2>2
  <2>7. Solves(h, n + 1)
    BY <2>5
  <2>. QED  BY <2>3, <2>6, <2>7 DEF P
<1>5. Cardinality(S) \in P
  <2>. HIDE DEF P
  <2>1. P \in SUBSET Nat
    BY DEF P
  <2>2. P = Nat
    BY <1>3, <1>4, <2>1, InductiveSet
  <2>. QED  BY <1>1, <2>2
<1>. QED  BY <1>1, <1>5

\* ... and any two such sums whose terms differ by x at a, and nowhere else,
\* differ by x where they take a in.
LEMMA SumShift ==
  ASSUME NEW S, NEW c, NEW d, NEW g, NEW e, NEW h, NEW a, NEW x,
         TwoSums(S, c, d, g, e, h, a, x)
  PROVE  Shifted(h, g, S, a, x)
<1>. USE DEF TwoSums, Takes, Sums, MoreAt
<1>. DEFINE P == {n \in Nat : \A s \in SUBSET S :
                     Cardinality(s) = n => h[s] = g[s] + (IF a \in s THEN x ELSE 0)}
<1>1. \A s \in SUBSET S : /\ IsFiniteSet(s) /\ Cardinality(s) \in Nat
                          /\ Cardinality(s) = 0 <=> s = {}
  BY FS_Subset, FS_CardinalityType, FS_EmptySet
<1>2. \A s \in SUBSET S : s # {} =>
         c[s] \in s /\ s \ {c[s]} \in SUBSET S /\ Cardinality(s \ {c[s]}) = Cardinality(s) - 1
  BY <1>1, FS_RemoveElement
<1>3. 0 \in P
  <2>1. ASSUME NEW s \in SUBSET S, Cardinality(s) = 0
        PROVE  h[s] = g[s] + (IF a \in s THEN x ELSE 0)
    <3>1. s = {}
      BY <1>1, <2>1
    <3>2. h[s] = 0 /\ g[s] = 0 /\ a \notin s
      BY <3>1
    <3>. QED  BY <3>2
  <2>. QED  BY <2>1
<1>4. ASSUME NEW n \in P PROVE n + 1 \in P
  <2>1. n \in Nat /\ n + 1 \in Nat /\ n + 1 # 0 /\ n + 1 - 1 = n
    OBVIOUS
  <2>2. ASSUME NEW s \in SUBSET S, Cardinality(s) = n + 1
        PROVE  h[s] = g[s] + (IF a \in s THEN x ELSE 0)
    <3>. DEFINE r == s \ {c[s]}
    <3>1. s # {}
      BY <1>1, <2>1, <2>2
    <3>2. c[s] \in s /\ r \in SUBSET S /\ Cardinality(r) = n
      BY <1>2, <2>1, <2>2, <3>1
    <3>3. h[r] = g[r] + (IF a \in r THEN x ELSE 0)
      BY <1>4, <3>2
    <3>4. h[s] = e[c[s]] + h[r] /\ g[s] = d[c[s]] + g[r]
      BY <3>1
    <3>5. e[c[s]] = d[c[s]] + (IF c[s] = a THEN x ELSE 0) /\ d[c[s]] \in Int /\ g[r] \in Int
      BY <3>2
    <3>6. a \in s <=> a \in r \/ a = c[s]
      BY <3>2
    <3>7. ~(a \in r /\ a = c[s])
      OBVIOUS
    <3>. HIDE DEF r
    <3>. QED  BY <3>3, <3>4, <3>5, <3>6, <3>7
  <2>. QED  BY <2>1, <2>2
<1>5. P = Nat
  <2>1. P \in SUBSET Nat
    OBVIOUS
  <2>. HIDE DEF P
  <2>. QED  BY <1>3, <1>4, <2>1, InductiveSet
<1>. QED  BY <1>1, <1>5 DEF Shifted

\* Two sums of the same terms in the same order are the same.
LEMMA SumUnique ==
  ASSUME NEW S, IsFiniteSet(S), NEW d \in [S -> Int], NEW c, Takes(c, S),
         NEW g \in [SUBSET S -> Int], Sums(g, S, d, c), NEW h, Sums(h, S, d, c)
  PROVE  \A s \in SUBSET S : h[s] = g[s]
<1>1. MoreAt(d, d, S, S, 0)
  BY DEF MoreAt
<1>2. TwoSums(S, c, d, g, d, h, S, 0)
  BY <1>1 DEF TwoSums
<1>3. Shifted(h, g, S, S, 0)
  BY <1>2, SumShift
<1>. QED  BY <1>3 DEF Shifted

SumOf(d) == FoldFunction(LAMBDA a, b : a + b, 0, d)

\* The element the library's fold takes next.
AnyOf(S) == [s \in SUBSET S |-> CHOOSE x \in s : TRUE]

\* The sum over a finite function is the running sum that removes one element at a time.
LEMMA SumOfIs ==
  ASSUME NEW S, IsFiniteSet(S), NEW d \in [S -> Int]
  PROVE  /\ Takes(AnyOf(S), S)
         /\ \E g \in [SUBSET S -> Int] : Sums(g, S, d, AnyOf(S)) /\ SumOf(d) = g[S]
<1>. DEFINE Eqn(T, it) == it = [s \in SUBSET T |-> IF s = {} THEN 0
                              ELSE d[CHOOSE x \in s : TRUE] + it[s \ {CHOOSE x \in s : TRUE}]]
            it0 == CHOOSE it : Eqn(S, it)
<1>1. SumOf(d) = (CHOOSE it : Eqn(DOMAIN d, it))[DOMAIN d]
  BY DEF SumOf, FoldFunction, FoldFunctionOnSet, MapThenFoldSet
<1>2. DOMAIN d = S
  OBVIOUS
<1>3. SumOf(d) = it0[S]
  BY <1>1, <1>2
<1>4. Takes(AnyOf(S), S) /\ \A s \in SUBSET S : AnyOf(S)[s] = CHOOSE x \in s : TRUE
  BY DEF Takes, AnyOf
<1>5. PICK g \in [SUBSET S -> Int] : Sums(g, S, d, AnyOf(S))
  BY <1>4, SumExists
<1>6. \A s \in SUBSET S : g[s] = IF s = {} THEN 0
                  ELSE d[CHOOSE x \in s : TRUE] + g[s \ {CHOOSE x \in s : TRUE}]
  BY <1>4, <1>5 DEF Sums
<1>7. g = [s \in SUBSET S |-> g[s]]
  OBVIOUS
<1>8. Eqn(S, g)
  BY <1>6, <1>7
<1>9. Eqn(S, it0)
  BY <1>8
<1>10. \A s \in SUBSET S : it0[s] = IF s = {} THEN 0
                  ELSE d[CHOOSE x \in s : TRUE] + it0[s \ {CHOOSE x \in s : TRUE}]
  BY <1>9
<1>. HIDE DEF it0
<1>11. Sums(it0, S, d, AnyOf(S))
  BY <1>4, <1>10 DEF Sums
<1>12. it0[S] = g[S]
  BY <1>4, <1>5, <1>11, SumUnique
<1>. QED  BY <1>3, <1>4, <1>5, <1>12

\* Adding x to one term adds x to the sum.
LEMMA SumMore ==
  ASSUME NEW S, IsFiniteSet(S), NEW d \in [S -> Int], NEW e \in [S -> Int],
         NEW a \in S, NEW x \in Int, MoreAt(e, d, S, a, x)
  PROVE  SumOf(e) = SumOf(d) + x
<1>1. PICK g \in [SUBSET S -> Int] : Sums(g, S, d, AnyOf(S)) /\ SumOf(d) = g[S]
  BY SumOfIs
<1>2. PICK h \in [SUBSET S -> Int] : Sums(h, S, e, AnyOf(S)) /\ SumOf(e) = h[S]
  BY SumOfIs
<1>3. Takes(AnyOf(S), S)
  BY SumOfIs
<1>4. TwoSums(S, AnyOf(S), d, g, e, h, a, x)
  BY <1>1, <1>2, <1>3 DEF TwoSums
<1>5. Shifted(h, g, S, a, x)
  BY <1>4, SumShift
<1>6. h[S] = g[S] + x
  BY <1>5 DEF Shifted
<1>. QED  BY <1>1, <1>2, <1>6

\* A sum of zeros is zero.
LEMMA SumZero ==
  ASSUME NEW S, IsFiniteSet(S)
  PROVE  SumOf([i \in S |-> 0]) = 0
<1>. DEFINE d == [i \in S |-> 0]
            h == [s \in SUBSET S |-> 0]
<1>1. d \in [S -> Int]
  OBVIOUS
<1>2. Takes(AnyOf(S), S) /\ \E g \in [SUBSET S -> Int] : Sums(g, S, d, AnyOf(S)) /\ SumOf(d) = g[S]
  <2>. HIDE DEF d
  <2>. QED  BY <1>1, SumOfIs
<1>3. Sums(h, S, d, AnyOf(S))
  BY <1>2 DEF Sums, Takes
<1>4. h[S] = 0
  OBVIOUS
<1>. HIDE DEF d, h
<1>5. PICK g \in [SUBSET S -> Int] : Sums(g, S, d, AnyOf(S)) /\ SumOf(d) = g[S]
  BY <1>2
<1>6. h[S] = g[S]
  BY <1>1, <1>2, <1>3, <1>5, SumUnique
<1>. QED  BY <1>4, <1>5, <1>6 DEF d

(* ----------------------------- the invariant ---------------------------- *)

\* The position never exceeds the volume traded, and its unrealized profit is
\* the one at the latest market price.
VolumeCoversPosition == AbsVal(position.quantity) <= position.total_quantity_traded

UnrealizedIsCurrent ==
    position.unrealized_pnl =
        UnrealizedAt(position.quantity, position.average_entry_price, market_price)

PortfolioInv ==
    /\ PortfolioTypeOK
    /\ DrawdownIsCurrent
    /\ FlatMeansClean
    /\ EquityMatchesPnl
    /\ VolumeCoversPosition
    /\ UnrealizedIsCurrent

(* -------------------------- average-cost algebra ------------------------ *)

\* What is bought and what is held, at the average price before, is accounted
\* for by the average price after and the realized profit, except for half a
\* paisa for each lot held when the average had to be rounded.
LEMMA AverageCost ==
  ASSUME NEW q \in Int, NEW a \in Int, NEW delta \in Int \ {0}, NEW p \in Int
  PROVE  /\ AverageAfter(delta, p, q, a) \in Int
         /\ RealizedBy(delta, p, q, a) \in Int
         /\ q + delta = 0 => AverageAfter(delta, p, q, a) = 0
         /\ 2 * AbsVal(AverageAfter(delta, p, q, a) * (q + delta) - a * q - delta * p - RealizedBy(delta, p, q, a))
               <= AbsVal(q + delta)
<1>. DEFINE aa == AverageAfter(delta, p, q, a)
            r == RealizedBy(delta, p, q, a)
<1>1. CASE Opposes(delta, q)
  <2>1. CASE AbsVal(delta) < AbsVal(q)
    <3>1. aa = a /\ q + delta # 0
      BY <1>1, <2>1 DEF AverageAfter, Opposes, AbsVal
    <3>2. r = (p - a) * (-delta)
      <4>1. CASE q > 0 /\ delta < 0
        BY <2>1, <4>1 DEF RealizedBy, ClosedQty, Opposes, LesserOf, AbsVal
      <4>2. CASE q < 0 /\ delta > 0
        <5>1. r = (a - p) * delta
          BY <2>1, <4>2 DEF RealizedBy, ClosedQty, Opposes, LesserOf, AbsVal
        <5>. QED  BY <5>1
      <4>. QED  BY <1>1, <4>1, <4>2 DEF Opposes
    <3>3. r \in Int
      BY <3>2
    <3>4. a * (q + delta) - a * q - delta * p - r = 0
      BY <3>2
    <3>. QED  BY <3>1, <3>3, <3>4 DEF AbsVal
  <2>2. CASE AbsVal(delta) >= AbsVal(q)
    <3>1. r = (p - a) * q
      <4>1. CASE q > 0 /\ delta < 0
        BY <2>2, <4>1 DEF RealizedBy, ClosedQty, Opposes, LesserOf, AbsVal
      <4>2. CASE q < 0 /\ delta > 0
        <5>1. r = (a - p) * (-q)
          BY <2>2, <4>2 DEF RealizedBy, ClosedQty, Opposes, LesserOf, AbsVal
        <5>. QED  BY <5>1
      <4>. QED  BY <1>1, <4>1, <4>2 DEF Opposes
    <3>2. r \in Int
      BY <3>1
    <3>3. CASE q + delta = 0
      <4>1. aa = 0
        BY <3>3 DEF AverageAfter
      <4>2. delta = -q
        BY <3>3
      <4>3. 0 * (q + delta) - a * q - delta * p - r = 0
        BY <3>1, <4>2
      <4>. QED  BY <3>2, <3>3, <4>1, <4>3 DEF AbsVal
    <3>4. CASE q + delta # 0
      <4>1. aa = p
        BY <1>1, <2>2, <3>4 DEF AverageAfter, Opposes, AbsVal
      <4>2. p * (q + delta) - a * q - delta * p - r = 0
        BY <3>1
      <4>. QED  BY <3>2, <3>4, <4>1, <4>2 DEF AbsVal
    <3>. QED  BY <3>3, <3>4
  <2>. QED  BY <2>1, <2>2 DEF AbsVal
<1>2. CASE ~Opposes(delta, q)
  <2>1. r = 0
    BY <1>2 DEF RealizedBy, ClosedQty
  <2>2. q + delta # 0
    BY <1>2 DEF Opposes
  <2>3. CASE q = 0
    <3>1. aa = p
      BY <1>2, <2>2, <2>3 DEF AverageAfter
    <3>2. p * (q + delta) - a * q - delta * p - 0 = 0
      BY <2>3
    <3>. QED  BY <2>1, <2>2, <3>1, <3>2 DEF AbsVal
  <2>4. CASE q # 0
    <3>. DEFINE n == AbsVal(q) * a + AbsVal(delta) * p
                d == AbsVal(q + delta)
    <3>1. aa = RoundDiv(n, d)
      BY <1>2, <2>2, <2>4 DEF AverageAfter
    <3>2. n \in Int /\ d \in Nat \ {0}
      BY <2>2 DEF AbsVal
    <3>3. RoundDiv(n, d) \in Int /\ 2 * AbsVal(RoundDiv(n, d) * d - n) <= d
      BY <3>2, RoundDivInt, RoundDivError
    <3>. HIDE DEF aa, r
    <3>4. CASE q > 0 /\ delta > 0
      <4>1. n = q * a + delta * p /\ d = q + delta
        BY <3>4 DEF AbsVal
      <4>2. aa * (q + delta) - a * q - delta * p - r = aa * d - n
        BY <2>1, <3>1, <3>3, <4>1
      <4>. QED  BY <2>1, <2>2, <3>1, <3>3, <4>2 DEF aa, r
    <3>5. CASE q < 0 /\ delta < 0
      <4>1. n = (-q) * a + (-delta) * p /\ d = -(q + delta)
        BY <3>5 DEF AbsVal
      <4>2. aa * (q + delta) - a * q - delta * p - r = -(aa * d - n)
        BY <2>1, <3>1, <3>3, <4>1
      <4>3. aa * d - n \in Int
        BY <3>1, <3>2, <3>3
      <4>4. AbsVal(-(aa * d - n)) = AbsVal(aa * d - n)
        BY <4>3 DEF AbsVal
      <4>. QED  BY <2>1, <2>2, <3>1, <3>3, <4>2, <4>4 DEF aa, r
    <3>. QED  BY <1>2, <2>4, <3>4, <3>5 DEF Opposes
  <2>. QED  BY <2>3, <2>4
<1>. QED  BY <1>1, <1>2

(* ------------------------- steps of the portfolio ----------------------- *)

\* A fresh portfolio satisfies the invariant.
LEMMA PortfolioInitInv == PortfolioInit => PortfolioInv
<1> SUFFICES ASSUME PortfolioInit PROVE PortfolioInv
  OBVIOUS
<1>1. /\ position.quantity = 0 /\ position.average_entry_price = 0 /\ position.realized_pnl = 0
      /\ position.unrealized_pnl = 0 /\ position.total_quantity_traded = 0
      /\ position \in Position
      /\ market_price = 0 /\ cash = InitialCash /\ total_brokerage = 0
      /\ peak_equity = InitialCash /\ drawdown = 0 /\ InitialCash \in Int
  BY PortfolioAssumption DEF PortfolioInit, Position
<1>2. PortfolioTypeOK
  BY <1>1 DEF PortfolioInit, PortfolioTypeOK
<1>3. Equity = InitialCash
  BY <1>1 DEF Equity, EquityAt
<1>4. Drift = 0
  BY <1>1, <1>3 DEF Drift
<1>5. DrawdownIsCurrent /\ FlatMeansClean /\ VolumeCoversPosition /\ UnrealizedIsCurrent
  BY <1>1, <1>3 DEF DrawdownIsCurrent, FlatMeansClean, VolumeCoversPosition, UnrealizedIsCurrent,
                    UnrealizedAt, AbsVal
<1>6. EquityMatchesPnl
  BY <1>1, <1>4 DEF EquityMatchesPnl, AbsVal
<1>. QED  BY <1>2, <1>5, <1>6 DEF PortfolioInv

\* The peak and the drawdown after any update are those of the new equity.
LEMMA DrawdownAfterUpdate ==
  ASSUME PortfolioInv, NEW equity \in Int, UpdateEquityAndDrawdown(equity), Equity' = equity
  PROVE  peak_equity' \in Int /\ drawdown' \in Int /\ DrawdownIsCurrent'
  BY DEF PortfolioInv, PortfolioTypeOK, UpdateEquityAndDrawdown, DrawdownIsCurrent

\* Drift is what cost basis, cash and profits fail to add up to; the market
\* price cancels out.
LEMMA DriftIsCostBasis ==
  PortfolioTypeOK /\ UnrealizedIsCurrent =>
    /\ Drift = cash + position.average_entry_price * position.quantity - InitialCash
                - position.realized_pnl + total_brokerage
    /\ Drift \in Int
<1>. SUFFICES ASSUME PortfolioTypeOK, UnrealizedIsCurrent
              PROVE  /\ Drift = cash + position.average_entry_price * position.quantity - InitialCash
                                 - position.realized_pnl + total_brokerage
                     /\ Drift \in Int
  OBVIOUS
<1>. DEFINE q == position.quantity
            a == position.average_entry_price
<1>1. /\ q \in Int /\ a \in Int /\ market_price \in Int /\ cash \in Int /\ InitialCash \in Int
      /\ total_brokerage \in Int /\ position.realized_pnl \in Int
  BY PortfolioAssumption DEF PortfolioTypeOK, Position
<1>2. position.unrealized_pnl = (market_price - a) * q
  BY DEF UnrealizedIsCurrent, UnrealizedAt
<1>. HIDE DEF q, a
<1>3. (market_price - a) * q = market_price * q - a * q
  BY <1>1
<1>4. Equity = cash + market_price * q
  BY <1>1 DEF Equity, EquityAt, q
<1>5. market_price * q \in Int /\ a * q \in Int
  BY <1>1
<1>6. Drift = cash + a * q - InitialCash - position.realized_pnl + total_brokerage
  BY <1>1, <1>2, <1>3, <1>4, <1>5 DEF Drift
<1>. QED  BY <1>1, <1>5, <1>6 DEF q, a

\* A bound on squares: a step of |delta| lots leaves room for its rounding error.
LEMMA VolumeBoundGrows ==
  ASSUME NEW t \in Nat, NEW n \in Nat \ {0}
  PROVE  t * t + (t + n) <= (t + n) * (t + n)
<1>1. (t + n) * (t + n) = t * t + (t * n + n * t + n * n)
  OBVIOUS
<1>2. t <= t * n /\ n <= n * n /\ 0 <= n * t
  OBVIOUS
<1>3. t * t \in Int /\ t * n \in Int /\ n * t \in Int /\ n * n \in Int
  OBVIOUS
<1>. QED  BY <1>1, <1>2, <1>3

\* A fill keeps the books consistent and moves the position by its size.
LEMMA ProcessFillInv ==
  ASSUME PortfolioInv, NEW delta \in Int \ {0}, NEW price \in Int, NEW brokerage \in Int, NEW day \in Days,
         ProcessFill(delta, price, brokerage, day)
  PROVE  PortfolioInv' /\ position'.quantity = position.quantity + delta
<1>. DEFINE q == position.quantity
            a == position.average_entry_price
            a1 == AverageAfter(delta, price, q, a)
            r == RealizedBy(delta, price, q, a)
            t == position.total_quantity_traded
<1>1. /\ q \in Int /\ a \in Int /\ t \in Nat /\ market_price \in Int /\ cash \in Int
      /\ total_brokerage \in Int /\ position.realized_pnl \in Int
      /\ daily_realized_pnl \in [Days -> Int]
  BY DEF PortfolioInv, PortfolioTypeOK, Position
<1>2. /\ a1 \in Int /\ r \in Int
      /\ q + delta = 0 => a1 = 0
      /\ 2 * AbsVal(a1 * (q + delta) - a * q - delta * price - r) <= AbsVal(q + delta)
  BY <1>1, AverageCost
<1>3. /\ cash' = cash - delta * price - brokerage
      /\ total_brokerage' = total_brokerage + brokerage
      /\ position' = [quantity |-> q + delta, average_entry_price |-> a1,
                       realized_pnl |-> position.realized_pnl + r,
                       unrealized_pnl |-> UnrealizedAt(q + delta, a1, price),
                       total_quantity_traded |-> t + AbsVal(delta)]
      /\ daily_realized_pnl' = [daily_realized_pnl EXCEPT ![day] = @ + r]
      /\ market_price' = price
      /\ UpdateEquityAndDrawdown(EquityAt(cash', q + delta, price))
  BY DEF ProcessFill
<1>4. /\ position'.quantity = q + delta /\ position'.average_entry_price = a1
      /\ position'.realized_pnl = position.realized_pnl + r
      /\ position'.unrealized_pnl = UnrealizedAt(q + delta, a1, price)
      /\ position'.total_quantity_traded = t + AbsVal(delta)
  BY <1>3
<1>. HIDE DEF q, a, a1, r, t
<1>5. AbsVal(delta) \in Nat \ {0}
  BY DEF AbsVal
<1>6. UnrealizedAt(q + delta, a1, price) \in Int /\ cash' \in Int
  BY <1>1, <1>2, <1>3 DEF UnrealizedAt
<1>7. EquityAt(cash', q + delta, price) \in Int /\ Equity' = EquityAt(cash', q + delta, price)
  BY <1>1, <1>3, <1>4, <1>6 DEF Equity, EquityAt
<1>8. peak_equity' \in Int /\ drawdown' \in Int /\ DrawdownIsCurrent'
  BY <1>3, <1>7, DrawdownAfterUpdate
<1>9. daily_realized_pnl' \in [Days -> Int]
  BY <1>1, <1>2, <1>3
<1>10. position' \in Position
  BY <1>1, <1>2, <1>3, <1>5, <1>6 DEF Position
<1>11. PortfolioTypeOK'
  BY <1>1, <1>3, <1>6, <1>8, <1>9, <1>10 DEF PortfolioTypeOK
<1>12. UnrealizedIsCurrent'
  BY <1>3, <1>4 DEF UnrealizedIsCurrent
<1>13. FlatMeansClean'
  BY <1>1, <1>2, <1>4 DEF FlatMeansClean, UnrealizedAt
<1>14. AbsVal(q + delta) <= t + AbsVal(delta)
  BY <1>1 DEF PortfolioInv, VolumeCoversPosition, AbsVal, q, t
<1>15. VolumeCoversPosition'
  BY <1>4, <1>14 DEF VolumeCoversPosition
<1>16. EquityMatchesPnl'
  <2>. DEFINE e == a1 * (q + delta) - a * q - delta * price - r
  <2>1. InitialCash \in Int
    BY PortfolioAssumption
  <2>2. Drift = cash + a * q - InitialCash - position.realized_pnl + total_brokerage /\ Drift \in Int
    BY DriftIsCostBasis DEF PortfolioInv, q, a
  <2>3. (PortfolioTypeOK /\ UnrealizedIsCurrent =>
           /\ Drift = cash + position.average_entry_price * position.quantity - InitialCash
                       - position.realized_pnl + total_brokerage
           /\ Drift \in Int)'
    BY DriftIsCostBasis, PTL
  <2>4. Drift' = cash' + a1 * (q + delta) - InitialCash - (position.realized_pnl + r)
                 + (total_brokerage + brokerage)
    BY <1>3, <1>4, <1>11, <1>12, <2>3
  <2>5. a1 * (q + delta) \in Int /\ a * q \in Int /\ delta * price \in Int
    BY <1>1, <1>2
  <2>6. e \in Int /\ Drift' = Drift + e
    BY <1>1, <1>2, <1>3, <2>1, <2>2, <2>4, <2>5
  <2>7. 2 * AbsVal(e) <= AbsVal(q + delta)
    BY <1>2
  <2>8. 2 * AbsVal(Drift) <= t * t
    BY DEF PortfolioInv, EquityMatchesPnl, t
  <2>9. t * t + (t + AbsVal(delta)) <= (t + AbsVal(delta)) * (t + AbsVal(delta))
    BY <1>1, <1>5, VolumeBoundGrows
  <2>10. AbsVal(Drift + e) <= AbsVal(Drift) + AbsVal(e) /\ AbsVal(Drift) \in Int /\ AbsVal(e) \in Int
    <3>. HIDE DEF e
    <3>. QED  BY <2>2, <2>6 DEF AbsVal
  <2>11. t * t \in Int /\ (t + AbsVal(delta)) * (t + AbsVal(delta)) \in Int
    BY <1>1, <1>5
  <2>12. AbsVal(Drift + e) \in Int /\ AbsVal(q + delta) \in Int
    <3>. HIDE DEF e
    <3>. QED  BY <1>1, <2>2, <2>6 DEF AbsVal
  <2>. HIDE DEF e
  <2>13. 2 * AbsVal(Drift + e) <= (t + AbsVal(delta)) * (t + AbsVal(delta))
    BY <1>1, <1>5, <1>14, <2>7, <2>8, <2>9, <2>10, <2>11, <2>12
  <2>. QED  BY <1>4, <2>6, <2>13 DEF EquityMatchesPnl
<1>. QED  BY <1>4, <1>8, <1>11, <1>12, <1>13, <1>15, <1>16 DEF PortfolioInv, q

\* A mark moves neither the position nor the drift.
LEMMA MarkToMarketInv ==
  ASSUME PortfolioInv, NEW price \in Int, MarkToMarket(price)
  PROVE  PortfolioInv' /\ position'.quantity = position.quantity
<1>. DEFINE q == position.quantity
            a == position.average_entry_price
<1>1. /\ q \in Int /\ a \in Int /\ cash \in Int /\ position \in Position
  BY DEF PortfolioInv, PortfolioTypeOK, Position
<1>2. /\ market_price' = price
      /\ position' = [position EXCEPT !.unrealized_pnl = UnrealizedAt(q, a, price)]
      /\ UpdateEquityAndDrawdown(EquityAt(cash, q, price))
      /\ cash' = cash /\ daily_realized_pnl' = daily_realized_pnl /\ total_brokerage' = total_brokerage
  BY DEF MarkToMarket
<1>3. UnrealizedAt(q, a, price) \in Int /\ EquityAt(cash, q, price) \in Int
  BY <1>1 DEF UnrealizedAt, EquityAt
<1>4. /\ position' \in Position
      /\ position'.quantity = q /\ position'.average_entry_price = a
      /\ position'.realized_pnl = position.realized_pnl
      /\ position'.total_quantity_traded = position.total_quantity_traded
      /\ position'.unrealized_pnl = UnrealizedAt(q, a, price)
  BY <1>1, <1>2, <1>3 DEF Position
<1>5. Equity' = EquityAt(cash, q, price)
  BY <1>2, <1>4 DEF Equity
<1>6. peak_equity' \in Int /\ drawdown' \in Int /\ DrawdownIsCurrent'
  BY <1>2, <1>3, <1>5, DrawdownAfterUpdate
<1>7. PortfolioTypeOK'
  BY <1>2, <1>4, <1>6 DEF PortfolioInv, PortfolioTypeOK
<1>8. UnrealizedIsCurrent' /\ VolumeCoversPosition'
  BY <1>2, <1>4 DEF PortfolioInv, UnrealizedIsCurrent, VolumeCoversPosition
<1>9. FlatMeansClean'
  BY <1>1, <1>4 DEF PortfolioInv, FlatMeansClean, UnrealizedAt
<1>10. EquityMatchesPnl'
  <2>1. Drift = cash + a * q - InitialCash - position.realized_pnl + total_brokerage
    BY DriftIsCostBasis DEF PortfolioInv
  <2>2. (PortfolioTypeOK /\ UnrealizedIsCurrent =>
           /\ Drift = cash + position.average_entry_price * position.quantity - InitialCash
                       - position.realized_pnl + total_brokerage
           /\ Drift \in Int)'
    BY DriftIsCostBasis, PTL
  <2>3. Drift' = Drift
    BY <1>2, <1>4, <1>7, <1>8, <2>1, <2>2
  <2>. QED  BY <1>4, <2>3 DEF PortfolioInv, EquityMatchesPnl
<1>. QED  BY <1>4, <1>6, <1>7, <1>8, <1>9, <1>10 DEF PortfolioInv

(* ------------------------------ the client ----------------------------- *)

\* Every fill and every mark preserves the invariant.
LEMMA ClientStepInv == PortfolioInv /\ [ClientNext]_portfolioVars => PortfolioInv'
<1> SUFFICES ASSUME PortfolioInv, [ClientNext]_portfolioVars PROVE PortfolioInv'
  OBVIOUS
<1>1. ASSUME NEW delta \in FillDeltas, NEW price \in FillPrices, NEW fee \in Fees, NEW day \in Days,
             Trade(delta, price, fee, day)
      PROVE  PortfolioInv'
  <2>1. delta \in Int \ {0} /\ price \in Int /\ fee \in Int
    BY ClientAssumption
  <2>2. ProcessFill(delta, price, fee, day)
    BY <1>1 DEF Trade
  <2>. QED  BY <2>1, <2>2, ProcessFillInv
<1>2. ASSUME NEW price \in FillPrices, MarkToMarket(price) PROVE PortfolioInv'
  <2>1. price \in Int
    BY ClientAssumption
  <2>. QED  BY <1>2, <2>1, MarkToMarketInv
<1>3. CASE UNCHANGED portfolioVars
  BY <1>3 DEF portfolioVars, PortfolioInv, PortfolioTypeOK, DrawdownIsCurrent, Equity, FlatMeansClean,
              EquityMatchesPnl, Drift, VolumeCoversPosition, UnrealizedIsCurrent
<1>. QED  BY <1>1, <1>2, <1>3 DEF ClientNext

\* The invariant holds after any sequence of fills and marks.
LEMMA ClientSpecInv == ClientSpec => []PortfolioInv
  BY PortfolioInitInv, ClientStepInv, PTL DEF ClientSpec

\* The portfolio's state keeps its shape under any fills and marks.
THEOREM PortfolioTypeCorrect == ClientSpec => []PortfolioTypeOK
<1>1. PortfolioInv => PortfolioTypeOK
  BY DEF PortfolioInv
<1>. QED  BY <1>1, ClientSpecInv, PTL

\* "Exact average-cost accounting": equity and reported profit differ by no
\* more than the rounding of the average price can explain, for fills of any
\* size and price, in any order.
THEOREM AverageCostIsExact == ClientSpec => []EquityMatchesPnl
<1>1. PortfolioInv => EquityMatchesPnl
  BY DEF PortfolioInv
<1>. QED  BY <1>1, ClientSpecInv, PTL

\* The drawdown is never stale and never negative.
THEOREM DrawdownNeverStale == ClientSpec => []DrawdownIsCurrent
<1>1. PortfolioInv => DrawdownIsCurrent
  BY DEF PortfolioInv
<1>. QED  BY <1>1, ClientSpecInv, PTL

\* A closed position leaves no cost basis and no open profit behind.
THEOREM ClosedBookIsClean == ClientSpec => []FlatMeansClean
<1>1. PortfolioInv => FlatMeansClean
  BY DEF PortfolioInv
<1>. QED  BY <1>1, ClientSpecInv, PTL

\* The fold of the property is the sum the lemmas are about.
LEMMA DailySum == DailyPnlAddsUp <=> SumOf(daily_realized_pnl) = position.realized_pnl
  BY DEF DailyPnlAddsUp, SumOf

\* What a fill books on its day it books in total, and a mark books nothing.
LEMMA DailyStep == PortfolioTypeOK /\ DailyPnlAddsUp /\ [ClientNext]_portfolioVars => DailyPnlAddsUp'
<1>. SUFFICES ASSUME PortfolioTypeOK, DailyPnlAddsUp, [ClientNext]_portfolioVars PROVE DailyPnlAddsUp'
  OBVIOUS
<1>1. SumOf(daily_realized_pnl) = position.realized_pnl
  BY DailySum
<1>2. SUFFICES SumOf(daily_realized_pnl') = position'.realized_pnl
  <2>1. DailyPnlAddsUp' <=> (SumOf(daily_realized_pnl) = position.realized_pnl)'
    BY DailySum, PTL
  <2>. QED  BY <2>1
<1>3. ASSUME NEW delta \in FillDeltas, NEW price \in FillPrices, NEW fee \in Fees, NEW day \in Days,
             Trade(delta, price, fee, day)
      PROVE  SumOf(daily_realized_pnl') = position'.realized_pnl
  <2>. DEFINE realized == RealizedBy(delta, price, position.quantity, position.average_entry_price)
  <2>1. /\ delta \in Int \ {0} /\ price \in Int
        /\ position.quantity \in Int /\ position.average_entry_price \in Int
    BY ClientAssumption DEF PortfolioTypeOK, Position
  <2>2. realized \in Int
    BY <2>1, AverageCost
  <2>3. /\ daily_realized_pnl' = [daily_realized_pnl EXCEPT ![day] = @ + realized]
        /\ position'.realized_pnl = position.realized_pnl + realized
    BY <1>3 DEF Trade, ProcessFill
  <2>. HIDE DEF realized
  <2>4. daily_realized_pnl \in [Days -> Int] /\ IsFiniteSet(Days)
    BY ClientAssumption DEF PortfolioTypeOK
  <2>5. SumOf(daily_realized_pnl') = SumOf(daily_realized_pnl) + realized
    <3>1. /\ daily_realized_pnl' \in [Days -> Int]
          /\ MoreAt(daily_realized_pnl', daily_realized_pnl, Days, day, realized)
      BY <2>2, <2>3, <2>4 DEF MoreAt
    <3>. QED  BY <2>2, <2>4, <3>1, SumMore
  <2>. QED  BY <1>1, <2>3, <2>5
<1>4. ASSUME NEW price \in FillPrices, MarkToMarket(price)
      PROVE  SumOf(daily_realized_pnl') = position'.realized_pnl
  <2>1. daily_realized_pnl' = daily_realized_pnl /\ position'.realized_pnl = position.realized_pnl
    BY <1>4 DEF MarkToMarket, PortfolioTypeOK, Position
  <2>. QED  BY <1>1, <2>1
<1>5. CASE UNCHANGED portfolioVars
  BY <1>1, <1>5 DEF portfolioVars
<1>. QED  BY <1>3, <1>4, <1>5 DEF ClientNext

\* No day and no total has booked anything at the start.
LEMMA DailyInit == PortfolioInit => DailyPnlAddsUp
<1>. SUFFICES ASSUME PortfolioInit PROVE SumOf(daily_realized_pnl) = position.realized_pnl
  BY DailySum
<1>1. SumOf([d \in Days |-> 0]) = 0
  BY SumZero, ClientAssumption
<1>. QED  BY <1>1 DEF PortfolioInit

\* The per-day figures the loss limit is read from add up to the cumulative one
\* the result reports, whatever is traded on whatever days, in any order.
THEOREM DaysAddUp == ClientSpec => []DailyPnlAddsUp
<1>1. PortfolioInv => PortfolioTypeOK
  BY DEF PortfolioInv
<1>. QED  BY <1>1, ClientSpecInv, DailyInit, DailyStep, PTL DEF ClientSpec

==============================================================================
