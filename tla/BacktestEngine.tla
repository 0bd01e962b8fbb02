---------------------------- MODULE BacktestEngine ----------------------------
(***************************************************************************)
(* engine/backtest.py, BacktestEngine.run: the loop that drives broker,    *)
(* portfolio, strategy and risk manager over the bars of one run.  The     *)
(* phases of a bar are                                                     *)
(*                                                                         *)
(*   OPEN      execute the orders of the previous bar at the open          *)
(*   SETTLE    hand the fills, one by one, to portfolio and strategy       *)
(*   VALIDATE  pass the strategy's orders, one by one, through the gate    *)
(*   (close)   mark to market; after the last bar cancel what is pending   *)
(*                                                                         *)
(* The strategy is any object with on_bar, on_fill and get_pyramid_count:  *)
(* on_bar returns any batch of Proposals, get_pyramid_count any of         *)
(* PyramidCounts, and on_bar may switch the risk manager or the broker's   *)
(* failure hooks, the only calls during a run that can.                    *)
(***************************************************************************)
EXTENDS PaperBroker, Portfolio, RiskManager

CONSTANTS
    NBars,            \* number of bars of the run
    Bars,             \* the bars that may be fed, records with open and close
    BarDay,           \* BarDay[i]: calendar date of the i-th bar
    MacroSnapshots,   \* what may be known of a date: [regime, india_vix]
    MaxBatch,         \* bound on the orders of one on_bar call
    PyramidCounts,    \* what get_pyramid_count may answer
    HookSettings      \* settings of (kill switch, broker failure, broker rejection)

ASSUME EngineAssumption ==
    /\ NBars \in Nat \ {0}
    /\ \A b \in Bars : b.open \in MarketPrices /\ b.close \in MarketPrices
    /\ \A i \in 1..NBars : BarDay[i] \in Days
    /\ MaxBatch \in Nat
    /\ PyramidCounts \subseteq Nat
    /\ HookSettings \subseteq BOOLEAN \X BOOLEAN \X BOOLEAN

VARIABLES
    phase, bar_index, bar,
    macro_by_date,        \* _macro_by_date
    fill_queue,           \* fills returned by the broker, not yet processed
    candidate_orders,     \* orders of this bar, not yet validated
    projected_pos, projected_pyramids, daily_pnl, circuit_breaker,
    order_records,        \* OrderRecord log: [client_order_id, signal_time, status]
    order_signal_times,   \* bar at which an id was last proposed, 0: never
    trades,               \* TradeRecord log
    equity_curve,
    approved_positions,   \* history: projected position at each approval that
                          \* has not been settled yet
    phantom_approval      \* history: an approval added no PENDING order

loopVars == <<phase, bar_index, bar, macro_by_date>>
gateVars == <<candidate_orders, projected_pos, projected_pyramids, daily_pnl, circuit_breaker>>
logVars == <<order_records, order_signal_times, trades, equity_curve>>
historyVars == <<approved_positions, phantom_approval>>

vars == <<brokerVars, portfolioVars, kill_switch_active, loopVars, fill_queue, gateVars, logVars,
          historyVars>>

Phase == {"OPEN", "SETTLE", "VALIDATE", "DONE", "ABORTED"}

OrderRecord == [client_order_id : OrderIds, signal_time : 1..NBars, status : OrderStatus]

TradeRecord == [order_id : OrderIds, signal_time : 0..NBars, execution_time : 1..NBars]

NoSnapshot == [regime |-> "UNKNOWN", india_vix |-> 0]

\* The loop's own threshold (20.0), not the macro engine's configured one.
CircuitBreaker(snapshot) == snapshot.regime = "BEARISH" /\ snapshot.india_vix > 20

Today == BarDay[bar_index]

Batches == UNION {[1..n -> Proposals] : n \in 0..MaxBatch}

Init ==
    /\ BrokerInit
    /\ PortfolioInit
    /\ kill_switch_active = FALSE
    /\ phase = "OPEN"
    /\ bar_index = 1
    /\ bar \in Bars
    /\ macro_by_date \in [Days -> MacroSnapshots]
    /\ fill_queue = <<>>
    /\ candidate_orders = <<>>
    /\ projected_pos = 0
    /\ projected_pyramids = 0
    /\ daily_pnl = 0
    /\ circuit_breaker = FALSE
    /\ order_records = <<>>
    /\ order_signal_times = [id \in OrderIds |-> 0]
    /\ trades = <<>>
    /\ equity_curve = <<>>
    /\ approved_positions = <<>>
    /\ phantom_approval = FALSE

\* A fault: the scan of the log stops at the first record of an id.
MarkRecordsFirst(ids, s) ==
    order_records' = [i \in 1..Len(order_records) |->
        IF /\ order_records[i].client_order_id \in ids
           /\ \A j \in 1..(i - 1) :
                 order_records[j].client_order_id # order_records[i].client_order_id
        THEN [order_records[i] EXCEPT !.status = s] ELSE order_records[i]]

\* Every record of these ids gets the status, also one that had another.
MarkRecords(ids, s) ==
    order_records' = [i \in 1..Len(order_records) |->
        IF order_records[i].client_order_id \in ids
        THEN [order_records[i] EXCEPT !.status = s] ELSE order_records[i]]

(* ----------------------- Step 1: the open of a bar ---------------------- *)

\* No execution before the first bar (idx > 0).
OpenFirstBar ==
    /\ phase = "OPEN"
    /\ bar_index = 1
    /\ phase' = "SETTLE"
    /\ UNCHANGED <<brokerVars, portfolioVars, kill_switch_active, bar_index, bar, macro_by_date,
                   fill_queue, gateVars, logVars, historyVars>>

OpenBar ==
    /\ phase = "OPEN"
    /\ bar_index > 1
    /\ ExecutePendingOrders(bar.open)
    /\ fill_queue' = PendingFills(bar.open)
    /\ phase' = "SETTLE"
    /\ UNCHANGED <<hooks, portfolioVars, kill_switch_active, bar_index, bar, macro_by_date,
                   gateVars, logVars, historyVars>>

SettleFill ==
    /\ phase = "SETTLE"
    /\ fill_queue # <<>>
    /\ LET fill == Head(fill_queue)
       IN  /\ ProcessFill(SignedQty(fill.side, fill.filled_qty), fill.filled_price, fill.brokerage, Today)
           /\ trades' = Append(trades, [order_id |-> fill.order_id,
                                        signal_time |-> order_signal_times[fill.order_id],
                                        execution_time |-> bar_index])
           /\ MarkRecords({fill.order_id}, "FILLED")
    /\ fill_queue' = Tail(fill_queue)
    /\ approved_positions' = Tail(approved_positions)
    /\ UNCHANGED <<brokerVars, kill_switch_active, loopVars, gateVars, order_signal_times,
                   equity_curve, phantom_approval>>

(* ---------------- Steps 2 and 3: macro regime and on_bar ---------------- *)

Signal(batch, pyramids, settings) ==
    /\ phase = "SETTLE"
    /\ fill_queue = <<>>
    /\ candidate_orders' = batch
    /\ kill_switch_active' = settings[1]
    /\ simulate_broker_failure' = settings[2]
    /\ simulate_order_rejection' = settings[3]
    /\ circuit_breaker' = CircuitBreaker(macro_by_date[Today])
    /\ projected_pos' = position.quantity
    /\ projected_pyramids' = pyramids
    /\ daily_pnl' = daily_realized_pnl[Today]
    /\ approved_positions' = <<>>
    /\ phase' = "VALIDATE"
    /\ UNCHANGED <<orders, pending, fills, portfolioVars, bar_index, bar, macro_by_date, fill_queue,
                   logVars, phantom_approval>>

(* -------------------- Step 4: validation of the batch ------------------- *)

\* Two faults: the filled position instead of the projected one, and the
\* optional circuit-breaker argument left at its default.
AllowedFromFilled(o) ==
    IsAllowed(o, position.quantity, projected_pyramids, daily_pnl, circuit_breaker, MaxPositionSize)

AllowedWithoutBreaker(o) ==
    IsAllowed(o, projected_pos, projected_pyramids, daily_pnl, FALSE, MaxPositionSize)

Allowed(o) ==
    IsAllowed(o, projected_pos, projected_pyramids, daily_pnl, circuit_breaker, MaxPositionSize)

\* A fault: a signal time once noted is kept.
NoteSignalOnce(o) ==
    order_signal_times' = [order_signal_times EXCEPT ![o.client_order_id] = IF @ = 0 THEN bar_index ELSE @]

NoteSignal(o) ==
    order_signal_times' = [order_signal_times EXCEPT ![o.client_order_id] = bar_index]

\* The bookkeeping every validated order gets, refused or approved.
Log(o, s) ==
    /\ NoteSignal(o)
    /\ order_records' = Append(order_records, [client_order_id |-> o.client_order_id,
                                               signal_time |-> bar_index, status |-> s])
    /\ candidate_orders' = Tail(candidate_orders)
    /\ UNCHANGED <<portfolioVars, kill_switch_active, loopVars, fill_queue, hooks, daily_pnl,
                   circuit_breaker, trades, equity_curve>>

\* A fault: a refused order moves the projection.
RefuseOrderCounting ==
    /\ phase = "VALIDATE"
    /\ candidate_orders # <<>>
    /\ ~Allowed(Head(candidate_orders))
    /\ Log(Head(candidate_orders), "REJECTED")
    /\ projected_pos' = projected_pos
                       + SignedQty(Head(candidate_orders).side, Head(candidate_orders).quantity)
    /\ UNCHANGED <<orders, pending, fills, projected_pyramids, historyVars>>

RefuseOrder ==
    /\ phase = "VALIDATE"
    /\ candidate_orders # <<>>
    /\ ~Allowed(Head(candidate_orders))
    /\ Log(Head(candidate_orders), "REJECTED")
    /\ UNCHANGED <<orders, pending, fills, projected_pos, projected_pyramids, historyVars>>

PyramidsAfter(o) ==
    LET effect == ClassifyOrderEffect(o, projected_pos)
    IN  CASE effect \in {"NEW_ENTRY", "REVERSAL"} -> 1
          [] effect = "SAME_DIRECTION_ENTRY" -> projected_pyramids + 1
          [] effect = "COMPLETE_REDUCTION" -> 0
          [] effect = "PARTIAL_REDUCTION" -> projected_pyramids

\* The record says PENDING and the projection moves, whatever place_order returned.
Approve(o) ==
    /\ phase = "VALIDATE"
    /\ candidate_orders # <<>>
    /\ Allowed(o)
    /\ Log(o, "PENDING")
    /\ projected_pos' = projected_pos + SignedQty(o.side, o.quantity)
    /\ projected_pyramids' = PyramidsAfter(o)
    /\ approved_positions' = Append(approved_positions, projected_pos')

ApproveNew ==
    /\ Approve(Head(candidate_orders))
    /\ PlaceNew(Head(candidate_orders))
    /\ UNCHANGED phantom_approval

ApproveExisting ==
    /\ Approve(Head(candidate_orders))
    /\ PlaceExisting(Head(candidate_orders))
    /\ phantom_approval' = TRUE

ApproveRejected ==
    /\ Approve(Head(candidate_orders))
    /\ PlaceRejected(Head(candidate_orders))
    /\ phantom_approval' = TRUE

\* place_order raised: the exception leaves run().
AbortRun ==
    /\ phase = "VALIDATE"
    /\ candidate_orders # <<>>
    /\ LET o == Head(candidate_orders)
       IN  /\ Allowed(o)
           /\ PlaceRaises(o)
           /\ NoteSignal(o)
    /\ phase' = "ABORTED"
    /\ UNCHANGED <<brokerVars, portfolioVars, kill_switch_active, bar_index, bar, macro_by_date,
                   fill_queue, gateVars, order_records, trades, equity_curve, historyVars>>

(* ------------------ Steps 5 and 6: the close of a bar ------------------- *)

MarkClose ==
    /\ phase = "VALIDATE"
    /\ candidate_orders = <<>>
    /\ MarkToMarket(bar.close)
    /\ equity_curve' = Append(equity_curve, EquityAt(cash, position.quantity, bar.close))

CloseBar ==
    /\ MarkClose
    /\ bar_index < NBars
    /\ bar_index' = bar_index + 1
    /\ bar' \in Bars
    /\ phase' = "OPEN"
    /\ UNCHANGED <<brokerVars, kill_switch_active, macro_by_date, fill_queue, gateVars,
                   order_records, order_signal_times, trades, historyVars>>

\* cancel_order raises under a broker failure, which no pending order of this
\* bar can have survived: place_order would have raised first.
FinishRun ==
    /\ MarkClose
    /\ bar_index = NBars
    /\ pending # <<>> => ~simulate_broker_failure
    /\ Transition(PendingIds, "CANCELLED")
    /\ pending' = <<>>
    /\ MarkRecords(PendingIds, "CANCELLED")
    /\ approved_positions' = <<>>
    /\ phase' = "DONE"
    /\ UNCHANGED <<fills, hooks, kill_switch_active, bar_index, bar, macro_by_date, fill_queue,
                   gateVars, order_signal_times, trades, phantom_approval>>

Validate == RefuseOrder \/ ApproveNew \/ ApproveExisting \/ ApproveRejected \/ AbortRun

Next ==
    \/ OpenFirstBar
    \/ OpenBar
    \/ SettleFill
    \/ \E batch \in Batches, n \in PyramidCounts, settings \in HookSettings : Signal(batch, n, settings)
    \/ Validate
    \/ CloseBar
    \/ FinishRun

Spec == Init /\ [][Next]_vars

\* run() is a plain loop: while it can take a step it does.
FairSpec == Spec /\ WF_vars(Next)

(* ------------------------------ properties ------------------------------ *)

TypeOK ==
    /\ BrokerTypeOK
    /\ PortfolioTypeOK
    /\ kill_switch_active \in BOOLEAN
    /\ phase \in Phase
    /\ bar_index \in 1..NBars
    /\ bar \in Bars
    /\ macro_by_date \in [Days -> MacroSnapshots]
    /\ fill_queue \in Seq(Fill)
    /\ candidate_orders \in Seq(Proposals)
    /\ projected_pos \in Int
    /\ projected_pyramids \in Nat
    /\ daily_pnl \in Int
    /\ circuit_breaker \in BOOLEAN
    /\ order_records \in Seq(OrderRecord)
    /\ order_signal_times \in [OrderIds -> 0..NBars]
    /\ trades \in Seq(TradeRecord)
    /\ equity_curve \in Seq(Int)
    /\ approved_positions \in Seq(Int)
    /\ phantom_approval \in BOOLEAN

\* The net position never exceeds max_position_size, at no fill of a batch,
\* whatever mix of buys and sells the strategy emits: the projection the gate
\* uses is only worth something if the fills of the next open take the same
\* path.  (A run that approved an order the broker did not queue is excused:
\* see CapAlways.)
PositionWithinCap == phantom_approval \/ AbsVal(position.quantity) <= MaxPositionSize

\* The k-th fill of an open lands the portfolio exactly on the position that
\* was projected when the k-th order of the bar before was approved.
FillsLandOnApprovedPositions ==
    [][fill_queue # <<>> /\ fill_queue' = Tail(fill_queue) /\ ~phantom_approval =>
          position'.quantity = Head(approved_positions)]_vars

\* What the gate projects is what the books will show once everything that is
\* pending fills: no order is counted twice and none is forgotten.
ProjectionMatchesBook ==
    phase = "VALIDATE" /\ ~phantom_approval =>
        projected_pos = position.quantity
            + FoldLeft(LAMBDA sum, id : sum + SignedQty(orders[id].side, orders[id].quantity), 0, pending)

\* No look-ahead and no late fill: an order is executed at the open of the
\* bar that follows the one which proposed it.
ExecutedAtNextOpen ==
    \A i \in 1..Len(trades) : trades[i].execution_time = trades[i].signal_time + 1

\* The status the outside can observe: an executed order whose fill has not
\* been handed over yet still counts as pending.
ObservedStatus(id) ==
    IF \E i \in 1..Len(fill_queue) : fill_queue[i].order_id = id THEN "PENDING" ELSE orders[id].status

\* The order log and the broker tell the same story of every order that
\* passed the gate, through execution, hand-over and the final cancellation.
LogMatchesBook ==
    ~phantom_approval =>
        \A i \in 1..Len(order_records) :
            order_records[i].status \in {"REJECTED", ObservedStatus(order_records[i].client_order_id)}

\* On a bar whose gate is closed - kill switch, circuit breaker of the date,
\* or a realized loss of the date, as the books show it, at the limit -
\* nothing is approved, orders that would only reduce the position included.
ClosedGateApprovesNothing ==
    /\ phase = "VALIDATE"
    /\ \/ kill_switch_active
       \/ CircuitBreaker(macro_by_date[Today])
       \/ daily_realized_pnl[Today] <= -DailyLossLimit
    => \A i \in 1..Len(order_records) :
          order_records[i].signal_time = bar_index => order_records[i].status = "REJECTED"

\* The run as an OrderLedger: execution at the broker is not yet settlement;
\* an order settles when the portfolio has processed its fill.
QueueItem(id, side, quantity) == [id |-> id, delta |-> SignedQty(side, quantity)]

LedgerQueue ==
    IF phase = "SETTLE"
    THEN [i \in 1..Len(fill_queue) |->
             QueueItem(fill_queue[i].order_id, fill_queue[i].side, fill_queue[i].filled_qty)]
    ELSE [i \in 1..Len(pending) |->
             QueueItem(pending[i], orders[pending[i]].side, orders[pending[i]].quantity)]

LedgerLife ==
    [id \in OrderIds |-> IF Known(id) THEN ObservedStatus(id) ELSE "UNSEEN"]

Ledger == INSTANCE OrderLedger WITH
    Ids <- OrderIds, Sizes <- {SignedQty(o.side, o.quantity) : o \in Proposals},
    life <- LedgerLife, queue <- LedgerQueue, exposure <- position.quantity

ImplementsLedger == Ledger!LedgerSpec

(* ------------- the strengthening that makes the cap inductive ----------- *)

\* Fills wait only in SETTLE, and no order is pending where none can be.
PhaseDiscipline ==
    /\ phase # "SETTLE" => fill_queue = <<>>
    /\ phase \in {"SETTLE", "DONE"} => pending = <<>>
    /\ phase = "OPEN" /\ bar_index = 1 => pending = <<>>

\* The approved positions are the running sums of position and outstanding
\* orders, in the order in which these will be filled; they are within the
\* cap; and the gate projects from the last of them.
LastApproved == IF approved_positions = <<>> THEN position.quantity
                ELSE approved_positions[Len(approved_positions)]

ApprovedPath ==
    /\ Len(approved_positions) = Len(LedgerQueue)
    /\ \A i \in 1..Len(approved_positions) :
          /\ approved_positions[i] = LedgerQueue[i].delta
                + (IF i = 1 THEN position.quantity ELSE approved_positions[i - 1])
          /\ AbsVal(approved_positions[i]) <= MaxPositionSize
    /\ AbsVal(position.quantity) <= MaxPositionSize
    /\ phase = "VALIDATE" => projected_pos = LastApproved

\* Whatever is outstanding has been approved.
OutstandingWasApproved == Len(LedgerQueue) <= Len(approved_positions)

EngineInv ==
    TypeOK /\ PhaseDiscipline /\ OutstandingWasApproved /\ (phantom_approval \/ ApprovedPath)

(* ---------- what the code's documentation says, and is not so ----------- *)

\* "Maintain local projected position ... so multiple orders cannot
\* collectively breach position cap": without the excuse of PositionWithinCap.
CapAlways == AbsVal(position.quantity) <= MaxPositionSize

(* ------------------------------- liveness ------------------------------- *)

\* An accepted order is filled or cancelled, unless the run is aborted.
AcceptedOrdersResolve ==
    \A id \in OrderIds :
        orders[id].status = "PENDING" ~> (orders[id].status # "PENDING" \/ phase = "ABORTED")
==============================================================================
