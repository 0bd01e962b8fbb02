------------------------- MODULE BacktestEngineProofs -------------------------
(***************************************************************************)
(* The backtest engine keeps the position within the cap, for every set of *)
(* orders a strategy may emit, every sequence of bars and any number of    *)
(* them.  The argument: the gate admits an order only if the projected     *)
(* position after it is within the cap, the projections of one bar are the *)
(* running sums of position and admitted orders, and the fills of the next *)
(* open come in the order of admission with the orders' sizes, so the      *)
(* position walks through exactly the projected values (ApprovedPath).     *)
(*                                                                         *)
(* On top of that invariant: the order log against the book, the times of  *)
(* the trades, the closed gate, what the projection counts, and, step by   *)
(* step, the refinement of OrderLedger.  The last section says what each   *)
(* step is to a strategy; the proofs about the two strategies start there. *)
(***************************************************************************)
EXTENDS BacktestEngine, BooksProofs

RunInv == EngineInv /\ BrokerInv /\ PortfolioInv

(* ------------------------------- the helpers ---------------------------- *)

\* A step that leaves the broker alone keeps its invariant ...
LEMMA BrokerUnchanged == BrokerInv /\ UNCHANGED brokerVars => BrokerInv'
  BY DEF brokerVars, BrokerInv, BrokerTypeOK, QueueMatchesBook, PendingIds, OneFillPerFilledOrder

\* ... and one that leaves the portfolio alone keeps the portfolio's.
LEMMA PortfolioUnchanged == PortfolioInv /\ UNCHANGED portfolioVars => PortfolioInv'
  BY DEF portfolioVars, PortfolioInv, PortfolioTypeOK, DrawdownIsCurrent, Equity, FlatMeansClean,
         EquityMatchesPnl, Drift, VolumeCoversPosition, UnrealizedIsCurrent

\* What is outstanding while fills are handed over, and at any other time.
LEMMA QueueOfFills ==
  TypeOK /\ phase = "SETTLE" =>
    /\ Len(LedgerQueue) = Len(fill_queue)
    /\ \A i \in 1..Len(fill_queue) :
          LedgerQueue[i].delta = SignedQty(fill_queue[i].side, fill_queue[i].filled_qty)
<1>. SUFFICES ASSUME TypeOK, phase = "SETTLE"
              PROVE  /\ Len(LedgerQueue) = Len(fill_queue)
                     /\ \A i \in 1..Len(fill_queue) :
                           LedgerQueue[i].delta = SignedQty(fill_queue[i].side, fill_queue[i].filled_qty)
  OBVIOUS
<1>1. Len(fill_queue) \in Nat
  BY DEF TypeOK
<1>2. LedgerQueue = [i \in 1..Len(fill_queue) |->
             QueueItem(fill_queue[i].order_id, fill_queue[i].side, fill_queue[i].filled_qty)]
  BY DEF LedgerQueue
<1>. QED  BY <1>1, <1>2 DEF QueueItem

\* Outside SETTLE the ledger's queue is the broker's: one item per pending order.
LEMMA QueueOfPending ==
  TypeOK /\ phase # "SETTLE" =>
    /\ Len(LedgerQueue) = Len(pending)
    /\ \A i \in 1..Len(pending) :
          LedgerQueue[i].delta = SignedQty(orders[pending[i]].side, orders[pending[i]].quantity)
<1>. SUFFICES ASSUME TypeOK, phase # "SETTLE"
              PROVE  /\ Len(LedgerQueue) = Len(pending)
                     /\ \A i \in 1..Len(pending) :
                           LedgerQueue[i].delta = SignedQty(orders[pending[i]].side, orders[pending[i]].quantity)
  OBVIOUS
<1>1. Len(pending) \in Nat
  BY DEF TypeOK, BrokerTypeOK
<1>2. LedgerQueue = [i \in 1..Len(pending) |->
             QueueItem(pending[i], orders[pending[i]].side, orders[pending[i]].quantity)]
  BY DEF LedgerQueue
<1>. QED  BY <1>1, <1>2 DEF QueueItem

\* Rewriting the status of some records keeps the log a log.
LEMMA MarkRecordsType ==
  ASSUME TypeOK, NEW ids, NEW s \in OrderStatus, MarkRecords(ids, s)
  PROVE  order_records' \in Seq(OrderRecord)
<1>1. order_records \in Seq(OrderRecord) /\ Len(order_records) \in Nat
  BY DEF TypeOK
<1>2. \A i \in 1..Len(order_records) : order_records[i] \in OrderRecord
  BY <1>1
<1>3. \A i \in 1..Len(order_records) :
         (IF order_records[i].client_order_id \in ids
          THEN [order_records[i] EXCEPT !.status = s] ELSE order_records[i]) \in OrderRecord
  BY <1>2 DEF OrderRecord
<1>. QED  BY <1>1, <1>3 DEF MarkRecords

(* ------------------------------ initial state --------------------------- *)

\* Before the first bar nothing is held, queued or approved.
LEMMA InitInv == Init => RunInv
<1> SUFFICES ASSUME Init PROVE RunInv
  OBVIOUS
<1>1. BrokerInv /\ PortfolioInv
  BY BrokerInitInv, PortfolioInitInv DEF Init
<1>2. BrokerTypeOK /\ PortfolioTypeOK
  BY <1>1 DEF BrokerInv, PortfolioInv
<1>3. /\ phase = "OPEN" /\ bar_index = 1 /\ bar \in Bars /\ NBars \in Nat \ {0}
      /\ fill_queue = <<>> /\ candidate_orders = <<>> /\ order_records = <<>> /\ trades = <<>>
      /\ equity_curve = <<>> /\ approved_positions = <<>> /\ pending = <<>> /\ position.quantity = 0
      /\ projected_pos = 0 /\ projected_pyramids = 0 /\ daily_pnl = 0
      /\ order_signal_times = [id \in OrderIds |-> 0]
      /\ macro_by_date \in [Days -> MacroSnapshots]
  BY EngineAssumption DEF Init, BrokerInit, PortfolioInit
<1>4. kill_switch_active \in BOOLEAN /\ circuit_breaker \in BOOLEAN /\ phantom_approval \in BOOLEAN
  BY DEF Init
<1>5. order_signal_times \in [OrderIds -> 0..NBars]
  BY <1>3
<1>6. TypeOK
  BY <1>2, <1>3, <1>4, <1>5 DEF TypeOK, Phase
<1>7. PhaseDiscipline
  BY <1>3 DEF PhaseDiscipline
<1>8. ApprovedPath /\ OutstandingWasApproved
  <2>1. Len(LedgerQueue) = 0
    BY <1>3, <1>6, QueueOfPending
  <2>2. AbsVal(position.quantity) <= MaxPositionSize
    BY <1>3, RiskAssumption DEF AbsVal
  <2>. QED  BY <1>3, <2>1, <2>2 DEF ApprovedPath, OutstandingWasApproved
<1>. QED  BY <1>1, <1>6, <1>7, <1>8 DEF RunInv, EngineInv

(* --------------------------- one lemma per action ----------------------- *)

\* No order can be outstanding before the first bar, so nothing is executed.
LEMMA OpenFirstBarInv ==
  ASSUME RunInv, OpenFirstBar
  PROVE  RunInv'
<1>1. BrokerInv' /\ PortfolioInv'
  BY BrokerUnchanged, PortfolioUnchanged DEF RunInv, OpenFirstBar
<1>2. BrokerTypeOK' /\ PortfolioTypeOK'
  BY <1>1 DEF BrokerInv, PortfolioInv
<1>3. TypeOK'
  BY <1>2 DEF RunInv, EngineInv, TypeOK, OpenFirstBar, gateVars, logVars, historyVars, Phase
<1>4. pending = <<>> /\ fill_queue = <<>> /\ pending' = <<>> /\ fill_queue' = <<>>
  BY DEF RunInv, EngineInv, PhaseDiscipline, OpenFirstBar, brokerVars
<1>5. PhaseDiscipline'
  BY <1>4 DEF PhaseDiscipline, OpenFirstBar
<1>6. Len(LedgerQueue) = 0 /\ Len(LedgerQueue') = 0
  <2>1. TypeOK /\ phase # "SETTLE" /\ phase' = "SETTLE"
    BY DEF RunInv, EngineInv, OpenFirstBar
  <2>2. (TypeOK /\ phase = "SETTLE" => Len(LedgerQueue) = Len(fill_queue))'
    BY QueueOfFills, PTL
  <2>. QED  BY <1>3, <1>4, <2>1, <2>2, QueueOfPending
<1>7. /\ approved_positions' = approved_positions /\ position' = position
      /\ phantom_approval' = phantom_approval /\ phase' = "SETTLE"
  BY DEF OpenFirstBar, historyVars, portfolioVars
<1>8. OutstandingWasApproved'
  BY <1>6, <1>7 DEF RunInv, EngineInv, OutstandingWasApproved
<1>9. ApprovedPath => ApprovedPath'
  BY <1>6, <1>7 DEF ApprovedPath
<1>. QED  BY <1>1, <1>3, <1>5, <1>7, <1>8, <1>9 DEF RunInv, EngineInv

\* The broker returns one fill per pending order, in order: what is outstanding
\* stays the same.
LEMMA OpenBarInv ==
  ASSUME RunInv, OpenBar
  PROVE  RunInv'
<1>1. bar.open \in MarketPrices
  BY EngineAssumption DEF RunInv, EngineInv, TypeOK
<1>2. /\ BrokerInv'
      /\ PendingFills(bar.open) \in Seq(Fill)
      /\ Len(PendingFills(bar.open)) = Len(pending)
      /\ \A i \in 1..Len(pending) :
            /\ PendingFills(bar.open)[i].side = orders[pending[i]].side
            /\ PendingFills(bar.open)[i].filled_qty = orders[pending[i]].quantity
  BY <1>1, ExecutePendingInv DEF RunInv, OpenBar
<1>3. PortfolioInv'
  BY PortfolioUnchanged DEF RunInv, OpenBar
<1>4. /\ fill_queue' = PendingFills(bar.open) /\ pending' = <<>>
      /\ phase = "OPEN" /\ phase' = "SETTLE"
  BY DEF OpenBar, ExecutePendingOrders
<1>5. BrokerTypeOK' /\ PortfolioTypeOK'
  BY <1>2, <1>3 DEF BrokerInv, PortfolioInv
<1>6. TypeOK'
  BY <1>2, <1>4, <1>5 DEF RunInv, EngineInv, TypeOK, OpenBar, gateVars, logVars, historyVars, Phase
<1>7. PhaseDiscipline'
  BY <1>4 DEF PhaseDiscipline
<1>8. /\ Len(LedgerQueue) = Len(pending) /\ Len(LedgerQueue') = Len(pending)
      /\ \A i \in 1..Len(pending) : LedgerQueue'[i].delta = LedgerQueue[i].delta
  <2>1. /\ Len(LedgerQueue) = Len(pending)
        /\ \A i \in 1..Len(pending) :
              LedgerQueue[i].delta = SignedQty(orders[pending[i]].side, orders[pending[i]].quantity)
    BY <1>4, QueueOfPending DEF RunInv, EngineInv
  <2>2. (TypeOK /\ phase = "SETTLE" =>
           /\ Len(LedgerQueue) = Len(fill_queue)
           /\ \A i \in 1..Len(fill_queue) :
                 LedgerQueue[i].delta = SignedQty(fill_queue[i].side, fill_queue[i].filled_qty))'
    BY QueueOfFills, PTL
  <2>. QED  BY <1>2, <1>4, <1>6, <2>1, <2>2
<1>9. /\ approved_positions' = approved_positions /\ position' = position
      /\ phantom_approval' = phantom_approval
  BY DEF OpenBar, historyVars, portfolioVars
<1>10. OutstandingWasApproved'
  BY <1>8, <1>9 DEF RunInv, EngineInv, OutstandingWasApproved
<1>11. ASSUME ApprovedPath PROVE ApprovedPath'
  <2>1. Len(approved_positions) = Len(pending)
    BY <1>8, <1>11 DEF ApprovedPath
  <2>. QED  BY <1>4, <1>8, <1>9, <1>11, <2>1 DEF ApprovedPath
<1>. QED  BY <1>2, <1>3, <1>6, <1>7, <1>9, <1>10, <1>11 DEF RunInv, EngineInv

\* One fill moves the position to the first approved position, and the rest of
\* the path starts from there.
LEMMA SettleFillInv ==
  ASSUME RunInv, SettleFill
  PROVE  /\ RunInv'
         /\ ~phantom_approval => position'.quantity = Head(approved_positions)
<1>. DEFINE fill == Head(fill_queue)
            delta == SignedQty(fill.side, fill.filled_qty)
<1>1. /\ fill_queue \in Seq(Fill) /\ fill_queue # <<>> /\ phase = "SETTLE" /\ TypeOK
      /\ fill_queue' = Tail(fill_queue) /\ approved_positions' = Tail(approved_positions)
      /\ phase' = phase /\ bar_index' = bar_index /\ phantom_approval' = phantom_approval
      /\ bar_index \in 1..NBars /\ pending' = pending
  BY DEF RunInv, EngineInv, TypeOK, SettleFill, loopVars, brokerVars
<1>2. /\ Len(fill_queue) \in Nat \ {0} /\ fill = fill_queue[1] /\ fill \in Fill
      /\ fill_queue' \in Seq(Fill) /\ Len(fill_queue') = Len(fill_queue) - 1
      /\ \A i \in 1..Len(fill_queue') : fill_queue'[i] = fill_queue[i + 1]
  BY <1>1
<1>3. /\ fill.side \in OrderSide /\ fill.filled_qty \in Nat \ {0} /\ fill.filled_price \in Int
      /\ fill.brokerage \in Int /\ fill.order_id \in OrderIds
  BY <1>2 DEF Fill
<1>4. delta \in Int \ {0}
  BY <1>3 DEF SignedQty
<1>5. Today \in Days
  BY <1>1, EngineAssumption DEF Today
<1>6. /\ ProcessFill(delta, fill.filled_price, fill.brokerage, Today)
      /\ trades' = Append(trades, [order_id |-> fill.order_id,
                                   signal_time |-> order_signal_times[fill.order_id],
                                   execution_time |-> bar_index])
      /\ MarkRecords({fill.order_id}, "FILLED")
  BY DEF SettleFill
<1>. HIDE DEF fill, delta
<1>7. PortfolioInv' /\ position'.quantity = position.quantity + delta
  BY <1>3, <1>4, <1>5, <1>6, ProcessFillInv DEF RunInv
<1>8. BrokerInv'
  BY BrokerUnchanged DEF RunInv, SettleFill
<1>9. BrokerTypeOK' /\ PortfolioTypeOK'
  BY <1>7, <1>8 DEF BrokerInv, PortfolioInv
<1>10. order_records' \in Seq(OrderRecord)
  BY <1>1, <1>6, StatusNames, MarkRecordsType
<1>11. trades' \in Seq(TradeRecord)
  <2>1. order_signal_times[fill.order_id] \in 0..NBars /\ trades \in Seq(TradeRecord)
    BY <1>1, <1>3 DEF TypeOK
  <2>2. [order_id |-> fill.order_id, signal_time |-> order_signal_times[fill.order_id],
         execution_time |-> bar_index] \in TradeRecord
    BY <1>1, <1>3, <2>1 DEF TradeRecord
  <2>. QED  BY <1>6, <2>1, <2>2
<1>. DEFINE ahead == Len(approved_positions)
<1>12. /\ approved_positions \in Seq(Int) /\ ahead \in Nat /\ Len(fill_queue) <= ahead
       /\ Len(LedgerQueue) = Len(fill_queue)
       /\ \A i \in 1..Len(fill_queue) :
             LedgerQueue[i].delta = SignedQty(fill_queue[i].side, fill_queue[i].filled_qty)
       /\ approved_positions' \in Seq(Int) /\ Len(approved_positions') = ahead - 1
       /\ \A i \in 1..(ahead - 1) : approved_positions'[i] = approved_positions[i + 1]
       /\ Head(approved_positions) = approved_positions[1]
  <2>1. /\ Len(LedgerQueue) = Len(fill_queue)
        /\ \A i \in 1..Len(fill_queue) :
              LedgerQueue[i].delta = SignedQty(fill_queue[i].side, fill_queue[i].filled_qty)
    BY <1>1, QueueOfFills
  <2>2. approved_positions \in Seq(Int) /\ Len(fill_queue) <= ahead /\ ahead \in Nat
    BY <1>1, <2>1 DEF TypeOK, RunInv, EngineInv, OutstandingWasApproved
  <2>3. approved_positions # <<>>
    BY <1>2, <2>2
  <2>. QED  BY <1>1, <2>1, <2>2, <2>3
<1>13. TypeOK'
  BY <1>1, <1>2, <1>9, <1>10, <1>11, <1>12 DEF TypeOK, SettleFill, loopVars, gateVars
<1>14. PhaseDiscipline'
  BY <1>1 DEF RunInv, EngineInv, PhaseDiscipline
<1>15. /\ Len(LedgerQueue') = Len(fill_queue) - 1
       /\ \A i \in 1..(Len(fill_queue) - 1) : LedgerQueue'[i].delta = LedgerQueue[i + 1].delta
  <2>1. (TypeOK /\ phase = "SETTLE" =>
           /\ Len(LedgerQueue) = Len(fill_queue)
           /\ \A i \in 1..Len(fill_queue) :
                 LedgerQueue[i].delta = SignedQty(fill_queue[i].side, fill_queue[i].filled_qty))'
    BY QueueOfFills, PTL
  <2>2. /\ Len(LedgerQueue') = Len(fill_queue) - 1
        /\ \A i \in 1..(Len(fill_queue) - 1) :
              LedgerQueue'[i].delta = SignedQty(fill_queue'[i].side, fill_queue'[i].filled_qty)
    <3>1. TypeOK' /\ phase' = "SETTLE" /\ Len(fill_queue') = Len(fill_queue) - 1
      BY <1>1, <1>2, <1>13
    <3>. QED  BY <2>1, <3>1
  <2>3. \A i \in 1..(Len(fill_queue) - 1) :
           i + 1 \in 1..Len(fill_queue) /\ fill_queue'[i] = fill_queue[i + 1]
    BY <1>2
  <2>4. ASSUME NEW i \in 1..(Len(fill_queue) - 1)
        PROVE  LedgerQueue'[i].delta = LedgerQueue[i + 1].delta
    <3>1. i + 1 \in 1..Len(fill_queue) /\ fill_queue'[i] = fill_queue[i + 1]
      BY <2>3
    <3>2. LedgerQueue[i + 1].delta = SignedQty(fill_queue[i + 1].side, fill_queue[i + 1].filled_qty)
      BY <1>12, <3>1
    <3>3. LedgerQueue'[i].delta = SignedQty(fill_queue'[i].side, fill_queue'[i].filled_qty)
      BY <2>2
    <3>. QED  BY <3>1, <3>2, <3>3
  <2>. QED  BY <2>2, <2>4
<1>16. OutstandingWasApproved'
  BY <1>2, <1>12, <1>15 DEF OutstandingWasApproved
<1>17. ASSUME ApprovedPath
       PROVE  ApprovedPath' /\ position'.quantity = Head(approved_positions)
  <2>1. ahead = Len(fill_queue)
    BY <1>12, <1>17 DEF ApprovedPath
  <2>2. \A i \in 1..Len(fill_queue) :
           /\ approved_positions[i] \in Int
           /\ approved_positions[i] = LedgerQueue[i].delta
                 + (IF i = 1 THEN position.quantity ELSE approved_positions[i - 1])
           /\ AbsVal(approved_positions[i]) <= MaxPositionSize
    BY <1>12, <1>17, <2>1 DEF ApprovedPath
  <2>3. 1 \in 1..Len(fill_queue) /\ LedgerQueue[1].delta = delta
    BY <1>2, <1>12 DEF fill, delta
  <2>4. position.quantity \in Int
    BY <1>1 DEF TypeOK, PortfolioTypeOK, Position
  <2>5. position'.quantity = approved_positions[1]
    BY <1>4, <1>7, <2>2, <2>3, <2>4
  <2>6. ASSUME NEW i \in 1..(Len(fill_queue) - 1)
        PROVE  /\ approved_positions'[i] = LedgerQueue'[i].delta
                     + (IF i = 1 THEN position'.quantity ELSE approved_positions'[i - 1])
               /\ AbsVal(approved_positions'[i]) <= MaxPositionSize
    <3>1. i + 1 \in 1..Len(fill_queue) /\ i + 1 # 1 /\ i + 1 - 1 = i
      BY <1>2
    <3>2. /\ approved_positions'[i] = LedgerQueue'[i].delta + approved_positions[i]
          /\ AbsVal(approved_positions'[i]) <= MaxPositionSize
      <4>1. approved_positions'[i] = approved_positions[i + 1]
        BY <1>12, <2>1
      <4>2. LedgerQueue'[i].delta = LedgerQueue[i + 1].delta
        BY <1>15
      <4>3. /\ approved_positions[i + 1] = LedgerQueue[i + 1].delta + approved_positions[i]
            /\ AbsVal(approved_positions[i + 1]) <= MaxPositionSize
        BY <2>2, <3>1
      <4>. QED  BY <4>1, <4>2, <4>3
    <3>3. CASE i = 1
      BY <2>5, <3>2, <3>3
    <3>4. CASE i # 1
      <4>1. i - 1 \in 1..(Len(fill_queue) - 1) /\ i - 1 + 1 = i
        BY <1>2, <3>4
      <4>2. approved_positions'[i - 1] = approved_positions[i]
        BY <1>12, <2>1, <4>1
      <4>. QED  BY <3>2, <3>4, <4>2
    <3>. QED  BY <3>3, <3>4
  <2>7. AbsVal(position'.quantity) <= MaxPositionSize
    BY <2>2, <2>3, <2>5
  <2>8. ApprovedPath'
    BY <1>1, <1>12, <1>15, <2>1, <2>6, <2>7 DEF ApprovedPath
  <2>. QED  BY <1>12, <2>5, <2>8
<1>. QED  BY <1>1, <1>7, <1>8, <1>13, <1>14, <1>16, <1>17 DEF RunInv, EngineInv

\* A batch is a sequence of orders.
LEMMA BatchIsSeq == ASSUME NEW batch \in Batches PROVE batch \in Seq(Proposals)
<1>1. PICK k \in 0..MaxBatch : batch \in [1..k -> Proposals]
  BY DEF Batches
<1>2. k \in Nat
  BY EngineAssumption
<1>. QED  BY <1>1, <1>2

\* A new bar is validated from the filled position, with nothing outstanding,
\* whatever orders the strategy has and however many legs it counts.
LEMMA SignalInv ==
  ASSUME RunInv, NEW batch \in Seq(Proposals), NEW n \in Nat, NEW settings \in HookSettings,
         Signal(batch, n, settings)
  PROVE  RunInv'
<1>1. /\ phase = "SETTLE" /\ phase' = "VALIDATE" /\ fill_queue = <<>> /\ fill_queue' = <<>>
      /\ pending = <<>> /\ pending' = <<>> /\ approved_positions' = <<>>
      /\ candidate_orders' = batch /\ projected_pos' = position.quantity /\ projected_pyramids' = n
      /\ daily_pnl' = daily_realized_pnl[Today] /\ position' = position
      /\ phantom_approval' = phantom_approval
  BY DEF Signal, RunInv, EngineInv, PhaseDiscipline, portfolioVars
<1>2. settings[1] \in BOOLEAN /\ settings[2] \in BOOLEAN /\ settings[3] \in BOOLEAN
  BY EngineAssumption
<1>3. SetHooks
  BY <1>2 DEF Signal, SetHooks
<1>4. BrokerInv' /\ PortfolioInv'
  BY <1>3, SetHooksInv, PortfolioUnchanged DEF RunInv, Signal
<1>5. BrokerTypeOK' /\ PortfolioTypeOK'
  BY <1>4 DEF BrokerInv, PortfolioInv
<1>6. kill_switch_active' \in BOOLEAN /\ circuit_breaker' \in BOOLEAN
  <2>1. kill_switch_active' = settings[1] /\ circuit_breaker' = CircuitBreaker(macro_by_date[Today])
    BY DEF Signal
  <2>2. CircuitBreaker(macro_by_date[Today]) \in BOOLEAN
    BY DEF CircuitBreaker
  <2>. QED  BY <1>2, <2>1, <2>2
<1>7. candidate_orders' \in Seq(Proposals)
  BY <1>1
<1>8. projected_pos' \in Int /\ projected_pyramids' \in Nat /\ daily_pnl' \in Int
  <2>1. position.quantity \in Int
    BY DEF RunInv, EngineInv, TypeOK, PortfolioTypeOK, Position
  <2>2. Today \in Days
    BY EngineAssumption DEF RunInv, EngineInv, TypeOK, Today
  <2>3. daily_realized_pnl[Today] \in Int
    BY <2>2 DEF RunInv, EngineInv, TypeOK, PortfolioTypeOK
  <2>. QED  BY <1>1, <2>1, <2>3, EngineAssumption
<1>9. TypeOK'
  <2>1. approved_positions' \in Seq(Int)
    BY <1>1
  <2>. QED  BY <1>1, <1>5, <1>6, <1>7, <1>8, <2>1 DEF RunInv, EngineInv, TypeOK, Signal, logVars, Phase
<1>10. PhaseDiscipline'
  BY <1>1 DEF PhaseDiscipline
<1>11. Len(LedgerQueue') = 0
  <2>1. (TypeOK /\ phase # "SETTLE" => Len(LedgerQueue) = Len(pending))'
    BY QueueOfPending, PTL
  <2>. QED  BY <1>1, <1>9, <2>1
<1>12. OutstandingWasApproved'
  BY <1>1, <1>11 DEF OutstandingWasApproved
<1>13. ApprovedPath => ApprovedPath'
  BY <1>1, <1>11 DEF ApprovedPath, LastApproved
<1>. QED  BY <1>1, <1>4, <1>9, <1>10, <1>12, <1>13 DEF RunInv, EngineInv

\* The head of the batch, and the types of the bookkeeping it gets.
LEMMA LogType ==
  ASSUME RunInv, candidate_orders # <<>>, NEW s \in OrderStatus, Log(Head(candidate_orders), s)
  PROVE  /\ Head(candidate_orders) \in Proposals
         /\ Head(candidate_orders) \in Proposal(OrderIds)
         /\ order_signal_times' \in [OrderIds -> 0..NBars]
         /\ order_records' \in Seq(OrderRecord)
         /\ candidate_orders' \in Seq(Proposals)
         /\ PortfolioInv'
<1>1. /\ candidate_orders \in Seq(Proposals) /\ order_records \in Seq(OrderRecord)
      /\ order_signal_times \in [OrderIds -> 0..NBars] /\ bar_index \in 1..NBars /\ NBars \in Nat
  BY EngineAssumption DEF RunInv, EngineInv, TypeOK
<1>2. Head(candidate_orders) \in Proposals /\ Tail(candidate_orders) \in Seq(Proposals)
  BY <1>1
<1>3. Head(candidate_orders) \in Proposal(OrderIds)
  BY <1>2, BrokerAssumption
<1>4. Head(candidate_orders).client_order_id \in OrderIds
  BY <1>3 DEF Proposal
<1>5. [client_order_id |-> Head(candidate_orders).client_order_id, signal_time |-> bar_index,
       status |-> s] \in OrderRecord
  BY <1>1, <1>4 DEF OrderRecord
<1>6. order_records' \in Seq(OrderRecord)
  BY <1>1, <1>5 DEF Log, NoteSignal
<1>7. order_signal_times' \in [OrderIds -> 0..NBars]
  BY <1>1, <1>4 DEF Log, NoteSignal
<1>8. PortfolioInv'
  BY PortfolioUnchanged DEF RunInv, Log
<1>. QED  BY <1>2, <1>3, <1>6, <1>7, <1>8 DEF Log, NoteSignal

\* While a batch is validated what is outstanding is what the broker holds.
LEMMA SameQueue ==
  ASSUME TypeOK, TypeOK', phase = "VALIDATE", phase' \in {"VALIDATE", "OPEN", "ABORTED"},
         orders' = orders, pending' = pending
  PROVE  LedgerQueue' = LedgerQueue
  BY DEF LedgerQueue

\* A refused order leaves book, position and projection as they were.
LEMMA RefuseOrderInv ==
  ASSUME RunInv, RefuseOrder
  PROVE  RunInv'
<1>1. /\ phase = "VALIDATE" /\ phase' = "VALIDATE" /\ candidate_orders # <<>>
      /\ Log(Head(candidate_orders), "REJECTED")
      /\ orders' = orders /\ pending' = pending /\ fills' = fills
      /\ fill_queue' = fill_queue /\ bar_index' = bar_index /\ position' = position
      /\ approved_positions' = approved_positions /\ phantom_approval' = phantom_approval
      /\ projected_pos' = projected_pos
  BY DEF RefuseOrder, Log, loopVars, historyVars, portfolioVars
<1>2. /\ order_signal_times' \in [OrderIds -> 0..NBars]
      /\ order_records' \in Seq(OrderRecord)
      /\ candidate_orders' \in Seq(Proposals)
      /\ PortfolioInv'
  BY <1>1, LogType, StatusNames
<1>3. BrokerInv'
  BY BrokerUnchanged DEF RunInv, RefuseOrder, Log, brokerVars, hooks
<1>4. BrokerTypeOK' /\ PortfolioTypeOK'
  BY <1>2, <1>3 DEF BrokerInv, PortfolioInv
<1>5. TypeOK'
  BY <1>1, <1>2, <1>4 DEF RunInv, EngineInv, TypeOK, RefuseOrder, Log, loopVars, Phase
<1>6. PhaseDiscipline'
  BY <1>1 DEF RunInv, EngineInv, PhaseDiscipline
<1>7. LedgerQueue' = LedgerQueue
  BY <1>1, <1>5, SameQueue DEF RunInv, EngineInv
<1>8. OutstandingWasApproved'
  BY <1>1, <1>7 DEF RunInv, EngineInv, OutstandingWasApproved
<1>9. ApprovedPath => ApprovedPath'
  BY <1>1, <1>7 DEF ApprovedPath, LastApproved
<1>. QED  BY <1>1, <1>2, <1>3, <1>5, <1>6, <1>8, <1>9 DEF RunInv, EngineInv

\* The projected leg count stays a count.
LEMMA PyramidsType ==
  ASSUME NEW o \in Proposal(OrderIds), projected_pos \in Int, projected_pyramids \in Nat
  PROVE  PyramidsAfter(o) \in Nat
<1>1. o.quantity \in Nat \ {0}
  BY DEF Proposal
<1>2. AbsVal(projected_pos) \in Nat
  BY DEF AbsVal
<1>3. ClassifyOrderEffect(o, projected_pos) \in OrderEffect
  BY <1>1, <1>2 DEF ClassifyOrderEffect, OrderEffect
<1>. QED  BY <1>3 DEF PyramidsAfter, OrderEffect

\* What every approval does, whatever the broker answers.
LEMMA ApproveType ==
  ASSUME RunInv, Approve(Head(candidate_orders)), BrokerInv', phantom_approval' \in BOOLEAN
  PROVE  /\ TypeOK' /\ PhaseDiscipline' /\ PortfolioInv'
         /\ Head(candidate_orders) \in Proposal(OrderIds)
         /\ phase = "VALIDATE" /\ phase' = "VALIDATE" /\ position' = position
         /\ LET delta == SignedQty(Head(candidate_orders).side, Head(candidate_orders).quantity)
            IN  /\ projected_pos' = projected_pos + delta
                /\ approved_positions' = Append(approved_positions, projected_pos + delta)
                /\ delta \in Int
                /\ AbsVal(projected_pos + delta) <= MaxPositionSize
<1>. DEFINE o == Head(candidate_orders)
            delta == SignedQty(o.side, o.quantity)
<1>1. /\ phase = "VALIDATE" /\ phase' = "VALIDATE" /\ candidate_orders # <<>>
      /\ Log(o, "PENDING") /\ Allowed(o)
      /\ fill_queue' = fill_queue /\ bar_index' = bar_index /\ position' = position
      /\ bar' = bar /\ macro_by_date' = macro_by_date /\ trades' = trades /\ equity_curve' = equity_curve
      /\ kill_switch_active' = kill_switch_active /\ daily_pnl' = daily_pnl
      /\ circuit_breaker' = circuit_breaker
      /\ projected_pos' = projected_pos + delta /\ projected_pyramids' = PyramidsAfter(o)
      /\ approved_positions' = Append(approved_positions, projected_pos + delta)
  BY DEF Approve, Log, loopVars, portfolioVars
<1>2. /\ o \in Proposal(OrderIds)
      /\ order_signal_times' \in [OrderIds -> 0..NBars]
      /\ order_records' \in Seq(OrderRecord)
      /\ candidate_orders' \in Seq(Proposals)
      /\ PortfolioInv'
  BY <1>1, LogType, StatusNames
<1>. HIDE DEF o
<1>3. o.quantity \in Nat \ {0} /\ delta \in Int
  BY <1>2 DEF Proposal, SignedQty
<1>4. projected_pos \in Int /\ projected_pyramids \in Nat /\ approved_positions \in Seq(Int)
  BY DEF RunInv, EngineInv, TypeOK
<1>5. PyramidsAfter(o) \in Nat
  BY <1>2, <1>4, PyramidsType
<1>6. AbsVal(projected_pos + delta) <= MaxPositionSize
  BY <1>1 DEF Allowed, IsAllowed
<1>. HIDE DEF delta
<1>7. projected_pos' \in Int /\ projected_pyramids' \in Nat /\ approved_positions' \in Seq(Int)
  BY <1>1, <1>3, <1>4, <1>5
<1>8. BrokerTypeOK' /\ PortfolioTypeOK'
  BY <1>2 DEF BrokerInv, PortfolioInv
<1>9. TypeOK'
  BY <1>1, <1>2, <1>7, <1>8 DEF RunInv, EngineInv, TypeOK, Phase
<1>10. PhaseDiscipline'
  BY <1>1 DEF RunInv, EngineInv, PhaseDiscipline
<1>. QED  BY <1>1, <1>2, <1>3, <1>6, <1>9, <1>10 DEF o, delta

\* The path grows by the position just approved, the queue by its order.
LEMMA ApproveNewInv ==
  ASSUME RunInv, ApproveNew
  PROVE  RunInv'
<1>. DEFINE o == Head(candidate_orders)
            delta == SignedQty(o.side, o.quantity)
            n == Len(pending)
<1>1. /\ Approve(o) /\ PlaceNew(o) /\ phantom_approval' = phantom_approval
      /\ UNCHANGED hooks /\ candidate_orders # <<>> /\ Log(o, "PENDING")
  BY DEF ApproveNew, Approve, Log
<1>2. o \in Proposals
  BY <1>1, LogType, StatusNames
<1>3. BrokerInv'
  BY <1>1, <1>2, PlaceInv DEF RunInv
<1>4. phantom_approval' \in BOOLEAN
  BY <1>1 DEF RunInv, EngineInv, TypeOK
<1>5. /\ TypeOK' /\ PhaseDiscipline' /\ PortfolioInv'
      /\ phase = "VALIDATE" /\ phase' = "VALIDATE" /\ position' = position
      /\ projected_pos' = projected_pos + delta
      /\ approved_positions' = Append(approved_positions, projected_pos + delta)
      /\ delta \in Int
      /\ AbsVal(projected_pos + delta) <= MaxPositionSize
  BY <1>1, <1>3, <1>4, ApproveType
<1>6. /\ Store(o, "PENDING") /\ ~Known(o.client_order_id)
      /\ pending' = Append(pending, o.client_order_id)
  BY <1>1 DEF PlaceNew
<1>7. /\ o.client_order_id \in OrderIds
      /\ orders'[o.client_order_id].side = o.side
      /\ orders'[o.client_order_id].quantity = o.quantity
      /\ \A id \in OrderIds \ {o.client_order_id} : orders'[id] = orders[id]
  BY <1>2, <1>6, StoreType, StatusNames DEF RunInv, BrokerInv
<1>8. /\ pending \in Seq(OrderIds) /\ n \in Nat /\ Len(pending') = n + 1
      /\ \A i \in 1..n : pending'[i] = pending[i] /\ pending[i] \in OrderIds
      /\ pending'[n + 1] = o.client_order_id
  <2>1. pending \in Seq(OrderIds)
    BY DEF RunInv, BrokerInv, BrokerTypeOK
  <2>. QED  BY <1>6, <1>7, <2>1
<1>9. \A i \in 1..n : pending[i] # o.client_order_id
  <2>1. \A i \in 1..n : orders[pending[i]].status = "PENDING"
    BY DEF RunInv, BrokerInv, QueueMatchesBook, PendingIds
  <2>. QED  BY <1>6, <2>1 DEF Known
<1>10. /\ Len(LedgerQueue) = n /\ Len(LedgerQueue') = n + 1
       /\ \A i \in 1..n : LedgerQueue'[i].delta = LedgerQueue[i].delta
       /\ LedgerQueue'[n + 1].delta = delta
  <2>1. /\ Len(LedgerQueue) = n
        /\ \A i \in 1..n :
              LedgerQueue[i].delta = SignedQty(orders[pending[i]].side, orders[pending[i]].quantity)
    BY <1>5, QueueOfPending DEF RunInv, EngineInv
  <2>2. (TypeOK /\ phase # "SETTLE" =>
           /\ Len(LedgerQueue) = Len(pending)
           /\ \A i \in 1..Len(pending) :
                 LedgerQueue[i].delta = SignedQty(orders[pending[i]].side, orders[pending[i]].quantity))'
    BY QueueOfPending, PTL
  <2>3. /\ Len(LedgerQueue') = n + 1
        /\ \A i \in 1..(n + 1) :
              LedgerQueue'[i].delta = SignedQty(orders'[pending'[i]].side, orders'[pending'[i]].quantity)
    BY <1>5, <1>8, <2>2
  <2>4. ASSUME NEW i \in 1..n PROVE LedgerQueue'[i].delta = LedgerQueue[i].delta
    <3>1. orders'[pending'[i]] = orders[pending[i]]
      BY <1>7, <1>8, <1>9
    <3>. QED  BY <1>8, <2>1, <2>3, <3>1
  <2>5. LedgerQueue'[n + 1].delta = delta
    <3>1. n + 1 \in 1..(n + 1)
      BY <1>8
    <3>. QED  BY <1>7, <1>8, <2>3, <3>1
  <2>. QED  BY <2>1, <2>3, <2>4, <2>5
<1>. HIDE DEF o, delta, n
<1>11. /\ approved_positions \in Seq(Int)
       /\ Len(approved_positions') = Len(approved_positions) + 1
       /\ \A i \in 1..Len(approved_positions) : approved_positions'[i] = approved_positions[i]
       /\ approved_positions'[Len(approved_positions) + 1] = projected_pos + delta
       /\ Len(approved_positions) \in Nat /\ projected_pos \in Int
  <2>1. approved_positions \in Seq(Int) /\ projected_pos \in Int
    BY DEF RunInv, EngineInv, TypeOK
  <2>. QED  BY <1>5, <2>1
<1>12. OutstandingWasApproved'
  BY <1>8, <1>10, <1>11 DEF RunInv, EngineInv, OutstandingWasApproved
<1>13. ASSUME ApprovedPath PROVE ApprovedPath'
  <2>1. /\ Len(approved_positions) = n
        /\ \A i \in 1..n :
             /\ approved_positions[i] = LedgerQueue[i].delta
                  + (IF i = 1 THEN position.quantity ELSE approved_positions[i - 1])
             /\ AbsVal(approved_positions[i]) <= MaxPositionSize
        /\ AbsVal(position.quantity) <= MaxPositionSize
        /\ projected_pos = LastApproved
    BY <1>5, <1>10, <1>13 DEF ApprovedPath
  <2>2. ASSUME NEW i \in 1..n
        PROVE  /\ approved_positions'[i] = LedgerQueue'[i].delta
                     + (IF i = 1 THEN position'.quantity ELSE approved_positions'[i - 1])
               /\ AbsVal(approved_positions'[i]) <= MaxPositionSize
    <3>1. i # 1 => i - 1 \in 1..n
      BY <1>8
    <3>. QED  BY <1>5, <1>10, <1>11, <2>1, <3>1
  <2>3. approved_positions'[n + 1] = LedgerQueue'[n + 1].delta
            + (IF n + 1 = 1 THEN position'.quantity ELSE approved_positions'[n + 1 - 1])
    <3>1. CASE n = 0
      <4>1. LastApproved = position.quantity
        BY <1>11, <2>1, <3>1 DEF LastApproved
      <4>. QED  BY <1>5, <1>10, <1>11, <2>1, <3>1, <4>1
    <3>2. CASE n # 0
      <4>1. LastApproved = approved_positions[n] /\ n \in 1..n /\ n + 1 # 1 /\ n + 1 - 1 = n
        BY <1>8, <1>11, <2>1, <3>2 DEF LastApproved
      <4>. QED  BY <1>5, <1>10, <1>11, <2>1, <4>1
    <3>. QED  BY <3>1, <3>2
  <2>4. \A i \in 1..(n + 1) : i \in 1..n \/ i = n + 1
    BY <1>8
  <2>5. AbsVal(approved_positions'[n + 1]) <= MaxPositionSize
    BY <1>5, <1>11, <2>1
  <2>6. projected_pos' = LastApproved'
    <3>1. approved_positions' # <<>> /\ Len(approved_positions') = n + 1
      BY <1>8, <1>11, <2>1
    <3>. QED  BY <1>5, <1>11, <2>1, <3>1 DEF LastApproved
  <2>. QED  BY <1>5, <1>10, <1>11, <2>1, <2>2, <2>3, <2>4, <2>5, <2>6 DEF ApprovedPath
<1>. QED  BY <1>1, <1>3, <1>5, <1>12, <1>13 DEF RunInv, EngineInv

\* An approval that queues nothing is flagged, and leaves the queue as it was.
LEMMA ApprovePhantomInv ==
  ASSUME RunInv, ApproveExisting \/ ApproveRejected
  PROVE  RunInv'
<1>. DEFINE o == Head(candidate_orders)
<1>1. /\ Approve(o) /\ (PlaceExisting(o) \/ PlaceRejected(o)) /\ phantom_approval' = TRUE
      /\ UNCHANGED hooks /\ candidate_orders # <<>> /\ Log(o, "PENDING") /\ pending' = pending
  BY DEF ApproveExisting, ApproveRejected, Approve, Log, PlaceExisting, PlaceRejected
<1>2. o \in Proposals
  BY <1>1, LogType, StatusNames
<1>3. BrokerInv'
  BY <1>1, <1>2, PlaceInv DEF RunInv
<1>4. /\ TypeOK' /\ PhaseDiscipline' /\ PortfolioInv'
      /\ phase = "VALIDATE" /\ phase' = "VALIDATE"
      /\ Len(approved_positions') = Len(approved_positions) + 1 /\ Len(approved_positions) \in Nat
  <2>1. approved_positions \in Seq(Int)
    BY DEF RunInv, EngineInv, TypeOK
  <2>2. phantom_approval' \in BOOLEAN
    BY <1>1
  <2>3. /\ TypeOK' /\ PhaseDiscipline' /\ PortfolioInv'
        /\ phase = "VALIDATE" /\ phase' = "VALIDATE"
        /\ approved_positions' = Append(approved_positions, projected_pos + SignedQty(o.side, o.quantity))
    BY <1>1, <1>3, <2>2, ApproveType
  <2>. QED  BY <2>1, <2>3
<1>5. (TypeOK /\ phase # "SETTLE" => Len(LedgerQueue) = Len(pending))'
  BY QueueOfPending, PTL
<1>6. /\ Len(LedgerQueue') = Len(LedgerQueue) /\ Len(LedgerQueue) \in Nat
  <2>1. Len(LedgerQueue) = Len(pending)
    BY <1>4, QueueOfPending DEF RunInv, EngineInv
  <2>2. Len(pending) \in Nat
    BY DEF RunInv, BrokerInv, BrokerTypeOK
  <2>. QED  BY <1>1, <1>4, <1>5, <2>1, <2>2
<1>7. OutstandingWasApproved'
  BY <1>4, <1>6 DEF RunInv, EngineInv, OutstandingWasApproved
<1>. QED  BY <1>1, <1>3, <1>4, <1>7 DEF RunInv, EngineInv

\* An exception of the broker ends the run and changes nothing else that counts.
LEMMA AbortRunInv ==
  ASSUME RunInv, AbortRun
  PROVE  RunInv'
<1>1. /\ phase = "VALIDATE" /\ phase' = "ABORTED" /\ candidate_orders # <<>>
      /\ order_signal_times' =
            [order_signal_times EXCEPT ![Head(candidate_orders).client_order_id] = bar_index]
      /\ orders' = orders /\ pending' = pending /\ fill_queue' = fill_queue
      /\ position' = position /\ bar_index' = bar_index
      /\ approved_positions' = approved_positions /\ phantom_approval' = phantom_approval
  BY DEF AbortRun, NoteSignal, brokerVars, portfolioVars, historyVars
<1>2. BrokerInv' /\ PortfolioInv'
  BY BrokerUnchanged, PortfolioUnchanged DEF RunInv, AbortRun
<1>3. BrokerTypeOK' /\ PortfolioTypeOK'
  BY <1>2 DEF BrokerInv, PortfolioInv
<1>4. order_signal_times' \in [OrderIds -> 0..NBars]
  <2>1. order_signal_times \in [OrderIds -> 0..NBars] /\ bar_index \in 0..NBars
    BY EngineAssumption DEF RunInv, EngineInv, TypeOK
  <2>. QED  BY <1>1, <2>1
<1>5. TypeOK'
  BY <1>1, <1>3, <1>4 DEF RunInv, EngineInv, TypeOK, AbortRun, gateVars, historyVars, Phase
<1>6. PhaseDiscipline'
  BY <1>1 DEF RunInv, EngineInv, PhaseDiscipline
<1>7. LedgerQueue' = LedgerQueue
  BY <1>1, <1>5, SameQueue DEF RunInv, EngineInv
<1>8. OutstandingWasApproved'
  BY <1>1, <1>7 DEF RunInv, EngineInv, OutstandingWasApproved
<1>9. ApprovedPath => ApprovedPath'
  BY <1>1, <1>7 DEF ApprovedPath
<1>. QED  BY <1>1, <1>2, <1>5, <1>6, <1>8, <1>9 DEF RunInv, EngineInv

\* The closing mark is at a market price and leaves the position alone.
LEMMA MarkCloseType ==
  ASSUME RunInv, MarkClose
  PROVE  PortfolioInv' /\ position'.quantity = position.quantity /\ equity_curve' \in Seq(Int)
<1>1. bar.close \in Int
  <2>1. bar.close \in MarketPrices
    BY EngineAssumption DEF RunInv, EngineInv, TypeOK
  <2>2. \A p \in MarketPrices : p \in Int
    BY BrokerAssumption
  <2>. QED  BY <2>1, <2>2
<1>2. PortfolioInv' /\ position'.quantity = position.quantity
  BY <1>1, MarkToMarketInv DEF RunInv, MarkClose
<1>3. EquityAt(cash, position.quantity, bar.close) \in Int
  <2>1. cash \in Int /\ position.quantity \in Int
    BY DEF RunInv, EngineInv, TypeOK, PortfolioTypeOK, Position
  <2>. QED  BY <1>1, <2>1 DEF EquityAt
<1>4. equity_curve' \in Seq(Int)
  <2>1. equity_curve \in Seq(Int)
    BY DEF RunInv, EngineInv, TypeOK
  <2>. QED  BY <1>3, <2>1 DEF MarkClose
<1>. QED  BY <1>2, <1>4

\* The close marks the position to market and moves on to the next bar; the
\* queue and the approved path wait for the next open.
LEMMA CloseBarInv ==
  ASSUME RunInv, CloseBar
  PROVE  RunInv'
<1>1. /\ phase = "VALIDATE" /\ phase' = "OPEN" /\ bar' \in Bars
      /\ bar_index' = bar_index + 1 /\ bar_index < NBars
      /\ orders' = orders /\ pending' = pending /\ fill_queue' = fill_queue
      /\ approved_positions' = approved_positions /\ phantom_approval' = phantom_approval
  BY DEF CloseBar, MarkClose, brokerVars, historyVars
<1>2. PortfolioInv' /\ position'.quantity = position.quantity /\ equity_curve' \in Seq(Int)
  BY MarkCloseType DEF CloseBar
<1>3. BrokerInv'
  BY BrokerUnchanged DEF RunInv, CloseBar
<1>4. BrokerTypeOK' /\ PortfolioTypeOK'
  BY <1>2, <1>3 DEF BrokerInv, PortfolioInv
<1>5. bar_index' \in 1..NBars /\ bar_index' # 1
  BY <1>1, EngineAssumption DEF RunInv, EngineInv, TypeOK
<1>6. TypeOK'
  BY <1>1, <1>2, <1>4, <1>5 DEF RunInv, EngineInv, TypeOK, CloseBar, gateVars, historyVars, Phase
<1>7. PhaseDiscipline'
  BY <1>1, <1>5 DEF RunInv, EngineInv, PhaseDiscipline
<1>8. LedgerQueue' = LedgerQueue
  BY <1>1, <1>6, SameQueue DEF RunInv, EngineInv
<1>9. OutstandingWasApproved'
  BY <1>1, <1>8 DEF RunInv, EngineInv, OutstandingWasApproved
<1>10. ApprovedPath => ApprovedPath'
  BY <1>1, <1>2, <1>8 DEF ApprovedPath
<1>. QED  BY <1>1, <1>2, <1>3, <1>6, <1>7, <1>9, <1>10 DEF RunInv, EngineInv

\* After the last bar everything pending is cancelled and nothing outstanding.
LEMMA FinishRunInv ==
  ASSUME RunInv, FinishRun
  PROVE  RunInv'
<1>1. /\ phase = "VALIDATE" /\ phase' = "DONE" /\ bar_index' = bar_index
      /\ Transition(PendingIds, "CANCELLED") /\ MarkRecords(PendingIds, "CANCELLED")
      /\ pending' = <<>> /\ fills' = fills /\ fill_queue' = fill_queue /\ UNCHANGED hooks
      /\ approved_positions' = <<>> /\ phantom_approval' = phantom_approval
  BY DEF FinishRun, MarkClose
<1>2. PortfolioInv' /\ position'.quantity = position.quantity /\ equity_curve' \in Seq(Int)
  BY MarkCloseType DEF FinishRun
<1>3. BrokerInv /\ PendingIds \in SUBSET OrderIds
      /\ PendingIds = {id \in OrderIds : orders[id].status = "PENDING"}
  BY DEF RunInv, BrokerInv, QueueMatchesBook
<1>4. /\ orders' \in [OrderIds -> BrokerOrder \cup {NoOrder}]
      /\ \A id \in PendingIds : orders'[id].status = "CANCELLED"
      /\ \A id \in OrderIds \ PendingIds : orders'[id] = orders[id]
  BY <1>1, <1>3, StatusNames, TransitionType DEF BrokerInv
<1>5. BrokerTypeOK'
  BY <1>1, <1>3, <1>4 DEF BrokerInv, BrokerTypeOK, hooks
<1>6. QueueMatchesBook'
  <2>1. \A id \in OrderIds : orders'[id].status # "PENDING"
    BY <1>3, <1>4
  <2>2. Len(pending') = 0
    BY <1>1
  <2>. QED  BY <2>1, <2>2 DEF QueueMatchesBook, PendingIds
<1>7. OneFillPerFilledOrder'
  <2>1. \A i \in 1..Len(fills) : fills[i] \in Fill
    BY <1>3 DEF BrokerInv, BrokerTypeOK
  <2>2. \A i \in 1..Len(fills) : fills[i].order_id \in OrderIds \ PendingIds
    BY <1>3, <2>1 DEF Fill, BrokerInv, OneFillPerFilledOrder
  <2>3. \A id \in OrderIds : orders'[id].status = "FILLED" => orders[id].status = "FILLED"
    BY <1>4
  <2>. QED  BY <1>1, <1>3, <1>4, <2>2, <2>3 DEF BrokerInv, OneFillPerFilledOrder
<1>8. BrokerInv'
  BY <1>5, <1>6, <1>7 DEF BrokerInv
<1>9. order_records' \in Seq(OrderRecord)
  BY <1>1, StatusNames, MarkRecordsType DEF RunInv, EngineInv
<1>10. PortfolioTypeOK' /\ approved_positions' \in Seq(Int)
  BY <1>1, <1>2 DEF PortfolioInv
<1>11. TypeOK'
  BY <1>1, <1>2, <1>5, <1>9, <1>10 DEF RunInv, EngineInv, TypeOK, FinishRun, gateVars, Phase
<1>12. PhaseDiscipline'
  BY <1>1 DEF RunInv, EngineInv, PhaseDiscipline
<1>13. Len(LedgerQueue') = 0 /\ Len(approved_positions') = 0
  <2>1. (TypeOK /\ phase # "SETTLE" => Len(LedgerQueue) = Len(pending))'
    BY QueueOfPending, PTL
  <2>. QED  BY <1>1, <1>11, <2>1
<1>14. OutstandingWasApproved'
  BY <1>13 DEF OutstandingWasApproved
<1>15. ApprovedPath => ApprovedPath'
  BY <1>1, <1>2, <1>13 DEF ApprovedPath
<1>. QED  BY <1>1, <1>2, <1>8, <1>11, <1>12, <1>14, <1>15 DEF RunInv, EngineInv

(* ------------------------------- theorems ------------------------------- *)

\* Every step of run() preserves the invariant, one case per action.
LEMMA NextInv == RunInv /\ [Next]_vars => RunInv'
<1> SUFFICES ASSUME RunInv, [Next]_vars PROVE RunInv'
  OBVIOUS
<1>1. CASE OpenFirstBar
  BY <1>1, OpenFirstBarInv
<1>2. CASE OpenBar
  BY <1>2, OpenBarInv
<1>3. CASE SettleFill
  BY <1>3, SettleFillInv
<1>4. ASSUME NEW batch \in Batches, NEW n \in PyramidCounts, NEW settings \in HookSettings,
             Signal(batch, n, settings)
      PROVE  RunInv'
  <2>1. batch \in Seq(Proposals) /\ n \in Nat
    BY BatchIsSeq, EngineAssumption
  <2>. QED  BY <1>4, <2>1, SignalInv
<1>5. CASE Validate
  BY <1>5, RefuseOrderInv, ApproveNewInv, ApprovePhantomInv, AbortRunInv DEF Validate
<1>6. CASE CloseBar
  BY <1>6, CloseBarInv
<1>7. CASE FinishRun
  BY <1>7, FinishRunInv
<1>8. CASE UNCHANGED vars
  <2>1. BrokerInv' /\ PortfolioInv'
    BY <1>8, BrokerUnchanged, PortfolioUnchanged DEF RunInv, vars
  <2>2. LedgerQueue' = LedgerQueue
    BY <1>8 DEF LedgerQueue, vars, brokerVars, loopVars
  <2>3. EngineInv'
    BY <1>8, <2>2 DEF RunInv, EngineInv, TypeOK, BrokerTypeOK, PortfolioTypeOK, PhaseDiscipline,
        OutstandingWasApproved, ApprovedPath, LastApproved,
        vars, brokerVars, portfolioVars, loopVars, gateVars, logVars, historyVars
  <2>. QED  BY <2>1, <2>3 DEF RunInv
<1>. QED  BY <1>1, <1>2, <1>3, <1>4, <1>5, <1>6, <1>7, <1>8 DEF Next

\* The invariant holds throughout every run.
LEMMA SpecInv == Spec => []RunInv
  BY InitInv, NextInv, PTL DEF Spec

\* The state of a run keeps its shape, for any strategy and any bars.
THEOREM EngineTypeCorrect == Spec => []TypeOK
<1>1. RunInv => TypeOK
  BY DEF RunInv, EngineInv
<1>. QED  BY <1>1, SpecInv, PTL

\* The position stays within max_position_size throughout the run, at every
\* single fill, unless an approval queued no order at the broker.
THEOREM CapHolds == Spec => []PositionWithinCap
<1>1. RunInv => PositionWithinCap
  BY DEF RunInv, EngineInv, ApprovedPath, PositionWithinCap
<1>. QED  BY <1>1, SpecInv, PTL

\* Every fill lands on the position projected when its order was approved.
THEOREM FillsFollowApprovals == Spec => FillsLandOnApprovedPositions
<1>. DEFINE Lands == fill_queue # <<>> /\ fill_queue' = Tail(fill_queue) /\ ~phantom_approval =>
                        position'.quantity = Head(approved_positions)
<1>1. ASSUME RunInv, Next, fill_queue # <<>>, fill_queue' = Tail(fill_queue), ~phantom_approval
      PROVE  position'.quantity = Head(approved_positions)
  <2>1. phase = "SETTLE"
    BY <1>1 DEF RunInv, EngineInv, PhaseDiscipline
  <2>2. fill_queue' # fill_queue
    <3>1. fill_queue \in Seq(Fill)
      BY <1>1 DEF RunInv, EngineInv, TypeOK
    <3>2. Len(Tail(fill_queue)) = Len(fill_queue) - 1 /\ Len(fill_queue) \in Nat
      BY <1>1, <3>1
    <3>3. Tail(fill_queue) # fill_queue
      BY <3>2
    <3>. QED  BY <1>1, <3>3
  <2>3. SettleFill
    BY <1>1, <2>1, <2>2 DEF Next, OpenFirstBar, OpenBar, Signal, Validate, RefuseOrder, ApproveNew,
        ApproveExisting, ApproveRejected, Approve, AbortRun, CloseBar, FinishRun, MarkClose
  <2>. QED  BY <1>1, <2>3, SettleFillInv
<1>2. RunInv /\ [Next]_vars => [Lands]_vars
  BY <1>1
<1>. QED  BY <1>2, SpecInv, PTL DEF Spec, FillsLandOnApprovedPositions

\* During any run the broker's queue and execution log stay in step with its
\* book, and the portfolio's books stay consistent.
THEOREM RunKeepsBooks ==
  Spec => [](QueueMatchesBook /\ OneFillPerFilledOrder /\ EquityMatchesPnl /\ DrawdownIsCurrent)
<1>1. RunInv => QueueMatchesBook /\ OneFillPerFilledOrder /\ EquityMatchesPnl /\ DrawdownIsCurrent
  BY DEF RunInv, BrokerInv, PortfolioInv
<1>. QED  BY <1>1, SpecInv, PTL

(* ------------ what each step does to the queue and to statuses ---------- *)

\* The ledger's queue is a sequence of known ids and signed sizes.
LEMMA QueueTyped ==
  ASSUME RunInv
  PROVE  /\ LedgerQueue \in Seq([id : OrderIds, delta : Int])
         /\ phase = "SETTLE" =>
              /\ Len(LedgerQueue) = Len(fill_queue)
              /\ \A i \in 1..Len(fill_queue) :
                    LedgerQueue[i] = QueueItem(fill_queue[i].order_id, fill_queue[i].side,
                                               fill_queue[i].filled_qty)
         /\ phase # "SETTLE" =>
              /\ Len(LedgerQueue) = Len(pending)
              /\ \A i \in 1..Len(pending) :
                    LedgerQueue[i] = QueueItem(pending[i], orders[pending[i]].side,
                                               orders[pending[i]].quantity)
<1>. DEFINE Item == [id : OrderIds, delta : Int]
<1>1. /\ fill_queue \in Seq(Fill) /\ Len(fill_queue) \in Nat
      /\ pending \in Seq(OrderIds) /\ Len(pending) \in Nat
  BY DEF RunInv, EngineInv, TypeOK, BrokerTypeOK
<1>2. CASE phase = "SETTLE"
  <2>1. LedgerQueue = [i \in 1..Len(fill_queue) |->
             QueueItem(fill_queue[i].order_id, fill_queue[i].side, fill_queue[i].filled_qty)]
    BY <1>2 DEF LedgerQueue
  <2>2. \A i \in 1..Len(fill_queue) : fill_queue[i] \in Fill
    BY <1>1
  <2>3. \A i \in 1..Len(fill_queue) :
           QueueItem(fill_queue[i].order_id, fill_queue[i].side, fill_queue[i].filled_qty) \in Item
    BY <2>2 DEF Fill, QueueItem, SignedQty
  <2>. QED  BY <1>1, <1>2, <2>1, <2>3
<1>3. CASE phase # "SETTLE"
  <2>1. LedgerQueue = [i \in 1..Len(pending) |->
             QueueItem(pending[i], orders[pending[i]].side, orders[pending[i]].quantity)]
    BY <1>3 DEF LedgerQueue
  <2>2. \A i \in 1..Len(pending) : pending[i] \in OrderIds /\ orders[pending[i]].status = "PENDING"
    BY <1>1 DEF RunInv, BrokerInv, QueueMatchesBook, PendingIds
  <2>3. \A i \in 1..Len(pending) : orders[pending[i]] \in BrokerOrder
    BY <2>2 DEF RunInv, BrokerInv, BrokerTypeOK, NoOrder
  <2>4. \A i \in 1..Len(pending) :
           QueueItem(pending[i], orders[pending[i]].side, orders[pending[i]].quantity) \in Item
    BY <2>2, <2>3 DEF BrokerOrder, QueueItem, SignedQty
  <2>. QED  BY <1>1, <1>3, <2>1, <2>4
<1>. QED  BY <1>2, <1>3

\* Execution at the broker turns the queue of orders into the queue of their
\* fills, which nobody outside can tell from the orders still being pending.
LEMMA OpenBarLedger ==
  ASSUME RunInv, OpenBar
  PROVE  /\ LedgerQueue' = LedgerQueue
         /\ \A id \in OrderIds : ObservedStatus(id)' = ObservedStatus(id) /\ Known(id)' = Known(id)
         /\ \A i \in 1..Len(fill_queue') : orders'[fill_queue'[i].order_id].status = "FILLED"
         /\ \A i, j \in 1..Len(fill_queue') :
               fill_queue'[i].order_id = fill_queue'[j].order_id => i = j
<1>1. bar.open \in MarketPrices
  BY EngineAssumption DEF RunInv, EngineInv, TypeOK
<1>2. /\ phase = "OPEN" /\ phase' = "SETTLE" /\ fill_queue = <<>>
      /\ fill_queue' = PendingFills(bar.open) /\ pending' = <<>>
      /\ Transition(PendingIds, "FILLED") /\ UNCHANGED hooks
  BY DEF OpenBar, ExecutePendingOrders, PendingIds, RunInv, EngineInv, PhaseDiscipline
<1>3. /\ Len(fill_queue') = Len(pending)
      /\ \A i \in 1..Len(pending) :
            /\ fill_queue'[i].order_id = pending[i]
            /\ fill_queue'[i].side = orders[pending[i]].side
            /\ fill_queue'[i].filled_qty = orders[pending[i]].quantity
  BY <1>1, <1>2, ExecutePendingInv DEF RunInv, OpenBar
<1>4. /\ pending \in Seq(OrderIds) /\ Len(pending) \in Nat
      /\ PendingIds \in SUBSET OrderIds
      /\ \A i, j \in 1..Len(pending) : pending[i] = pending[j] => i = j
  BY DEF RunInv, BrokerInv, BrokerTypeOK, QueueMatchesBook
<1>5. /\ \A id \in PendingIds : orders[id].status = "PENDING" /\ orders'[id].status = "FILLED"
      /\ \A id \in OrderIds \ PendingIds : orders'[id] = orders[id]
  <2>1. BrokerTypeOK
    BY DEF RunInv, BrokerInv
  <2>2. PendingIds \in SUBSET OrderIds /\ Transition(PendingIds, "FILLED") /\ "FILLED" \in OrderStatus
    BY <1>2, <1>4, StatusNames
  <2>3. /\ \A id \in PendingIds : orders[id].status = "PENDING" /\ orders'[id].status = "FILLED"
        /\ \A id \in OrderIds \ PendingIds : orders'[id] = orders[id]
    BY <2>1, <2>2, TransitionType
  <2>. QED  BY <2>3
<1>6. LedgerQueue' = LedgerQueue
  <2>1. LedgerQueue = [i \in 1..Len(pending) |->
             QueueItem(pending[i], orders[pending[i]].side, orders[pending[i]].quantity)]
    BY <1>2 DEF LedgerQueue
  <2>2. LedgerQueue' = [i \in 1..Len(fill_queue') |->
             QueueItem(fill_queue'[i].order_id, fill_queue'[i].side, fill_queue'[i].filled_qty)]
    BY <1>2 DEF LedgerQueue
  <2>. QED  BY <1>3, <2>1, <2>2
<1>7. ASSUME NEW id \in PendingIds
      PROVE  ObservedStatus(id)' = ObservedStatus(id) /\ Known(id)' = Known(id)
  <2>1. PICK i \in 1..Len(pending) : pending[i] = id
    BY DEF PendingIds
  <2>2. i \in 1..Len(fill_queue') /\ fill_queue'[i].order_id = id
    BY <1>3, <2>1
  <2>3. ObservedStatus(id)' = "PENDING"
    BY <2>2 DEF ObservedStatus
  <2>4. ObservedStatus(id) = "PENDING"
    BY <1>2, <1>5 DEF ObservedStatus
  <2>. QED  BY <1>5, <2>3, <2>4 DEF Known
<1>8. ASSUME NEW id \in OrderIds \ PendingIds
      PROVE  ObservedStatus(id)' = ObservedStatus(id) /\ Known(id)' = Known(id)
  <2>1. \A i \in 1..Len(fill_queue') : fill_queue'[i].order_id \in PendingIds
    BY <1>3 DEF PendingIds
  <2>2. ObservedStatus(id)' = orders'[id].status
    BY <2>1 DEF ObservedStatus
  <2>3. ObservedStatus(id) = orders[id].status
    BY <1>2 DEF ObservedStatus
  <2>. QED  BY <1>5, <2>2, <2>3 DEF Known
<1>9. \A i \in 1..Len(fill_queue') : orders'[fill_queue'[i].order_id].status = "FILLED"
  <2>1. \A i \in 1..Len(fill_queue') : fill_queue'[i].order_id \in PendingIds
    BY <1>3 DEF PendingIds
  <2>. QED  BY <1>5, <2>1
<1>. QED  BY <1>3, <1>4, <1>6, <1>7, <1>8, <1>9

\* A fill is that of the order at the head of the queue.
LEMMA SettleQueue ==
  ASSUME RunInv, SettleFill
  PROVE  LET fill == Head(fill_queue)
         IN  /\ LedgerQueue # <<>> /\ LedgerQueue' = Tail(LedgerQueue)
             /\ Head(LedgerQueue) = QueueItem(fill.order_id, fill.side, fill.filled_qty)
<1>. DEFINE fill == Head(fill_queue)
            Item == [id : OrderIds, delta : Int]
<1>1. /\ phase = "SETTLE" /\ phase' = "SETTLE" /\ fill_queue # <<>>
      /\ fill_queue' = Tail(fill_queue) /\ orders' = orders
  BY DEF SettleFill, loopVars, brokerVars
<1>2. fill_queue \in Seq(Fill)
  BY DEF RunInv, EngineInv, TypeOK
<1>3. /\ Len(fill_queue) \in Nat \ {0} /\ fill = fill_queue[1] /\ fill \in Fill
      /\ Len(fill_queue') = Len(fill_queue) - 1
      /\ \A i \in 1..(Len(fill_queue) - 1) : fill_queue'[i] = fill_queue[i + 1]
  BY <1>1, <1>2
<1>4. fill.order_id \in OrderIds
  BY <1>3 DEF Fill
<1>5. LedgerQueue' = Tail(LedgerQueue) /\ LedgerQueue # <<>>
      /\ Head(LedgerQueue) = QueueItem(fill.order_id, fill.side, fill.filled_qty)
  <2>1. /\ LedgerQueue \in Seq(Item) /\ Len(LedgerQueue) = Len(fill_queue)
        /\ \A i \in 1..Len(fill_queue) :
              LedgerQueue[i] = QueueItem(fill_queue[i].order_id, fill_queue[i].side,
                                         fill_queue[i].filled_qty)
    BY <1>1, QueueTyped
  <2>2. LedgerQueue' = [i \in 1..(Len(fill_queue) - 1) |->
             QueueItem(fill_queue'[i].order_id, fill_queue'[i].side, fill_queue'[i].filled_qty)]
    BY <1>1, <1>3 DEF LedgerQueue
  <2>3. \A i \in 1..(Len(fill_queue) - 1) :
           QueueItem(fill_queue'[i].order_id, fill_queue'[i].side, fill_queue'[i].filled_qty)
              = LedgerQueue[i + 1]
    <3>1. \A i \in 1..(Len(fill_queue) - 1) :
             i + 1 \in 1..Len(fill_queue) /\ fill_queue'[i] = fill_queue[i + 1]
      BY <1>3
    <3>. QED  BY <2>1, <3>1
  <2>. HIDE DEF Item
  <2>4. LedgerQueue # <<>> /\ Head(LedgerQueue) = LedgerQueue[1] /\ 1 \in 1..Len(fill_queue)
    BY <1>3, <2>1
  <2>5. /\ Tail(LedgerQueue) \in Seq(Item) /\ Len(Tail(LedgerQueue)) = Len(fill_queue) - 1
        /\ \A i \in 1..(Len(fill_queue) - 1) : Tail(LedgerQueue)[i] = LedgerQueue[i + 1]
    BY <2>1, <2>4, HeadTailProperties
  <2>6. LedgerQueue' \in Seq(Item) /\ Len(LedgerQueue') = Len(fill_queue) - 1
    <3>1. \A i \in 1..(Len(fill_queue) - 1) : LedgerQueue[i + 1] \in Item
      BY <2>1
    <3>. QED  BY <1>3, <2>2, <2>3, <3>1
  <2>7. \A i \in 1..(Len(fill_queue) - 1) : LedgerQueue'[i] = Tail(LedgerQueue)[i]
    BY <2>2, <2>3, <2>5
  <2>8. LedgerQueue' = Tail(LedgerQueue)
    BY <2>5, <2>6, <2>7, SeqEqual
  <2>. QED  BY <1>3, <2>1, <2>4, <2>8
<1>. QED  BY <1>5

\* Handing over one fill takes its order off the queue and shows it FILLED.
LEMMA SettleLedger ==
  ASSUME RunInv, SettleFill, RunInv',
         \A i \in 1..Len(fill_queue) : orders[fill_queue[i].order_id].status = "FILLED",
         \A i, j \in 1..Len(fill_queue) : fill_queue[i].order_id = fill_queue[j].order_id => i = j
  PROVE  LET fill == Head(fill_queue)
         IN  /\ LedgerQueue # <<>> /\ LedgerQueue' = Tail(LedgerQueue)
             /\ Head(LedgerQueue) = QueueItem(fill.order_id, fill.side, fill.filled_qty)
             /\ fill.order_id \in OrderIds
             /\ ObservedStatus(fill.order_id) = "PENDING"
             /\ \A id \in OrderIds :
                   ObservedStatus(id)' = IF id = fill.order_id THEN "FILLED" ELSE ObservedStatus(id)
             /\ orders' = orders
             /\ \A i \in 1..Len(fill_queue') : orders'[fill_queue'[i].order_id].status = "FILLED"
             /\ \A i, j \in 1..Len(fill_queue') :
                   fill_queue'[i].order_id = fill_queue'[j].order_id => i = j
<1>. DEFINE fill == Head(fill_queue)
<1>1. /\ phase = "SETTLE" /\ phase' = "SETTLE" /\ fill_queue # <<>>
      /\ fill_queue' = Tail(fill_queue) /\ orders' = orders
  BY DEF SettleFill, loopVars, brokerVars
<1>2. fill_queue \in Seq(Fill)
  BY DEF RunInv, EngineInv, TypeOK
<1>3. /\ Len(fill_queue) \in Nat \ {0} /\ fill = fill_queue[1] /\ fill \in Fill
      /\ Len(fill_queue') = Len(fill_queue) - 1
      /\ \A i \in 1..(Len(fill_queue) - 1) : fill_queue'[i] = fill_queue[i + 1]
  BY <1>1, <1>2
<1>4. fill.order_id \in OrderIds
  BY <1>3 DEF Fill
<1>5. LedgerQueue' = Tail(LedgerQueue) /\ LedgerQueue # <<>>
      /\ Head(LedgerQueue) = QueueItem(fill.order_id, fill.side, fill.filled_qty)
  BY SettleQueue
<1>6. ObservedStatus(fill.order_id) = "PENDING"
  <2>1. 1 \in 1..Len(fill_queue)
    BY <1>3
  <2>. QED  BY <1>3, <2>1 DEF ObservedStatus
<1>7. \A i \in 1..Len(fill_queue') : i + 1 \in 1..Len(fill_queue) /\ fill_queue'[i] = fill_queue[i + 1]
  BY <1>3
<1>8. \A i \in 1..Len(fill_queue') : fill_queue'[i].order_id # fill.order_id
  <2>1. \A i \in 1..Len(fill_queue') : i + 1 # 1
    BY <1>3
  <2>2. 1 \in 1..Len(fill_queue)
    BY <1>3
  <2>. QED  BY <1>3, <1>7, <2>1, <2>2
<1>9. ASSUME NEW id \in OrderIds, id = fill.order_id
      PROVE  ObservedStatus(id)' = "FILLED"
  <2>1. ObservedStatus(id)' = orders'[id].status
    BY <1>8, <1>9 DEF ObservedStatus
  <2>2. 1 \in 1..Len(fill_queue)
    BY <1>3
  <2>. QED  BY <1>1, <1>3, <1>9, <2>1, <2>2
<1>10. ASSUME NEW id \in OrderIds \ {fill.order_id}
       PROVE  ObservedStatus(id)' = ObservedStatus(id)
  <2>1. (\E i \in 1..Len(fill_queue') : fill_queue'[i].order_id = id)
           => \E i \in 1..Len(fill_queue) : fill_queue[i].order_id = id
    BY <1>7
  <2>2. ASSUME NEW i \in 1..Len(fill_queue), fill_queue[i].order_id = id
        PROVE  \E k \in 1..Len(fill_queue') : fill_queue'[k].order_id = id
    <3>1. i # 1
      BY <1>3, <2>2
    <3>2. i - 1 \in 1..Len(fill_queue') /\ fill_queue'[i - 1] = fill_queue[i]
      BY <1>3, <3>1
    <3>. QED  BY <2>2, <3>2
  <2>. QED  BY <1>1, <2>1, <2>2 DEF ObservedStatus
<1>11. /\ \A i \in 1..Len(fill_queue') : orders'[fill_queue'[i].order_id].status = "FILLED"
       /\ \A i, j \in 1..Len(fill_queue') :
             fill_queue'[i].order_id = fill_queue'[j].order_id => i = j
  <2>1. \A i, j \in 1..Len(fill_queue') : i + 1 = j + 1 => i = j
    BY <1>3
  <2>. QED  BY <1>1, <1>7, <2>1
<1>. QED  BY <1>1, <1>4, <1>5, <1>6, <1>9, <1>10, <1>11

\* A step that touches neither book nor queues shows the same ledger.
LEMMA SameLedger ==
  ASSUME orders' = orders, pending' = pending, fill_queue' = fill_queue,
         phase = "SETTLE" <=> phase' = "SETTLE"
  PROVE  /\ LedgerQueue' = LedgerQueue
         /\ \A id \in OrderIds : ObservedStatus(id)' = ObservedStatus(id) /\ Known(id)' = Known(id)
<1>1. LedgerQueue' = LedgerQueue
  BY DEF LedgerQueue
<1>. QED  BY <1>1 DEF ObservedStatus, Known

\* At the first open, and when a new batch is taken, nothing is outstanding
\* on either side of the step.
LEMMA EmptyLedger ==
  ASSUME RunInv, RunInv', OpenFirstBar \/ \E b, n, h : Signal(b, n, h)
  PROVE  /\ LedgerQueue = <<>> /\ LedgerQueue' = <<>>
         /\ \A id \in OrderIds : ObservedStatus(id)' = ObservedStatus(id) /\ Known(id)' = Known(id)
<1>1. /\ orders' = orders /\ pending = <<>> /\ pending' = <<>>
      /\ fill_queue = <<>> /\ fill_queue' = <<>>
  BY DEF OpenFirstBar, Signal, brokerVars, RunInv, EngineInv, PhaseDiscipline
<1>2. LedgerQueue = <<>> /\ LedgerQueue' = <<>>
  BY <1>1 DEF LedgerQueue
<1>. QED  BY <1>1, <1>2 DEF ObservedStatus, Known

\* A new order joins the end of the queue, under an id nobody has used.
LEMMA AcceptLedger ==
  ASSUME RunInv, RunInv', ApproveNew
  PROVE  LET o == Head(candidate_orders)
         IN  /\ o \in Proposals /\ o.client_order_id \in OrderIds /\ ~Known(o.client_order_id)
             /\ LedgerQueue' = Append(LedgerQueue, QueueItem(o.client_order_id, o.side, o.quantity))
             /\ \A id \in OrderIds :
                   /\ ObservedStatus(id)' =
                         IF id = o.client_order_id THEN "PENDING" ELSE ObservedStatus(id)
                   /\ Known(id)' = (id = o.client_order_id \/ Known(id))
<1>. DEFINE o == Head(candidate_orders)
            n == Len(pending)
            Item == [id : OrderIds, delta : Int]
<1>1. /\ Approve(o) /\ PlaceNew(o) /\ candidate_orders # <<>> /\ Log(o, "PENDING")
      /\ phase = "VALIDATE" /\ phase' = "VALIDATE" /\ fill_queue' = fill_queue
  BY DEF ApproveNew, Approve, Log, loopVars
<1>2. o \in Proposals
  BY <1>1, LogType, StatusNames
<1>3. fill_queue = <<>> /\ fill_queue' = <<>>
  BY <1>1 DEF RunInv, EngineInv, PhaseDiscipline
<1>4. /\ Store(o, "PENDING") /\ ~Known(o.client_order_id)
      /\ pending' = Append(pending, o.client_order_id)
  BY <1>1 DEF PlaceNew
<1>5. /\ o.client_order_id \in OrderIds
      /\ orders'[o.client_order_id].status = "PENDING"
      /\ orders'[o.client_order_id].side = o.side
      /\ orders'[o.client_order_id].quantity = o.quantity
      /\ \A id \in OrderIds \ {o.client_order_id} : orders'[id] = orders[id]
  BY <1>2, <1>4, StoreType, StatusNames DEF RunInv, BrokerInv
<1>. HIDE DEF o
<1>6. /\ pending \in Seq(OrderIds) /\ n \in Nat /\ Len(pending') = n + 1
      /\ \A i \in 1..n : pending'[i] = pending[i] /\ pending[i] \in OrderIds
      /\ pending'[n + 1] = o.client_order_id
  <2>1. pending \in Seq(OrderIds)
    BY DEF RunInv, BrokerInv, BrokerTypeOK
  <2>. QED  BY <1>4, <1>5, <2>1
<1>7. \A i \in 1..n : pending[i] # o.client_order_id
  <2>1. \A i \in 1..n : orders[pending[i]].status = "PENDING"
    BY DEF RunInv, BrokerInv, QueueMatchesBook, PendingIds
  <2>. QED  BY <1>4, <2>1 DEF Known
<1>8. /\ LedgerQueue \in Seq(Item) /\ Len(LedgerQueue) = n
      /\ \A i \in 1..n :
            LedgerQueue[i] = QueueItem(pending[i], orders[pending[i]].side, orders[pending[i]].quantity)
  BY <1>1, QueueTyped
<1>9. LedgerQueue' = [i \in 1..(n + 1) |->
          QueueItem(pending'[i], orders'[pending'[i]].side, orders'[pending'[i]].quantity)]
  BY <1>1, <1>6 DEF LedgerQueue
<1>. DEFINE item == QueueItem(o.client_order_id, o.side, o.quantity)
<1>10. item \in Item
  <2>1. o \in Proposal(OrderIds)
    BY <1>2, BrokerAssumption
  <2>. QED  BY <2>1 DEF Proposal, QueueItem, SignedQty
<1>11. /\ \A i \in 1..n : LedgerQueue'[i] = LedgerQueue[i]
       /\ LedgerQueue'[n + 1] = item
  <2>1. \A i \in 1..n : i \in 1..(n + 1) /\ i # n + 1
    BY <1>6
  <2>2. n + 1 \in 1..(n + 1)
    BY <1>6
  <2>3. \A i \in 1..n : orders'[pending'[i]] = orders[pending[i]]
    BY <1>5, <1>6, <1>7
  <2>. QED  BY <1>5, <1>6, <1>8, <1>9, <2>1, <2>2, <2>3
<1>. HIDE DEF item, Item
<1>12. LedgerQueue' = Append(LedgerQueue, item)
  <2>1. /\ Append(LedgerQueue, item) \in Seq(Item) /\ Len(Append(LedgerQueue, item)) = n + 1
        /\ \A i \in 1..n : Append(LedgerQueue, item)[i] = LedgerQueue[i]
        /\ Append(LedgerQueue, item)[n + 1] = item
    BY <1>8, <1>10
  <2>2. \A i \in 1..(n + 1) : i \in 1..n \/ i = n + 1
    BY <1>6
  <2>3. \A i \in 1..(n + 1) : LedgerQueue'[i] \in Item
    BY <1>8, <1>10, <1>11, <2>2
  <2>4. LedgerQueue' \in Seq(Item) /\ Len(LedgerQueue') = n + 1
    <3>1. LedgerQueue' = [i \in 1..(n + 1) |-> LedgerQueue'[i]]
      BY <1>9
    <3>2. n + 1 \in Nat
      BY <1>6
    <3>. QED  BY <2>3, <3>1, <3>2
  <2>5. \A i \in 1..(n + 1) : LedgerQueue'[i] = Append(LedgerQueue, item)[i]
    BY <1>11, <2>1, <2>2
  <2>. QED  BY <2>1, <2>4, <2>5, SeqEqual
<1>13. \A id \in OrderIds :
          /\ ObservedStatus(id)' = IF id = o.client_order_id THEN "PENDING" ELSE ObservedStatus(id)
          /\ Known(id)' = (id = o.client_order_id \/ Known(id))
  <2>1. \A id \in OrderIds : ObservedStatus(id)' = orders'[id].status /\ ObservedStatus(id) = orders[id].status
    BY <1>3 DEF ObservedStatus
  <2>. QED  BY <1>5, <2>1 DEF Known
<1>. QED  BY <1>2, <1>4, <1>5, <1>12, <1>13 DEF o, item

\* An order the broker rejects is known from then on, and never queued.
LEMMA DeclineLedger ==
  ASSUME RunInv, ApproveRejected
  PROVE  LET o == Head(candidate_orders)
         IN  /\ o.client_order_id \in OrderIds /\ ~Known(o.client_order_id)
             /\ LedgerQueue' = LedgerQueue
             /\ \A id \in OrderIds :
                   /\ ObservedStatus(id)' =
                         IF id = o.client_order_id THEN "REJECTED" ELSE ObservedStatus(id)
                   /\ Known(id)' = (id = o.client_order_id \/ Known(id))
<1>. DEFINE o == Head(candidate_orders)
<1>1. /\ Approve(o) /\ PlaceRejected(o) /\ candidate_orders # <<>> /\ Log(o, "PENDING")
      /\ phase = "VALIDATE" /\ phase' = "VALIDATE" /\ fill_queue' = fill_queue
  BY DEF ApproveRejected, Approve, Log, loopVars
<1>2. o \in Proposals
  BY <1>1, LogType, StatusNames
<1>3. fill_queue = <<>> /\ fill_queue' = <<>>
  BY <1>1 DEF RunInv, EngineInv, PhaseDiscipline
<1>4. Store(o, "REJECTED") /\ ~Known(o.client_order_id) /\ pending' = pending
  BY <1>1 DEF PlaceRejected
<1>5. /\ o.client_order_id \in OrderIds
      /\ orders'[o.client_order_id].status = "REJECTED"
      /\ \A id \in OrderIds \ {o.client_order_id} : orders'[id] = orders[id]
  BY <1>2, <1>4, StoreType, StatusNames DEF RunInv, BrokerInv
<1>. HIDE DEF o
<1>6. \A i \in 1..Len(pending) : pending[i] \in OrderIds /\ pending[i] # o.client_order_id
  <2>1. \A i \in 1..Len(pending) : pending[i] \in OrderIds /\ orders[pending[i]].status = "PENDING"
    BY DEF RunInv, BrokerInv, QueueMatchesBook, PendingIds
  <2>. QED  BY <1>4, <2>1 DEF Known
<1>7. LedgerQueue' = LedgerQueue
  <2>1. LedgerQueue = [i \in 1..Len(pending) |->
             QueueItem(pending[i], orders[pending[i]].side, orders[pending[i]].quantity)]
    BY <1>1 DEF LedgerQueue
  <2>2. LedgerQueue' = [i \in 1..Len(pending) |->
             QueueItem(pending[i], orders'[pending[i]].side, orders'[pending[i]].quantity)]
    BY <1>1, <1>4 DEF LedgerQueue
  <2>3. \A i \in 1..Len(pending) : orders'[pending[i]] = orders[pending[i]]
    BY <1>5, <1>6
  <2>. QED  BY <2>1, <2>2, <2>3
<1>8. \A id \in OrderIds :
         /\ ObservedStatus(id)' = IF id = o.client_order_id THEN "REJECTED" ELSE ObservedStatus(id)
         /\ Known(id)' = (id = o.client_order_id \/ Known(id))
  <2>1. \A id \in OrderIds : ObservedStatus(id)' = orders'[id].status /\ ObservedStatus(id) = orders[id].status
    BY <1>3 DEF ObservedStatus
  <2>. QED  BY <1>5, <2>1 DEF Known
<1>. QED  BY <1>4, <1>5, <1>7, <1>8 DEF o

\* The last bar empties the queue and cancels what was pending, nothing else.
LEMMA FinishLedger ==
  ASSUME RunInv, FinishRun
  PROVE  /\ LedgerQueue' = <<>>
         /\ \A id \in OrderIds :
               /\ id \in PendingIds <=> ObservedStatus(id) = "PENDING"
               /\ ObservedStatus(id)' = IF id \in PendingIds THEN "CANCELLED" ELSE ObservedStatus(id)
               /\ Known(id)' = Known(id)
<1>1. /\ phase = "VALIDATE" /\ phase' = "DONE" /\ fill_queue' = fill_queue /\ pending' = <<>>
      /\ Transition(PendingIds, "CANCELLED")
  BY DEF FinishRun, MarkClose
<1>2. fill_queue = <<>> /\ fill_queue' = <<>>
  BY <1>1 DEF RunInv, EngineInv, PhaseDiscipline
<1>3. /\ PendingIds \in SUBSET OrderIds
      /\ PendingIds = {id \in OrderIds : orders[id].status = "PENDING"}
      /\ BrokerTypeOK
  BY DEF RunInv, BrokerInv, QueueMatchesBook
<1>4. /\ \A id \in PendingIds : orders[id].status = "PENDING" /\ orders'[id].status = "CANCELLED"
      /\ \A id \in OrderIds \ PendingIds : orders'[id] = orders[id]
  BY <1>1, <1>3, StatusNames, TransitionType
<1>5. LedgerQueue' = <<>>
  BY <1>1 DEF LedgerQueue
<1>6. \A id \in OrderIds : ObservedStatus(id)' = orders'[id].status /\ ObservedStatus(id) = orders[id].status
  BY <1>2 DEF ObservedStatus
<1>. QED  BY <1>3, <1>4, <1>5, <1>6 DEF Known

(* -------------------- the order log follows the book -------------------- *)

\* Fills in hand belong to different, executed orders: this is why handing
\* one over changes the visible status of that order only.
FillsInHand ==
    /\ \A i \in 1..Len(fill_queue) : orders[fill_queue[i].order_id].status = "FILLED"
    /\ \A i, j \in 1..Len(fill_queue) : fill_queue[i].order_id = fill_queue[j].order_id => i = j

LogInv == FillsInHand /\ LogMatchesBook

\* The log's records are records.
LEMMA RecordTypes ==
  TypeOK => /\ order_records \in Seq(OrderRecord) /\ Len(order_records) \in Nat
            /\ \A i \in 1..Len(order_records) :
                  /\ order_records[i] \in OrderRecord
                  /\ order_records[i].client_order_id \in OrderIds
                  /\ order_records[i].signal_time \in 1..NBars
                  /\ order_records[i].status \in OrderStatus
<1>. SUFFICES ASSUME TypeOK
              PROVE  /\ order_records \in Seq(OrderRecord) /\ Len(order_records) \in Nat
                     /\ \A i \in 1..Len(order_records) :
                           /\ order_records[i] \in OrderRecord
                           /\ order_records[i].client_order_id \in OrderIds
                           /\ order_records[i].signal_time \in 1..NBars
                           /\ order_records[i].status \in OrderStatus
  OBVIOUS
<1>1. order_records \in Seq(OrderRecord) /\ Len(order_records) \in Nat
  BY DEF TypeOK
<1>2. \A i \in 1..Len(order_records) : order_records[i] \in OrderRecord
  BY <1>1
<1>. QED  BY <1>1, <1>2 DEF OrderRecord

\* Marking gives the records of these ids the status, and changes no other.
LEMMA MarkedRecords ==
  ASSUME TypeOK, NEW ids, NEW s, MarkRecords(ids, s)
  PROVE  /\ Len(order_records') = Len(order_records)
         /\ \A i \in 1..Len(order_records) :
               /\ order_records'[i].client_order_id = order_records[i].client_order_id
               /\ order_records'[i].signal_time = order_records[i].signal_time
               /\ order_records'[i].status =
                     IF order_records[i].client_order_id \in ids THEN s ELSE order_records[i].status
<1>1. /\ Len(order_records) \in Nat
      /\ \A i \in 1..Len(order_records) : order_records[i] \in OrderRecord
  BY RecordTypes
<1>2. Len(order_records') = Len(order_records)
  BY <1>1 DEF MarkRecords
<1>3. ASSUME NEW i \in 1..Len(order_records)
      PROVE  /\ order_records'[i].client_order_id = order_records[i].client_order_id
             /\ order_records'[i].signal_time = order_records[i].signal_time
             /\ order_records'[i].status =
                   IF order_records[i].client_order_id \in ids THEN s ELSE order_records[i].status
  <2>1. order_records'[i] = IF order_records[i].client_order_id \in ids
                            THEN [order_records[i] EXCEPT !.status = s] ELSE order_records[i]
    BY DEF MarkRecords
  <2>2. order_records[i] \in OrderRecord
    BY <1>1
  <2>. QED  BY <2>1, <2>2 DEF OrderRecord
<1>. QED  BY <1>2, <1>3

\* Logging an order appends one record and changes none.
LEMMA LoggedRecords ==
  ASSUME TypeOK, NEW o, NEW s, Log(o, s)
  PROVE  /\ Len(order_records') = Len(order_records) + 1
         /\ \A i \in 1..Len(order_records) : order_records'[i] = order_records[i]
         /\ order_records'[Len(order_records) + 1].client_order_id = o.client_order_id
         /\ order_records'[Len(order_records) + 1].signal_time = bar_index
         /\ order_records'[Len(order_records) + 1].status = s
         /\ \A i \in 1..Len(order_records') : i \in 1..Len(order_records) \/ i = Len(order_records) + 1
<1>1. order_records \in Seq(OrderRecord) /\ Len(order_records) \in Nat
  BY RecordTypes
<1>. DEFINE r == [client_order_id |-> o.client_order_id, signal_time |-> bar_index, status |-> s]
<1>2. order_records' = Append(order_records, r)
  BY DEF Log
<1>. HIDE DEF r
<1>3. /\ Len(order_records') = Len(order_records) + 1
      /\ \A i \in 1..Len(order_records) : order_records'[i] = order_records[i]
      /\ order_records'[Len(order_records) + 1] = r
  BY <1>1, <1>2
<1>4. \A i \in 1..Len(order_records') : i \in 1..Len(order_records) \/ i = Len(order_records) + 1
  BY <1>1, <1>3
<1>. QED  BY <1>3, <1>4 DEF r

\* Steps that show every order as before, and add no record but of a refusal,
\* keep log and book together.
LEMMA LogUnchanged ==
  ASSUME RunInv, RunInv', LogMatchesBook, phantom_approval' = phantom_approval,
         \A id \in OrderIds : ObservedStatus(id)' = ObservedStatus(id),
         \/ order_records' = order_records
         \/ \E o : Log(o, "REJECTED")
  PROVE  LogMatchesBook'
<1>1. \A i \in 1..Len(order_records) : order_records[i].client_order_id \in OrderIds
  BY RecordTypes DEF RunInv, EngineInv
<1>2. TypeOK
  BY DEF RunInv, EngineInv
<1>3. CASE order_records' = order_records
  BY <1>1, <1>3 DEF LogMatchesBook
<1>4. ASSUME NEW o, Log(o, "REJECTED") PROVE LogMatchesBook'
  <2>1. /\ \A i \in 1..Len(order_records) : order_records'[i] = order_records[i]
        /\ order_records'[Len(order_records) + 1].status = "REJECTED"
        /\ \A i \in 1..Len(order_records') : i \in 1..Len(order_records) \/ i = Len(order_records) + 1
    BY <1>2, <1>4, LoggedRecords
  <2>. QED  BY <1>1, <2>1 DEF LogMatchesBook
<1>. QED  BY <1>3, <1>4

\* Every step keeps log and book together.
LEMMA LogStep == RunInv /\ RunInv' /\ LogInv /\ [Next]_vars => LogInv'
<1> SUFFICES ASSUME RunInv, RunInv', LogInv, [Next]_vars PROVE LogInv'
  OBVIOUS
<1>. USE DEF LogInv
<1>t. TypeOK /\ \A i \in 1..Len(order_records) :
                   /\ order_records[i].client_order_id \in OrderIds
                   /\ order_records[i].status \in OrderStatus
  BY RecordTypes DEF RunInv, EngineInv
<1>e. ASSUME fill_queue' = <<>> PROVE FillsInHand'
  BY <1>e DEF FillsInHand
<1>1. CASE OpenFirstBar
  <2>1. \A id \in OrderIds : ObservedStatus(id)' = ObservedStatus(id)
    BY <1>1, EmptyLedger
  <2>2. fill_queue' = <<>> /\ order_records' = order_records /\ phantom_approval' = phantom_approval
    BY <1>1 DEF OpenFirstBar, logVars, historyVars, RunInv, EngineInv, PhaseDiscipline
  <2>. QED  BY <1>e, <2>1, <2>2, LogUnchanged
<1>2. CASE OpenBar
  <2>1. FillsInHand' /\ \A id \in OrderIds : ObservedStatus(id)' = ObservedStatus(id)
    BY <1>2, OpenBarLedger DEF FillsInHand
  <2>2. order_records' = order_records /\ phantom_approval' = phantom_approval
    BY <1>2 DEF OpenBar, logVars, historyVars
  <2>. QED  BY <2>1, <2>2, LogUnchanged
<1>3. CASE SettleFill
  <2>. DEFINE id1 == Head(fill_queue).order_id
  <2>1. /\ FillsInHand'
        /\ \A id \in OrderIds : ObservedStatus(id)' = IF id = id1 THEN "FILLED" ELSE ObservedStatus(id)
    BY <1>3, SettleLedger DEF FillsInHand
  <2>2. MarkRecords({id1}, "FILLED") /\ phantom_approval' = phantom_approval
    BY <1>3 DEF SettleFill
  <2>. HIDE DEF id1
  <2>3. /\ Len(order_records') = Len(order_records)
        /\ \A i \in 1..Len(order_records) :
              /\ order_records'[i].client_order_id = order_records[i].client_order_id
              /\ order_records'[i].status =
                    IF order_records[i].client_order_id = id1 THEN "FILLED" ELSE order_records[i].status
    BY <1>t, <2>2, MarkedRecords
  <2>4. LogMatchesBook'
    BY <1>t, <2>1, <2>2, <2>3 DEF LogMatchesBook
  <2>. QED  BY <2>1, <2>4
<1>4. ASSUME NEW b \in Batches, NEW n \in PyramidCounts, NEW h \in HookSettings, Signal(b, n, h)
      PROVE  LogInv'
  <2>1. \A id \in OrderIds : ObservedStatus(id)' = ObservedStatus(id)
    BY <1>4, EmptyLedger
  <2>2. fill_queue' = <<>> /\ order_records' = order_records /\ phantom_approval' = phantom_approval
    BY <1>4 DEF Signal, logVars
  <2>. QED  BY <1>e, <2>1, <2>2, LogUnchanged
<1>5. CASE RefuseOrder
  <2>1. /\ Log(Head(candidate_orders), "REJECTED") /\ orders' = orders /\ pending' = pending
        /\ fill_queue' = fill_queue /\ phase' = phase /\ phantom_approval' = phantom_approval
        /\ phase = "VALIDATE"
    BY <1>5 DEF RefuseOrder, Log, loopVars, historyVars
  <2>2. \A id \in OrderIds : ObservedStatus(id)' = ObservedStatus(id)
    BY <2>1, SameLedger
  <2>3. fill_queue' = <<>>
    BY <2>1 DEF RunInv, EngineInv, PhaseDiscipline
  <2>. QED  BY <1>e, <2>1, <2>2, <2>3, LogUnchanged
<1>6. CASE ApproveNew
  <2>. DEFINE o == Head(candidate_orders)
  <2>1. /\ ~Known(o.client_order_id) /\ o.client_order_id \in OrderIds
        /\ \A id \in OrderIds :
              ObservedStatus(id)' = IF id = o.client_order_id THEN "PENDING" ELSE ObservedStatus(id)
    BY <1>6, AcceptLedger
  <2>2. Log(o, "PENDING") /\ phase = "VALIDATE" /\ phase' = phase /\ phantom_approval' = phantom_approval
    BY <1>6 DEF ApproveNew, Approve, Log, loopVars
  <2>3. fill_queue = <<>> /\ fill_queue' = <<>>
    BY <2>2 DEF RunInv, EngineInv, PhaseDiscipline
  <2>4. ObservedStatus(o.client_order_id) = "ABSENT"
    BY <2>1, <2>3 DEF ObservedStatus, Known
  <2>. HIDE DEF o
  <2>5. \A i \in 1..Len(order_records) :
           ~phantom_approval /\ order_records[i].client_order_id = o.client_order_id =>
              order_records[i].status = "REJECTED"
    BY <1>t, <2>4 DEF LogMatchesBook, OrderStatus
  <2>6. LogMatchesBook'
    <3>1. SUFFICES ASSUME ~phantom_approval, NEW i \in 1..Len(order_records')
                   PROVE  order_records'[i].status
                             \in {"REJECTED", ObservedStatus(order_records[i].client_order_id)'}
      BY <2>2 DEF LogMatchesBook
    <3>2. /\ \A k \in 1..Len(order_records) : order_records'[k] = order_records[k]
          /\ order_records'[Len(order_records) + 1].status = "PENDING"
          /\ order_records'[Len(order_records) + 1].client_order_id = o.client_order_id
          /\ i \in 1..Len(order_records) \/ i = Len(order_records) + 1
      BY <1>t, <2>2, <3>1, LoggedRecords
    <3>3. CASE i = Len(order_records) + 1
      BY <2>1, <3>2, <3>3
    <3>4. CASE i \in 1..Len(order_records)
      <4>1. order_records[i].status \in {"REJECTED", ObservedStatus(order_records[i].client_order_id)}
        BY <2>2, <3>1, <3>4 DEF LogMatchesBook
      <4>2. CASE order_records[i].client_order_id = o.client_order_id
        BY <2>2, <2>5, <3>1, <3>2, <3>4, <4>2
      <4>3. CASE order_records[i].client_order_id # o.client_order_id
        BY <1>t, <2>1, <3>2, <3>4, <4>1, <4>3
      <4>. QED  BY <4>2, <4>3
    <3>. QED  BY <3>2, <3>3, <3>4
  <2>. QED  BY <1>e, <2>3, <2>6
<1>7. CASE ApproveExisting \/ ApproveRejected
  <2>1. phantom_approval' = TRUE /\ phase = "VALIDATE" /\ fill_queue' = fill_queue
    BY <1>7 DEF ApproveExisting, ApproveRejected, Approve, Log
  <2>2. fill_queue' = <<>>
    BY <2>1 DEF RunInv, EngineInv, PhaseDiscipline
  <2>. QED  BY <1>e, <2>1, <2>2 DEF LogMatchesBook
<1>8. CASE AbortRun \/ CloseBar
  <2>1. /\ orders' = orders /\ pending' = pending /\ fill_queue' = fill_queue
        /\ order_records' = order_records /\ phantom_approval' = phantom_approval
        /\ phase = "VALIDATE" /\ phase' # "SETTLE"
    BY <1>8 DEF AbortRun, CloseBar, MarkClose, brokerVars, historyVars
  <2>2. \A id \in OrderIds : ObservedStatus(id)' = ObservedStatus(id)
    BY <2>1, SameLedger
  <2>3. fill_queue' = <<>>
    BY <2>1 DEF RunInv, EngineInv, PhaseDiscipline
  <2>. QED  BY <1>e, <2>1, <2>2, <2>3, LogUnchanged
<1>9. CASE FinishRun
  <2>1. \A id \in OrderIds :
           ObservedStatus(id)' = IF id \in PendingIds THEN "CANCELLED" ELSE ObservedStatus(id)
    BY <1>9, FinishLedger
  <2>2. /\ MarkRecords(PendingIds, "CANCELLED") /\ phantom_approval' = phantom_approval
        /\ phase = "VALIDATE" /\ fill_queue' = fill_queue
    BY <1>9 DEF FinishRun, MarkClose
  <2>3. fill_queue' = <<>>
    BY <2>2 DEF RunInv, EngineInv, PhaseDiscipline
  <2>4. /\ Len(order_records') = Len(order_records)
        /\ \A i \in 1..Len(order_records) :
              /\ order_records'[i].client_order_id = order_records[i].client_order_id
              /\ order_records'[i].status =
                    IF order_records[i].client_order_id \in PendingIds THEN "CANCELLED"
                    ELSE order_records[i].status
    BY <1>t, <2>2, MarkedRecords
  <2>5. LogMatchesBook'
    BY <1>t, <2>1, <2>2, <2>4 DEF LogMatchesBook
  <2>. QED  BY <1>e, <2>3, <2>5
<1>10. CASE UNCHANGED vars
  BY <1>10 DEF vars, brokerVars, logVars, historyVars, FillsInHand, LogMatchesBook, ObservedStatus
<1>. QED  BY <1>1, <1>2, <1>3, <1>4, <1>5, <1>6, <1>7, <1>8, <1>9, <1>10 DEF Next, Validate

\* Before the first order there is nothing to disagree about.
LEMMA LogInit == Init => LogInv
  BY DEF Init, LogInv, FillsInHand, LogMatchesBook

\* In every run the log agrees with the books.
LEMMA SpecLogInv == Spec => [](RunInv /\ LogInv)
  BY SpecInv, LogInit, LogStep, PTL DEF Spec

\* Through execution, hand-over and the final cancellation every record of an
\* order that passed the gate shows the status the broker has for it.
THEOREM LogFollowsBook == Spec => []LogMatchesBook
<1>1. LogInv => LogMatchesBook
  BY DEF LogInv
<1>. QED  BY <1>1, SpecLogInv, PTL

(* --------------------- orders execute at the next open ------------------ *)

\* The bar at which what is outstanding was proposed: the one before, until
\* the fills of this bar's open are settled; this one afterwards.
ProposedAt == IF phase \in {"OPEN", "SETTLE"} THEN bar_index - 1 ELSE bar_index

TimesInv ==
    /\ \A i \in 1..Len(LedgerQueue) : order_signal_times[LedgerQueue[i].id] = ProposedAt
    /\ ExecutedAtNextOpen

\* While a batch is validated only this bar is noted, for whatever order.
LEMMA NoteKeepsTimes ==
  ASSUME RunInv, TimesInv, NEW o, NoteSignal(o), phase = "VALIDATE",
         bar_index' = bar_index, trades' = trades, phase' \in {"VALIDATE", "ABORTED"},
         \A i \in 1..Len(LedgerQueue') :
            \/ LedgerQueue'[i].id = o.client_order_id
            \/ i \in 1..Len(LedgerQueue) /\ LedgerQueue'[i] = LedgerQueue[i],
         o.client_order_id \in OrderIds
  PROVE  TimesInv'
<1>1. order_signal_times \in [OrderIds -> 0..NBars]
  BY DEF RunInv, EngineInv, TypeOK
<1>2. ProposedAt = bar_index /\ ProposedAt' = bar_index
  BY DEF ProposedAt
<1>3. \A id \in OrderIds :
         order_signal_times'[id] = IF id = o.client_order_id THEN bar_index ELSE order_signal_times[id]
  BY <1>1 DEF NoteSignal
<1>4. \A i \in 1..Len(LedgerQueue) : LedgerQueue[i].id \in OrderIds
  <2>1. LedgerQueue \in Seq([id : OrderIds, delta : Int])
    BY QueueTyped
  <2>2. \A i \in 1..Len(LedgerQueue) : LedgerQueue[i] \in [id : OrderIds, delta : Int]
    BY <2>1, ElementOfSeq
  <2>. QED  BY <2>2
<1>5. \A i \in 1..Len(LedgerQueue') : order_signal_times'[LedgerQueue'[i].id] = bar_index
  BY <1>2, <1>3, <1>4 DEF TimesInv
<1>6. ExecutedAtNextOpen'
  BY DEF TimesInv, ExecutedAtNextOpen
<1>. QED  BY <1>2, <1>5, <1>6 DEF TimesInv

\* Every step keeps proposals and trades one bar apart.
LEMMA TimesStep == RunInv /\ RunInv' /\ LogInv /\ TimesInv /\ [Next]_vars => TimesInv'
<1> SUFFICES ASSUME RunInv, RunInv', LogInv, TimesInv, [Next]_vars PROVE TimesInv'
  OBVIOUS
<1>e. ASSUME LedgerQueue' = <<>>, trades' = trades PROVE TimesInv'
  BY <1>e DEF TimesInv, ExecutedAtNextOpen
<1>s. ASSUME LedgerQueue' = LedgerQueue, trades' = trades, ProposedAt' = ProposedAt,
             order_signal_times' = order_signal_times
      PROVE  TimesInv'
  BY <1>s DEF TimesInv, ExecutedAtNextOpen
<1>1. CASE OpenFirstBar
  BY <1>1, <1>e, EmptyLedger DEF OpenFirstBar, logVars
<1>2. CASE OpenBar
  <2>1. LedgerQueue' = LedgerQueue
    BY <1>2, OpenBarLedger
  <2>. QED  BY <1>2, <1>s, <2>1 DEF OpenBar, logVars, ProposedAt
<1>3. CASE SettleFill
  <2>. DEFINE fill == Head(fill_queue)
              done == [order_id |-> fill.order_id, signal_time |-> order_signal_times[fill.order_id],
                       execution_time |-> bar_index]
              n == Len(trades)
  <2>1. /\ LedgerQueue # <<>> /\ LedgerQueue' = Tail(LedgerQueue)
        /\ Head(LedgerQueue) = QueueItem(fill.order_id, fill.side, fill.filled_qty)
    BY <1>3, SettleLedger DEF LogInv, FillsInHand
  <2>2. /\ phase = "SETTLE" /\ phase' = "SETTLE" /\ bar_index' = bar_index
        /\ order_signal_times' = order_signal_times /\ trades' = Append(trades, done)
    BY <1>3 DEF SettleFill, loopVars
  <2>3. LedgerQueue \in Seq([id : OrderIds, delta : Int])
    BY QueueTyped
  <2>4. ProposedAt = bar_index - 1 /\ ProposedAt' = bar_index - 1 /\ bar_index \in Nat
    BY <2>2, EngineAssumption DEF ProposedAt, RunInv, EngineInv, TypeOK
  <2>5. order_signal_times[fill.order_id] = bar_index - 1
    <3>1. 1 \in 1..Len(LedgerQueue) /\ Head(LedgerQueue) = LedgerQueue[1]
      BY <2>1, <2>3
    <3>2. LedgerQueue[1].id = fill.order_id
      BY <2>1, <3>1 DEF QueueItem
    <3>. QED  BY <2>4, <3>1, <3>2 DEF TimesInv
  <2>6. \A i \in 1..Len(LedgerQueue') : order_signal_times'[LedgerQueue'[i].id] = ProposedAt'
    <3>1. \A i \in 1..Len(LedgerQueue') :
             i + 1 \in 1..Len(LedgerQueue) /\ LedgerQueue'[i] = LedgerQueue[i + 1]
      BY <2>1, <2>3
    <3>. QED  BY <2>2, <2>4, <3>1 DEF TimesInv
  <2>7. done.execution_time = done.signal_time + 1
    BY <2>4, <2>5
  <2>8. trades \in Seq(TradeRecord) /\ n \in Nat
    BY DEF RunInv, EngineInv, TypeOK
  <2>. HIDE DEF done
  <2>9. /\ \A i \in 1..n : trades'[i] = trades[i]
        /\ trades'[n + 1] = done /\ Len(trades') = n + 1
    BY <2>2, <2>8
  <2>10. \A i \in 1..Len(trades') : i \in 1..n \/ i = n + 1
    BY <2>8, <2>9
  <2>11. ExecutedAtNextOpen'
    BY <2>7, <2>9, <2>10 DEF TimesInv, ExecutedAtNextOpen
  <2>. QED  BY <2>6, <2>11 DEF TimesInv
<1>4. ASSUME NEW b \in Batches, NEW n \in PyramidCounts, NEW h \in HookSettings, Signal(b, n, h)
      PROVE  TimesInv'
  BY <1>4, <1>e, EmptyLedger DEF Signal, logVars
<1>5. CASE Validate
  <2>. DEFINE o == Head(candidate_orders)
  <2>1. /\ NoteSignal(o) /\ phase = "VALIDATE" /\ candidate_orders # <<>>
        /\ bar_index' = bar_index /\ trades' = trades /\ phase' \in {"VALIDATE", "ABORTED"}
    BY <1>5 DEF Validate, RefuseOrder, ApproveNew, ApproveExisting, ApproveRejected, Approve, Log,
        AbortRun, loopVars
  <2>2. o.client_order_id \in OrderIds
    <3>1. candidate_orders \in Seq(Proposals)
      BY DEF RunInv, EngineInv, TypeOK
    <3>2. o \in Proposals
      BY <2>1, <3>1
    <3>. QED  BY <3>2, BrokerAssumption DEF Proposal
  <2>3. CASE ApproveNew
    <3>1. LedgerQueue' = Append(LedgerQueue, QueueItem(o.client_order_id, o.side, o.quantity))
      BY <2>3, AcceptLedger
    <3>2. LedgerQueue \in Seq([id : OrderIds, delta : Int])
      BY QueueTyped
    <3>3. \A i \in 1..Len(LedgerQueue') :
             \/ LedgerQueue'[i].id = o.client_order_id
             \/ i \in 1..Len(LedgerQueue) /\ LedgerQueue'[i] = LedgerQueue[i]
      BY <3>1, <3>2 DEF QueueItem
    <3>. QED  BY <2>1, <2>2, <3>3, NoteKeepsTimes
  <2>4. CASE ~ApproveNew
    <3>1. LedgerQueue' = LedgerQueue
      <4>1. CASE ApproveRejected
        BY <4>1, DeclineLedger
      <4>2. CASE RefuseOrder \/ ApproveExisting \/ AbortRun
        <5>1. orders' = orders /\ pending' = pending /\ fill_queue' = fill_queue
          BY <4>2 DEF RefuseOrder, ApproveExisting, Approve, PlaceExisting, Log, AbortRun, brokerVars
        <5>. QED  BY <2>1, <5>1, SameLedger
      <4>. QED  BY <1>5, <2>4, <4>1, <4>2 DEF Validate
    <3>. QED  BY <2>1, <2>2, <3>1, NoteKeepsTimes
  <2>. QED  BY <2>3, <2>4
<1>6. CASE CloseBar
  <2>1. /\ orders' = orders /\ pending' = pending /\ fill_queue' = fill_queue
        /\ order_signal_times' = order_signal_times /\ trades' = trades
        /\ phase = "VALIDATE" /\ phase' = "OPEN" /\ bar_index' = bar_index + 1
    BY <1>6 DEF CloseBar, MarkClose, brokerVars
  <2>2. ProposedAt' = ProposedAt
    <3>1. bar_index \in Int
      BY DEF RunInv, EngineInv, TypeOK
    <3>. QED  BY <2>1, <3>1 DEF ProposedAt
  <2>3. LedgerQueue' = LedgerQueue
    BY <2>1, SameLedger
  <2>. QED  BY <1>s, <2>1, <2>2, <2>3
<1>7. CASE FinishRun
  BY <1>7, <1>e, FinishLedger DEF FinishRun, MarkClose
<1>8. CASE UNCHANGED vars
  BY <1>8, <1>s, SameLedger DEF vars, brokerVars, logVars, loopVars, ProposedAt
<1>. QED  BY <1>1, <1>2, <1>3, <1>4, <1>5, <1>6, <1>7, <1>8 DEF Next

\* A run starts without proposals and trades.
LEMMA TimesInit == Init => TimesInv
<1> SUFFICES ASSUME Init PROVE TimesInv
  OBVIOUS
<1>1. LedgerQueue = <<>> /\ trades = <<>>
  BY DEF Init, BrokerInit, LedgerQueue
<1>. QED  BY <1>1 DEF TimesInv, ExecutedAtNextOpen

\* No order is executed at a price its signal could have seen, and none later
\* than the open that follows, whatever is approved, refused or rejected.
THEOREM NoLookAhead == Spec => []ExecutedAtNextOpen
<1>1. TimesInv => ExecutedAtNextOpen
  BY DEF TimesInv
<1>. QED  BY <1>1, SpecLogInv, TimesInit, TimesStep, PTL DEF Spec

(* --------------------- a closed gate approves nothing ------------------- *)

\* The gate judges a batch by the breaker and the loss of its own date, and
\* no record is of a bar that has not been validated yet.
GateInv ==
    /\ phase = "VALIDATE" =>
          /\ circuit_breaker = CircuitBreaker(macro_by_date[Today])
          /\ daily_pnl = daily_realized_pnl[Today]
    /\ \A i \in 1..Len(order_records) :
          /\ order_records[i].signal_time <= bar_index
          /\ phase \in {"OPEN", "SETTLE"} => order_records[i].signal_time < bar_index
    /\ ClosedGateApprovesNothing

\* No step approves an order on a bar whose gate is closed.
LEMMA GateStep == RunInv /\ RunInv' /\ GateInv /\ [Next]_vars => GateInv'
<1> SUFFICES ASSUME RunInv, RunInv', GateInv, [Next]_vars PROVE GateInv'
  OBVIOUS
<1>t. /\ TypeOK /\ bar_index \in Int
      /\ \A i \in 1..Len(order_records) : order_records[i].signal_time \in Int
  <2>1. TypeOK
    BY DEF RunInv, EngineInv
  <2>2. bar_index \in Int
    BY <2>1 DEF TypeOK
  <2>. QED  BY <2>1, <2>2, RecordTypes, EngineAssumption
<1>1. CASE OpenFirstBar \/ OpenBar
  <2>1. /\ order_records' = order_records /\ bar_index' = bar_index
        /\ phase = "OPEN" /\ phase' = "SETTLE"
    BY <1>1 DEF OpenFirstBar, OpenBar, logVars
  <2>. QED  BY <2>1 DEF GateInv, ClosedGateApprovesNothing
<1>2. CASE SettleFill
  <2>1. /\ MarkRecords({Head(fill_queue).order_id}, "FILLED") /\ bar_index' = bar_index
        /\ phase = "SETTLE" /\ phase' = "SETTLE"
    BY <1>2 DEF SettleFill, loopVars
  <2>2. /\ Len(order_records') = Len(order_records)
        /\ \A i \in 1..Len(order_records) : order_records'[i].signal_time = order_records[i].signal_time
    BY <1>t, <2>1, MarkedRecords
  <2>. QED  BY <2>1, <2>2 DEF GateInv, ClosedGateApprovesNothing
<1>3. ASSUME NEW b \in Batches, NEW n \in PyramidCounts, NEW h \in HookSettings, Signal(b, n, h)
      PROVE  GateInv'
  <2>1. /\ order_records' = order_records /\ bar_index' = bar_index
        /\ macro_by_date' = macro_by_date /\ daily_realized_pnl' = daily_realized_pnl
        /\ phase = "SETTLE" /\ phase' = "VALIDATE"
        /\ circuit_breaker' = CircuitBreaker(macro_by_date[Today])
        /\ daily_pnl' = daily_realized_pnl[Today]
    BY <1>3 DEF Signal, logVars, portfolioVars
  <2>2. \A i \in 1..Len(order_records') :
           order_records'[i].signal_time < bar_index /\ order_records'[i].signal_time # bar_index
    BY <1>t, <2>1 DEF GateInv
  <2>3. CircuitBreaker(macro_by_date[Today])' = CircuitBreaker(macro_by_date[Today])
    BY <2>1 DEF CircuitBreaker, Today
  <2>. QED  BY <1>t, <2>1, <2>2, <2>3 DEF GateInv, ClosedGateApprovesNothing, Today
<1>4. ASSUME NEW s \in {"REJECTED", "PENDING"}, Log(Head(candidate_orders), s),
             phase = "VALIDATE", phase' = "VALIDATE",
             s = "PENDING" => Allowed(Head(candidate_orders))
      PROVE  GateInv'
  <2>1. /\ bar_index' = bar_index /\ macro_by_date' = macro_by_date
        /\ daily_realized_pnl' = daily_realized_pnl /\ kill_switch_active' = kill_switch_active
        /\ circuit_breaker' = circuit_breaker /\ daily_pnl' = daily_pnl
    BY <1>4 DEF Log, loopVars, portfolioVars
  <2>2. /\ \A i \in 1..Len(order_records) : order_records'[i] = order_records[i]
        /\ order_records'[Len(order_records) + 1].signal_time = bar_index
        /\ order_records'[Len(order_records) + 1].status = s
        /\ \A i \in 1..Len(order_records') : i \in 1..Len(order_records) \/ i = Len(order_records) + 1
    BY <1>t, <1>4, LoggedRecords
  <2>3. \A i \in 1..Len(order_records') : order_records'[i].signal_time <= bar_index
    BY <1>t, <2>2 DEF GateInv
  <2>4. CircuitBreaker(macro_by_date[Today])' = CircuitBreaker(macro_by_date[Today])
    BY <2>1 DEF CircuitBreaker, Today
  <2>5. ASSUME s = "PENDING"
        PROVE  /\ ~kill_switch_active /\ ~CircuitBreaker(macro_by_date[Today])
               /\ ~(daily_realized_pnl[Today] <= -DailyLossLimit)
    <3>1. ~kill_switch_active /\ ~circuit_breaker /\ daily_pnl > -DailyLossLimit
      BY <1>4, <2>5 DEF Allowed, IsAllowed
    <3>2. daily_pnl \in Int /\ DailyLossLimit \in Int
      BY RiskAssumption DEF RunInv, EngineInv, TypeOK
    <3>. QED  BY <1>4, <3>1, <3>2 DEF GateInv
  <2>6. ClosedGateApprovesNothing'
    <3>1. CASE s = "PENDING"
      BY <2>1, <2>4, <2>5, <3>1 DEF ClosedGateApprovesNothing, Today
    <3>2. CASE s = "REJECTED"
      BY <1>4, <2>1, <2>2, <2>4, <3>2 DEF GateInv, ClosedGateApprovesNothing, Today
    <3>. QED  BY <3>1, <3>2
  <2>. QED  BY <1>4, <2>1, <2>3, <2>4, <2>6 DEF GateInv, Today
<1>5. CASE Validate /\ ~AbortRun
  <2>1. CASE RefuseOrder
    BY <1>4, <2>1 DEF RefuseOrder, Log, loopVars
  <2>2. CASE ApproveNew \/ ApproveExisting \/ ApproveRejected
    BY <1>4, <2>2 DEF ApproveNew, ApproveExisting, ApproveRejected, Approve, Log, loopVars
  <2>. QED  BY <1>5, <2>1, <2>2 DEF Validate
<1>6. CASE AbortRun
  <2>1. /\ order_records' = order_records /\ bar_index' = bar_index /\ phase' = "ABORTED"
    BY <1>6 DEF AbortRun
  <2>. QED  BY <2>1 DEF GateInv, ClosedGateApprovesNothing
<1>7. CASE CloseBar
  <2>1. /\ order_records' = order_records /\ bar_index' = bar_index + 1 /\ phase' = "OPEN"
    BY <1>7 DEF CloseBar
  <2>2. \A i \in 1..Len(order_records') : order_records'[i].signal_time < bar_index'
    BY <1>t, <2>1 DEF GateInv
  <2>. QED  BY <1>t, <2>1, <2>2 DEF GateInv, ClosedGateApprovesNothing
<1>8. CASE FinishRun
  <2>1. /\ MarkRecords(PendingIds, "CANCELLED") /\ bar_index' = bar_index /\ phase' = "DONE"
    BY <1>8 DEF FinishRun
  <2>2. /\ Len(order_records') = Len(order_records)
        /\ \A i \in 1..Len(order_records) : order_records'[i].signal_time = order_records[i].signal_time
    BY <1>t, <2>1, MarkedRecords
  <2>. QED  BY <2>1, <2>2 DEF GateInv, ClosedGateApprovesNothing
<1>9. CASE UNCHANGED vars
  BY <1>9 DEF vars, portfolioVars, loopVars, gateVars, logVars, GateInv, ClosedGateApprovesNothing,
      Today
<1>. QED  BY <1>1, <1>2, <1>3, <1>5, <1>6, <1>7, <1>8, <1>9 DEF Next, Validate

\* A run starts with nothing approved.
LEMMA GateInit == Init => GateInv
  BY DEF Init, GateInv, ClosedGateApprovesNothing

\* On a bar with the kill switch on, the breaker of the date closed or the
\* loss limit of the date reached, no order is approved, not even one that
\* would only reduce the position.
THEOREM GateStaysClosed == Spec => []ClosedGateApprovesNothing
<1>1. GateInv => ClosedGateApprovesNothing
  BY DEF GateInv
<1>. QED  BY <1>1, SpecInv, GateInit, GateStep, PTL DEF Spec

(* -------------------- the engine implements the ledger ------------------ *)

\* What shows the same statuses shows the same lives.
LEMMA SameLife ==
  ASSUME \A id \in OrderIds : ObservedStatus(id)' = ObservedStatus(id) /\ Known(id)' = Known(id)
  PROVE  LedgerLife' = LedgerLife
  BY DEF LedgerLife

\* An empty book is an empty ledger.
LEMMA LedgerStarts == Init => Ledger!LedgerInit
<1> SUFFICES ASSUME Init PROVE Ledger!LedgerInit
  OBVIOUS
<1>1. LedgerQueue = <<>> /\ position.quantity = 0 /\ \A id \in OrderIds : orders[id].status = "ABSENT"
  BY DEF Init, BrokerInit, PortfolioInit, LedgerQueue, NoOrder
<1>2. LedgerLife = [id \in OrderIds |-> "UNSEEN"]
  BY <1>1 DEF LedgerLife, Known
<1>. QED  BY <1>1, <1>2 DEF Ledger!LedgerInit

\* Each step of run() accepts, declines, settles or cancels as the ledger
\* does, or changes nothing the ledger shows.
LEMMA LedgerStep ==
  RunInv /\ RunInv' /\ LogInv /\ [Next]_vars =>
    [Ledger!LedgerNext]_<<LedgerLife, LedgerQueue, position.quantity>>
<1> SUFFICES ASSUME RunInv, RunInv', LogInv, [Next]_vars
             PROVE  [Ledger!LedgerNext]_<<LedgerLife, LedgerQueue, position.quantity>>
  OBVIOUS
<1>s. ASSUME LedgerQueue' = LedgerQueue, position'.quantity = position.quantity,
             \A id \in OrderIds : ObservedStatus(id)' = ObservedStatus(id) /\ Known(id)' = Known(id)
      PROVE  UNCHANGED <<LedgerLife, LedgerQueue, position.quantity>>
  BY <1>s, SameLife
<1>1. ASSUME OpenFirstBar \/ \E b, n, h : Signal(b, n, h)
      PROVE  UNCHANGED <<LedgerLife, LedgerQueue, position.quantity>>
  <2>1. position' = position
    BY <1>1 DEF OpenFirstBar, Signal, portfolioVars
  <2>. QED  BY <1>1, <1>s, <2>1, EmptyLedger
<1>2. CASE OpenBar
  <2>1. position' = position
    BY <1>2 DEF OpenBar, portfolioVars
  <2>. QED  BY <1>2, <1>s, <2>1, OpenBarLedger
<1>3. CASE SettleFill
  <2>. DEFINE fill == Head(fill_queue)
              delta == SignedQty(fill.side, fill.filled_qty)
  <2>1. /\ LedgerQueue # <<>> /\ LedgerQueue' = Tail(LedgerQueue)
        /\ Head(LedgerQueue) = QueueItem(fill.order_id, fill.side, fill.filled_qty)
        /\ fill.order_id \in OrderIds
        /\ ObservedStatus(fill.order_id) = "PENDING"
        /\ \A id \in OrderIds :
              ObservedStatus(id)' = IF id = fill.order_id THEN "FILLED" ELSE ObservedStatus(id)
        /\ orders' = orders
    BY <1>3, SettleLedger DEF LogInv, FillsInHand
  <2>2. Head(LedgerQueue).id = fill.order_id /\ Head(LedgerQueue).delta = delta
    BY <2>1 DEF QueueItem
  <2>3. position'.quantity = position.quantity + delta
    BY <1>3 DEF SettleFill, ProcessFill
  <2>4. Known(fill.order_id) /\ \A id \in OrderIds : Known(id)' = Known(id)
    <3>1. orders[fill.order_id].status = "FILLED"
      <4>1. fill_queue \in Seq(Fill) /\ fill_queue # <<>>
        BY <1>3 DEF SettleFill, RunInv, EngineInv, TypeOK
      <4>2. 1 \in 1..Len(fill_queue) /\ fill = fill_queue[1]
        BY <4>1
      <4>. QED  BY <4>2 DEF LogInv, FillsInHand
    <3>. QED  BY <2>1, <3>1 DEF Known
  <2>5. LedgerLife[fill.order_id] = "PENDING"
    BY <2>1, <2>4 DEF LedgerLife
  <2>6. LedgerLife' = [LedgerLife EXCEPT ![fill.order_id] = "FILLED"]
    BY <2>1, <2>4 DEF LedgerLife
  <2>. HIDE DEF fill, delta
  <2>7. Ledger!Settle
    BY <2>1, <2>2, <2>3, <2>5, <2>6 DEF Ledger!Settle
  <2>. QED  BY <2>7 DEF Ledger!LedgerNext
<1>4. CASE RefuseOrder \/ ApproveExisting \/ AbortRun \/ CloseBar
  <2>1. /\ orders' = orders /\ pending' = pending /\ fill_queue' = fill_queue
        /\ phase # "SETTLE" /\ phase' # "SETTLE"
    BY <1>4 DEF RefuseOrder, ApproveExisting, Approve, PlaceExisting, Log, AbortRun, CloseBar, MarkClose,
        brokerVars, loopVars
  <2>2. position'.quantity = position.quantity
    <3>1. CASE CloseBar
      BY <3>1, MarkCloseType DEF CloseBar
    <3>2. CASE RefuseOrder \/ ApproveExisting \/ AbortRun
      BY <3>2 DEF RefuseOrder, ApproveExisting, Approve, Log, AbortRun, portfolioVars
    <3>. QED  BY <1>4, <3>1, <3>2
  <2>. QED  BY <1>s, <2>1, <2>2, SameLedger
<1>5. CASE ApproveNew
  <2>. DEFINE o == Head(candidate_orders)
              id0 == o.client_order_id
              delta == SignedQty(o.side, o.quantity)
  <2>1. /\ o \in Proposals /\ id0 \in OrderIds /\ ~Known(id0)
        /\ LedgerQueue' = Append(LedgerQueue, QueueItem(id0, o.side, o.quantity))
        /\ \A id \in OrderIds :
              /\ ObservedStatus(id)' = IF id = id0 THEN "PENDING" ELSE ObservedStatus(id)
              /\ Known(id)' = (id = id0 \/ Known(id))
    BY <1>5, AcceptLedger
  <2>2. position'.quantity = position.quantity
    BY <1>5 DEF ApproveNew, Approve, Log, portfolioVars
  <2>3. LedgerLife[id0] = "UNSEEN"
    BY <2>1 DEF LedgerLife
  <2>4. LedgerLife' = [LedgerLife EXCEPT ![id0] = "PENDING"]
    <3>. HIDE DEF o, id0
    <3>. QED  BY <2>1 DEF LedgerLife
  <2>5. LedgerQueue' = Append(LedgerQueue, [id |-> id0, delta |-> delta])
    BY <2>1 DEF QueueItem
  <2>6. delta \in {SignedQty(p.side, p.quantity) : p \in Proposals}
    BY <2>1
  <2>. HIDE DEF o, id0, delta
  <2>7. Ledger!Accept(id0, delta)
    BY <2>2, <2>3, <2>4, <2>5 DEF Ledger!Accept
  <2>. QED  BY <2>1, <2>6, <2>7 DEF Ledger!LedgerNext
<1>6. CASE ApproveRejected
  <2>. DEFINE id0 == Head(candidate_orders).client_order_id
  <2>1. /\ id0 \in OrderIds /\ ~Known(id0) /\ LedgerQueue' = LedgerQueue
        /\ \A id \in OrderIds :
              /\ ObservedStatus(id)' = IF id = id0 THEN "REJECTED" ELSE ObservedStatus(id)
              /\ Known(id)' = (id = id0 \/ Known(id))
    BY <1>6, DeclineLedger
  <2>2. position'.quantity = position.quantity
    BY <1>6 DEF ApproveRejected, Approve, Log, portfolioVars
  <2>. HIDE DEF id0
  <2>3. LedgerLife[id0] = "UNSEEN" /\ LedgerLife' = [LedgerLife EXCEPT ![id0] = "REJECTED"]
    BY <2>1 DEF LedgerLife
  <2>4. Ledger!Decline(id0)
    BY <2>1, <2>2, <2>3 DEF Ledger!Decline
  <2>. QED  BY <2>1, <2>4 DEF Ledger!LedgerNext
<1>7. CASE FinishRun
  <2>1. /\ LedgerQueue' = <<>>
        /\ \A id \in OrderIds :
              /\ id \in PendingIds <=> ObservedStatus(id) = "PENDING"
              /\ ObservedStatus(id)' = IF id \in PendingIds THEN "CANCELLED" ELSE ObservedStatus(id)
              /\ Known(id)' = Known(id)
    BY <1>7, FinishLedger
  <2>2. position'.quantity = position.quantity
    BY <1>7, MarkCloseType DEF FinishRun
  <2>3. \A id \in PendingIds : id \in OrderIds => Known(id)
    BY DEF RunInv, BrokerInv, QueueMatchesBook, Known
  <2>4. LedgerLife' =
           [id \in OrderIds |-> IF LedgerLife[id] = "PENDING" THEN "CANCELLED" ELSE LedgerLife[id]]
    BY <2>1, <2>3 DEF LedgerLife
  <2>5. Ledger!CancelAll
    BY <2>1, <2>2, <2>4 DEF Ledger!CancelAll
  <2>. QED  BY <2>5 DEF Ledger!LedgerNext
<1>8. CASE UNCHANGED vars
  <2>1. /\ orders' = orders /\ pending' = pending /\ fill_queue' = fill_queue /\ phase' = phase
        /\ position' = position
    BY <1>8 DEF vars, brokerVars, portfolioVars, loopVars
  <2>. QED  BY <1>s, <2>1, SameLedger
<1>. QED  BY <1>1, <1>2, <1>3, <1>4, <1>5, <1>6, <1>7, <1>8 DEF Next, Validate

\* Every run is a run of the ledger: an id lives once, accepted orders settle
\* in order and each moves the position by its size, or all are cancelled.
THEOREM EngineImplementsLedger == Spec => ImplementsLedger
<1>1. RunInv /\ RunInv' /\ LogInv /\ [Next]_vars => [Ledger!LedgerNext]_(Ledger!ledgerVars)
  BY LedgerStep DEF Ledger!ledgerVars
<1>. QED  BY <1>1, LedgerStarts, SpecLogInv, PTL DEF Spec, ImplementsLedger, Ledger!LedgerSpec

(* --------------------- the projection is the book's --------------------- *)

\* The numbers up to k end in k, and without it are those up to k - 1.
LEMMA LastOfPrefix ==
  ASSUME NEW k \in Nat \ {0}
  PROVE  Max(1..k) = k /\ (1..k) \ {k} = 1..(k - 1) /\ 1..k # {}
<1>1. k \in 1..k /\ \A i \in 1..k : k >= i
  OBVIOUS
<1>2. \A m \in 1..k : (\A i \in 1..k : m >= i) => m = k
  BY <1>1
<1>3. Max(1..k) = k
  BY <1>1, <1>2 DEF Max
<1>4. (1..k) \ {k} = 1..(k - 1)
  OBVIOUS
<1>. QED  BY <1>1, <1>3, <1>4

\* What the library's fold of a sequence takes next: the last.
LastOf(n) == [s \in SUBSET (1..n) |-> Max(s)]

\* Some of the numbers up to n have a largest.
LEMMA GreatestNumber ==
  ASSUME NEW n \in Nat, NEW s \in SUBSET (1..n), s # {}
  PROVE  \E x \in s : \A y \in s : x >= y
<1>. DEFINE Gap == {n - i : i \in s}
<1>1. Gap \subseteq Nat /\ Gap # {}
  <2>1. ASSUME NEW i \in s PROVE n - i \in Nat
    OBVIOUS
  <2>. QED  BY <2>1
<1>2. PICK m \in Gap : \A k \in Gap : m <= k
  BY <1>1, LeastNumber
<1>3. PICK x \in s : m = n - x
  BY <1>2
<1>4. ASSUME NEW y \in s PROVE x >= y
  <2>1. n - x <= n - y
    BY <1>2, <1>3
  <2>. QED  BY <2>1
<1>. QED  BY <1>4

\* It is one of them.
LEMMA LastOfTakes == ASSUME NEW n \in Nat PROVE Takes(LastOf(n), 1..n)
<1>1. ASSUME NEW s \in SUBSET (1..n), s # {} PROVE Max(s) \in s
  <2>1. \E x \in s : \A y \in s : x >= y
    BY <1>1, GreatestNumber
  <2>. QED  BY <2>1 DEF Max
<1>. QED  BY <1>1 DEF Takes, LastOf

\* g sums d over the subsets of 1..n from the first element to the last.
SumsInOrder(g, n, d) ==
    \A s \in SUBSET (1..n) : g[s] = IF s = {} THEN 0 ELSE g[s \ {Max(s)}] + d[Max(s)]

\* r holds the running sums of d.
RunningSums(r, n, d) ==
    r[0] = 0 /\ \A k \in 1..n : r[k] = r[k - 1] + d[k] /\ r[k - 1] \in Int /\ d[k] \in Int

\* Such a sum is the last of the running sums.
LEMMA RunningSum ==
  ASSUME NEW n \in Nat, NEW d, NEW g, SumsInOrder(g, n, d), NEW r, RunningSums(r, n, d)
  PROVE  g[1..n] = r[n]
<1>. USE DEF RunningSums
<1>. DEFINE P == {k \in Nat : k <= n => g[1..k] = r[k]}
<1>1. 0 \in P
  <2>1. 1..0 = {} /\ {} \in SUBSET (1..n)
    OBVIOUS
  <2>. QED  BY <2>1 DEF SumsInOrder
<1>2. ASSUME NEW k \in P PROVE k + 1 \in P
  <2>1. k \in Nat /\ k + 1 \in Nat /\ k + 1 - 1 = k
    OBVIOUS
  <2>2. ASSUME k + 1 <= n PROVE g[1..(k + 1)] = r[k + 1]
    <3>1. k + 1 \in 1..n /\ k <= n /\ (1..(k + 1)) \in SUBSET (1..n)
      BY <2>1, <2>2
    <3>2. g[1..k] = r[k]
      BY <1>2, <3>1
    <3>3. Max(1..(k + 1)) = k + 1 /\ (1..(k + 1)) \ {k + 1} = 1..k /\ 1..(k + 1) # {}
      <4>1. ASSUME NEW j \in Nat \ {0}
            PROVE  Max(1..j) = j /\ (1..j) \ {j} = 1..(j - 1) /\ 1..j # {}
        BY LastOfPrefix
      <4>. DEFINE j == k + 1
      <4>2. j \in Nat \ {0} /\ j - 1 = k
        BY <2>1
      <4>. HIDE DEF j
      <4>3. Max(1..j) = j /\ (1..j) \ {j} = 1..(j - 1) /\ 1..j # {}
        BY <4>1, <4>2
      <4>. QED  BY <4>2, <4>3 DEF j
    <3>4. g[1..(k + 1)] = g[1..k] + d[k + 1]
      BY <3>1, <3>3 DEF SumsInOrder
    <3>5. r[k + 1] = r[k] + d[k + 1] /\ r[k] \in Int /\ d[k + 1] \in Int
      BY <2>1, <3>1
    <3>. QED  BY <3>2, <3>4, <3>5
  <2>. QED  BY <2>1, <2>2
<1>3. P = Nat
  <2>1. P \in SUBSET Nat
    OBVIOUS
  <2>. HIDE DEF P
  <2>. QED  BY <1>1, <1>2, <2>1, InductiveSet
<1>. QED  BY <1>3

\* The sum over the pending orders the property speaks of.
PendingSum ==
    FoldLeft(LAMBDA sum, id : sum + SignedQty(orders[id].side, orders[id].quantity), 0, pending)

\* It is the last of any sequence of running sums of their signed sizes.
LEMMA PendingSumIs ==
  ASSUME NEW n \in Nat, pending \in Seq(OrderIds), n = Len(pending), NEW r, r[0] = 0,
         NEW d \in [1..n -> Int],
         \A k \in 1..n : d[k] = SignedQty(orders[pending[k]].side, orders[pending[k]].quantity),
         \A k \in 1..n : r[k] = r[k - 1] + d[k] /\ r[k - 1] \in Int
  PROVE  PendingSum = r[n]
<1>. DEFINE Eqn(T, it) == it = [s \in SUBSET T |-> IF s = {} THEN 0
                             ELSE it[s \ {Max(s)}] + SignedQty(orders[pending[Max(s)]].side,
                                                               orders[pending[Max(s)]].quantity)]
            it0 == CHOOSE it : Eqn(1..n, it)
<1>1. PendingSum = (CHOOSE it : Eqn(DOMAIN pending, it))[DOMAIN pending]
  BY DEF PendingSum, FoldLeft, MapThenFoldSet
<1>2. DOMAIN pending = 1..n
  OBVIOUS
<1>3. PendingSum = it0[1..n]
  BY <1>1, <1>2
<1>4. Takes(LastOf(n), 1..n) /\ IsFiniteSet(1..n)
  BY LastOfTakes, FS_Interval
<1>5. PICK g \in [SUBSET (1..n) -> Int] : Sums(g, 1..n, d, LastOf(n))
  BY <1>4, SumExists
<1>6. SumsInOrder(g, n, d)
  <2>1. ASSUME NEW s \in SUBSET (1..n), s # {} PROVE g[s] = g[s \ {Max(s)}] + d[Max(s)]
    <3>1. LastOf(n)[s] = Max(s) /\ Max(s) \in 1..n
      BY <1>4, <2>1 DEF LastOf, Takes
    <3>2. g[s] = d[Max(s)] + g[s \ {Max(s)}]
      BY <1>5, <2>1, <3>1 DEF Sums
    <3>3. d[Max(s)] \in Int /\ g[s \ {Max(s)}] \in Int
      BY <3>1
    <3>. QED  BY <3>2, <3>3
  <2>2. g[{}] = 0
    <3>1. {} \in SUBSET (1..n)
      OBVIOUS
    <3>. QED  BY <1>5, <3>1 DEF Sums
  <2>. QED  BY <2>1, <2>2 DEF SumsInOrder
<1>7. \A s \in SUBSET (1..n) : s # {} =>
         d[Max(s)] = SignedQty(orders[pending[Max(s)]].side, orders[pending[Max(s)]].quantity)
  BY <1>4 DEF LastOf, Takes
<1>8. g = [s \in SUBSET (1..n) |-> g[s]]
  OBVIOUS
<1>9. \A s \in SUBSET (1..n) :
         g[s] = IF s = {} THEN 0 ELSE g[s \ {Max(s)}] + SignedQty(orders[pending[Max(s)]].side,
                                                                 orders[pending[Max(s)]].quantity)
  BY <1>6, <1>7 DEF SumsInOrder
<1>10. Eqn(1..n, g)
  BY <1>8, <1>9
<1>11. Eqn(1..n, it0)
  BY <1>10
<1>. HIDE DEF it0
<1>12. \A s \in SUBSET (1..n) :
         it0[s] = IF s = {} THEN 0 ELSE it0[s \ {Max(s)}] + SignedQty(orders[pending[Max(s)]].side,
                                                                     orders[pending[Max(s)]].quantity)
  BY <1>11
<1>13. SumsInOrder(it0, n, d)
  BY <1>7, <1>12 DEF SumsInOrder
<1>14. it0[1..n] = r[n]
  <2>1. RunningSums(r, n, d)
    BY DEF RunningSums
  <2>. QED  BY <1>13, <2>1, RunningSum
<1>. QED  BY <1>3, <1>14

\* While orders are validated the gate's projection is the position plus
\* everything pending, each order once and with its sign.
THEOREM ProjectionCountsOnce == Spec => []ProjectionMatchesBook
<1>1. ASSUME RunInv, phase = "VALIDATE", ~phantom_approval
      PROVE  projected_pos = position.quantity + PendingSum
  <2>. DEFINE n == Len(pending)
              d == [i \in 1..n |-> SignedQty(orders[pending[i]].side, orders[pending[i]].quantity)]
              r == [k \in 0..n |-> IF k = 0 THEN 0 ELSE approved_positions[k] - position.quantity]
  <2>1. TypeOK /\ ApprovedPath /\ BrokerTypeOK /\ pending \in Seq(OrderIds) /\ n \in Nat
        /\ position.quantity \in Int /\ approved_positions \in Seq(Int)
    BY <1>1 DEF RunInv, EngineInv, TypeOK, BrokerTypeOK, PortfolioTypeOK, Position
  <2>2. /\ Len(LedgerQueue) = n
        /\ \A i \in 1..n : LedgerQueue[i].delta = SignedQty(orders[pending[i]].side, orders[pending[i]].quantity)
    BY <1>1, <2>1, QueueOfPending
  <2>3. Len(approved_positions) = n
    BY <2>1, <2>2 DEF ApprovedPath
  <2>4. d \in [1..n -> Int]
    <3>1. \A i \in 1..n : LedgerQueue[i].delta \in Int
      <4>. DEFINE Item == [id : OrderIds, delta : Int]
      <4>1. LedgerQueue \in Seq(Item)
        BY <1>1, QueueTyped
      <4>2. \A x \in Item : x.delta \in Int
        OBVIOUS
      <4>. HIDE DEF Item, n, d
      <4>3. \A i \in 1..Len(LedgerQueue) : LedgerQueue[i] \in Item
        BY <4>1
      <4>. QED  BY <2>2, <4>2, <4>3
    <3>. QED  BY <2>2, <3>1
  <2>5. ASSUME NEW k \in 1..n PROVE r[k] = r[k - 1] + d[k] /\ r[k - 1] \in Int
    <3>1. approved_positions[k] = d[k] + (IF k = 1 THEN position.quantity ELSE approved_positions[k - 1])
      BY <2>1, <2>2, <2>3 DEF ApprovedPath
    <3>2. d[k] \in Int /\ approved_positions[k] \in Int /\ (k # 1 => approved_positions[k - 1] \in Int)
      BY <2>1, <2>3, <2>4
    <3>3. k \in 0..n /\ k - 1 \in 0..n /\ k # 0 /\ (k = 1 <=> k - 1 = 0)
      BY <2>1
    <3>4. /\ r[k] = approved_positions[k] - position.quantity
          /\ r[k - 1] = IF k = 1 THEN 0 ELSE approved_positions[k - 1] - position.quantity
      BY <3>3
    <3>5. position.quantity \in Int
      BY <2>1
    <3>. HIDE DEF d, r
    <3>6. CASE k = 1
      BY <3>1, <3>2, <3>4, <3>5, <3>6
    <3>7. CASE k # 1
      BY <3>1, <3>2, <3>4, <3>5, <3>7
    <3>. QED  BY <3>6, <3>7
  <2>6. \A k \in 1..n : d[k] = SignedQty(orders[pending[k]].side, orders[pending[k]].quantity)
    OBVIOUS
  <2>7. r[0] = 0
    BY <2>1
  <2>8. projected_pos = position.quantity + r[n]
    <3>1. projected_pos = LastApproved
      BY <1>1, <2>1 DEF ApprovedPath
    <3>2. CASE n = 0
      BY <2>1, <2>3, <3>1, <3>2 DEF LastApproved
    <3>3. CASE n # 0
      <4>1. approved_positions[n] \in Int /\ approved_positions # <<>>
        BY <2>1, <2>3, <3>3
      <4>2. r[n] = approved_positions[n] - position.quantity
        BY <2>1, <3>3
      <4>. HIDE DEF r
      <4>. QED  BY <2>1, <2>3, <3>1, <4>1, <4>2 DEF LastApproved
    <3>. QED  BY <3>2, <3>3
  <2>. HIDE DEF d, r
  <2>9. PendingSum = r[n]
    BY <2>1, <2>4, <2>5, <2>6, <2>7, PendingSumIs
  <2>. QED  BY <2>8, <2>9
<1>2. RunInv => ProjectionMatchesBook
  BY <1>1 DEF ProjectionMatchesBook, PendingSum
<1>. QED  BY <1>2, SpecInv, PTL

(* ------------------ the steps, as a strategy sees them ----------------- *)

\* What an order under validation would add to the position.
CandidateDelta(o) == SignedQty(o.side, o.quantity)

\* The steps that do not call the strategy: what each does to the phase, the
\* batch and what is outstanding.
Opens ==
    /\ phase = "OPEN" /\ phase' = "SETTLE" /\ bar_index' = bar_index
    /\ candidate_orders' = candidate_orders /\ LedgerQueue' = LedgerQueue

Drops ==
    /\ phase = "VALIDATE" /\ phase' = "VALIDATE" /\ bar_index' = bar_index
    /\ candidate_orders # <<>> /\ candidate_orders' = Tail(candidate_orders)
    /\ LedgerQueue' = LedgerQueue

Queues ==
    /\ phase = "VALIDATE" /\ phase' = "VALIDATE" /\ bar_index' = bar_index
    /\ candidate_orders # <<>> /\ candidate_orders' = Tail(candidate_orders)
    /\ LedgerQueue' = Append(LedgerQueue, QueueItem(Head(candidate_orders).client_order_id,
                                                    Head(candidate_orders).side,
                                                    Head(candidate_orders).quantity))

Aborts ==
    /\ phase = "VALIDATE" /\ phase' = "ABORTED" /\ bar_index' = bar_index
    /\ candidate_orders # <<>> /\ candidate_orders' = candidate_orders
    /\ LedgerQueue' = LedgerQueue

Closes ==
    /\ phase = "VALIDATE" /\ phase' = "OPEN" /\ bar_index' = bar_index + 1
    /\ candidate_orders = <<>> /\ candidate_orders' = <<>>
    /\ LedgerQueue' = LedgerQueue

Finishes ==
    /\ phase = "VALIDATE" /\ phase' = "DONE" /\ bar_index' = bar_index /\ bar_index = NBars
    /\ candidate_orders = <<>> /\ candidate_orders' = <<>>
    /\ LedgerQueue' = <<>>

EngineMove == OpenFirstBar \/ OpenBar \/ Validate \/ CloseBar \/ FinishRun

\* None of them moves the position, only an approval queues, and only the order
\* under validation gets a new signal time, that of the current bar.
LEMMA EngineMoves ==
  ASSUME RunInv, RunInv', EngineMove
  PROVE  /\ position'.quantity = position.quantity
         /\ Opens \/ Drops \/ (Queues /\ ApproveNew) \/ Aborts \/ Closes \/ Finishes
         /\ ApproveNew => Queues
         /\ \/ order_signal_times' = order_signal_times
            \/ /\ candidate_orders # <<>>
               /\ order_signal_times' =
                     [order_signal_times EXCEPT ![Head(candidate_orders).client_order_id] = bar_index]
<1>1. CASE OpenFirstBar
  <2>1. LedgerQueue' = LedgerQueue
    BY <1>1, EmptyLedger
  <2>. QED  BY <1>1, <2>1 DEF OpenFirstBar, Opens, portfolioVars, gateVars, logVars, ApproveNew, Approve
<1>2. CASE OpenBar
  <2>1. LedgerQueue' = LedgerQueue
    BY <1>2, OpenBarLedger
  <2>. QED  BY <1>2, <2>1 DEF OpenBar, Opens, portfolioVars, gateVars, logVars, ApproveNew, Approve
<1>3. CASE RefuseOrder
  <2>1. LedgerQueue' = LedgerQueue
    BY <1>3, SameLedger DEF RefuseOrder, Log, loopVars
  <2>. QED  BY <1>3, <2>1 DEF RefuseOrder, Log, NoteSignal, Drops, portfolioVars, loopVars, ApproveNew, Approve
<1>4. CASE ApproveNew
  <2>1. Queues
    BY <1>4, AcceptLedger DEF Queues, ApproveNew, Approve, Log, loopVars
  <2>. QED  BY <1>4, <2>1 DEF ApproveNew, Approve, Log, NoteSignal, portfolioVars
<1>5. CASE ApproveExisting \/ ApproveRejected
  <2>1. LedgerQueue' = LedgerQueue
    <3>1. CASE ApproveExisting
      BY <3>1, SameLedger DEF ApproveExisting, PlaceExisting, Approve, Log, loopVars
    <3>2. CASE ApproveRejected
      BY <3>2, DeclineLedger
    <3>. QED  BY <1>5, <3>1, <3>2
  <2>2. ~ApproveNew
    BY <1>5 DEF ApproveNew, ApproveExisting, ApproveRejected, Approve, PlaceNew, PlaceExisting, PlaceRejected
  <2>. QED  BY <1>5, <2>1, <2>2
            DEF ApproveExisting, ApproveRejected, Approve, Log, NoteSignal, Drops, portfolioVars, loopVars
<1>6. CASE AbortRun
  <2>1. LedgerQueue' = LedgerQueue
    BY <1>6, SameLedger DEF AbortRun, brokerVars
  <2>. QED  BY <1>6, <2>1 DEF AbortRun, NoteSignal, Aborts, portfolioVars, gateVars, ApproveNew, Approve, Log, loopVars
<1>7. CASE CloseBar
  <2>1. LedgerQueue' = LedgerQueue
    BY <1>7, SameLedger DEF CloseBar, MarkClose, brokerVars
  <2>2. position'.quantity = position.quantity
    BY <1>7, MarkCloseType DEF CloseBar
  <2>. QED  BY <1>7, <2>1, <2>2 DEF CloseBar, MarkClose, Closes, gateVars, ApproveNew, Approve
<1>8. CASE FinishRun
  <2>1. LedgerQueue' = <<>>
    BY <1>8, FinishLedger
  <2>2. position'.quantity = position.quantity
    BY <1>8, MarkCloseType DEF FinishRun
  <2>. QED  BY <1>8, <2>1, <2>2 DEF FinishRun, MarkClose, Finishes, gateVars, ApproveNew, Approve
<1>. QED  BY <1>1, <1>2, <1>3, <1>4, <1>5, <1>6, <1>7, <1>8 DEF EngineMove, Validate

\* A fill takes the head of what is outstanding, and the position with it.
LEMMA FillMoves ==
  ASSUME RunInv, SettleFill
  PROVE  /\ LedgerQueue # <<>> /\ LedgerQueue' = Tail(LedgerQueue)
         /\ LedgerQueue[1].id = Head(fill_queue).order_id
         /\ LedgerQueue[1].delta = SignedQty(Head(fill_queue).side, Head(fill_queue).filled_qty)
         /\ position'.quantity = position.quantity + LedgerQueue[1].delta
         /\ phase = "SETTLE" /\ phase' = "SETTLE" /\ bar_index' = bar_index
         /\ candidate_orders' = candidate_orders /\ order_signal_times' = order_signal_times
<1>. DEFINE fill == Head(fill_queue)
<1>1. /\ LedgerQueue # <<>> /\ LedgerQueue' = Tail(LedgerQueue)
      /\ Head(LedgerQueue) = QueueItem(fill.order_id, fill.side, fill.filled_qty)
  BY SettleQueue
<1>2. Head(LedgerQueue) = LedgerQueue[1]
  BY <1>1
<1>3. /\ LedgerQueue[1].id = fill.order_id
      /\ LedgerQueue[1].delta = SignedQty(fill.side, fill.filled_qty)
  BY <1>1, <1>2 DEF QueueItem
<1>4. ProcessFill(SignedQty(fill.side, fill.filled_qty), fill.filled_price, fill.brokerage, Today)
  BY DEF SettleFill
<1>5. position'.quantity = position.quantity + SignedQty(fill.side, fill.filled_qty)
  BY <1>4 DEF ProcessFill
<1>6. /\ phase = "SETTLE" /\ phase' = "SETTLE" /\ bar_index' = bar_index
      /\ candidate_orders' = candidate_orders /\ order_signal_times' = order_signal_times
  BY DEF SettleFill, loopVars, gateVars
<1>. QED  BY <1>1, <1>3, <1>5, <1>6

\* A signal puts the strategy's batch up for validation, with nothing outstanding.
LEMMA SignalMoves ==
  ASSUME RunInv, RunInv', NEW batch, NEW n, NEW settings, Signal(batch, n, settings)
  PROVE  /\ LedgerQueue = <<>> /\ LedgerQueue' = <<>> /\ position' = position
         /\ phase = "SETTLE" /\ phase' = "VALIDATE" /\ bar_index' = bar_index
         /\ candidate_orders' = batch /\ order_signal_times' = order_signal_times
<1>1. LedgerQueue = <<>> /\ LedgerQueue' = <<>>
  BY EmptyLedger
<1>. QED  BY <1>1 DEF Signal, portfolioVars, logVars
==============================================================================
