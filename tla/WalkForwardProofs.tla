--------------------------- MODULE WalkForwardProofs ---------------------------
(***************************************************************************)
(* Proofs about the walk-forward evaluator with the stop-and-reverse       *)
(* strategy, for any windows, any bars and any settings of the hooks.      *)
(* Every window is a run of the backtest engine, so RunInv holds in all of *)
(* them; on top of it WalkInv ties the strategy's own state to the books:  *)
(* at most one order is on its way, and that one takes the position to one *)
(* lot of the strategy's size or to nothing.                               *)
(***************************************************************************)
EXTENDS WalkForward, BacktestEngineProofs

(* ---------------------------- the invariants ---------------------------- *)

\* An order of this size and id takes the position q to one lot or to nothing, and to
\* nothing if it is the kill switch's.
Sound(q, id, delta) ==
    /\ q + delta \in {-Quantity, 0, Quantity}
    /\ id = SarFlattenId => q + delta = 0

PositionInv ==
    /\ SarKnowsPosition
    /\ OneLotOrNothing
    /\ Len(candidate_orders) + Len(LedgerQueue) <= 1
    /\ phase \notin {"VALIDATE", "ABORTED"} => candidate_orders = <<>>
    /\ \A i \in 1..Len(LedgerQueue) :
          Sound(position.quantity, LedgerQueue[i].id, LedgerQueue[i].delta)
    /\ \A i \in 1..Len(candidate_orders) :
          Sound(position.quantity, candidate_orders[i].client_order_id, CandidateDelta(candidate_orders[i]))

BarsSeen == IF phase \in {"OPEN", "SETTLE"} THEN bar_index - 1 ELSE bar_index

StrategyTypeOK ==
    /\ history \in Seq({-1, 0, 1})
    /\ crossover_count \in 0..Len(history)
    /\ last_direction \in Directions \cup {"NONE"}
    /\ kill_switch \in BOOLEAN
    /\ behind \in BOOLEAN

ColdInv ==
    /\ WindowsStartCold
    /\ Len(history) = BarsSeen
    /\ \A i \in 1..Len(candidate_orders) :
          candidate_orders[i].client_order_id # SarFlattenId => bar_index > SlowPeriod

DirectionSign(direction) == IF direction = "BULLISH" THEN 1 ELSE -1

PositionToBe ==
    IF LedgerQueue = <<>> THEN position.quantity ELSE position.quantity + LedgerQueue[1].delta

OnTrend(q) == LastTrend = DirectionSign(last_direction) /\ q = Quantity * DirectionSign(last_direction)

TrendInv ==
    /\ last_direction # "NONE" => Len(history) > SlowPeriod
    /\ candidate_orders # <<>> => behind
    /\ last_direction # "NONE" /\ ~behind /\ phase # "DONE" => OnTrend(PositionToBe)
    /\ \A i \in 1..Len(candidate_orders) :
          candidate_orders[i].client_order_id # SarFlattenId =>
              last_direction # "NONE" /\ OnTrend(position.quantity + CandidateDelta(candidate_orders[i]))

BarsTested == IF slice = "TEST" THEN Len(history) ELSE NBars

NextTestBar == TestStart(window) + BarsTested

TestedInv ==
    /\ shape \in Shapes /\ window \in Nat /\ tested \in Seq(Nat)
    /\ slice \in {"TEST", "TRAIN", "END"}
    /\ phase = "DONE" => bar_index = NBars
    /\ Running => Fits(window)
    /\ slice = "END" => tested = <<>> \/ (Fits(window) /\ ~Fits(window + 1))
    /\ tested # <<>> /\ BarsTested > 0 => tested[Len(tested)] = NextTestBar - 1
    /\ shape.step >= NBars => /\ \A i, j \in 1..Len(tested) : i < j => tested[i] < tested[j]
                              /\ \A i \in 1..Len(tested) : tested[i] < NextTestBar
    /\ shape.step = NBars /\ Running => Len(tested) = window * shape.step + BarsTested
    /\ shape.step = NBars => \A i \in 1..Len(tested) : tested[i] = shape.train_size + i - 1

WalkInv == StrategyTypeOK /\ PositionInv /\ ColdInv /\ TrendInv /\ TestedInv

(* ------------------------- the engine in a window ----------------------- *)

\* A fresh run starts where a run starts.
LEMMA FreshRunInv == ASSUME RunInv, FreshRun PROVE RunInv'
<1>1. Init'
  BY DEF FreshRun, FreshBroker, FreshPortfolio, FreshEngine, Init, BrokerInit, PortfolioInit,
         RunInv, EngineInv, TypeOK
<1>2. (Init => RunInv)'
  BY InitInv, PTL
<1>. QED  BY <1>1, <1>2

(* ------------------------------ the strategy ---------------------------- *)

\* The bars the engine feeds carry a trend, and the strategy's parameters are sizes.
LEMMA TrendTyped ==
  ASSUME RunInv
  PROVE  /\ bar.trend \in {-1, 0, 1} /\ bar \in Bars
         /\ Quantity \in Nat \ {0} /\ SlowPeriod \in Nat \ {0, 1} /\ NBars \in Nat \ {0}
         /\ bar_index \in 1..NBars /\ position.quantity \in Int
  BY WalkForwardAssumption, SarAssumption, EngineAssumption
     DEF RunInv, EngineInv, TypeOK, PortfolioTypeOK, Position

\* A crossover that is news is in the direction of the bar's trend, comes after
\* slow_period bars at least, and not while the kill switch is on.
LEMMA NewCrossingIs ==
  ASSUME RunInv, StrategyTypeOK
  PROVE  /\ NewCrossing(bar) \in Directions \cup {"NONE"}
         /\ NewCrossing(bar) # "NONE" =>
              /\ ~kill_switch /\ Len(history) >= SlowPeriod
              /\ NewCrossing(bar) # last_direction
              /\ bar.trend = DirectionSign(NewCrossing(bar))
<1>. DEFINE seen == Append(history, bar.trend)
            n == Len(seen)
<1>1. /\ n = Len(history) + 1 /\ Len(history) \in Nat /\ seen[n] = bar.trend
      /\ SlowPeriod \in Nat \ {0, 1} /\ bar.trend \in {-1, 0, 1}
  BY TrendTyped DEF StrategyTypeOK
<1>2. NewCrossing(bar) = IF kill_switch \/ Crossing(seen) = last_direction THEN "NONE" ELSE Crossing(seen)
  BY DEF NewCrossing
<1>3. Crossing(seen) = IF n < SlowPeriod + 1 THEN "NONE"
                       ELSE IF seen[n - 1] <= 0 /\ seen[n] > 0 THEN "BULLISH"
                       ELSE IF seen[n - 1] >= 0 /\ seen[n] < 0 THEN "BEARISH"
                       ELSE "NONE"
  BY DEF Crossing
<1>. HIDE DEF seen, n
<1>4. CASE Crossing(seen) = "NONE"
  BY <1>2, <1>4 DEF Directions
<1>5. CASE Crossing(seen) = "BULLISH"
  <2>1. ~(n < SlowPeriod + 1) /\ seen[n] > 0
    BY <1>3, <1>5
  <2>2. bar.trend = 1 /\ Len(history) >= SlowPeriod
    BY <1>1, <2>1
  <2>. QED  BY <1>2, <1>5, <2>2 DEF Directions, DirectionSign
<1>6. CASE Crossing(seen) = "BEARISH"
  <2>1. ~(n < SlowPeriod + 1) /\ seen[n] < 0
    BY <1>3, <1>6
  <2>2. bar.trend = -1 /\ Len(history) >= SlowPeriod
    BY <1>1, <2>1
  <2>. QED  BY <1>2, <1>6, <2>2 DEF Directions, DirectionSign
<1>. QED  BY <1>3, <1>4, <1>5, <1>6

\* An order of the strategy is one the engine may be handed.
LEMMA SarOrderType ==
  ASSUME RunInv, NEW n \in 1..NBars, NEW id, NEW side \in OrderSide, NEW quantity \in 1..(2 * Quantity),
         id = CrossoverId(n, side) \/ id = SarFlattenId
  PROVE  /\ SarOrder(id, side, quantity, bar.close) \in Seq(Proposals)
         /\ Len(SarOrder(id, side, quantity, bar.close)) = 1
         /\ SarOrder(id, side, quantity, bar.close)[1].client_order_id = id
         /\ CandidateDelta(SarOrder(id, side, quantity, bar.close)[1]) = SignedQty(side, quantity)
<1>. DEFINE o == [client_order_id |-> id, side |-> side, quantity |-> quantity, price |-> bar.close]
<1>1. o \in SarOrderForms
  <2>1. bar \in Bars
    BY TrendTyped
  <2>. QED  BY <2>1 DEF SarOrderForms
<1>2. o \in Proposals
  BY <1>1, WalkForwardAssumption
<1>3. SarOrder(id, side, quantity, bar.close) = <<o>>
  BY DEF SarOrder
<1>4. o.client_order_id = id /\ CandidateDelta(o) = SignedQty(side, quantity)
  BY DEF CandidateDelta
<1>. HIDE DEF o
<1>. QED  BY <1>2, <1>3, <1>4

\* The kill switch's id is no crossover's.
LEMMA CrossoverIds ==
  ASSUME NEW n, NEW side \in OrderSide
  PROVE  CrossoverId(n, side) # SarFlattenId
<1>1. side # "FLATTEN"
  BY DEF OrderSide
<1>. QED  BY <1>1 DEF CrossoverId, SarFlattenId

\* The order that closes what is open, if anything is.
LEMMA SarFlattenIs ==
  ASSUME RunInv, StrategyTypeOK, SarKnowsPosition, OneLotOrNothing
  PROVE  /\ SarFlatten(bar) \in Seq(Proposals) /\ Len(SarFlatten(bar)) <= 1
         /\ \A i \in 1..Len(SarFlatten(bar)) :
               /\ SarFlatten(bar)[i].client_order_id = SarFlattenId
               /\ position.quantity + CandidateDelta(SarFlatten(bar)[i]) = 0
<1>1. Quantity \in Nat \ {0} /\ NBars \in Nat \ {0}
  BY TrendTyped
<1>2. CASE position.quantity = 0
  <2>1. SarFlatten(bar) = <<>>
    BY <1>2 DEF SarKnowsPosition, StateOf, SarFlatten
  <2>. QED  BY <2>1
<1>3. CASE position.quantity = Quantity
  <2>1. SarFlatten(bar) = SarOrder(SarFlattenId, "SELL", Quantity, bar.close)
    BY <1>1, <1>3 DEF SarKnowsPosition, SarFlatten
  <2>2. "SELL" \in OrderSide /\ Quantity \in 1..(2 * Quantity) /\ 1 \in 1..NBars
    BY <1>1 DEF OrderSide
  <2>3. SignedQty("SELL", Quantity) = -Quantity
    BY DEF SignedQty
  <2>4. /\ SarFlatten(bar) \in Seq(Proposals) /\ Len(SarFlatten(bar)) = 1
        /\ SarFlatten(bar)[1].client_order_id = SarFlattenId
        /\ CandidateDelta(SarFlatten(bar)[1]) = -Quantity
    BY <2>1, <2>2, <2>3, SarOrderType
  <2>. QED  BY <1>1, <1>3, <2>4
<1>4. CASE position.quantity = -Quantity
  <2>1. SarFlatten(bar) = SarOrder(SarFlattenId, "BUY", Quantity, bar.close)
    BY <1>1, <1>4 DEF SarKnowsPosition, SarFlatten
  <2>2. "BUY" \in OrderSide /\ Quantity \in 1..(2 * Quantity) /\ 1 \in 1..NBars
    BY <1>1 DEF OrderSide
  <2>3. SignedQty("BUY", Quantity) = Quantity
    BY DEF SignedQty
  <2>4. /\ SarFlatten(bar) \in Seq(Proposals) /\ Len(SarFlatten(bar)) = 1
        /\ SarFlatten(bar)[1].client_order_id = SarFlattenId
        /\ CandidateDelta(SarFlatten(bar)[1]) = Quantity
    BY <2>1, <2>2, <2>3, SarOrderType
  <2>. QED  BY <1>1, <1>4, <2>4
<1>. QED  BY <1>2, <1>3, <1>4 DEF OneLotOrNothing

\* On the side of the crossover there is nothing to do; else the order takes the
\* position there, from nothing or from the other side.
LEMMA CrossoverOrderIs ==
  ASSUME RunInv, StrategyTypeOK, SarKnowsPosition, OneLotOrNothing,
         crossover_count + 1 \in 1..NBars, NEW direction \in Directions
  PROVE  /\ CrossoverOrder(direction, bar.close) \in Seq(Proposals)
         /\ Len(CrossoverOrder(direction, bar.close)) <= 1
         /\ \A i \in 1..Len(CrossoverOrder(direction, bar.close)) :
               /\ CrossoverOrder(direction, bar.close)[i].client_order_id # SarFlattenId
               /\ position.quantity + CandidateDelta(CrossoverOrder(direction, bar.close)[i])
                     = Quantity * DirectionSign(direction)
         /\ CrossoverOrder(direction, bar.close) = <<>> =>
               position.quantity = Quantity * DirectionSign(direction)
<1>. DEFINE made == CrossoverOrder(direction, bar.close)
            side == IF direction = "BULLISH" THEN "BUY" ELSE "SELL"
            size == IF sar_state = "FLAT" THEN Quantity ELSE 2 * Quantity
            id == CrossoverId(crossover_count + 1, side)
<1>1. Quantity \in Nat \ {0} /\ position.quantity \in {-Quantity, 0, Quantity}
  BY TrendTyped DEF OneLotOrNothing
<1>2. sar_state = IF position.quantity = 0 THEN "FLAT" ELSE IF position.quantity > 0 THEN "LONG" ELSE "SHORT"
  BY DEF SarKnowsPosition, StateOf
<1>3. CASE sar_state = Target(direction)
  <2>1. made = <<>>
    BY <1>3 DEF CrossoverOrder
  <2>2. position.quantity = Quantity * DirectionSign(direction)
    <3>1. CASE direction = "BULLISH"
      <4>1. position.quantity > 0
        BY <1>2, <1>3, <3>1 DEF Target
      <4>. QED  BY <1>1, <3>1, <4>1 DEF DirectionSign
    <3>2. CASE direction = "BEARISH"
      <4>1. position.quantity < 0
        BY <1>1, <1>2, <1>3, <3>2 DEF Target
      <4>. QED  BY <1>1, <3>2, <4>1 DEF DirectionSign
    <3>. QED  BY <3>1, <3>2 DEF Directions
  <2>. HIDE DEF made
  <2>3. made \in Seq(Proposals) /\ Len(made) = 0
    BY <2>1
  <2>. QED  BY <2>2, <2>3 DEF made
<1>4. CASE sar_state # Target(direction)
  <2>1. made = SarOrder(id, side, size, bar.close)
    BY <1>4 DEF CrossoverOrder
  <2>2. side \in OrderSide /\ size \in 1..(2 * Quantity) /\ id # SarFlattenId
    <3>1. side \in OrderSide
      BY DEF OrderSide
    <3>. QED  BY <1>1, <3>1, CrossoverIds
  <2>3. /\ made \in Seq(Proposals) /\ Len(made) = 1
        /\ made[1].client_order_id = id /\ CandidateDelta(made[1]) = SignedQty(side, size)
    <3>. HIDE DEF side, size
    <3>1. /\ SarOrder(id, side, size, bar.close) \in Seq(Proposals)
          /\ Len(SarOrder(id, side, size, bar.close)) = 1
          /\ SarOrder(id, side, size, bar.close)[1].client_order_id = id
          /\ CandidateDelta(SarOrder(id, side, size, bar.close)[1]) = SignedQty(side, size)
      BY <2>2, SarOrderType
    <3>. QED  BY <2>1, <3>1
  <2>4. position.quantity + SignedQty(side, size) = Quantity * DirectionSign(direction)
    <3>1. CASE direction = "BULLISH"
      <4>1. position.quantity = -size + Quantity
        BY <1>1, <1>2, <1>4, <3>1 DEF Target
      <4>2. SignedQty(side, size) = size
        BY <3>1 DEF SignedQty
      <4>. HIDE DEF size
      <4>3. size \in Int
        BY <2>2, <1>1
      <4>. QED  BY <1>1, <3>1, <4>1, <4>2, <4>3 DEF DirectionSign
    <3>2. CASE direction = "BEARISH"
      <4>1. position.quantity = size - Quantity
        BY <1>1, <1>2, <1>4, <3>2 DEF Target
      <4>2. SignedQty(side, size) = -size
        BY <3>2 DEF SignedQty
      <4>. HIDE DEF size
      <4>3. size \in Int
        BY <2>2, <1>1
      <4>. QED  BY <1>1, <3>2, <4>1, <4>2, <4>3 DEF DirectionSign
    <3>. QED  BY <3>1, <3>2 DEF Directions
  <2>. HIDE DEF made, side, size, id
  <2>. QED  BY <2>2, <2>3, <2>4 DEF made
<1>. QED  BY <1>3, <1>4

\* What on_bar hands to the engine, and what its having nothing means.
LEMMA SarOrdersAre ==
  ASSUME RunInv, StrategyTypeOK, SarKnowsPosition, OneLotOrNothing, Len(history) = bar_index - 1
  PROVE  /\ SarOrders(bar) \in Seq(Proposals) /\ Len(SarOrders(bar)) <= 1
         /\ \A i \in 1..Len(SarOrders(bar)) :
               /\ CandidateDelta(SarOrders(bar)[i]) \in Int
               /\ IF kill_switch
                  THEN /\ SarOrders(bar)[i].client_order_id = SarFlattenId
                       /\ position.quantity + CandidateDelta(SarOrders(bar)[i]) = 0
                  ELSE /\ SarOrders(bar)[i].client_order_id # SarFlattenId
                       /\ NewCrossing(bar) # "NONE"
                       /\ position.quantity + CandidateDelta(SarOrders(bar)[i])
                             = Quantity * DirectionSign(NewCrossing(bar))
         /\ NewCrossing(bar) # "NONE" /\ SarOrders(bar) = <<>> =>
               position.quantity = Quantity * DirectionSign(NewCrossing(bar))
<1>1. crossover_count + 1 \in 1..NBars
  BY TrendTyped DEF StrategyTypeOK
<1>2. \A o \in Proposals : CandidateDelta(o) \in Int
  BY BrokerAssumption DEF Proposal, CandidateDelta, SignedQty
<1>3. NewCrossing(bar) \in Directions \cup {"NONE"} /\ (NewCrossing(bar) # "NONE" => ~kill_switch)
  BY NewCrossingIs
<1>4. CASE kill_switch
  <2>1. SarOrders(bar) = SarFlatten(bar)
    BY <1>4 DEF SarOrders
  <2>2. /\ SarFlatten(bar) \in Seq(Proposals) /\ Len(SarFlatten(bar)) <= 1
        /\ \A i \in 1..Len(SarFlatten(bar)) :
              /\ SarFlatten(bar)[i].client_order_id = SarFlattenId
              /\ position.quantity + CandidateDelta(SarFlatten(bar)[i]) = 0
    BY SarFlattenIs
  <2>. QED  BY <1>2, <1>3, <1>4, <2>1, <2>2
<1>5. CASE ~kill_switch /\ NewCrossing(bar) = "NONE"
  <2>1. SarOrders(bar) = <<>>
    BY <1>5 DEF SarOrders
  <2>. QED  BY <1>5, <2>1
<1>6. CASE ~kill_switch /\ NewCrossing(bar) # "NONE"
  <2>. DEFINE direction == NewCrossing(bar)
              made == CrossoverOrder(direction, bar.close)
  <2>1. SarOrders(bar) = made
    BY <1>6 DEF SarOrders
  <2>2. direction \in Directions
    BY <1>3, <1>6
  <2>. HIDE DEF direction
  <2>3. /\ made \in Seq(Proposals) /\ Len(made) <= 1
        /\ \A i \in 1..Len(made) :
              /\ made[i].client_order_id # SarFlattenId
              /\ position.quantity + CandidateDelta(made[i]) = Quantity * DirectionSign(direction)
        /\ made = <<>> => position.quantity = Quantity * DirectionSign(direction)
    BY <1>1, <2>2, CrossoverOrderIs
  <2>. HIDE DEF made
  <2>. QED  BY <1>2, <1>6, <2>1, <2>3 DEF direction
<1>. QED  BY <1>4, <1>5, <1>6

(* ------------------------------- the slices ----------------------------- *)

\* At the start of a fresh run nothing is held, proposed or outstanding.
LEMMA FreshMoves ==
  ASSUME FreshRun
  PROVE  /\ LedgerQueue' = <<>> /\ position'.quantity = 0
         /\ phase' = "OPEN" /\ bar_index' = 1
         /\ candidate_orders' = <<>> /\ order_signal_times' = [id \in OrderIds |-> 0]
         /\ history' = <<>> /\ sar_state' = "FLAT" /\ sar_position' = 0
         /\ crossover_count' = 0 /\ last_direction' = "NONE" /\ kill_switch' = FALSE /\ behind' = FALSE
  BY DEF FreshRun, FreshBroker, FreshPortfolio, FreshEngine, CloneStrategy, LedgerQueue

(* ------------------------- one step of the evaluator -------------------- *)

\* Every step keeps the engine's invariant.
LEMMA WalkRunInv ==
  ASSUME RunInv, StrategyTypeOK, PositionInv, ColdInv, [WalkNext]_walkVars
  PROVE  RunInv'
<1>1. CASE RunTrainSlice
  BY <1>1, FreshRunInv DEF RunTrainSlice
<1>2. CASE NextWindow
  <2>1. CASE FreshRun
    BY <2>1, FreshRunInv
  <2>2. CASE UNCHANGED vars
    BY <2>2, NextInv
  <2>. QED  BY <1>2, <2>1, <2>2 DEF NextWindow
<1>3. CASE SwitchSarKill
  <2>1. UNCHANGED vars
    BY <1>3 DEF SwitchSarKill
  <2>. QED  BY <2>1, NextInv
<1>4. CASE SettleSarFill
  BY <1>4, SettleFillInv DEF SettleSarFill
<1>5. CASE SignalSar
  <2>1. PICK settings \in HookSettings : Signal(SarOrders(bar), SarPyramidCount, settings)
    BY <1>5 DEF SignalSar
  <2>2. phase = "SETTLE"
    BY <2>1 DEF Signal
  <2>3. SarOrders(bar) \in Seq(Proposals)
    BY <2>2, SarOrdersAre DEF PositionInv, ColdInv, BarsSeen
  <2>4. SarPyramidCount \in Nat
    BY DEF SarPyramidCount
  <2>. QED  BY <2>1, <2>3, <2>4, SignalInv
<1>6. CASE SarEngineStep
  BY <1>6, OpenFirstBarInv, OpenBarInv, RefuseOrderInv, ApproveNewInv, ApprovePhantomInv, AbortRunInv,
     CloseBarInv, FinishRunInv DEF SarEngineStep, Validate
<1>7. CASE UNCHANGED walkVars
  <2>1. UNCHANGED vars
    BY <1>7 DEF walkVars
  <2>. QED  BY <2>1, NextInv
<1>. QED  BY <1>1, <1>2, <1>3, <1>4, <1>5, <1>6, <1>7 DEF WalkNext

(* ---------------------- one order, and it is a sound one ---------------- *)

\* A sequence of at most one element.
LEMMA ShortSeq ==
  ASSUME NEW T, NEW s \in Seq(T), Len(s) <= 1, s # <<>>
  PROVE  Len(s) = 1 /\ Len(Tail(s)) = 0 /\ Tail(s) = <<>> /\ Head(s) = s[1] /\ s[1] \in T
<1>1. Len(s) \in Nat \ {0} /\ Len(s) <= 1
  BY EmptySeq
<1>2. Len(s) = 1
  <2>. DEFINE n == Len(s)
  <2>1. n \in Nat \ {0} /\ n <= 1
    BY <1>1
  <2>. HIDE DEF n
  <2>2. n = 1
    BY <2>1
  <2>. QED  BY <2>2 DEF n
<1>3. Tail(s) \in Seq(T) /\ Len(Tail(s)) = 0
  BY <1>2
<1>4. Tail(s) = <<>>
  BY <1>3, EmptySeq
<1>. QED  BY <1>2, <1>3, <1>4

\* What at most one order means for the batch and the queue.
LEMMA OneAtMost ==
  ASSUME RunInv, PositionInv
  PROVE  /\ candidate_orders \in Seq(Proposals)
         /\ candidate_orders # <<>> =>
              /\ Len(candidate_orders) = 1 /\ LedgerQueue = <<>> /\ Len(Tail(candidate_orders)) = 0
              /\ Tail(candidate_orders) = <<>>
              /\ Head(candidate_orders) = candidate_orders[1] /\ candidate_orders[1] \in Proposals
         /\ LedgerQueue # <<>> =>
              /\ Len(LedgerQueue) = 1 /\ candidate_orders = <<>> /\ Len(Tail(LedgerQueue)) = 0
              /\ Tail(LedgerQueue) = <<>>
              /\ LedgerQueue[1].delta \in Int
<1>. DEFINE Item == [id : OrderIds, delta : Int]
<1>1. candidate_orders \in Seq(Proposals) /\ LedgerQueue \in Seq(Item)
  BY QueueTyped DEF RunInv, EngineInv, TypeOK
<1>2. \A x \in Item : x.delta \in Int
  OBVIOUS
<1>. HIDE DEF Item
<1>3. Len(candidate_orders) + Len(LedgerQueue) <= 1
  BY DEF PositionInv
<1>4. Len(candidate_orders) \in Nat /\ Len(LedgerQueue) \in Nat
  BY <1>1
<1>5. ASSUME candidate_orders # <<>>
      PROVE  /\ Len(candidate_orders) = 1 /\ LedgerQueue = <<>> /\ Len(Tail(candidate_orders)) = 0
             /\ Tail(candidate_orders) = <<>>
             /\ Head(candidate_orders) = candidate_orders[1] /\ candidate_orders[1] \in Proposals
  <2>1. /\ Len(candidate_orders) = 1 /\ Len(Tail(candidate_orders)) = 0 /\ Tail(candidate_orders) = <<>>
        /\ Head(candidate_orders) = candidate_orders[1] /\ candidate_orders[1] \in Proposals
    BY <1>1, <1>3, <1>4, <1>5, ShortSeq
  <2>2. LedgerQueue = <<>>
    BY <1>1, <1>3, <1>4, <2>1, ShortSeq
  <2>. QED  BY <2>1, <2>2
<1>6. ASSUME LedgerQueue # <<>>
      PROVE  /\ Len(LedgerQueue) = 1 /\ candidate_orders = <<>> /\ Len(Tail(LedgerQueue)) = 0
             /\ Tail(LedgerQueue) = <<>> /\ LedgerQueue[1].delta \in Int
  <2>1. /\ Len(LedgerQueue) = 1 /\ Len(Tail(LedgerQueue)) = 0 /\ Tail(LedgerQueue) = <<>>
        /\ LedgerQueue[1] \in Item
    BY <1>1, <1>3, <1>4, <1>6, ShortSeq
  <2>2. candidate_orders = <<>>
    BY <1>1, <1>3, <1>4, <2>1, ShortSeq
  <2>. QED  BY <1>2, <2>1, <2>2
<1>. QED  BY <1>1, <1>5, <1>6

\* Nothing held, nothing proposed, nothing outstanding: there is nothing to be wrong.
LEMMA FreshPosition == ASSUME FreshRun PROVE PositionInv'
<1>1. Len(candidate_orders') = 0 /\ Len(LedgerQueue') = 0
  BY FreshMoves
<1>. QED  BY <1>1, FreshMoves DEF PositionInv, SarKnowsPosition, StateOf, OneLotOrNothing

\* A fill of the one order leaves the strategy and the books with the same position.
LEMMA SettlePosition ==
  ASSUME RunInv, PositionInv, SettleSarFill
  PROVE  PositionInv'
<1>. DEFINE fill == Head(fill_queue)
            delta == LedgerQueue[1].delta
<1>1. /\ LedgerQueue # <<>> /\ LedgerQueue' = Tail(LedgerQueue)
      /\ LedgerQueue[1].id = fill.order_id /\ delta = SignedQty(fill.side, fill.filled_qty)
      /\ position'.quantity = position.quantity + delta
      /\ candidate_orders' = candidate_orders
  BY FillMoves DEF SettleSarFill
<1>2. Len(LedgerQueue) = 1 /\ candidate_orders = <<>> /\ LedgerQueue' = <<>> /\ delta \in Int
  BY <1>1, OneAtMost
<1>3. Sound(position.quantity, fill.order_id, delta)
  BY <1>1, <1>2 DEF PositionInv
<1>4. /\ sar_position' = IF fill.order_id = SarFlattenId THEN 0 ELSE sar_position + delta
      /\ sar_state' = StateOf(sar_position')
  BY <1>1 DEF SettleSarFill, SarOnFill, PositionAfter
<1>5. sar_position' = position'.quantity
  BY <1>1, <1>3, <1>4 DEF PositionInv, SarKnowsPosition, Sound
<1>6. SarKnowsPosition' /\ OneLotOrNothing'
  BY <1>1, <1>3, <1>4, <1>5 DEF SarKnowsPosition, OneLotOrNothing, Sound
<1>7. Len(candidate_orders') = 0 /\ Len(LedgerQueue') = 0 /\ candidate_orders' = <<>>
  BY <1>1, <1>2
<1>. QED  BY <1>6, <1>7 DEF PositionInv

\* The one order of a signal is sound.
LEMMA SignalPosition ==
  ASSUME RunInv, RunInv', StrategyTypeOK, PositionInv, ColdInv, SignalSar
  PROVE  PositionInv'
<1>1. PICK settings \in HookSettings : Signal(SarOrders(bar), SarPyramidCount, settings)
  BY DEF SignalSar
<1>2. /\ LedgerQueue' = <<>> /\ position' = position /\ phase = "SETTLE" /\ phase' = "VALIDATE"
      /\ candidate_orders' = SarOrders(bar)
  BY <1>1, SignalMoves
<1>3. sar_position' = sar_position /\ sar_state' = sar_state
  BY DEF SignalSar, SarOnBar
<1>4. SarKnowsPosition /\ OneLotOrNothing /\ Len(history) = bar_index - 1
  BY <1>2 DEF PositionInv, ColdInv, BarsSeen
<1>5. SarKnowsPosition' /\ OneLotOrNothing'
  BY <1>2, <1>3, <1>4 DEF SarKnowsPosition, OneLotOrNothing
<1>6. /\ SarOrders(bar) \in Seq(Proposals) /\ Len(SarOrders(bar)) <= 1
      /\ \A i \in 1..Len(SarOrders(bar)) :
            Sound(position.quantity, SarOrders(bar)[i].client_order_id, CandidateDelta(SarOrders(bar)[i]))
  <2>1. ASSUME NEW i \in 1..Len(SarOrders(bar))
        PROVE  Sound(position.quantity, SarOrders(bar)[i].client_order_id, CandidateDelta(SarOrders(bar)[i]))
    <3>1. CASE kill_switch
      BY <1>4, <3>1, SarOrdersAre DEF Sound
    <3>2. CASE ~kill_switch
      <4>1. /\ SarOrders(bar)[i].client_order_id # SarFlattenId
            /\ position.quantity + CandidateDelta(SarOrders(bar)[i])
                  = Quantity * DirectionSign(NewCrossing(bar))
        BY <1>4, <3>2, SarOrdersAre
      <4>2. Quantity * DirectionSign(NewCrossing(bar)) \in {-Quantity, Quantity}
        BY TrendTyped DEF DirectionSign
      <4>. QED  BY <4>1, <4>2 DEF Sound
    <3>. QED  BY <3>1, <3>2
  <2>. QED  BY <1>4, <2>1, SarOrdersAre
<1>7. Len(LedgerQueue') = 0 /\ Len(candidate_orders') <= 1 /\ Len(candidate_orders') \in Nat
  BY <1>2, <1>6
<1>. QED  BY <1>2, <1>5, <1>6, <1>7 DEF PositionInv

\* The engine queues the one order or drops it, and does not move the position.
LEMMA EnginePosition ==
  ASSUME RunInv, RunInv', PositionInv, SarEngineStep
  PROVE  PositionInv'
<1>1. EngineMove /\ sar_position' = sar_position /\ sar_state' = sar_state
  BY DEF SarEngineStep, EngineMove, sarVars
<1>2. position'.quantity = position.quantity
  BY <1>1, EngineMoves
<1>3. SarKnowsPosition' /\ OneLotOrNothing'
  BY <1>1, <1>2 DEF PositionInv, SarKnowsPosition, OneLotOrNothing
<1>4. Opens \/ Drops \/ Queues \/ Aborts \/ Closes \/ Finishes
  BY <1>1, EngineMoves
<1>5. CASE Opens \/ Aborts \/ Closes
  <2>1. /\ LedgerQueue' = LedgerQueue /\ candidate_orders' = candidate_orders
        /\ phase' \notin {"VALIDATE", "ABORTED"} => candidate_orders = <<>>
    BY <1>5 DEF Opens, Aborts, Closes, PositionInv
  <2>. QED  BY <1>2, <1>3, <2>1 DEF PositionInv
<1>6. CASE Finishes
  <2>1. candidate_orders' = <<>> /\ Len(candidate_orders') = 0 /\ Len(LedgerQueue') = 0
    BY <1>6 DEF Finishes
  <2>. QED  BY <1>3, <2>1 DEF PositionInv
<1>7. CASE Drops
  <2>1. /\ candidate_orders' = <<>> /\ Len(candidate_orders') = 0
        /\ LedgerQueue' = <<>> /\ Len(LedgerQueue') = 0
    BY <1>7, OneAtMost DEF Drops
  <2>. QED  BY <1>3, <2>1 DEF PositionInv
<1>8. CASE Queues
  <2>. DEFINE o == Head(candidate_orders)
  <2>1. /\ candidate_orders' = <<>> /\ Len(candidate_orders') = 0
        /\ LedgerQueue = <<>> /\ Len(candidate_orders) = 1 /\ o = candidate_orders[1]
        /\ LedgerQueue' = Append(LedgerQueue, QueueItem(o.client_order_id, o.side, o.quantity))
    BY <1>8, OneAtMost DEF Queues
  <2>2. /\ Len(LedgerQueue') = 1
        /\ LedgerQueue'[1] = QueueItem(o.client_order_id, o.side, o.quantity)
    BY <2>1
  <2>3. LedgerQueue'[1].id = o.client_order_id /\ LedgerQueue'[1].delta = CandidateDelta(o)
    BY <2>2 DEF QueueItem, CandidateDelta
  <2>4. Sound(position.quantity, o.client_order_id, CandidateDelta(o))
    BY <2>1 DEF PositionInv
  <2>. QED  BY <1>2, <1>3, <2>1, <2>2, <2>3, <2>4 DEF PositionInv
<1>. QED  BY <1>4, <1>5, <1>6, <1>7, <1>8

\* A step that leaves the engine and the strategy's position alone.
LEMMA IdlePosition ==
  ASSUME PositionInv, UNCHANGED <<vars, sar_state, sar_position>>
  PROVE  PositionInv'
<1>1. LedgerQueue' = LedgerQueue
  BY DEF LedgerQueue, vars, brokerVars, loopVars
<1>2. /\ position' = position /\ candidate_orders' = candidate_orders /\ phase' = phase
      /\ sar_state' = sar_state /\ sar_position' = sar_position
  BY DEF vars, portfolioVars, gateVars, loopVars
<1>. QED  BY <1>1, <1>2 DEF PositionInv, SarKnowsPosition, OneLotOrNothing

(* ------------------- what the strategy has seen and noted --------------- *)

\* The strategy's own state keeps its shape.
LEMMA WalkTypes ==
  ASSUME RunInv, StrategyTypeOK, [WalkNext]_walkVars
  PROVE  StrategyTypeOK'
<1>. USE DEF StrategyTypeOK
<1>1. ASSUME FreshRun PROVE StrategyTypeOK'
  <2>1. Len(history') = 0 /\ history' \in Seq({-1, 0, 1})
    BY <1>1, FreshMoves
  <2>. QED  BY <1>1, <2>1, FreshMoves
<1>2. CASE RunTrainSlice
  BY <1>1, <1>2 DEF RunTrainSlice
<1>3. CASE NextWindow
  BY <1>1, <1>3 DEF NextWindow, sarVars
<1>4. CASE SwitchSarKill
  BY <1>4 DEF SwitchSarKill
<1>5. CASE SettleSarFill
  BY <1>5 DEF SettleSarFill, SarOnFill, evaluatorVars
<1>6. CASE SignalSar
  <2>1. /\ history' = Append(history, bar.trend) /\ kill_switch' = kill_switch
        /\ IF NewCrossing(bar) = "NONE"
           THEN crossover_count' = crossover_count /\ last_direction' = last_direction
           ELSE crossover_count' = crossover_count + 1 /\ last_direction' = NewCrossing(bar)
        /\ behind' = IF NewCrossing(bar) # "NONE" THEN SarOrders(bar) # <<>> ELSE behind \/ kill_switch
    BY <1>6 DEF SignalSar, SarOnBar
  <2>2. /\ Len(history') = Len(history) + 1 /\ Len(history) \in Nat /\ history' \in Seq({-1, 0, 1})
    BY <2>1, TrendTyped
  <2>3. crossover_count' \in 0..Len(history')
    BY <2>1, <2>2
  <2>4. last_direction' \in Directions \cup {"NONE"}
    BY <2>1, NewCrossingIs
  <2>5. behind' \in BOOLEAN
    BY <2>1
  <2>. QED  BY <2>1, <2>2, <2>3, <2>4, <2>5
<1>7. CASE SarEngineStep
  BY <1>7 DEF SarEngineStep, sarVars
<1>8. CASE UNCHANGED walkVars
  BY <1>8 DEF walkVars, sarVars, evaluatorVars
<1>. QED  BY <1>2, <1>3, <1>4, <1>5, <1>6, <1>7, <1>8 DEF WalkNext

\* What has been seen is the bars of this window so far, and a crossover that is
\* proposed, or was, came after slow_period of them.
LEMMA WalkCold ==
  ASSUME RunInv, RunInv', StrategyTypeOK, PositionInv, ColdInv, [WalkNext]_walkVars
  PROVE  ColdInv'
<1>1. ASSUME FreshRun PROVE ColdInv'
  <2>1. Len(history') = 0 /\ Len(candidate_orders') = 0
    BY <1>1, FreshMoves
  <2>2. WindowsStartCold'
    BY <1>1, FreshMoves DEF WindowsStartCold
  <2>. QED  BY <1>1, <2>1, <2>2, FreshMoves DEF ColdInv, BarsSeen
<1>2. CASE RunTrainSlice
  BY <1>1, <1>2 DEF RunTrainSlice
<1>3. ASSUME UNCHANGED <<vars, history>> PROVE ColdInv'
  BY <1>3 DEF ColdInv, WindowsStartCold, BarsSeen, vars, loopVars, gateVars, logVars
<1>4. CASE NextWindow
  BY <1>1, <1>3, <1>4 DEF NextWindow, sarVars
<1>5. CASE SwitchSarKill
  BY <1>3, <1>5 DEF SwitchSarKill
<1>6. CASE SettleSarFill
  <2>1. /\ history' = history /\ phase = "SETTLE" /\ phase' = "SETTLE" /\ bar_index' = bar_index
        /\ candidate_orders' = candidate_orders /\ order_signal_times' = order_signal_times
    BY <1>6, FillMoves DEF SettleSarFill, SarOnFill
  <2>. QED  BY <2>1 DEF ColdInv, WindowsStartCold, BarsSeen
<1>7. CASE SignalSar
  <2>1. PICK settings \in HookSettings : Signal(SarOrders(bar), SarPyramidCount, settings)
    BY <1>7 DEF SignalSar
  <2>2. /\ phase = "SETTLE" /\ phase' = "VALIDATE" /\ bar_index' = bar_index
        /\ candidate_orders' = SarOrders(bar) /\ order_signal_times' = order_signal_times
    BY <2>1, SignalMoves
  <2>3. Len(history) = bar_index - 1
    BY <2>2 DEF ColdInv, BarsSeen
  <2>4. Len(history') = bar_index
    <3>1. history' = Append(history, bar.trend) /\ history \in Seq({-1, 0, 1})
      BY <1>7 DEF SignalSar, SarOnBar, StrategyTypeOK
    <3>2. Len(history') = Len(history) + 1
      BY <3>1
    <3>. QED  BY <2>3, <3>2, TrendTyped
  <2>5. ASSUME NEW i \in 1..Len(SarOrders(bar)), SarOrders(bar)[i].client_order_id # SarFlattenId
        PROVE  bar_index > SlowPeriod
    <3>1. NewCrossing(bar) # "NONE"
      BY <2>3, <2>5, SarOrdersAre DEF PositionInv
    <3>2. Len(history) >= SlowPeriod
      BY <3>1, NewCrossingIs
    <3>. QED  BY <2>3, <3>2, TrendTyped
  <2>. QED  BY <2>2, <2>4, <2>5 DEF ColdInv, WindowsStartCold, BarsSeen
<1>8. CASE SarEngineStep
  <2>1. EngineMove /\ history' = history
    BY <1>8 DEF SarEngineStep, EngineMove, sarVars
  <2>2. /\ Opens \/ Drops \/ Queues \/ Aborts \/ Closes \/ Finishes
        /\ \/ order_signal_times' = order_signal_times
           \/ /\ candidate_orders # <<>>
              /\ order_signal_times' =
                    [order_signal_times EXCEPT ![Head(candidate_orders).client_order_id] = bar_index]
    BY <2>1, EngineMoves
  <2>3. Len(history') = BarsSeen'
    BY <2>1, <2>2, TrendTyped DEF ColdInv, BarsSeen, Opens, Drops, Queues, Aborts, Closes, Finishes
  <2>4. WindowsStartCold'
    <3>1. CASE order_signal_times' = order_signal_times
      BY <3>1 DEF ColdInv, WindowsStartCold
    <3>2. CASE /\ candidate_orders # <<>>
               /\ order_signal_times' =
                     [order_signal_times EXCEPT ![Head(candidate_orders).client_order_id] = bar_index]
      <4>1. Head(candidate_orders) = candidate_orders[1] /\ Len(candidate_orders) = 1
        BY <3>2, OneAtMost
      <4>2. Head(candidate_orders).client_order_id # SarFlattenId => bar_index > SlowPeriod
        BY <4>1 DEF ColdInv
      <4>3. order_signal_times \in [OrderIds -> 0..NBars]
        BY DEF RunInv, EngineInv, TypeOK
      <4>4. ASSUME NEW id \in OrderIds \ {SarFlattenId}, order_signal_times'[id] # 0
            PROVE  order_signal_times'[id] > SlowPeriod
        <5>1. CASE id = Head(candidate_orders).client_order_id
          BY <3>2, <4>2, <4>3, <5>1
        <5>2. CASE id # Head(candidate_orders).client_order_id
          BY <3>2, <4>3, <4>4, <5>2 DEF ColdInv, WindowsStartCold
        <5>. QED  BY <5>1, <5>2
      <4>. QED  BY <4>4 DEF WindowsStartCold
    <3>. QED  BY <2>2, <3>1, <3>2
  <2>5. \A i \in 1..Len(candidate_orders') :
           candidate_orders'[i].client_order_id # SarFlattenId => bar_index' > SlowPeriod
    <3>1. CASE candidate_orders' = candidate_orders /\ bar_index' = bar_index
      BY <3>1 DEF ColdInv
    <3>2. CASE candidate_orders' = <<>>
      <4>1. Len(candidate_orders') = 0
        BY <3>2
      <4>. QED  BY <4>1
    <3>3. candidate_orders' = Tail(candidate_orders) /\ candidate_orders # <<>> => candidate_orders' = <<>>
      BY OneAtMost
    <3>. QED  BY <2>2, <3>1, <3>2, <3>3 DEF Opens, Drops, Queues, Aborts, Closes, Finishes
  <2>. QED  BY <2>3, <2>4, <2>5 DEF ColdInv
<1>9. CASE UNCHANGED walkVars
  BY <1>3, <1>9 DEF walkVars, sarVars
<1>. QED  BY <1>2, <1>4, <1>5, <1>6, <1>7, <1>8, <1>9 DEF WalkNext

(* ------------------------- the side of the trend ------------------------ *)

\* LastTrend, of any bars seen.
TrendOf(h) == LET differing == {i \in 1..Len(h) : h[i] # 0}
              IN  IF differing = {} THEN 0
                  ELSE h[CHOOSE i \in differing : \A j \in differing : j <= i]

\* A bar on which the averages differ sets the trend.
LEMMA TrendOfLast ==
  ASSUME NEW h \in Seq({-1, 0, 1}), Len(h) > 0, h[Len(h)] # 0
  PROVE  TrendOf(h) = h[Len(h)]
<1>. DEFINE differing == {i \in 1..Len(h) : h[i] # 0}
<1>1. Len(h) \in differing /\ \A j \in differing : j <= Len(h)
  OBVIOUS
<1>2. \A i \in differing : (\A j \in differing : j <= i) => i = Len(h)
  BY <1>1
<1>3. (CHOOSE i \in differing : \A j \in differing : j <= i) = Len(h)
  BY <1>1, <1>2
<1>. QED  BY <1>1, <1>3 DEF TrendOf

\* One on which they are equal leaves it.
LEMMA TrendOfEqual ==
  ASSUME NEW h \in Seq({-1, 0, 1})
  PROVE  TrendOf(Append(h, 0)) = TrendOf(h)
<1>. DEFINE differing == {i \in 1..Len(h) : h[i] # 0}
            last == CHOOSE i \in differing : \A j \in differing : j <= i
<1>1. {i \in 1..Len(Append(h, 0)) : Append(h, 0)[i] # 0} = differing
  <2>1. Len(Append(h, 0)) = Len(h) + 1 /\ Append(h, 0)[Len(h) + 1] = 0 /\ Len(h) \in Nat
    OBVIOUS
  <2>2. \A i \in 1..Len(h) : Append(h, 0)[i] = h[i]
    OBVIOUS
  <2>. QED  BY <2>1, <2>2
<1>2. CASE differing = {}
  BY <1>1, <1>2 DEF TrendOf
<1>3. CASE differing # {}
  <2>1. \E x \in differing : \A y \in differing : x >= y
    <3>1. differing \in SUBSET (1..Len(h)) /\ Len(h) \in Nat
      OBVIOUS
    <3>. QED  BY <1>3, <3>1, GreatestNumber
  <2>2. \E i \in differing : \A j \in differing : j <= i
    BY <2>1
  <2>3. last \in differing
    BY <2>2
  <2>4. TrendOf(Append(h, 0)) = Append(h, 0)[last]
    BY <1>1, <1>3 DEF TrendOf
  <2>5. TrendOf(h) = h[last]
    BY <1>3 DEF TrendOf
  <2>. QED  BY <2>3, <2>4, <2>5
<1>. QED  BY <1>2, <1>3

\* A bar that brings no news leaves the trend where the last crossover was.
LEMMA NoNewsKeepsTrend ==
  ASSUME RunInv, StrategyTypeOK, ~kill_switch, NewCrossing(bar) = "NONE",
         last_direction # "NONE", Len(history) > SlowPeriod,
         LastTrend = DirectionSign(last_direction), history' = Append(history, bar.trend)
  PROVE  LastTrend' = LastTrend
<1>. DEFINE n == Len(history)
            seen == Append(history, bar.trend)
            t == bar.trend
<1>1. LastTrend = TrendOf(history) /\ LastTrend' = TrendOf(seen)
  BY DEF LastTrend, TrendOf
<1>2. /\ history \in Seq({-1, 0, 1}) /\ t \in {-1, 0, 1} /\ SlowPeriod \in Nat \ {0, 1} /\ n \in Nat
      /\ n > 0 /\ history[n] \in {-1, 0, 1}
  BY TrendTyped DEF StrategyTypeOK
<1>3. /\ seen \in Seq({-1, 0, 1}) /\ Len(seen) = n + 1
      /\ seen[n + 1] = t /\ seen[n] = history[n] /\ n + 1 - 1 = n
  BY <1>2
<1>4. Crossing(seen) = IF history[n] <= 0 /\ t > 0 THEN "BULLISH"
                       ELSE IF history[n] >= 0 /\ t < 0 THEN "BEARISH"
                       ELSE "NONE"
  <2>. HIDE DEF seen
  <2>1. ~(n + 1 < SlowPeriod + 1)
    BY <1>2
  <2>. QED  BY <1>2, <1>3, <2>1 DEF Crossing
<1>5. Crossing(seen) = last_direction \/ Crossing(seen) = "NONE"
  BY DEF NewCrossing
<1>6. CASE t = 0
  BY <1>1, <1>2, <1>6, TrendOfEqual
<1>7. CASE t # 0
  <2>1. LastTrend' = t
    <3>. HIDE DEF seen, n
    <3>1. Len(seen) > 0 /\ seen[Len(seen)] = t
      BY <1>2, <1>3
    <3>. QED  BY <1>1, <1>3, <1>7, <3>1, TrendOfLast
  <2>2. history[n] # 0 => LastTrend = history[n]
    BY <1>1, <1>2, TrendOfLast
  <2>3. last_direction \in Directions
    BY DEF StrategyTypeOK
  <2>4. CASE last_direction = "BULLISH"
    <3>1. LastTrend = 1 /\ history[n] >= 0
      BY <1>2, <2>2, <2>4 DEF DirectionSign
    <3>2. ~(t < 0)
      BY <1>2, <1>4, <1>5, <2>4, <3>1
    <3>. QED  BY <1>2, <1>7, <2>1, <3>1, <3>2
  <2>5. CASE last_direction = "BEARISH"
    <3>1. LastTrend = -1 /\ history[n] <= 0
      BY <1>2, <2>2, <2>5 DEF DirectionSign
    <3>2. ~(t > 0)
      BY <1>2, <1>4, <1>5, <2>5, <3>1
    <3>. QED  BY <1>2, <1>7, <2>1, <3>1, <3>2
  <2>. QED  BY <2>3, <2>4, <2>5 DEF Directions
<1>. QED  BY <1>6, <1>7

\* Between the crossovers that are news and the fills that follow them the strategy
\* is on, or on its way to, the side of the trend.
LEMMA SettleTrend ==
  ASSUME RunInv, PositionInv, TrendInv, SettleSarFill
  PROVE  TrendInv'
<1>1. /\ LedgerQueue # <<>> /\ LedgerQueue' = Tail(LedgerQueue)
      /\ position'.quantity = position.quantity + LedgerQueue[1].delta
      /\ phase = "SETTLE" /\ phase' = "SETTLE" /\ candidate_orders' = candidate_orders
  BY FillMoves DEF SettleSarFill
<1>2. LedgerQueue' = <<>> /\ candidate_orders = <<>> /\ Len(candidate_orders') = 0
  BY <1>1, OneAtMost
<1>3. PositionToBe' = PositionToBe
  BY <1>1, <1>2 DEF PositionToBe
<1>4. history' = history /\ last_direction' = last_direction /\ behind' = behind
  BY DEF SettleSarFill, SarOnFill, evaluatorVars
<1>. QED  BY <1>1, <1>2, <1>3, <1>4 DEF TrendInv, OnTrend, LastTrend

\* A crossover turns the trend, and the order for it goes to the new side.
LEMMA SignalTrend ==
  ASSUME RunInv, RunInv', StrategyTypeOK, PositionInv, ColdInv, TrendInv, SignalSar
  PROVE  TrendInv'
<1>1. PICK settings \in HookSettings : Signal(SarOrders(bar), SarPyramidCount, settings)
  BY DEF SignalSar
<1>2. /\ LedgerQueue = <<>> /\ LedgerQueue' = <<>> /\ position' = position
      /\ phase = "SETTLE" /\ phase' = "VALIDATE" /\ candidate_orders' = SarOrders(bar)
  BY <1>1, SignalMoves
<1>3. /\ history' = Append(history, bar.trend)
      /\ last_direction' = IF NewCrossing(bar) = "NONE" THEN last_direction ELSE NewCrossing(bar)
      /\ behind' = IF NewCrossing(bar) # "NONE" THEN SarOrders(bar) # <<>> ELSE behind \/ kill_switch
  BY DEF SignalSar, SarOnBar
<1>4. PositionToBe = position.quantity /\ PositionToBe' = position.quantity
  BY <1>2 DEF PositionToBe
<1>5. /\ history \in Seq({-1, 0, 1}) /\ bar.trend \in {-1, 0, 1} /\ Len(history) \in Nat
      /\ SlowPeriod \in Nat \ {0, 1} /\ behind \in BOOLEAN
  BY TrendTyped DEF StrategyTypeOK
<1>6. /\ Len(history') = Len(history) + 1 /\ history' \in Seq({-1, 0, 1})
      /\ history'[Len(history) + 1] = bar.trend
  BY <1>3, <1>5
<1>7. SarKnowsPosition /\ OneLotOrNothing /\ Len(history) = bar_index - 1
  BY <1>2 DEF PositionInv, ColdInv, BarsSeen
<1>8. SarOrders(bar) \in Seq(Proposals)
  BY <1>7, SarOrdersAre
<1>9. CASE NewCrossing(bar) # "NONE"
  <2>1. /\ ~kill_switch /\ Len(history) >= SlowPeriod
        /\ bar.trend = DirectionSign(NewCrossing(bar))
    BY <1>9, NewCrossingIs
  <2>2. LastTrend' = DirectionSign(NewCrossing(bar))
    <3>1. LastTrend' = TrendOf(history')
      BY DEF LastTrend, TrendOf
    <3>2. DirectionSign(NewCrossing(bar)) # 0
      BY DEF DirectionSign
    <3>3. Len(history') > 0 /\ history'[Len(history')] = bar.trend
      BY <1>5, <1>6
    <3>. QED  BY <1>6, <2>1, <3>1, <3>2, <3>3, TrendOfLast
  <2>3. Len(history') > SlowPeriod
    BY <1>5, <1>6, <2>1
  <2>4. ASSUME NEW q, q = Quantity * DirectionSign(NewCrossing(bar))
        PROVE  LastTrend' = DirectionSign(last_direction') /\ q = Quantity * DirectionSign(last_direction')
    BY <1>3, <1>9, <2>2, <2>4
  <2>5. SarOrders(bar) = <<>> => position.quantity = Quantity * DirectionSign(NewCrossing(bar))
    BY <1>7, <1>9, SarOrdersAre
  <2>6. \A i \in 1..Len(SarOrders(bar)) :
           position.quantity + CandidateDelta(SarOrders(bar)[i]) = Quantity * DirectionSign(NewCrossing(bar))
    BY <1>7, <2>1, SarOrdersAre
  <2>. QED  BY <1>2, <1>3, <1>4, <1>9, <2>3, <2>4, <2>5, <2>6 DEF TrendInv, OnTrend
<1>10. CASE NewCrossing(bar) = "NONE" /\ kill_switch
  <2>1. \A i \in 1..Len(SarOrders(bar)) : SarOrders(bar)[i].client_order_id = SarFlattenId
    BY <1>7, <1>10, SarOrdersAre
  <2>2. behind' = TRUE /\ last_direction' = last_direction
    BY <1>3, <1>10
  <2>3. last_direction # "NONE" => Len(history') > SlowPeriod
    BY <1>5, <1>6 DEF TrendInv
  <2>. QED  BY <1>2, <2>1, <2>2, <2>3 DEF TrendInv
<1>11. CASE NewCrossing(bar) = "NONE" /\ ~kill_switch
  <2>1. SarOrders(bar) = <<>> /\ Len(SarOrders(bar)) = 0
    BY <1>11 DEF SarOrders
  <2>2. last_direction' = last_direction /\ (behind' <=> behind)
    BY <1>3, <1>11
  <2>3. last_direction # "NONE" => Len(history') > SlowPeriod
    BY <1>5, <1>6 DEF TrendInv
  <2>4. ASSUME last_direction # "NONE", ~behind PROVE OnTrend(PositionToBe)'
    <3>1. LastTrend = DirectionSign(last_direction) /\ Len(history) > SlowPeriod
          /\ PositionToBe = Quantity * DirectionSign(last_direction)
      BY <1>2, <2>4 DEF TrendInv, OnTrend
    <3>2. LastTrend' = LastTrend
      BY <1>3, <1>11, <2>4, <3>1, NoNewsKeepsTrend
    <3>. QED  BY <1>4, <2>2, <3>1, <3>2 DEF OnTrend
  <2>. QED  BY <1>2, <2>1, <2>2, <2>3, <2>4 DEF TrendInv
<1>. QED  BY <1>9, <1>10, <1>11

\* The crossover order takes the strategy to the side of the trend once it is queued.
LEMMA EngineTrend ==
  ASSUME RunInv, RunInv', StrategyTypeOK, PositionInv, TrendInv, SarEngineStep
  PROVE  TrendInv'
<1>1. /\ EngineMove /\ history' = history /\ last_direction' = last_direction
      /\ behind' = (behind /\ ~(ApproveNew /\ Head(candidate_orders).client_order_id # SarFlattenId))
  BY DEF SarEngineStep, EngineMove, sarVars
<1>2. /\ position'.quantity = position.quantity
      /\ Opens \/ Drops \/ (Queues /\ ApproveNew) \/ Aborts \/ Closes \/ Finishes
      /\ ApproveNew => Queues
  BY <1>1, EngineMoves
<1>3. LastTrend' = LastTrend
  BY <1>1 DEF LastTrend
<1>4. behind \in BOOLEAN
  BY DEF StrategyTypeOK
<1>5. CASE ApproveNew
  <2>. DEFINE o == Head(candidate_orders)
              item == QueueItem(o.client_order_id, o.side, o.quantity)
  <2>1. /\ phase' = "VALIDATE" /\ candidate_orders # <<>>
        /\ candidate_orders' = Tail(candidate_orders) /\ LedgerQueue' = Append(LedgerQueue, item)
    BY <1>2, <1>5 DEF Queues
  <2>2. /\ candidate_orders' = <<>> /\ Len(candidate_orders') = 0
        /\ LedgerQueue = <<>> /\ Len(candidate_orders) = 1 /\ o = candidate_orders[1]
    BY <2>1, OneAtMost
  <2>3. LedgerQueue' # <<>> /\ LedgerQueue'[1] = item
    BY <2>1, <2>2
  <2>4. PositionToBe' = position.quantity + CandidateDelta(o)
    BY <1>2, <2>3 DEF PositionToBe, QueueItem, CandidateDelta
  <2>5. behind' <=> o.client_order_id = SarFlattenId
    BY <1>1, <1>4, <1>5, <2>1 DEF TrendInv
  <2>6. ASSUME o.client_order_id # SarFlattenId PROVE OnTrend(PositionToBe)'
    BY <1>1, <1>3, <2>2, <2>4, <2>6 DEF TrendInv, OnTrend
  <2>. QED  BY <1>1, <2>2, <2>5, <2>6 DEF TrendInv
<1>6. CASE ~ApproveNew
  <2>1. behind' = behind
    BY <1>1, <1>4, <1>6
  <2>2. CASE Opens \/ Aborts \/ Closes
    <3>1. /\ LedgerQueue' = LedgerQueue /\ candidate_orders' = candidate_orders /\ phase # "DONE"
      BY <2>2 DEF Opens, Aborts, Closes
    <3>2. PositionToBe' = PositionToBe
      BY <1>2, <3>1 DEF PositionToBe
    <3>. QED  BY <1>1, <1>2, <1>3, <2>1, <3>1, <3>2 DEF TrendInv, OnTrend
  <2>3. CASE Drops
    <3>1. candidate_orders' = <<>> /\ Len(candidate_orders') = 0 /\ candidate_orders # <<>>
      BY <2>3, OneAtMost DEF Drops
    <3>2. behind'
      BY <2>1, <3>1 DEF TrendInv
    <3>3. last_direction' # "NONE" => Len(history') > SlowPeriod
      BY <1>1 DEF TrendInv
    <3>. QED  BY <3>1, <3>2, <3>3 DEF TrendInv
  <2>4. CASE Finishes
    <3>1. candidate_orders' = <<>> /\ Len(candidate_orders') = 0 /\ phase' = "DONE"
      BY <2>4 DEF Finishes
    <3>. QED  BY <1>1, <3>1 DEF TrendInv
  <2>. QED  BY <1>2, <1>6, <2>2, <2>3, <2>4
<1>. QED  BY <1>5, <1>6

\* Every step keeps the strategy on the trend or on its way there.
LEMMA WalkTrend ==
  ASSUME RunInv, RunInv', StrategyTypeOK, PositionInv, ColdInv, TrendInv, [WalkNext]_walkVars
  PROVE  TrendInv'
<1>1. ASSUME FreshRun PROVE TrendInv'
  <2>1. Len(candidate_orders') = 0
    BY <1>1, FreshMoves
  <2>. QED  BY <1>1, <2>1, FreshMoves DEF TrendInv
<1>2. ASSUME UNCHANGED <<vars, history, last_direction, behind>> PROVE TrendInv'
  <2>1. LedgerQueue' = LedgerQueue
    BY <1>2 DEF LedgerQueue, vars, brokerVars, loopVars
  <2>2. /\ position' = position /\ candidate_orders' = candidate_orders /\ phase' = phase
    BY <1>2 DEF vars, portfolioVars, gateVars, loopVars
  <2>. QED  BY <1>2, <2>1, <2>2 DEF TrendInv, OnTrend, LastTrend, PositionToBe
<1>3. CASE RunTrainSlice
  BY <1>1, <1>3 DEF RunTrainSlice
<1>4. CASE NextWindow
  BY <1>1, <1>2, <1>4 DEF NextWindow, sarVars
<1>5. CASE SwitchSarKill
  BY <1>2, <1>5 DEF SwitchSarKill
<1>6. CASE UNCHANGED walkVars
  BY <1>2, <1>6 DEF walkVars, sarVars, evaluatorVars
<1>. QED  BY <1>3, <1>4, <1>5, <1>6, SettleTrend, SignalTrend, EngineTrend DEF WalkNext

\* Every step keeps the one order sound.
LEMMA WalkPosition ==
  ASSUME RunInv, RunInv', StrategyTypeOK, PositionInv, ColdInv, [WalkNext]_walkVars
  PROVE  PositionInv'
<1>1. CASE RunTrainSlice
  BY <1>1, FreshPosition DEF RunTrainSlice
<1>2. CASE NextWindow
  BY <1>2, FreshPosition, IdlePosition DEF NextWindow, sarVars
<1>3. CASE SwitchSarKill
  BY <1>3, IdlePosition DEF SwitchSarKill
<1>4. CASE UNCHANGED walkVars
  BY <1>4, IdlePosition DEF walkVars, sarVars
<1>. QED  BY <1>1, <1>2, <1>3, <1>4, SettlePosition, SignalPosition, EnginePosition DEF WalkNext

(* --------------------------- the windows' bars -------------------------- *)

\* Windows start one step apart, and fit if their last bar is there.
LEMMA WindowArithmetic ==
  ASSUME shape \in Shapes, window \in Nat
  PROVE  /\ TestStart(window) \in Nat /\ shape.step \in Nat \ {0} /\ shape.train_size \in Nat \ {0}
         /\ shape.total_bars \in Nat /\ NBars \in Nat \ {0} /\ shape.evaluate_train \in BOOLEAN
         /\ window * shape.step \in Nat
         /\ TestStart(window) = window * shape.step + shape.train_size
         /\ TestStart(window + 1) = TestStart(window) + shape.step
         /\ (window + 1) * shape.step = window * shape.step + shape.step
         /\ Fits(window) <=> TestStart(window) + NBars <= shape.total_bars
         /\ Fits(window + 1) <=> TestStart(window) + shape.step + NBars <= shape.total_bars
<1>1. /\ shape.step \in Nat \ {0} /\ shape.train_size \in Nat \ {0} /\ shape.total_bars \in Nat
      /\ NBars \in Nat \ {0} /\ shape.evaluate_train \in BOOLEAN
  BY WalkForwardAssumption, EngineAssumption
<1>2. window * shape.step \in Nat /\ (window + 1) * shape.step = window * shape.step + shape.step
  BY <1>1
<1>. QED  BY <1>1, <1>2 DEF TestStart, Fits, TestSize

\* A fresh train slice tests no further bar.
LEMMA TrainTested ==
  ASSUME RunInv, ColdInv, TestedInv, RunTrainSlice
  PROVE  TestedInv'
<1>1. /\ slice = "TEST" /\ slice' = "TRAIN" /\ phase = "DONE" /\ FreshRun
      /\ shape' = shape /\ window' = window /\ tested' = tested
  BY DEF RunTrainSlice
<1>2. BarsTested = NBars /\ BarsTested' = NBars
  BY <1>1 DEF TestedInv, ColdInv, BarsSeen, BarsTested
<1>3. NextTestBar' = NextTestBar
  BY <1>1, <1>2 DEF NextTestBar, TestStart
<1>4. Running /\ Running' /\ (Fits(window)' <=> Fits(window)) /\ phase' = "OPEN"
  BY <1>1, FreshMoves DEF Running, Fits
<1>. QED  BY <1>1, <1>2, <1>3, <1>4 DEF TestedInv

\* The next window tests the bars from its own start.
LEMMA NextTested ==
  ASSUME RunInv, ColdInv, TestedInv, NextWindow
  PROVE  TestedInv'
<1>1. /\ phase = "DONE" /\ slice = (IF shape.evaluate_train THEN "TRAIN" ELSE "TEST")
      /\ shape' = shape /\ tested' = tested
  BY DEF NextWindow
<1>2. /\ shape \in Shapes /\ window \in Nat /\ tested \in Seq(Nat) /\ Running /\ Fits(window)
  BY <1>1 DEF TestedInv, Running
<1>3. BarsTested = NBars
  BY <1>1 DEF TestedInv, ColdInv, BarsSeen, BarsTested
<1>4. CASE Fits(window + 1) /\ FreshRun /\ slice' = "TEST" /\ window' = window + 1
  <2>1. BarsTested' = 0 /\ phase' = "OPEN"
    BY <1>4, FreshMoves DEF BarsTested
  <2>2. NextTestBar' = TestStart(window + 1)
    BY <1>1, <1>2, <1>4, <2>1, WindowArithmetic DEF NextTestBar, TestStart
  <2>3. shape.step >= NBars => NextTestBar <= NextTestBar' /\ NextTestBar \in Int /\ NextTestBar' \in Int
    <3>1. /\ TestStart(window) \in Nat /\ TestStart(window + 1) = TestStart(window) + shape.step
          /\ shape.step \in Nat /\ NBars \in Nat
      BY <1>2, WindowArithmetic
    <3>2. NextTestBar = TestStart(window) + NBars
      BY <1>3 DEF NextTestBar
    <3>. QED  BY <2>2, <3>1, <3>2
  <2>4. window' \in Nat /\ Fits(window)' /\ Running'
    BY <1>1, <1>2, <1>4 DEF Fits, Running
  <2>5. \A i \in 1..Len(tested) : tested[i] \in Nat
    BY <1>2
  <2>6. shape.step >= NBars => \A i \in 1..Len(tested) : tested[i] < NextTestBar'
    <3>1. ASSUME shape.step >= NBars, NEW i \in 1..Len(tested) PROVE tested[i] < NextTestBar'
      <4>1. tested[i] < NextTestBar
        BY <3>1 DEF TestedInv
      <4>. QED  BY <2>3, <2>5, <3>1, <4>1
    <3>. QED  BY <3>1
  <2>7. shape.step = NBars => Len(tested) = window' * shape.step + BarsTested'
    <3>1. ASSUME shape.step = NBars PROVE Len(tested) = (window + 1) * shape.step
      BY <1>2, <1>3, <3>1, WindowArithmetic DEF TestedInv
    <3>2. window * shape.step \in Nat /\ shape.step \in Nat
          /\ (window + 1) * shape.step = window * shape.step + shape.step
      BY <1>2, WindowArithmetic
    <3>3. (window + 1) * shape.step \in Nat
      BY <3>2
    <3>. QED  BY <1>1, <1>4, <2>1, <3>1, <3>3
  <2>. QED  BY <1>1, <1>2, <1>4, <2>1, <2>4, <2>6, <2>7 DEF TestedInv
<1>5. CASE ~Fits(window + 1) /\ slice' = "END" /\ UNCHANGED <<vars, sarVars, window, switches, behind>>
  <2>1. BarsTested' = NBars /\ window' = window /\ phase' = phase /\ bar_index' = bar_index
    BY <1>5 DEF BarsTested, vars, loopVars
  <2>2. NextTestBar' = NextTestBar
    BY <1>1, <1>3, <2>1 DEF NextTestBar, TestStart
  <2>3. (Fits(window) /\ ~Fits(window + 1))' /\ ~Running'
    BY <1>1, <1>2, <1>5, <2>1 DEF Fits, Running
  <2>. QED  BY <1>1, <1>3, <1>5, <2>1, <2>2, <2>3 DEF TestedInv
<1>. QED  BY <1>4, <1>5 DEF NextWindow

\* A signal in a test slice tests the next bar.
LEMMA SignalTested ==
  ASSUME RunInv, RunInv', StrategyTypeOK, ColdInv, TestedInv, SignalSar
  PROVE  TestedInv'
<1>1. PICK settings \in HookSettings : Signal(SarOrders(bar), SarPyramidCount, settings)
  BY DEF SignalSar
<1>2. /\ phase = "SETTLE" /\ phase' = "VALIDATE" /\ bar_index' = bar_index
  BY <1>1, SignalMoves
<1>3. /\ shape' = shape /\ window' = window /\ slice' = slice
      /\ tested' = IF slice = "TEST" THEN Append(tested, TestStart(window) + bar_index - 1) ELSE tested
      /\ history' = Append(history, bar.trend) /\ Running
  BY DEF SignalSar, SarOnBar
<1>4. Len(history) = bar_index - 1 /\ Len(history') = bar_index
  <2>1. Len(history) = bar_index - 1
    BY <1>2 DEF ColdInv, BarsSeen
  <2>2. Len(history') = Len(history) + 1
    BY <1>3 DEF StrategyTypeOK
  <2>. QED  BY <2>1, <2>2, TrendTyped
<1>5. /\ shape \in Shapes /\ window \in Nat /\ tested \in Seq(Nat) /\ Fits(window)
  BY <1>3 DEF TestedInv
<1>6. Running' /\ Fits(window)'
  BY <1>3, <1>5 DEF Running, Fits
<1>7. CASE slice # "TEST"
  <2>1. BarsTested = NBars /\ BarsTested' = NBars /\ tested' = tested
    BY <1>3, <1>7 DEF BarsTested
  <2>2. NextTestBar' = NextTestBar
    BY <1>3, <2>1 DEF NextTestBar, TestStart
  <2>3. (phase' = "DONE" => bar_index' = NBars) /\ slice' # "END"
    BY <1>2, <1>3 DEF Running
  <2>. QED  BY <1>3, <1>6, <2>1, <2>2, <2>3 DEF TestedInv
<1>8. CASE slice = "TEST"
  <2>. DEFINE n == Len(tested)
              next == TestStart(window) + bar_index - 1
  <2>1. next \in Nat /\ TestStart(window) \in Nat /\ bar_index \in Nat \ {0}
    <3>1. TestStart(window) \in Nat
      BY <1>5, WindowArithmetic
    <3>2. bar_index \in Nat \ {0}
      BY TrendTyped
    <3>. QED  BY <3>1, <3>2
  <2>2. /\ NextTestBar = next /\ NextTestBar' = next + 1
        /\ BarsTested = bar_index - 1 /\ BarsTested' = bar_index
    BY <1>3, <1>4, <1>8, <2>1 DEF NextTestBar, BarsTested, TestStart
  <2>. HIDE DEF next
  <2>3. /\ tested' = Append(tested, next) /\ n \in Nat
    BY <1>3, <1>5, <1>8 DEF next
  <2>4. /\ tested' \in Seq(Nat) /\ Len(tested') = n + 1 /\ tested'[n + 1] = next
        /\ \A i \in 1..n : tested'[i] = tested[i] /\ tested[i] \in Nat
    BY <1>5, <2>1, <2>3
  <2>. HIDE DEF n
  <2>5. tested'[Len(tested')] = NextTestBar' - 1
    BY <2>1, <2>2, <2>4
  <2>6. ASSUME shape.step >= NBars
        PROVE  /\ \A i, j \in 1..Len(tested') : i < j => tested'[i] < tested'[j]
               /\ \A i \in 1..Len(tested') : tested'[i] < NextTestBar'
    <3>1. /\ \A i, j \in 1..n : i < j => tested[i] < tested[j]
          /\ \A i \in 1..n : tested[i] < next
      BY <2>2, <2>6 DEF TestedInv, n
    <3>2. \A i \in 1..(n + 1) : i \in 1..n \/ i = n + 1
      BY <2>3
    <3>3. ASSUME NEW i \in 1..(n + 1), NEW j \in 1..(n + 1), i < j PROVE tested'[i] < tested'[j]
      <4>1. i \in 1..n
        BY <2>3, <3>3
      <4>2. CASE j = n + 1
        BY <2>4, <3>1, <4>1, <4>2
      <4>3. CASE j \in 1..n
        BY <2>4, <3>1, <3>3, <4>1, <4>3
      <4>. QED  BY <3>2, <4>2, <4>3
    <3>4. ASSUME NEW i \in 1..(n + 1) PROVE tested'[i] < next + 1
      <4>1. CASE i = n + 1
        BY <2>1, <2>4, <4>1
      <4>2. CASE i \in 1..n
        <5>1. tested'[i] < next /\ tested'[i] \in Nat
          BY <2>4, <3>1, <4>2
        <5>. QED  BY <2>1, <5>1
      <4>. QED  BY <3>2, <4>1, <4>2
    <3>. QED  BY <2>2, <2>4, <3>3, <3>4
  <2>7. ASSUME shape.step = NBars
        PROVE  /\ Len(tested') = window * shape.step + BarsTested'
               /\ \A i \in 1..Len(tested') : tested'[i] = shape.train_size + i - 1
    <3>1. /\ n = window * shape.step + (bar_index - 1)
          /\ \A i \in 1..n : tested[i] = shape.train_size + i - 1
      BY <1>3, <2>2, <2>7 DEF TestedInv, n
    <3>2. /\ window * shape.step \in Nat /\ shape.train_size \in Nat
          /\ TestStart(window) = window * shape.step + shape.train_size
      BY <1>5, WindowArithmetic
    <3>3. next = shape.train_size + (n + 1) - 1
      BY <2>1, <2>3, <3>1, <3>2 DEF next
    <3>4. \A i \in 1..(n + 1) : i \in 1..n \/ i = n + 1
      BY <2>3
    <3>5. n + 1 = window * shape.step + bar_index
      BY <2>1, <3>1, <3>2
    <3>. QED  BY <2>2, <2>4, <3>1, <3>3, <3>4, <3>5
  <2>. QED  BY <1>2, <1>3, <1>5, <1>6, <1>8, <2>4, <2>5, <2>6, <2>7 DEF TestedInv
<1>. QED  BY <1>7, <1>8

\* Every step keeps the list of the bars tested out of sample in order.
LEMMA WalkTested ==
  ASSUME RunInv, RunInv', StrategyTypeOK, ColdInv, TestedInv, [WalkNext]_walkVars
  PROVE  TestedInv'
<1>1. ASSUME UNCHANGED <<history, shape, window, slice, tested>>,
             phase' = "DONE" => bar_index' = NBars
      PROVE  TestedInv'
  BY <1>1 DEF TestedInv, Running, Fits, NextTestBar, TestStart, BarsTested
<1>2. CASE SwitchSarKill
  <2>1. phase' = "OPEN"
    BY <1>2 DEF SwitchSarKill, vars, loopVars
  <2>. QED  BY <1>1, <1>2, <2>1 DEF SwitchSarKill
<1>3. CASE SettleSarFill
  <2>1. phase' = "SETTLE"
    BY <1>3, FillMoves DEF SettleSarFill
  <2>. QED  BY <1>1, <1>3, <2>1 DEF SettleSarFill, SarOnFill, evaluatorVars
<1>4. CASE SarEngineStep
  <2>1. Opens \/ Drops \/ Queues \/ Aborts \/ Closes \/ Finishes
    BY <1>4, EngineMoves DEF SarEngineStep, EngineMove
  <2>2. phase' = "DONE" => bar_index' = NBars
    BY <2>1 DEF Opens, Drops, Queues, Aborts, Closes, Finishes
  <2>. QED  BY <1>1, <1>4, <2>2 DEF SarEngineStep, sarVars
<1>5. CASE UNCHANGED walkVars
  <2>1. phase' = "DONE" => bar_index' = NBars
    BY <1>5 DEF walkVars, vars, loopVars, TestedInv
  <2>. QED  BY <1>1, <1>5, <2>1 DEF walkVars, sarVars, evaluatorVars
<1>. QED  BY <1>2, <1>3, <1>4, <1>5, TrainTested, NextTested, SignalTested DEF WalkNext

(* ------------------------------- theorems ------------------------------- *)

\* A walk starts with the books of a run and a strategy that has seen nothing.
LEMMA WalkInitInv == WalkInit => RunInv /\ WalkInv
<1>. SUFFICES ASSUME WalkInit PROVE RunInv /\ WalkInv
  OBVIOUS
<1>. USE DEF WalkInit, SarInit
<1>1. RunInv
  BY InitInv
<1>2. /\ phase = "OPEN" /\ bar_index = 1 /\ fill_queue = <<>> /\ candidate_orders = <<>> /\ pending = <<>>
      /\ position.quantity = 0 /\ order_signal_times = [id \in OrderIds |-> 0]
  BY DEF Init, BrokerInit, PortfolioInit
<1>3. LedgerQueue = <<>>
  <2>1. Len(LedgerQueue) = 0
    BY <1>2 DEF LedgerQueue
  <2>. QED  BY <1>2 DEF LedgerQueue
<1>4. StrategyTypeOK
  <2>1. <<>> \in Seq({-1, 0, 1}) /\ 0 \in 0..Len(<<>>)
    OBVIOUS
  <2>. QED  BY <2>1 DEF StrategyTypeOK
<1>5. PositionInv
  BY <1>2, <1>3 DEF PositionInv, SarKnowsPosition, StateOf, OneLotOrNothing
<1>6. ColdInv
  BY <1>2 DEF ColdInv, WindowsStartCold, BarsSeen
<1>7. TrendInv
  BY <1>2 DEF TrendInv
<1>8. TestedInv
  <2>1. shape \in Shapes /\ window = 0 /\ tested = <<>>
    OBVIOUS
  <2>2. slice \in {"TEST", "TRAIN", "END"} /\ (Running => slice = "TEST" /\ Fits(window))
    BY DEF Running
  <2>3. slice = "TEST" => BarsTested = 0
    BY DEF BarsTested
  <2>4. shape.step \in Nat /\ 0 * shape.step = 0
    BY <2>1, WalkForwardAssumption
  <2>. QED  BY <1>2, <2>1, <2>2, <2>3, <2>4 DEF TestedInv
<1>. QED  BY <1>1, <1>4, <1>5, <1>6, <1>7, <1>8 DEF WalkInv

\* Every step of the walk keeps the engine's books and the strategy's together.
LEMMA WalkNextInv == RunInv /\ WalkInv /\ [WalkNext]_walkVars => (RunInv /\ WalkInv)'
<1>. SUFFICES ASSUME RunInv, WalkInv, [WalkNext]_walkVars PROVE RunInv' /\ WalkInv'
  OBVIOUS
<1>1. StrategyTypeOK /\ PositionInv /\ ColdInv /\ TrendInv /\ TestedInv
  BY DEF WalkInv
<1>2. RunInv'
  BY <1>1, WalkRunInv
<1>. QED  BY <1>1, <1>2, WalkTypes, WalkPosition, WalkCold, WalkTrend, WalkTested DEF WalkInv

\* Both invariants hold throughout every walk.
LEMMA WalkSpecInv == WalkSpec => [](RunInv /\ WalkInv)
  BY WalkInitInv, WalkNextInv, PTL DEF WalkSpec

\* In every window, the strategy's own idea of its position is the portfolio's at every step:
\* whatever was refused or rejected, it is only told of what was filled.
THEOREM SarAgreesWithBooks == WalkSpec => []SarKnowsPosition
<1>1. WalkInv => SarKnowsPosition
  BY DEF WalkInv, PositionInv
<1>. QED  BY <1>1, WalkSpecInv, PTL

\* Orders of one lot and reversals of two never pile up: the books never hold more than one
\* lot, for any lot size, any bars and any turns of the kill switch.
THEOREM NeverMoreThanOneLot == WalkSpec => []OneLotOrNothing
<1>1. WalkInv => OneLotOrNothing
  BY DEF WalkInv, PositionInv
<1>. QED  BY <1>1, WalkSpecInv, PTL

\* In no window does the strategy trade a crossover before it has seen slow_period bars of
\* that window: nothing is carried over from the one before.
THEOREM EveryWindowStartsCold == WalkSpec => []WindowsStartCold
<1>1. WalkInv => WindowsStartCold
  BY DEF WalkInv, ColdInv
<1>. QED  BY <1>1, WalkSpecInv, PTL

\* At the open of every bar the strategy that has traded is on the side of the last trend it
\* saw, unless its order for it was not accepted or its kill switch was on.
THEOREM SarFollowsTrend == WalkSpec => []FollowsTrend
<1>1. ASSUME WalkInv, phase = "SETTLE", fill_queue = <<>>, last_direction # "NONE", ~behind
      PROVE  position.quantity = Quantity * LastTrend
  <2>1. OnTrend(PositionToBe)
    BY <1>1 DEF WalkInv, TrendInv
  <2>2. LedgerQueue = <<>>
    BY <1>1 DEF LedgerQueue
  <2>. QED  BY <2>1, <2>2 DEF PositionToBe, OnTrend
<1>2. WalkInv => FollowsTrend
  BY <1>1 DEF FollowsTrend
<1>. QED  BY <1>2, WalkSpecInv, PTL

\* However many windows fit, the bars tested out of sample come in order of time without a
\* repetition if the step is at least the test size, without a gap if it is exactly that, and
\* the walk ends only when the next window would not fit.
THEOREM EveryTestBarOnce == WalkSpec => []TestBarsOnce
<1>1. ASSUME WalkInv PROVE TestBarsOnce
  <2>1. TestedInv /\ shape \in Shapes /\ window \in Nat
    BY <1>1 DEF WalkInv, TestedInv
  <2>2. ASSUME slice = "END", tested # <<>>
        PROVE  tested[Len(tested)] < shape.total_bars /\ tested[Len(tested)] + 1 + shape.step > shape.total_bars
    <3>1. BarsTested = NBars /\ Fits(window) /\ ~Fits(window + 1)
      BY <2>1, <2>2 DEF TestedInv, BarsTested
    <3>2. /\ TestStart(window) \in Nat /\ shape.step \in Nat /\ shape.total_bars \in Nat
          /\ NBars \in Nat \ {0}
          /\ TestStart(window) + NBars <= shape.total_bars
          /\ ~(TestStart(window) + shape.step + NBars <= shape.total_bars)
      BY <2>1, <3>1, WindowArithmetic
    <3>3. tested[Len(tested)] = TestStart(window) + NBars - 1
      BY <2>1, <2>2, <3>1, <3>2 DEF TestedInv, NextTestBar
    <3>. QED  BY <3>2, <3>3
  <2>. QED  BY <2>1, <2>2 DEF TestBarsOnce, TestSize, TestedInv
<1>. QED  BY <1>1, WalkSpecInv, PTL

\* What holds of one run of the engine holds in every window: the cap on the position, the
\* broker's queue and executions against its book, and the portfolio's equity.
THEOREM EveryWindowKeepsBooks ==
  WalkSpec => [](PositionWithinCap /\ QueueMatchesBook /\ OneFillPerFilledOrder /\ EquityMatchesPnl)
<1>1. RunInv => PositionWithinCap /\ QueueMatchesBook /\ OneFillPerFilledOrder /\ EquityMatchesPnl
  BY DEF RunInv, EngineInv, ApprovedPath, PositionWithinCap, BrokerInv, PortfolioInv
<1>. QED  BY <1>1, WalkSpecInv, PTL
================================================================================
