------------------------------ MODULE WalkForward ------------------------------
(***************************************************************************)
(* engine/walk_forward.py, WalkForwardEvaluator.run, with the              *)
(* stop-and-reverse strategy: for every window a fresh strategy, broker,   *)
(* risk manager and portfolio run over the test slice, and after it, if    *)
(* asked for, again over the train slice.  One run is one behaviour of     *)
(* BacktestEngine.                                                         *)
(*                                                                         *)
(* A slice of the engine has NBars bars: that is test_size, and the train  *)
(* slices are evaluated only if they are of that size.                     *)
(***************************************************************************)
EXTENDS BacktestEngine, StopAndReverse

CONSTANTS
    Shapes,         \* what may be asked for: [train_size, step, total_bars, evaluate_train]
    MaxSwitches     \* bound: how often the kill switch is turned in one run

TestSize == NBars

\* What the strategy may hand to the engine in a slice.
SarOrderForms ==
    [client_order_id : {CrossoverId(n, side) : n \in 1 .. NBars, side \in OrderSide} \cup {SarFlattenId},
     side : OrderSide, quantity : 1 .. 2 * Quantity, price : {b.close : b \in Bars}]

ASSUME WalkForwardAssumption ==
    /\ \A s \in Shapes :
          /\ s.train_size \in Nat \ {0} /\ s.step \in Nat \ {0} /\ s.total_bars \in Nat
          /\ s.evaluate_train \in BOOLEAN
          /\ s.evaluate_train => s.train_size = NBars
    /\ MaxSwitches \in Nat
    /\ \A b \in Bars : b.trend \in {-1, 0, 1}
    /\ SarOrderForms \subseteq Proposals

VARIABLES
    shape,          \* the evaluator's parameters
    window,         \* window_index of the window under way
    slice,          \* which of its slices is being run: TEST or TRAIN; or END
    switches,       \* turns of the kill switch in this run
    behind,         \* history: the strategy was kept from following the last crossover
    tested          \* history: the bars evaluated out of sample, in order

evaluatorVars == <<shape, window, slice, switches, behind, tested>>
walkVars == <<vars, sarVars, evaluatorVars>>

-----------------------------------------------------------------------------
\* Fault: the loop stops when a window would end on the last bar.
FitsStrict(k) == k * shape.step + shape.train_size + TestSize < shape.total_bars

\* The condition of the loop of get_windows, for the k-th offset.
Fits(k) == k * shape.step + shape.train_size + TestSize <= shape.total_bars

TestStart(k) == k * shape.step + shape.train_size

\* Fresh instances, as their constructors leave them.
FreshBroker ==
    /\ orders' = [id \in OrderIds |-> NoOrder] /\ pending' = <<>> /\ fills' = <<>>
    /\ simulate_broker_failure' = FALSE /\ simulate_order_rejection' = FALSE

FreshPortfolio ==
    /\ cash' = InitialCash /\ market_price' = 0
    /\ position' = [quantity |-> 0, average_entry_price |-> 0, realized_pnl |-> 0,
                    unrealized_pnl |-> 0, total_quantity_traded |-> 0]
    /\ daily_realized_pnl' = [d \in Days |-> 0] /\ total_brokerage' = 0
    /\ peak_equity' = InitialCash /\ drawdown' = 0

\* Fault: the clone keeps the bars it has seen.
CloneStrategyWarm ==
    /\ sar_state' = "FLAT" /\ sar_position' = 0
    /\ crossover_count' = 0 /\ last_direction' = "NONE"
    /\ kill_switch' = FALSE
    /\ UNCHANGED history

\* _clone_strategy: the parameters, and nothing else, of the prototype.
CloneStrategy ==
    /\ sar_state' = "FLAT" /\ sar_position' = 0
    /\ history' = <<>>
    /\ crossover_count' = 0 /\ last_direction' = "NONE"
    /\ kill_switch' = FALSE

\* A new engine on its first bar, with the same macro snapshots.
FreshEngine ==
    /\ kill_switch_active' = FALSE
    /\ phase' = "OPEN" /\ bar_index' = 1 /\ bar' \in Bars
    /\ fill_queue' = <<>> /\ candidate_orders' = <<>>
    /\ projected_pos' = 0 /\ projected_pyramids' = 0 /\ daily_pnl' = 0 /\ circuit_breaker' = FALSE
    /\ order_records' = <<>> /\ order_signal_times' = [id \in OrderIds |-> 0]
    /\ trades' = <<>> /\ equity_curve' = <<>>
    /\ approved_positions' = <<>> /\ phantom_approval' = FALSE
    /\ UNCHANGED macro_by_date

FreshRun ==
    /\ FreshBroker /\ FreshPortfolio /\ CloneStrategy /\ FreshEngine
    /\ switches' = 0 /\ behind' = FALSE

-----------------------------------------------------------------------------
\* Without a window there is nothing to run.
WalkInit ==
    /\ Init /\ SarInit
    /\ shape \in Shapes
    /\ window = 0 /\ slice = IF Fits(0) THEN "TEST" ELSE "END"
    /\ switches = 0 /\ behind = FALSE /\ tested = <<>>

Running == slice \in {"TEST", "TRAIN"}

\* The engine has returned from the test slice: the same on the train slice, or ...
RunTrainSlice ==
    /\ slice = "TEST" /\ phase = "DONE" /\ shape.evaluate_train
    /\ FreshRun
    /\ slice' = "TRAIN"
    /\ UNCHANGED <<shape, window, tested>>

\* ... the next window, if there is one.
NextWindow ==
    /\ phase = "DONE"
    /\ slice = (IF shape.evaluate_train THEN "TRAIN" ELSE "TEST")
    /\ \/ /\ Fits(window + 1)
          /\ FreshRun
          /\ slice' = "TEST" /\ window' = window + 1
       \/ /\ ~Fits(window + 1)
          /\ slice' = "END"
          /\ UNCHANGED <<vars, sarVars, window, switches, behind>>
    /\ UNCHANGED <<shape, tested>>

\* The strategy's kill switch is turned between two bars.
SwitchSarKill ==
    /\ Running /\ phase = "OPEN" /\ switches < MaxSwitches
    /\ kill_switch' = ~kill_switch
    /\ switches' = switches + 1
    /\ UNCHANGED <<vars, sar_state, sar_position, history, crossover_count, last_direction,
                   shape, window, slice, behind, tested>>

\* portfolio.process_fill, then strategy.on_fill.
SettleSarFill ==
    /\ Running
    /\ SettleFill
    /\ SarOnFill(Head(fill_queue))
    /\ UNCHANGED evaluatorVars

\* on_bar.  From here the strategy is behind if it has an order to get through, or would
\* have, were it not for the kill switch.
SignalSar ==
    /\ Running
    /\ \E settings \in HookSettings : Signal(SarOrders(bar), SarPyramidCount, settings)
    /\ SarOnBar(bar)
    /\ tested' = IF slice = "TEST" THEN Append(tested, TestStart(window) + bar_index - 1) ELSE tested
    /\ behind' = IF NewCrossing(bar) # "NONE" THEN SarOrders(bar) # <<>> ELSE behind \/ kill_switch
    /\ UNCHANGED <<shape, window, slice, switches>>

\* The steps of the loop that do not call the strategy.  A queued crossover order catches up.
SarEngineStep ==
    /\ Running
    /\ OpenFirstBar \/ OpenBar \/ Validate \/ CloseBar \/ FinishRun
    /\ behind' = (behind /\ ~(ApproveNew /\ Head(candidate_orders).client_order_id # SarFlattenId))
    /\ UNCHANGED <<sarVars, shape, window, slice, switches, tested>>

WalkNext == RunTrainSlice \/ NextWindow \/ SwitchSarKill \/ SettleSarFill \/ SignalSar \/ SarEngineStep

WalkSpec == WalkInit /\ [][WalkNext]_walkVars

(* ------------------------------ properties ------------------------------ *)

\* In every window the position the strategy reverses from is the one in that window's books.
SarKnowsPosition == sar_position = position.quantity /\ sar_state = StateOf(sar_position)

\* A reversal never piles up: whatever is refused or rejected, and whatever the kill switch
\* closes, the books hold one lot of the strategy's size, long or short, or nothing.
OneLotOrNothing == position.quantity \in {-Quantity, 0, Quantity}

\* The relation of the averages when they last differed.
LastTrend == LET differing == {i \in 1 .. Len(history) : history[i] # 0}
             IN  IF differing = {} THEN 0
                 ELSE history[CHOOSE i \in differing : \A j \in differing : j <= i]

\* Once it has traded, the strategy is on the side of the trend at every open, unless its
\* order for the last crossover was not accepted, or its kill switch was on meanwhile.
FollowsTrend ==
    Running /\ phase = "SETTLE" /\ fill_queue = <<>> /\ last_direction # "NONE" /\ ~behind =>
        position.quantity = Quantity * LastTrend

\* No window inherits what an earlier one has seen: in each the first crossover needs
\* slow_period bars of its own before it.
WindowsStartCold ==
    \A id \in OrderIds \ {SarFlattenId} :
        order_signal_times[id] # 0 => order_signal_times[id] > SlowPeriod

\* Windows that move on by at least the test size trade no bar twice and in order of time;
\* with exactly that step they leave none out; and none that fits is missing at the end.
TestBarsOnce ==
    /\ shape.step >= TestSize =>
          \A i, j \in 1 .. Len(tested) : i < j => tested[i] < tested[j]
    /\ shape.step = TestSize =>
          \A i \in 1 .. Len(tested) : tested[i] = shape.train_size + i - 1
    /\ slice = "END" /\ tested # <<>> =>
          /\ tested[Len(tested)] < shape.total_bars
          /\ tested[Len(tested)] + 1 + shape.step > shape.total_bars
================================================================================
