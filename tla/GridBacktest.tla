------------------------------ MODULE GridBacktest ------------------------------
(***************************************************************************)
(* The backtest engine running the ATR grid strategy: on_bar supplies the  *)
(* batch, every settled fill is handed to on_fill.  Before a bar is        *)
(* evaluated the strategy's kill switch may be turned on or off.           *)
(***************************************************************************)
EXTENDS BacktestEngine, AtrGrid

CONSTANT
    MaxSwitches    \* how often the kill switch is turned: 0 never

\* The prices a leg can have been entered at.
EntryPrices == {FillPrice(side, p) : side \in OrderSide, p \in MarketPrices}

\* What the strategy may hand to the engine: a level or one spacing off a leg's entry, of the
\* size of a level; or the flatten order, of the size of what is open.
GridOrderForms ==
    [client_order_id : GridOrderIds, side : OrderSide, quantity : 1..(2 * Levels * QuantityPerLevel),
     price : {LevelPrice(l, b.close) : l \in Level, b \in Bars} \cup {b.close : b \in Bars}
             \cup {p + SignedQty(side, Spacing) : p \in EntryPrices, side \in OrderSide}]

\* Prices are far enough from zero for every level and every exit to have one.
ASSUME GridBacktestAssumption ==
    /\ MaxSwitches \in Nat
    /\ GridOrderForms \subseteq Proposals

VARIABLE
    switches       \* how often it has been

gridBacktestVars == <<vars, gridVars, switches>>

GridBacktestInit ==
    /\ Init
    /\ GridInit
    /\ switches = 0

\* enable_kill_switch, disable_kill_switch
SwitchKill ==
    /\ phase = "OPEN"
    /\ switches < MaxSwitches
    /\ kill_switch' = ~kill_switch
    /\ switches' = switches + 1
    /\ UNCHANGED <<vars, anchor, triggered_levels, net_position, active_entries,
                   pending_entry_orders, pending_exit_orders>>

\* portfolio.process_fill, then strategy.on_fill
SettleGridFill ==
    /\ SettleFill
    /\ OnFill(Head(fill_queue))
    /\ UNCHANGED switches

SignalGrid ==
    LET regime == macro_by_date[Today].regime
    IN  /\ \E settings \in HookSettings :
              Signal(BarOrders(bar, regime, bar_index), GetPyramidCount, settings)
        /\ OnBar(bar, regime, bar_index)
        /\ UNCHANGED switches

\* The steps of the loop that do not call the strategy.
EngineStep ==
    /\ OpenFirstBar \/ OpenBar \/ Validate \/ CloseBar \/ FinishRun
    /\ UNCHANGED <<gridVars, switches>>

GridBacktestNext == SwitchKill \/ SettleGridFill \/ SignalGrid \/ EngineStep

GridBacktestSpec == GridBacktestInit /\ [][GridBacktestNext]_gridBacktestVars

(* ------------------------------ properties ------------------------------ *)

\* The position the strategy bases its signals on, which it tracks from fills
\* on its own and zeroes on a flatten, is the one in the books.
StrategyKnowsPosition == net_position = position.quantity

\* The open legs account for the position: every fill opened, closed or
\* flattened the legs it should, so no leg's exit is lost and none is closed
\* twice.
LegsExplainPosition ==
    net_position = FoldLeft(LAMBDA sum, e : sum + SignedQty(e.level[1], e.quantity), 0, active_entries)

\* An exit on its way to execution still has its leg: nothing, not a flatten
\* either, can close the leg first.
ExitsCloseOpenLegs ==
    \A id \in OrderIds :
        id[1] = "EXIT" /\ Known(id) /\ ObservedStatus(id) = "PENDING" =>
            \E i \in 1..Len(active_entries) : active_entries[i].level = <<id[2], id[3]>>

\* Every leg has an id of its own and a level that can no longer signal.
LegsAreDistinct ==
    /\ \A i, j \in 1..Len(active_entries) : active_entries[i].level = active_entries[j].level => i = j
    /\ \A i \in 1..Len(active_entries) : active_entries[i].level \in triggered_levels
==============================================================================
