-------------------------------- MODULE AtrGrid --------------------------------
(***************************************************************************)
(* strategy/atr_grid.py: the ATR grid strategy during one run.             *)
(*                                                                         *)
(* Prices are integers (a tick); the grid spacing, ATR * grid_multiplier   *)
(* at the bar the grid is established, is a constant: the indicator's      *)
(* float arithmetic is not modelled.  Nothing in a run re-anchors a grid,  *)
(* so the epoch is always 1 and is left out of the order ids.              *)
(***************************************************************************)
EXTENDS Orders, Money, Sequences, SequencesExt

CONSTANTS
    Levels,             \* levels on each side of the anchor
    Spacing,            \* ATR * grid_multiplier when the grid is established
    PositionCap,        \* position_cap
    QuantityPerLevel,   \* quantity_per_level
    AtrPeriod           \* bars of history needed before the grid exists

ASSUME GridAssumption ==
    /\ Levels \in Nat \ {0}
    /\ Spacing \in Nat \ {0}
    /\ PositionCap \in Nat \ {0}
    /\ QuantityPerLevel \in Nat \ {0}
    /\ AtrPeriod \in Nat \ {0}

VARIABLES
    anchor,                 \* 0: no grid yet
    triggered_levels,       \* <<side, level>> pairs that have signalled
    net_position,           \* the strategy's own idea of its position
    active_entries,         \* open legs, in the order their fills arrived
    pending_entry_orders,   \* ids of entries signalled and not filled
    pending_exit_orders,    \* ids of exits signalled and not filled
    kill_switch             \* the strategy's switch (strategy/base.py)

gridVars == <<anchor, triggered_levels, net_position, active_entries, pending_entry_orders,
              pending_exit_orders, kill_switch>>

Level == OrderSide \X (1..Levels)

\* client_order_id: GRID-..-BUY-Lk / SELL-Sk, ..-EXIT-Lk / EXIT-Sk, ..-FLATTEN.
EntryId(level) == <<"ENTRY", level[1], level[2]>>
ExitId(level) == <<"EXIT", level[1], level[2]>>
FlattenId == <<"FLATTEN", "BUY", 0>>

GridOrderIds == {EntryId(l) : l \in Level} \cup {ExitId(l) : l \in Level} \cup {FlattenId}

GridInit ==
    /\ anchor = 0
    /\ triggered_levels = {}
    /\ net_position = 0
    /\ active_entries = <<>>
    /\ pending_entry_orders = {}
    /\ pending_exit_orders = {}
    /\ kill_switch = FALSE

NewOrder(id, side, quantity, price) ==
    [client_order_id |-> id, side |-> side, quantity |-> quantity, price |-> price]

(* -------------------------------- on_bar -------------------------------- *)

Opposite(side) == IF side = "BUY" THEN "SELL" ELSE "BUY"

\* L_k = a - k * spacing, S_k = a + k * spacing.
LevelPrice(level, a) == a - SignedQty(level[1], level[2] * Spacing)

\* One spacing in the leg's favour from the price it was filled at.
ExitPrice(entry) == entry.entry_price + SignedQty(entry.level[1], Spacing)

\* A sell triggers at or below the bar's high, a buy at or above its low.
Reaches(b, side, price) == IF side = "SELL" THEN b.high >= price ELSE b.low <= price

\* The open legs that are in S, in their order.
LegsIn(S) == FoldLeft(LAMBDA legs, e : IF e \in S THEN Append(legs, e) ELSE legs, <<>>, active_entries)

Exiting(b) ==
    LegsIn({e \in ToSet(active_entries) : Reaches(b, Opposite(e.level[1]), ExitPrice(e))})

ExitOrders(b) ==
    [i \in 1..Len(Exiting(b)) |->
        LET e == Exiting(b)[i]
        IN  NewOrder(ExitId(e.level), Opposite(e.level[1]), e.quantity, ExitPrice(e))]

\* The crossing order of the two for loops: L_1, L_2, ..., then S_1, S_2, ...
LevelSequence == [i \in 1..(2 * Levels) |-> IF i <= Levels THEN <<"BUY", i>> ELSE <<"SELL", i - Levels>>]

\* The cap is tested against the filled position plus this bar's entries.
WithinCap(level, delta) ==
    LET projected == net_position + delta + SignedQty(level[1], QuantityPerLevel)
    IN  (IF level[1] = "BUY" THEN projected ELSE AbsVal(projected)) <= PositionCap

\* A level signals once per grid, and not on a bar that exits it or its price.
MaySignal(level, b, a) ==
    LET leaving == Exiting(b)
    IN  /\ Reaches(b, level[1], LevelPrice(level, a))
        /\ level \notin triggered_levels
        /\ \A i \in 1..Len(leaving) :
              leaving[i].level # level /\ ExitPrice(leaving[i]) # LevelPrice(level, a)

\* The levels that signal, in order, each seeing the entries before it.
EntryLevels(b, regime, a) ==
    FoldLeft(LAMBDA acc, level :
                 IF /\ ~(level[1] = "BUY" /\ regime = "BEARISH")
                    /\ MaySignal(level, b, a)
                    /\ WithinCap(level, acc.delta)
                 THEN [levels |-> Append(acc.levels, level),
                       delta |-> acc.delta + SignedQty(level[1], QuantityPerLevel)]
                 ELSE acc,
             [levels |-> <<>>, delta |-> 0], LevelSequence).levels

\* A fault: the flatten order has the size of one level.
FlattenOneLevel(b) ==
    IF net_position = 0 THEN <<>>
    ELSE <<NewOrder(FlattenId, IF net_position > 0 THEN "SELL" ELSE "BUY", QuantityPerLevel, b.close)>>

FlattenOrders(b) ==
    IF net_position = 0 THEN <<>>
    ELSE <<NewOrder(FlattenId, IF net_position > 0 THEN "SELL" ELSE "BUY", AbsVal(net_position), b.close)>>

\* The grid is anchored at the close of the bar that completes the ATR window.
AnchorAt(b, bars_seen) ==
    IF anchor # 0 THEN anchor ELSE IF bars_seen >= AtrPeriod THEN b.close ELSE 0

\* A fault: the kill switch flattens and does not return.
BarOrdersFallingThrough(b, regime, bars_seen) ==
    IF AnchorAt(b, bars_seen) = 0 THEN <<>>
    ELSE (IF kill_switch THEN FlattenOrders(b) ELSE <<>>) \o ExitOrders(b)
         \o LET a == AnchorAt(b, bars_seen)
                entries == EntryLevels(b, regime, a)
            IN  [i \in 1..Len(entries) |->
                   NewOrder(EntryId(entries[i]), entries[i][1], QuantityPerLevel, LevelPrice(entries[i], a))]

BarOrders(b, regime, bars_seen) ==
    LET a == AnchorAt(b, bars_seen)
        entries == EntryLevels(b, regime, a)
    IN  CASE a = 0 -> <<>>
          [] a # 0 /\ kill_switch -> FlattenOrders(b)
          [] a # 0 /\ ~kill_switch ->
                ExitOrders(b) \o
                [i \in 1..Len(entries) |->
                    NewOrder(EntryId(entries[i]), entries[i][1], QuantityPerLevel, LevelPrice(entries[i], a))]

\* The ids of one kind that a batch proposes.
IdsOfKind(batch, kind) == {id \in {batch[i].client_order_id : i \in 1..Len(batch)} : id[1] = kind}

\* A fault: only the levels of the latest bar count as triggered.
OnBarForgetting(b, regime, bars_seen) ==
    LET batch == BarOrders(b, regime, bars_seen)
    IN  /\ anchor' = AnchorAt(b, bars_seen)
        /\ triggered_levels' = {<<id[2], id[3]>> : id \in IdsOfKind(batch, "ENTRY")}
        /\ pending_entry_orders' = pending_entry_orders \cup IdsOfKind(batch, "ENTRY")
        /\ pending_exit_orders' = pending_exit_orders \cup IdsOfKind(batch, "EXIT")
        /\ UNCHANGED <<net_position, active_entries, kill_switch>>

\* on_bar(bar, regime), which returns BarOrders.
OnBar(b, regime, bars_seen) ==
    LET batch == BarOrders(b, regime, bars_seen)
    IN  /\ anchor' = AnchorAt(b, bars_seen)
        /\ triggered_levels' = triggered_levels \cup {<<id[2], id[3]>> : id \in IdsOfKind(batch, "ENTRY")}
        /\ pending_entry_orders' = pending_entry_orders \cup IdsOfKind(batch, "ENTRY")
        /\ pending_exit_orders' = pending_exit_orders \cup IdsOfKind(batch, "EXIT")
        /\ UNCHANGED <<net_position, active_entries, kill_switch>>

(* -------------------------------- on_fill ------------------------------- *)

\* A fault: the leg to close is looked up by its number on either side.
LegsWithoutNumber(level) == LegsIn({e \in ToSet(active_entries) : e.level[2] # level[2]})

LegsWithout(level) == LegsIn({e \in ToSet(active_entries) : e.level # level})

\* Entry: a new leg at the fill's price.  Exit: its leg is removed.  Flatten:
\* everything is cleared, whatever the size of the fill.
OnFill(fill) ==
    LET id == fill.order_id
        level == <<id[2], id[3]>>
    IN  /\ pending_entry_orders' = pending_entry_orders \ {id}
        /\ pending_exit_orders' = pending_exit_orders \ {id}
        /\ active_entries' =
              CASE id \in pending_entry_orders ->
                      Append(active_entries, [level |-> level, entry_price |-> fill.filled_price,
                                              quantity |-> fill.filled_qty])
                [] id \in pending_exit_orders -> LegsWithout(level)
                [] id = FlattenId -> <<>>
        /\ net_position' = IF id = FlattenId THEN 0
                           ELSE net_position + SignedQty(fill.side, fill.filled_qty)
        /\ UNCHANGED <<anchor, triggered_levels, kill_switch>>

\* get_pyramid_count: legs of both sides.
GetPyramidCount == Len(active_entries)
==============================================================================
