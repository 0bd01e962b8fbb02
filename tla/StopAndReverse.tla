---------------------------- MODULE StopAndReverse ----------------------------
(***************************************************************************)
(* strategy/stop_and_reverse.py: the EMA stop-and-reverse strategy.        *)
(*                                                                         *)
(* A bar carries the relation of the fast to the slow average after it,    *)
(* -1, 0 or 1: the averages themselves, floats over all closes since the   *)
(* strategy was created, are not modelled.                                 *)
(***************************************************************************)
EXTENDS Orders, Sequences

CONSTANTS
    SlowPeriod,             \* slow_period
    Quantity                \* quantity

ASSUME SarAssumption == SlowPeriod \in Nat \ {0, 1} /\ Quantity \in Nat \ {0}

VARIABLES
    sar_state,              \* state: FLAT, LONG or SHORT
    sar_position,           \* position, as the strategy has it from its fills
    history,                \* the relation of the averages after each bar seen
    crossover_count,        \* _crossover_count
    last_direction,         \* _last_crossover_direction
    kill_switch             \* the strategy's switch (strategy/base.py)

sarVars == <<sar_state, sar_position, history, crossover_count, last_direction, kill_switch>>

Directions == {"BULLISH", "BEARISH"}

\* client_order_id: SAR-..-n-BUY or SAR-..-n-SELL, and SAR-..-FLATTEN.
CrossoverId(n, side) == <<side, n>>
SarFlattenId == <<"FLATTEN", 0>>

SarInit ==
    /\ sar_state = "FLAT" /\ sar_position = 0
    /\ history = <<>>
    /\ crossover_count = 0 /\ last_direction = "NONE"
    /\ kill_switch = FALSE

(* -------------------------------- on_bar -------------------------------- *)

\* Fault: averages that have met do not cross any more when they part.
CrossingStrict(seen) ==
    LET n == Len(seen)
    IN  IF n < SlowPeriod + 1 THEN "NONE"
        ELSE IF seen[n - 1] < 0 /\ seen[n] > 0 THEN "BULLISH"
        ELSE IF seen[n - 1] > 0 /\ seen[n] < 0 THEN "BEARISH"
        ELSE "NONE"

\* The crossover on the last of these bars, from one side or from equality.
Crossing(seen) ==
    LET n == Len(seen)
    IN  IF n < SlowPeriod + 1 THEN "NONE"
        ELSE IF seen[n - 1] <= 0 /\ seen[n] > 0 THEN "BULLISH"
        ELSE IF seen[n - 1] >= 0 /\ seen[n] < 0 THEN "BEARISH"
        ELSE "NONE"

\* A crossover in the direction of the last one is no news.
NewCrossing(bar) ==
    LET crossing == Crossing(Append(history, bar.trend))
    IN  IF kill_switch \/ crossing = last_direction THEN "NONE" ELSE crossing

Target(direction) == IF direction = "BULLISH" THEN "LONG" ELSE "SHORT"

SarOrder(id, side, quantity, price) ==
    <<[client_order_id |-> id, side |-> side, quantity |-> quantity, price |-> price]>>

\* The kill switch closes what is open, under the one id there is for that.
SarFlatten(bar) ==
    IF sar_position = 0 /\ sar_state = "FLAT" THEN <<>>
    ELSE SarOrder(SarFlattenId, IF sar_position > 0 THEN "SELL" ELSE "BUY",
                  IF sar_position > 0 THEN sar_position
                  ELSE IF sar_position < 0 THEN -sar_position ELSE Quantity,
                  bar.close)

\* Fault: the size of a reversal, also from a flat position.
CrossoverOrderDouble(direction, price) ==
    IF sar_state = Target(direction) THEN <<>>
    ELSE LET side == IF direction = "BULLISH" THEN "BUY" ELSE "SELL"
         IN  SarOrder(CrossoverId(crossover_count + 1, side), side, 2 * Quantity, price)

\* Open from flat, reverse from the other side, nothing to do on this one.
CrossoverOrder(direction, price) ==
    IF sar_state = Target(direction) THEN <<>>
    ELSE LET side == IF direction = "BULLISH" THEN "BUY" ELSE "SELL"
         IN  SarOrder(CrossoverId(crossover_count + 1, side), side,
                      IF sar_state = "FLAT" THEN Quantity ELSE 2 * Quantity, price)

SarOrders(bar) ==
    IF kill_switch THEN SarFlatten(bar)
    ELSE IF NewCrossing(bar) = "NONE" THEN <<>>
    ELSE CrossoverOrder(NewCrossing(bar), bar.close)

\* The direction is noted whatever becomes of the order.
SarOnBar(bar) ==
    /\ history' = Append(history, bar.trend)
    /\ IF NewCrossing(bar) = "NONE"
       THEN UNCHANGED <<crossover_count, last_direction>>
       ELSE crossover_count' = crossover_count + 1 /\ last_direction' = NewCrossing(bar)
    /\ UNCHANGED <<sar_state, sar_position, kill_switch>>

(* -------------------------------- on_fill ------------------------------- *)

StateOf(quantity) == IF quantity = 0 THEN "FLAT" ELSE IF quantity > 0 THEN "LONG" ELSE "SHORT"

\* Fault: a fill counts for one position, whatever its size.
PositionAfterOne(fill) ==
    IF fill.order_id = SarFlattenId THEN 0 ELSE sar_position + SignedQty(fill.side, Quantity)

PositionAfter(fill) ==
    IF fill.order_id = SarFlattenId THEN 0 ELSE sar_position + SignedQty(fill.side, fill.filled_qty)

SarOnFill(fill) ==
    /\ sar_position' = PositionAfter(fill)
    /\ sar_state' = StateOf(PositionAfter(fill))
    /\ UNCHANGED <<history, crossover_count, last_direction, kill_switch>>

SarPyramidCount == IF sar_position # 0 THEN 1 ELSE 0
==============================================================================
