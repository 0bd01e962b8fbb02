----------------------------- MODULE RiskManager -----------------------------
(***************************************************************************)
(* risk/manager.py: the pre-trade gate.  Its only state is the kill switch;*)
(* everything else validate_order looks at is passed in by the caller.     *)
(***************************************************************************)
EXTENDS Orders, Money

CONSTANTS
    MaxPositionSize,   \* cap on the absolute net position, in lots
    MaxOrderQuantity,  \* cap on the size of one order, in lots
    MaxPyramids,       \* cap on open same-direction entry legs
    DailyLossLimit     \* realized loss of a day, in paise, that closes the gate

ASSUME RiskAssumption ==
    /\ MaxPositionSize \in Nat
    /\ MaxOrderQuantity \in Nat
    /\ MaxPyramids \in Nat
    /\ DailyLossLimit \in Nat

VARIABLE kill_switch_active

OrderEffect == {"NEW_ENTRY", "SAME_DIRECTION_ENTRY", "PARTIAL_REDUCTION",
                "COMPLETE_REDUCTION", "REVERSAL"}

\* classify_order_effect: what the order does to the current position.
ClassifyOrderEffect(order, current_position) ==
    LET same == IF current_position > 0 THEN "BUY" ELSE "SELL"
        held == AbsVal(current_position)
    IN  CASE current_position = 0  -> "NEW_ENTRY"
          [] current_position # 0 /\ order.side = same -> "SAME_DIRECTION_ENTRY"
          [] current_position # 0 /\ order.side # same /\ order.quantity < held -> "PARTIAL_REDUCTION"
          [] current_position # 0 /\ order.side # same /\ order.quantity = held -> "COMPLETE_REDUCTION"
          [] current_position # 0 /\ order.side # same /\ order.quantity > held -> "REVERSAL"

\* validate_order: the rules, any of which refuses the order.  Which of them is
\* reported first only changes the wording of the reason.  cap is
\* max_position_size, or a position_cap_override that may only lower it.
IsAllowed(order, current_position, current_pyramids, daily_realized_pnl, macro_circuit_breaker, cap) ==
    LET effect == ClassifyOrderEffect(order, current_position)
        proposed == current_position + SignedQty(order.side, order.quantity)
    IN  /\ ~kill_switch_active
        /\ ~macro_circuit_breaker
        /\ daily_realized_pnl > -DailyLossLimit
        /\ order.quantity <= MaxOrderQuantity
        /\ AbsVal(proposed) <= cap
        /\ effect = "SAME_DIRECTION_ENTRY" => current_pyramids < MaxPyramids
        /\ effect \in {"NEW_ENTRY", "REVERSAL"} => MaxPyramids >= 1
==============================================================================
