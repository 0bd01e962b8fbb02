------------------------------ MODULE OrderLedger ------------------------------
(***************************************************************************)
(* What a backtest promises about orders, without prices, gates, batches   *)
(* or bars: an id lives once; an accepted order joins the end of a queue;  *)
(* the order at the head of the queue is settled, which is the only thing  *)
(* that moves the exposure, by exactly that order's signed size; or the    *)
(* whole queue is cancelled.  Nothing else happens to an order.            *)
(***************************************************************************)
EXTENDS Integers, Sequences

CONSTANTS
    Ids,     \* order identifiers
    Sizes    \* signed order sizes: bought > 0, sold < 0

VARIABLES
    life,       \* life[id]: "UNSEEN", or the order's status
    queue,      \* accepted and unsettled orders, oldest first: [id, delta]
    exposure    \* the net position

ledgerVars == <<life, queue, exposure>>

LedgerInit ==
    /\ life = [id \in Ids |-> "UNSEEN"]
    /\ queue = <<>>
    /\ exposure = 0

Accept(id, delta) ==
    /\ life[id] = "UNSEEN"
    /\ life' = [life EXCEPT ![id] = "PENDING"]
    /\ queue' = Append(queue, [id |-> id, delta |-> delta])
    /\ UNCHANGED exposure

Decline(id) ==
    /\ life[id] = "UNSEEN"
    /\ life' = [life EXCEPT ![id] = "REJECTED"]
    /\ UNCHANGED <<queue, exposure>>

Settle ==
    /\ queue # <<>>
    /\ life[Head(queue).id] = "PENDING"
    /\ life' = [life EXCEPT ![Head(queue).id] = "FILLED"]
    /\ exposure' = exposure + Head(queue).delta
    /\ queue' = Tail(queue)

CancelAll ==
    /\ life' = [id \in Ids |-> IF life[id] = "PENDING" THEN "CANCELLED" ELSE life[id]]
    /\ queue' = <<>>
    /\ UNCHANGED exposure

LedgerNext ==
    \/ \E id \in Ids, delta \in Sizes : Accept(id, delta)
    \/ \E id \in Ids : Decline(id)
    \/ Settle
    \/ CancelAll

LedgerSpec == LedgerInit /\ [][LedgerNext]_ledgerVars
==============================================================================
