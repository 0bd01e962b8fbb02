----------------------------- MODULE TickDelivery -----------------------------
(***************************************************************************)
(* What a tick pipeline promises about the ticks it accepts: each is taken *)
(* in the order of acceptance, is in one pair of hands at a time, is       *)
(* processed or dropped once, and nothing happens after the end.           *)
(*                                                                         *)
(* Ticks are numbered in the order of acceptance.                          *)
(***************************************************************************)
EXTENDS Naturals, FiniteSetsExt

VARIABLES
    accepted,                   \* number of ticks accepted
    waiting, in_hand, processed, dropped,
    ended

deliveryVars == <<accepted, waiting, in_hand, processed, dropped, ended>>

Init ==
    /\ accepted = 0
    /\ waiting = {} /\ in_hand = {} /\ processed = {} /\ dropped = {}
    /\ ended = FALSE

Accept ==
    /\ accepted' = accepted + 1
    /\ waiting' = waiting \cup {accepted + 1}
    /\ UNCHANGED <<in_hand, processed, dropped, ended>>

Take ==
    /\ waiting # {}
    /\ waiting' = waiting \ {Min(waiting)}
    /\ in_hand' = in_hand \cup {Min(waiting)}
    /\ UNCHANGED <<accepted, processed, dropped, ended>>

Process(i) ==
    /\ in_hand' = in_hand \ {i}
    /\ processed' = processed \cup {i}
    /\ UNCHANGED <<accepted, waiting, dropped, ended>>

Drop(i) ==
    /\ in_hand' = in_hand \ {i}
    /\ dropped' = dropped \cup {i}
    /\ UNCHANGED <<accepted, waiting, processed, ended>>

\* The end leaves nothing in hand; what is still waiting will never be taken.
End ==
    /\ in_hand = {}
    /\ ended' = TRUE
    /\ UNCHANGED <<accepted, waiting, in_hand, processed, dropped>>

Next ==
    /\ ~ended
    /\ \/ Accept \/ Take \/ End
       \/ \E i \in in_hand : Process(i) \/ Drop(i)

Spec == Init /\ [][Next]_deliveryVars
=============================================================================
