----------------------------- MODULE MCTelemetry -----------------------------
(***************************************************************************)
(* A position, long or short, is opened and closed at a profit while Redis *)
(* comes and goes, and the process starts again once.                      *)
(***************************************************************************)
EXTENDS Telemetry

MCFills == {[delta |-> 1, price |-> 100, fee |-> 1, day |-> 1],
            [delta |-> -1, price |-> 102, fee |-> 1, day |-> 1]}
MCMarkPrices == {101}
MCDays == {1}
==============================================================================
