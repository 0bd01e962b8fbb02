------------------------- MODULE MCPortfolioClient -------------------------
(***************************************************************************)
(* Sizes 1 and 2 on both sides reach every branch of process_fill; prices  *)
(* one paisa apart make the weighted average round both ways.              *)
(***************************************************************************)
EXTENDS PortfolioClient

MCFillDeltas == {-3, -1, 1, 2}
MCFillPrices == {100, 101, 104}
MCFees == {3}
MCDays == 1..2
==============================================================================
