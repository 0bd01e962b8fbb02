-------------------------------- MODULE Money --------------------------------
(***************************************************************************)
(* Money in paise.  The portfolio keeps Decimals quantized to 0.01 INR and *)
(* the paper broker rounds every price and fee to two places, so an amount *)
(* is an integer number of paise; a quotient is rounded half to even       *)
(* (ROUND_HALF_EVEN, and Python's round()).                                *)
(***************************************************************************)
EXTENDS Integers

\* round_money(n / d) for d > 0.  \div rounds towards minus infinity.
RoundDiv(n, d) ==
    LET floor == n \div d
        twice == 2 * (n % d)
    IN  IF twice > d \/ (twice = d /\ floor % 2 = 1) THEN floor + 1 ELSE floor

AbsVal(n) == IF n < 0 THEN -n ELSE n

LesserOf(m, n) == IF m < n THEN m ELSE n
==============================================================================
