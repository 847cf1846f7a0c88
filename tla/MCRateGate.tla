----------------------------- MODULE MCRateGate -----------------------------
(***************************************************************************)
(* A small instance of the rate gate for TLC.                              *)
(***************************************************************************)
EXTENDS RateGateProperties

CONSTANTS c1, c2, c3, c4

\* With Tpm = 5: two calls that do not fit in one minute unless the first has
\* reported less, one that does not fit even then, and one above the limit.
SomeEstimates ==
    [c \in Calls |-> CASE c = c3 -> 4
                       [] c = c4 -> Tpm + 1
                       [] OTHER -> 3]
=============================================================================
