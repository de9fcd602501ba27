--------------------------- MODULE MCBlinkTimers ---------------------------
(***************************************************************************)
(* BlinkTimers for TLC: only the set of start periods needs a name here.   *)
(***************************************************************************)
EXTENDS BlinkTimers

\* Two periods; one is odd so that the roundings matter, and both reach
\* unequal phases within a few button steps.
StartPeriods == {6, 9}

\* One period whose steps pass every shape on their way down to 0 and up to the
\* overflow, and the "periods" of the arguments 0 and -1.
AnyPeriods == {8, 0, -1}
=============================================================================
