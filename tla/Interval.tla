------------------------------- MODULE Interval -------------------------------
(***************************************************************************)
(* The duration of the interval of a series of candles, on which the       *)
(* detector and the recovery agree: open times lie on a grid of it.        *)
(***************************************************************************)
EXTENDS Integers

CONSTANT Step  \* Interval::duration, in milliseconds

ASSUME StepAssumption == Step \in Nat \ {0}
=============================================================================
