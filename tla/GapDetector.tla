---------------------------- MODULE GapDetector ----------------------------
(***************************************************************************)
(* The classification at the heart of GapDetector::observe: a candle's     *)
(* open time against the latest one the detector accepted for its series   *)
(* (symbol and interval).  Open times are integers (milliseconds in the    *)
(* code) on the grid of Interval.                                          *)
(***************************************************************************)
EXTENDS Interval

CONSTANT None  \* a series the detector has not seen

ASSUME NoneAssumption == None \notin Int

(* The open time that continues a series. *)
NextOpen(open) == open + Step

(* GapDetector::observe on a candle of open time "open" when "previous" is  *)
(* the latest accepted one.                                                *)
Continuity(previous, open) ==
    IF previous = None THEN "First"
    ELSE CASE open = previous           -> "Duplicate"
           [] open = NextOpen(previous) -> "Continuous"
           [] open > NextOpen(previous) -> "Gap"
           [] OTHER                     -> "OutOfOrder"

(* Mutants: the detector jumps over a gap, or goes back.                   *)
AdvancesOverGap(continuity) == continuity \in {"First", "Continuous", "Gap"}
AdvancesBackwards(continuity) == continuity \in {"First", "Continuous", "OutOfOrder"}

(* The two answers on which the detector moves to the candle it observed.  *)
Advances(continuity) == continuity \in {"First", "Continuous"}

(* What the detector holds for the series after observing the candle.      *)
Observed(previous, open) ==
    IF Advances(Continuity(previous, open)) THEN open ELSE previous
=============================================================================
