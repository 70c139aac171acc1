---------------------------- MODULE SymbolFilters ----------------------------
(***************************************************************************)
(* PriceFilter::floor and LotSizeFilter::floor: a candidate price or       *)
(* quantity is put on the grid an exchange demands of a contract.          *)
(* Decimals are integers in units of the smallest step.                    *)
(***************************************************************************)
EXTENDS Integers

CONSTANT Refused  \* the answer to a candidate that has no valid floor

ASSUME RefusedAssumption == Refused \notin Int

(* Mutant: the grid starts at zero, whatever the minimum is.               *)
FlooredFromZero(candidate, anchor, step) ==
    IF step > 0 THEN candidate - (candidate % step) ELSE candidate

(* A candidate not below the anchor loses what exceeds a whole number of   *)
(* steps above it; without a step it stays.                                *)
Floored(candidate, anchor, step) ==
    IF step > 0 THEN candidate - ((candidate - anchor) % step) ELSE candidate

(* A bound of a price filter is disabled when it is zero.                  *)
Enabled(bound) == bound > 0

Anchor(filter) == IF Enabled(filter.min) THEN filter.min ELSE 0

TooLow(filter, candidate) ==
    candidate <= 0 \/ (Enabled(filter.min) /\ candidate < filter.min)

TooHigh(filter, price) == Enabled(filter.max) /\ price > filter.max

PriceFloor(filter, candidate) ==
    LET price == Floored(candidate, Anchor(filter), filter.step)
    IN  IF TooLow(filter, candidate) \/ TooHigh(filter, price) THEN Refused ELSE price

(* The bounds of a quantity hold at zero too.                              *)
LotFloor(filter, candidate) ==
    LET quantity == Floored(candidate, filter.min, filter.step)
    IN  IF candidate < filter.min \/ quantity > filter.max THEN Refused ELSE quantity

-----------------------------------------------------------------------------
(* Any bounds and any step: nothing checks those of an exchange.           *)
Filters == [min : Int, max : Int, step : Int]

(* What the exchange takes: the points of the grid within the bounds.      *)
OnGrid(x, anchor, step) == x >= anchor /\ (step > 0 => (x - anchor) % step = 0)

IsBest(x, candidate, anchor, step) ==
    /\ OnGrid(x, anchor, step) /\ x <= candidate
    /\ \A y \in x + 1 .. candidate : ~OnGrid(y, anchor, step)

(* Within the bounds of the filter.                                        *)
PriceAllowed(filter, x) == x >= filter.min /\ (Enabled(filter.max) => x <= filter.max)

LotAllowed(filter, x) == filter.min <= x /\ x <= filter.max

(* The answer for a price is the last grid point not above the candidate,  *)
(* and within the bounds; a positive candidate is refused only if it has   *)
(* no such point.                                                          *)
IsPriceFloor(filter, candidate, answer) ==
    LET best(x) == IsBest(x, candidate, Anchor(filter), filter.step)
    IN  IF answer = Refused
        THEN candidate > 0 => \A x \in 0 .. candidate : best(x) => ~PriceAllowed(filter, x)
        ELSE candidate > 0 /\ best(answer) /\ PriceAllowed(filter, answer)

(* The same for a quantity.                                                *)
IsLotFloor(filter, candidate, answer) ==
    LET best(x) == IsBest(x, candidate, filter.min, filter.step)
    IN  IF answer = Refused
        THEN \A x \in filter.min .. candidate : best(x) => ~LotAllowed(filter, x)
        ELSE best(answer) /\ LotAllowed(filter, answer)
=============================================================================
