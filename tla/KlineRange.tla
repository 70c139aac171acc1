------------------------------ MODULE KlineRange ------------------------------
(***************************************************************************)
(* The half-open ranges of candles that REST can be asked for, and the     *)
(* limits on them: what backfill_candle_count and KlineRequest::validate   *)
(* accept.                                                                 *)
(***************************************************************************)
EXTENDS Interval, Sequences

CONSTANTS
    PageLimit,   \* the largest page a request asks for (1500 in the code)
    MaxCandles,  \* the longest range accepted (100000 in the code)
    Times,       \* the open times a caller may ask for
    Pages        \* the answers of the server: sequences of open times

ASSUME BackfillAssumption ==
    /\ PageLimit \in Nat \ {0}
    /\ MaxCandles \in Nat \ {0}
    /\ Times \subseteq Int
    /\ Pages \subseteq Seq(Int)

(* backfill_candle_count: the candles of a range, and the ranges it takes. *)
CandleCount(s, e) == (e - s) \div Step

(* Mutant: a range that ends between two candles is taken.                 *)
RangeMayBeUnaligned(s, e) == e - s > 0 /\ CandleCount(s, e) <= MaxCandles

(* Mutant: a range is taken however long it is.                            *)
RangeMayBeLong(s, e) == e - s > 0 /\ (e - s) % Step = 0

RangeIsValid(s, e) ==
    /\ e - s > 0
    /\ (e - s) % Step = 0
    /\ CandleCount(s, e) <= MaxCandles

(* KlineRequest::validate, which runs before a request is sent.            *)
RequestIsValid(request) ==
    /\ request.limit \in 1 .. PageLimit
    /\ request.startTime <= request.endTime
=============================================================================
