----------------------------- MODULE CandleLog -----------------------------
(***************************************************************************)
(* What the collector promises of closed-klines.jsonl: per series, a log   *)
(* that only grows, one candle at a time, and never has a hole, a repeated *)
(* candle or a candle out of order.                                        *)
(***************************************************************************)
EXTENDS Integers, Sequences

CONSTANTS
    Keys,   \* the series: pairs of symbol and interval
    Times,  \* open times a series may start at
    Step    \* duration of the interval

VARIABLE log  \* per series, the open times of the persisted candles

Init == log = [k \in Keys |-> <<>>]

(* A series starts at any candle and goes on with the one that follows.    *)
Candidates(k) ==
    IF log[k] = <<>> THEN Times ELSE {log[k][Len(log[k])] + Step}

Persist(k, t) == log' = [log EXCEPT ![k] = Append(@, t)]

Next == \E k \in Keys : \E t \in Candidates(k) : Persist(k, t)

Spec == Init /\ [][Next]_log
=============================================================================
