------------------------------ MODULE MCIngest ------------------------------
(* Ingest for a few series, candles on a grid of open times and beside it. *)
(* REST answers with every page that could be full, and with overlong      *)
(* ones: a run of candles whose last one is anything.                      *)
EXTENDS Ingest, SequencesExt

CONSTANTS MaxTime, OffGrid

MCTimes == {t \in 0 .. MaxTime : t % Step = 0} \cup OffGrid

Run(open) == [i \in 1 .. PageLimit |-> open + (i - 1) * Step]

MCPages == SeqOf(MCTimes, PageLimit) \cup {Append(Run(a), b) : a, b \in MCTimes}
=============================================================================
