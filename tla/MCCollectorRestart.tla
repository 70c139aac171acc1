------------------------- MODULE MCCollectorRestart -------------------------
(* A collector of a few series over RunBound restarts, candles at every     *)
(* open time 0..MaxTime and REST pages of at most MaxPage of them.         *)
EXTENDS CollectorRestart

CONSTANTS MaxTime, MaxPage

MCTimes == 0 .. MaxTime
MCPages == SeqOf(MCTimes, MaxPage)
=============================================================================
