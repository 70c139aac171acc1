---------------------------- MODULE MCWatchKlines ----------------------------
(* The collector on open times 0..MaxTime; a REST page has at most MaxPage  *)
(* of them, in any order.                                                  *)
EXTENDS WatchKlines, SequencesExt

CONSTANTS MaxTime, MaxPage

MCTimes == 0 .. MaxTime
(* Every candle closed, and one frame of a candle that is not.             *)
MCFrames ==
    [candle : [key : Keys, open : Times], closed : {TRUE}]
      \cup [candle : [key : Keys, open : {0}], closed : {FALSE}]

MCPages == SeqOf(MCTimes, MaxPage)
=============================================================================
