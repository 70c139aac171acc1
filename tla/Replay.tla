------------------------------- MODULE Replay -------------------------------
(***************************************************************************)
(* replay (and the counting of download-klines): a fresh GapDetector over  *)
(* the candles of a file, in file order, and what it counts.  One series;  *)
(* the counts of the command are the sums over the series of the file.     *)
(***************************************************************************)
EXTENDS GapDetector, SequencesExt

NoCounts == [latest |-> None, continuous |-> 0, gaps |-> 0, duplicates |-> 0, outOfOrder |-> 0]

(* Mutant: what follows a gap is counted as continuous again.              *)
CounterIgnoresGaps(continuity) ==
    CASE Advances(continuity) \/ continuity = "Gap" -> "continuous"
      [] continuity = "Duplicate"   -> "duplicates"
      [] continuity = "OutOfOrder"  -> "outOfOrder"

(* The counter an answer of the detector goes to.                          *)
Counter(continuity) ==
    CASE Advances(continuity)       -> "continuous"
      [] continuity = "Gap"         -> "gaps"
      [] continuity = "Duplicate"   -> "duplicates"
      [] continuity = "OutOfOrder"  -> "outOfOrder"

(* One candle of the file.                                                 *)
Count(counts, open) ==
    [counts EXCEPT !.latest = Observed(@, open),
                   ![Counter(Continuity(counts.latest, open))] = @ + 1]

ReplayOf(candles) == FoldLeft(Count, NoCounts, candles)
=============================================================================
