-------------------------- MODULE CollectorRestart --------------------------
(***************************************************************************)
(* watch-klines over several runs on the same output directory: the store  *)
(* outlives the process, the detector does not.  A run may end at any step *)
(* of ingestion (a crash, an error, Ctrl-C) and the next one begins with   *)
(* GapDetector::default(); replay is run over what the file then holds.    *)
(* Appends are taken to be whole here; torn ones are JsonlStore's.         *)
(***************************************************************************)
EXTENDS Ingest, Replay

CONSTANT RunBound  \* bound: how often the collector is started again

ASSUME RunAssumption == RunBound \in Nat

VARIABLES
    firsts,  \* history: per series, the places in the store where the
             \* first candle of a run went
    runs     \* history: restarts so far

runVars == <<firsts, runs>>

RestartInit == Init /\ firsts = [k \in Keys |-> {1}] /\ runs = 0

Collect == Next /\ UNCHANGED runVars

(* What reached the disk of the candle being written.                      *)
Survives(candles) == \/ store' = store
                     \/ /\ phase = "writing"
                        /\ store' = [store EXCEPT ![series] = Append(@, candles[1])]

(* The memory of the new process.                                          *)
Forget(next) == next = [k \in Keys |-> None]

Reboot ==
    /\ runs < RunBound /\ runs' = runs + 1
    /\ Survives(todo)
    /\ Forget(latest') /\ newest' = [k \in Keys |-> None]
    /\ phase' = "idle" /\ series' = None /\ todo' = <<>>
    /\ fill' = "idle" /\ start' = 0 /\ end' = 0 /\ cursor' = 0 /\ recovered' = <<>>
    /\ firsts' = [k \in Keys |-> firsts[k] \cup {Len(store'[k]) + 1}]

RestartNext == Collect \/ Reboot

RestartSpec == RestartInit /\ [][RestartNext]_<<vars, runVars>>

-----------------------------------------------------------------------------
(* Over any number of crashes, wherever they strike, the store breaks only *)
(* where a run began: whatever a run writes continues what it wrote.       *)
BreaksOnlyAtRestarts ==
    \A k \in Keys : \A i \in 2 .. Len(store[k]) :
        i \in firsts[k] \/ store[k][i] = NextOpen(store[k][i - 1])

(* Replay is honest: it counts no gap, duplicate or misplaced candle if    *)
(* and only if every candle of the file continues the one before it.       *)
ReplayTellsBreaks ==
    \A k \in Keys :
        LET counts == ReplayOf(store[k])
        IN  counts.gaps + counts.duplicates + counts.outOfOrder = 0 <=>
                \A i \in 2 .. Len(store[k]) : store[k][i] = NextOpen(store[k][i - 1])

(* "Missing, duplicate, and out-of-order candles are reported explicitly": *)
(* a candle the file holds twice is counted as a repetition, the second    *)
(* time it comes, as a duplicate or as one out of order.                   *)
RepetitionsAreReported ==
    \A k \in Keys :
        LET counts == ReplayOf(store[k])
        IN  (\E i, j \in 1 .. Len(store[k]) : i < j /\ store[k][i] = store[k][j])
                => counts.duplicates + counts.outOfOrder > 0
=============================================================================
