------------------------------- MODULE Download -------------------------------
(***************************************************************************)
(* download-klines: one klines request, and the candles of its answer      *)
(* counted by a fresh detector and appended to a file, over processes that *)
(* end anywhere and are started again on the same file.  A row carries the *)
(* close time the exchange gave it, which no code relates to its open      *)
(* time, and is final once the exchange's clock is past it; whether it is  *)
(* stored as closed is decided by the clock of the program.                *)
(***************************************************************************)
EXTENDS JsonlStore, Replay

CONSTANTS
    Malformed,  \* a row with a field missing, or one that does not decode
    Answers,    \* what the exchange may answer: sequences of candle times and such rows
    Requests,   \* what may be asked for; a bound of the range may be None
    MaxLimit,   \* the most candles one may ask for (1500)
    Skews,      \* how far the program's clock may be ahead of the exchange's
    MaxTime     \* bound of the clock

(* The open and the close time of a row that decodes.                      *)
CandleTimes == [open : Int, close : Int]

ASSUME DownloadAssumption ==
    /\ Malformed \notin CandleTimes
    /\ MaxTime \in Nat /\ MaxLimit \in Nat /\ Skews \subseteq Int
    /\ \A rows \in Answers :
          /\ rows \in Seq(CandleTimes \cup {Malformed})
          /\ \A i \in DOMAIN rows : rows[i] # Malformed =>
                \A closed, final \in BOOLEAN :
                    [open |-> rows[i].open, closed |-> closed, final |-> final] \in Records
    /\ \A request \in Requests : /\ request.limit \in Nat
                                 /\ {request.start, request.end} \subseteq Int \cup {None}

VARIABLES
    now,      \* the exchange's clock
    skew,     \* the program's clock is now + skew
    phase,    \* of the command: idle, asking or writing
    observed, \* the program's clock right before its request, or None
    answer,   \* the answer under way: its rows and when it was made, or None
    candles,  \* the parsed answer
    tally,    \* the detector and the counters of the command
    report,   \* what the command printed at its end, or None
    base      \* history: the lines before this process, None if a torn one followed

command == <<phase, observed, answer, candles, tally>>
downloadVars == <<vars, now, skew, command, report, base>>

-----------------------------------------------------------------------------
(* KlineRequest::validate.                                                 *)
IsValid(request) ==
    /\ request.limit \in 1 .. MaxLimit
    /\ (request.start # None /\ request.end # None) => request.start <= request.end

(* Mutant: the clock is read once the answer is there.                     *)
ReadAfterwards == now + skew

(* observed_at: the clock is read before the request is sent.              *)
ObservedAt == observed

(* parse_kline_row; "final" is what the exchange knows, and no field.      *)
ParseRow(row, made) ==
    [open |-> row.open, closed |-> row.close < ObservedAt, final |-> row.close < made]

FreshTally == [latest |-> None, gaps |-> 0, duplicates |-> 0, outOfOrder |-> 0, written |-> 0]

(* Mutant: the detector is moved past a gap.                               *)
TalliedPastGaps(t, candle) ==
    LET continuity == Continuity(t.latest, candle.open)
        One(kind)  == IF continuity = kind THEN 1 ELSE 0
    IN  [latest     |-> IF continuity = "Gap" THEN candle.open ELSE Observed(t.latest, candle.open),
         gaps       |-> t.gaps + One("Gap"),
         duplicates |-> t.duplicates + One("Duplicate"),
         outOfOrder |-> t.outOfOrder + One("OutOfOrder"),
         written    |-> t.written + 1]

(* One turn of the loop over the candles.                                  *)
Tallied(t, candle) ==
    LET continuity == Continuity(t.latest, candle.open)
        One(kind)  == IF continuity = kind THEN 1 ELSE 0
    IN  [latest     |-> Observed(t.latest, candle.open),
         gaps       |-> t.gaps + One("Gap"),
         duplicates |-> t.duplicates + One("Duplicate"),
         outOfOrder |-> t.outOfOrder + One("OutOfOrder"),
         written    |-> t.written + 1]

-----------------------------------------------------------------------------
NoCommand == /\ phase = "idle" /\ observed = None /\ answer = None
             /\ candles = <<>> /\ tally = FreshTally

DownloadInit ==
    /\ Init /\ NoCommand
    /\ now = 0 /\ skew \in Skews /\ report = None /\ base = 0

(* The memory of the process goes with it.                                 *)
Quit == /\ phase' = "idle" /\ observed' = None /\ answer' = None
        /\ candles' = <<>> /\ tally' = FreshTally

(* An error of the command, or a kill, while the file is left alone.       *)
Fail == Quit /\ Exit /\ UNCHANGED <<now, skew, report, base>>

Ask(request) ==
    /\ up /\ phase = "idle"
    /\ IF IsValid(request)
       THEN /\ phase' = "asking" /\ observed' = now + skew
            /\ UNCHANGED <<vars, now, skew, answer, candles, tally, report, base>>
       ELSE Fail

(* The exchange makes an answer; it has yet to travel.                     *)
Generate(rows) ==
    /\ phase = "asking" /\ answer = None
    /\ answer' = [rows |-> rows, made |-> now]
    /\ UNCHANGED <<vars, now, skew, phase, observed, candles, tally, report, base>>

(* One row that does not parse fails the whole answer.                     *)
Arrive ==
    /\ phase = "asking" /\ answer # None
    /\ IF \E i \in DOMAIN answer.rows : answer.rows[i] = Malformed
       THEN Fail
       ELSE /\ phase' = "writing" /\ answer' = None
            /\ candles' = [i \in DOMAIN answer.rows |-> ParseRow(answer.rows[i], answer.made)]
            /\ UNCHANGED <<vars, now, skew, observed, tally, report, base>>

RequestFails == phase = "asking" /\ Fail

(* The candle in hand is observed and then appended; an append that does   *)
(* not succeed ends the process.                                           *)
Store ==
    /\ phase = "writing" /\ tally.written < Len(candles)
    /\ LET candle == candles[tally.written + 1]
       IN  \/ /\ AppendOk(candle)
              /\ tally' = Tallied(tally, candle)
              /\ UNCHANGED <<phase, observed, answer, candles>>
           \/ AppendUnacked(candle) /\ Quit
           \/ (\E reached \in {"part", "whole"} : AppendTorn(candle, reached)) /\ Quit
           \/ AppendRefused /\ Quit
    /\ UNCHANGED <<now, skew, report, base>>

(* The counts are printed and the process ends.                            *)
Finish ==
    /\ phase = "writing" /\ tally.written = Len(candles)
    /\ report' = [stored |-> Len(candles), gaps |-> tally.gaps,
                  duplicates |-> tally.duplicates, outOfOrder |-> tally.outOfOrder]
    /\ Quit /\ Exit
    /\ UNCHANGED <<now, skew, base>>

(* The command is run again with the same output.                          *)
RunAgain ==
    /\ Restart
    /\ report' = None /\ base' = IF tail = "empty" THEN Len(lines) ELSE None
    /\ UNCHANGED <<now, skew, command>>

Tick == now < MaxTime /\ now' = now + 1 /\ UNCHANGED <<vars, skew, command, report, base>>

DownloadNext ==
    \/ \E request \in Requests : Ask(request)
    \/ \E rows \in Answers : Generate(rows)
    \/ Arrive \/ RequestFails \/ Store \/ Finish \/ RunAgain \/ Tick

DownloadSpec == DownloadInit /\ [][DownloadNext]_downloadVars

-----------------------------------------------------------------------------
(* The file and the command stay in their domains; what is counted and not *)
(* yet written, or held by a process that is gone, does not exist.         *)
DownloadTypeOK ==
    /\ TypeOK
    /\ now \in 0 .. MaxTime /\ skew \in Skews
    /\ phase \in {"idle", "asking", "writing"} /\ (phase = "idle" => NoCommand)
    /\ (phase # "idle" => up /\ observed \in Int) /\ (report # None => ~up)
    /\ tally.written \in 0 .. Len(candles) /\ (phase = "asking" => tally.written = 0)
    /\ base # None => base \in 0 .. Len(lines) - tally.written

(* A candle stored as closed will not change any more, however long its    *)
(* answer travelled, if the program's clock is not ahead.                  *)
ClosedIsFinal ==
    skew <= 0 => \A i \in DOMAIN Content :
                     Content[i] # Garbled /\ Content[i].closed => Content[i].final

(* "True only when the exchange says the candle is closed": whatever the   *)
(* program's clock shows, a candle stored as closed had closed when the    *)
(* exchange answered.                                                      *)
ClosedIsTheExchanges ==
    \A i \in DOMAIN Content : Content[i] # Garbled /\ Content[i].closed => Content[i].final

(* "replay" of what a command added to a file finds what the command has   *)
(* reported: as many candles, and each counter the same.                   *)
ReportsAgree ==
    report # None /\ base # None =>
        LET added  == SubSeq(lines, base + 1, Len(lines))
            counts == ReplayOf([i \in DOMAIN added |-> added[i].open])
        IN  /\ report.stored = Len(added) /\ report.gaps = counts.gaps
            /\ report.duplicates = counts.duplicates /\ report.outOfOrder = counts.outOfOrder
=============================================================================
