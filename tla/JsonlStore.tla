----------------------------- MODULE JsonlStore -----------------------------
(***************************************************************************)
(* JsonlStore: an append-only file of JSON lines, over processes that are  *)
(* killed, or whose disk fails, in the middle of an append, and started    *)
(* again on the same file.  A record is written in one write_all with its  *)
(* newline and synced before append returns; write_all is not atomic.      *)
(* Every error of a write is taken to be returned by append: append does   *)
(* not flush the tokio file, whose writes go on behind write_all, so that  *)
(* it is left to the library that sync_data reports how they ended.        *)
(***************************************************************************)
EXTENDS Integers, Sequences

CONSTANTS
    Records,      \* what is appended
    Garbled,      \* a line that is not one JSON document
    AppendBound   \* bound: how many appends are made, ended or not

ASSUME StoreAssumption == Garbled \notin Records /\ AppendBound \in Nat

VARIABLES
    lines,      \* the lines of the file that end in a newline
    tail,       \* what follows the last newline: "empty", "part" of one
                \* record or of several, or "whole", one record
    tailRecord, \* the record of a whole tail
    up,         \* a process has the file in use
    acked,      \* history: the records whose append returned Ok
    appends     \* history: appends begun

vars == <<lines, tail, tailRecord, up, acked, appends>>

-----------------------------------------------------------------------------
Init ==
    /\ lines = <<>> /\ tail = "empty" /\ tailRecord = Garbled
    /\ up = TRUE /\ acked = <<>> /\ appends = 0

Begin == up /\ appends < AppendBound /\ appends' = appends + 1

(* The file is opened to append, so a record lands behind whatever an      *)
(* earlier one left there and makes one line with it.                      *)
Landed(record) == IF tail = "empty" THEN record ELSE Garbled

(* Mutant: the newline is forgotten.                                       *)
AppendWithoutNewline(record) ==
    /\ Begin
    /\ tail' = "part" /\ tailRecord' = Garbled
    /\ acked' = Append(acked, record)
    /\ UNCHANGED <<lines, up>>

AppendOk(record) ==
    /\ Begin
    /\ lines' = Append(lines, Landed(record))
    /\ tail' = "empty" /\ tailRecord' = Garbled
    /\ acked' = Append(acked, record)
    /\ UNCHANGED up

(* The record is on the disk but the process does not live to know it.     *)
AppendUnacked(record) ==
    /\ Begin
    /\ lines' = Append(lines, Landed(record))
    /\ tail' = "empty" /\ tailRecord' = Garbled
    /\ up' = FALSE
    /\ UNCHANGED acked

(* The append ends in the middle of the record, or right before its        *)
(* newline: the error ends the process, or the crash was the cause.        *)
AppendTorn(record, reached) ==
    /\ Begin
    /\ IF tail = "empty" /\ reached = "whole"
       THEN tail' = "whole" /\ tailRecord' = record
       ELSE tail' = "part" /\ tailRecord' = Garbled
    /\ up' = FALSE
    /\ UNCHANGED <<lines, acked>>

(* Nothing of the record reached the file: no room, no permission.         *)
AppendRefused ==
    /\ Begin
    /\ up' = FALSE
    /\ UNCHANGED <<lines, tail, tailRecord, acked>>

(* The process ends between two appends.                                   *)
Exit == up /\ up' = FALSE /\ UNCHANGED <<lines, tail, tailRecord, acked, appends>>

(* The operator starts the program on the same output directory; nothing   *)
(* looks at the file.                                                      *)
Restart == ~up /\ up' = TRUE /\ UNCHANGED <<lines, tail, tailRecord, acked, appends>>

Next ==
    \/ \E r \in Records : AppendOk(r) \/ AppendUnacked(r)
    \/ \E r \in Records, reached \in {"part", "whole"} : AppendTorn(r, reached)
    \/ AppendRefused
    \/ Exit
    \/ Restart

Spec == Init /\ [][Next]_vars

-----------------------------------------------------------------------------
(* Mutant: lines that do not decode are skipped.                           *)
ReadableAnyway == TRUE

(* read_all: the lines in file order, or an error if one does not decode;  *)
(* no strict prefix of a JSON object decodes.                              *)
Readable == tail # "part" /\ \A i \in 1 .. Len(lines) : lines[i] # Garbled

Content == IF tail = "whole" THEN Append(lines, tailRecord) ELSE lines

-----------------------------------------------------------------------------
(* The variables stay in their domains, and every acknowledged append      *)
(* ended a line of the file.                                               *)
TypeOK ==
    /\ lines \in Seq(Records \cup {Garbled})
    /\ tail \in {"empty", "part", "whole"}
    /\ tailRecord \in Records \cup {Garbled} /\ (tailRecord # Garbled <=> tail = "whole")
    /\ up \in BOOLEAN
    /\ acked \in Seq(Records)
    /\ appends \in 0 .. AppendBound /\ Len(acked) <= Len(lines)

(* A file that can be read is complete: every record whose append returned *)
(* is in it, in order, whatever crashes the file went through.  What can   *)
(* be lost is lost with an error, never silently.                          *)
ReadIsComplete ==
    Readable => \E place \in [DOMAIN acked -> DOMAIN Content] :
                    \A i \in DOMAIN acked :
                        /\ Content[place[i]] = acked[i]
                        /\ \A j \in 1 .. i - 1 : place[j] < place[i]

(* "Every persisted candle can be replayed in deterministic file order."   *)
PersistedCanBeReplayed == acked # <<>> => Readable
=============================================================================
