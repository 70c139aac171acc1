------------------------------ MODULE MCDownload ------------------------------
(* Answers of up to MaxRows rows over a few candles, in any order, whose    *)
(* close times keep no fixed distance from their open times; a clock on     *)
(* time, behind and ahead; requests at each end of what is valid.           *)
EXTENDS Download

CONSTANT MaxRows

MCRows == {[open |-> 0, close |-> 0], [open |-> 1, close |-> 2], [open |-> 2, close |-> 2]}

MCRecords == [open : 0 .. 2, closed : BOOLEAN, final : BOOLEAN]

MCAnswers == SeqOf(MCRows, MaxRows) \cup {<<[open |-> 0, close |-> 0], Malformed>>}

MCSkews == {-1, 0, 1}

MCRequests == {[limit |-> 1, start |-> None, end |-> 0], [limit |-> 2, start |-> 1, end |-> 1],
               [limit |-> 0, start |-> None, end |-> None],
               [limit |-> 3, start |-> None, end |-> None],
               [limit |-> 1, start |-> 1, end |-> 0]}
=============================================================================
