------------------------------ MODULE Backfill ------------------------------
(***************************************************************************)
(* BinancePublicClient::backfill_klines: the pages of one REST recovery of *)
(* a half-open range of candles.  The server is not trusted: a page is any *)
(* sequence of open times it may choose to answer with.                    *)
(***************************************************************************)
EXTENDS KlineRange

VARIABLES
    fill,        \* where the call is: idle, fetching, done or failed
    start, end,  \* the half-open range that was asked for
    cursor,      \* the open time expected next
    recovered    \* the open times collected so far

vars == <<fill, start, end, cursor, recovered>>

-----------------------------------------------------------------------------
(* The request for the rest of the range.                                  *)
Remaining == CandleCount(cursor, end)

(* Mutant: the limit is not capped to one page.                            *)
UncappedRequest == [startTime |-> cursor, endTime |-> end - 1, limit |-> Remaining]

Request ==
    [startTime |-> cursor,
     endTime   |-> end - 1,
     limit     |-> IF Remaining < PageLimit THEN Remaining ELSE PageLimit]

(* The open time the loop expects at the i-th candle of a page, the cursor *)
(* having moved one interval for each of the i - 1 candles before it.      *)
Expects(i) == cursor + (i - 1) * Step

(* Mutant: the open times of a page are not compared with the cursor.      *)
TakesUnchecked(page, n) ==
    /\ n \in 0 .. Len(page)
    /\ \A i \in 1 .. n : page[i] < end
    /\ n < Len(page) => page[n + 1] >= end

(* The loop over a page collects its first n candles: each is the expected *)
(* one inside the range, and the next one is not.                          *)
Takes(page, n) ==
    /\ n \in 0 .. Len(page)
    /\ \A i \in 1 .. n : page[i] = Expects(i) /\ page[i] < end
    /\ n < Len(page) => page[n + 1] >= end \/ page[n + 1] # Expects(n + 1)

(* Mutant: a page must be full.                                            *)
DemandsFullPage(page, n) == n < Request.limit

(* The candle after the n collected ones lies inside the range but is not  *)
(* the expected one: the whole recovery fails.                             *)
Mismatch(page, n) == n < Len(page) /\ page[n + 1] < end

(* The answer when the range is covered: the final count is checked.       *)
Verdict(candles) ==
    IF Len(candles) = CandleCount(start, end) THEN "done" ELSE "failed"

-----------------------------------------------------------------------------
NothingHeld == start = 0 /\ end = 0 /\ cursor = 0 /\ recovered = <<>>

Init == fill = "idle" /\ NothingHeld

Begin(s, e) ==
    /\ fill = "idle"
    /\ IF RangeIsValid(s, e)
       THEN /\ fill' = "fetching"
            /\ start' = s /\ end' = e /\ cursor' = s
            /\ UNCHANGED recovered
       ELSE fill' = "failed" /\ UNCHANGED <<start, end, cursor, recovered>>

(* A page that starts where the last one ended moves the cursor.           *)
PageExtends(page) ==
    /\ fill = "fetching"
    /\ \E n \in 1 .. Len(page) :
          /\ Takes(page, n) /\ ~Mismatch(page, n)
          /\ cursor' = Expects(n + 1)
          /\ recovered' = recovered \o SubSeq(page, 1, n)
    /\ fill' = IF cursor' < end THEN "fetching" ELSE Verdict(recovered')
    /\ UNCHANGED <<start, end>>

(* Mutant: such a page makes the recovery start again.                     *)
PageRestarts(page) ==
    /\ fill = "fetching"
    /\ \E n \in 0 .. Len(page) : Takes(page, n) /\ (n = 0 \/ Mismatch(page, n))
    /\ cursor' = start /\ recovered' = <<>>
    /\ UNCHANGED <<fill, start, end>>

(* An empty page, a page that makes no progress, or one with a hole.       *)
PageRejected(page) ==
    /\ fill = "fetching"
    /\ \E n \in 0 .. Len(page) :
          Takes(page, n) /\ (n = 0 \/ Mismatch(page, n))
    /\ fill' = "failed"
    /\ UNCHANGED <<start, end, cursor, recovered>>

(* The request times out, is refused by the transport or answered with an  *)
(* error status.                                                           *)
RequestFails ==
    /\ fill = "fetching"
    /\ fill' = "failed"
    /\ UNCHANGED <<start, end, cursor, recovered>>

(* The caller takes the result; the locals of the call are gone.           *)
Return ==
    /\ fill \in {"done", "failed"}
    /\ fill' = "idle"
    /\ start' = 0 /\ end' = 0 /\ cursor' = 0 /\ recovered' = <<>>

Fetch == (\E page \in Pages : PageExtends(page) \/ PageRejected(page)) \/ RequestFails

Next == (\E s, e \in Times : Begin(s, e)) \/ Fetch \/ Return

Spec == Init /\ [][Next]_vars

-----------------------------------------------------------------------------
(* The variables stay in their domains, and however many pages the server  *)
(* answers with, a call never holds more candles than a range may have.    *)
TypeOK ==
    /\ fill \in {"idle", "fetching", "done", "failed"}
    /\ start \in Int /\ end \in Int /\ cursor \in Int
    /\ recovered \in Seq(Int) /\ Len(recovered) <= MaxCandles

(* The cursor and the candles collected so far never disagree: the i-th    *)
(* one is the i-th of the range, whatever the pages were cut into.         *)
RecoveredIsPrefix ==
    /\ \A i \in 1 .. Len(recovered) : recovered[i] = start + (i - 1) * Step
    /\ cursor = start + Len(recovered) * Step

(* Whatever pages the server answers with, a call that returns candles     *)
(* returns every candle of the range it was asked for and no other, in     *)
(* order: the loop of backfill_klines proves continuity as it claims.      *)
DoneIsWholeRange ==
    fill = "done" =>
        recovered = [i \in 1 .. CandleCount(start, end) |-> start + (i - 1) * Step]

(* No request of the loop is refused by KlineRequest::validate, and none   *)
(* asks for more than one page: the limit is computed from the cursor,     *)
(* which the answers of the server move.                                   *)
RequestsAreValid == fill = "fetching" => RequestIsValid(Request)

(* Whatever the server answers with, the cursor moves over the candles of  *)
(* the range and never past its end, nor between two of them.              *)
CursorStaysInRange ==
    fill \in {"fetching", "done"} =>
        start <= cursor /\ cursor <= end /\ (end - cursor) % Step = 0

(* A truthful answer: a non-empty beginning of the page asked for.         *)
Honest(page) ==
    /\ Len(page) \in 1 .. Request.limit
    /\ \A i \in 1 .. Len(page) : page[i] = Expects(i)

(* The checks reject no truthful answer, however short its pages: it is    *)
(* taken whole, moves the cursor over all of its candles, and if it covers *)
(* the rest of the range the final count agrees.  As calls return, a       *)
(* server that answers truthfully completes the recovery.                  *)
HonestPageIsTaken ==
    fill = "fetching" =>
        \A page \in Pages : Honest(page) =>
            /\ Takes(page, Len(page)) /\ ~Mismatch(page, Len(page))
            /\ Expects(Len(page) + 1) >= end => Verdict(recovered \o page) = "done"
=============================================================================
