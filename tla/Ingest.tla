------------------------------- MODULE Ingest -------------------------------
(***************************************************************************)
(* ingest_with_backfill and accept_recovered of watch-klines: how a closed *)
(* candle of the stream reaches closed-klines.jsonl, with the recovery of  *)
(* the candles that are missing before it.  One call runs at a time and    *)
(* every await of it is a step: the pages of the recovery, the appends.    *)
(***************************************************************************)
EXTENDS GapDetector, KlineRange

CONSTANT Keys  \* the series: pairs of symbol and interval

ASSUME IngestAssumption == None \notin Keys

VARIABLES
    latest,  \* GapDetector.latest: per series, None or an open time
    store,   \* closed-klines.jsonl: per series, the open times persisted
    phase,   \* where the call is: idle, filling, accepting, writing, failed
    series,  \* the series of the candle in hand, None when there is none
    todo,    \* the candles in hand, in the order they are to be appended
    fill, start, end, cursor, recovered,  \* the recovery: see Backfill
    newest   \* history: per series, the newest open time handed to the call

Fill == INSTANCE Backfill

fillVars == <<fill, start, end, cursor, recovered>>
callVars == <<latest, store, phase, series, todo>>
vars     == <<callVars, fillVars, newest>>

-----------------------------------------------------------------------------
Init ==
    /\ latest = [k \in Keys |-> None]
    /\ store = [k \in Keys |-> <<>>]
    /\ phase = "idle" /\ series = None /\ todo = <<>>
    /\ Fill!Init
    /\ newest = [k \in Keys |-> None]

Newer(k, t) == IF newest[k] = None \/ newest[k] < t THEN t ELSE newest[k]

HandOver(k, t) == phase = "idle" /\ newest' = [newest EXCEPT ![k] = Newer(k, t)]

(* The detector moves to the candle before the candle is persisted.        *)
Take(k, t) ==
    /\ HandOver(k, t)
    /\ Advances(Continuity(latest[k], t))
    /\ latest' = [latest EXCEPT ![k] = Observed(@, t)]
    /\ phase' = "writing" /\ series' = k /\ todo' = <<t>>
    /\ UNCHANGED <<store, fillVars>>

(* Mutant: a gap is logged and dropped too.                                *)
DroppedWithGaps(continuity) == continuity \in {"Duplicate", "OutOfOrder", "Gap"}

(* A duplicate or a candle out of order is logged and dropped.             *)
Dropped(continuity) == continuity \in {"Duplicate", "OutOfOrder"}

Ignore(k, t) ==
    /\ HandOver(k, t)
    /\ Dropped(Continuity(latest[k], t))
    /\ UNCHANGED <<callVars, fillVars>>

(* Mutant: the range starts at the candle the detector already has.        *)
GapRangeFromLatest(previous, open) == <<previous, open>>

(* The range to recover: from the expected candle up to the one in hand.   *)
GapRange(previous, open) == <<NextOpen(previous), open>>

DetectGap(k, t) ==
    /\ HandOver(k, t)
    /\ Continuity(latest[k], t) = "Gap"
    /\ LET range == GapRange(latest[k], t) IN Fill!Begin(range[1], range[2])
    /\ phase' = "filling" /\ series' = k /\ todo' = <<t>>
    /\ UNCHANGED <<latest, store>>

Offer(k, t) == Take(k, t) \/ Ignore(k, t) \/ DetectGap(k, t)

FetchPage == phase = "filling" /\ Fill!Fetch /\ UNCHANGED <<callVars, newest>>

(* The recovered candles go first, the one that revealed the gap last.     *)
InOrder(missing, inHand) == missing \o inHand

Recover ==
    /\ phase = "filling" /\ fill = "done"
    /\ todo' = InOrder(recovered, todo)
    /\ phase' = "accepting"
    /\ Fill!Return
    /\ UNCHANGED <<latest, store, series, newest>>

(* Mutant: a failed recovery is tried again.                               *)
RecoveryRetries ==
    /\ phase = "filling" /\ fill = "failed"
    /\ fill' = "fetching" /\ recovered' = <<>>
    /\ start' = NextOpen(latest[series]) /\ cursor' = start' /\ end' = Head(todo)
    /\ UNCHANGED <<callVars, newest>>

(* Any error of the recovery ends the call and, through it, the collector. *)
RecoveryFails ==
    /\ phase = "filling" /\ fill = "failed"
    /\ phase' = "failed"
    /\ Fill!Return
    /\ UNCHANGED <<latest, store, series, todo, newest>>

(* accept_recovered: the detector must agree before the candle is written. *)
AcceptNext ==
    /\ phase = "accepting"
    /\ LET open == Head(todo) IN
          /\ phase' = IF Advances(Continuity(latest[series], open))
                      THEN "writing" ELSE "failed"
          /\ latest' = [latest EXCEPT ![series] = Observed(@, open)]
    /\ UNCHANGED <<store, series, todo, fillVars, newest>>

(* The call returns.                                                       *)
Settle == phase' = "idle" /\ series' = None

(* JsonlStore::append returned: on to the next candle in hand.             *)
WriteOk ==
    /\ phase = "writing"
    /\ store' = [store EXCEPT ![series] = Append(@, Head(todo))]
    /\ todo' = Tail(todo)
    /\ IF todo' = <<>>
       THEN Settle
       ELSE phase' = "accepting" /\ UNCHANGED series
    /\ UNCHANGED <<latest, fillVars, newest>>

(* Mutant: an append that fails is logged.                                 *)
WriteFailureLogged ==
    /\ phase = "writing"
    /\ phase' = "idle" /\ series' = None /\ todo' = <<>>
    /\ UNCHANGED <<latest, store, fillVars, newest>>

WriteFails ==
    /\ phase = "writing"
    /\ phase' = "failed"
    /\ UNCHANGED <<latest, store, series, todo, fillVars, newest>>

(* The steps of a call that has been made.                                 *)
Proceed ==
    FetchPage \/ Recover \/ RecoveryFails \/ AcceptNext \/ WriteOk \/ WriteFails

(* After an error the collector is gone.                                   *)
Stopped == phase = "failed" /\ UNCHANGED vars

Next == (\E k \in Keys, t \in Times : Offer(k, t)) \/ Proceed \/ Stopped

Spec == Init /\ [][Next]_vars /\ WF_vars(Proceed)

-----------------------------------------------------------------------------
LastStored(k) == IF store[k] = <<>> THEN None ELSE store[k][Len(store[k])]

(* The variables stay in their domains, and one call never holds more than *)
(* the longest range REST is asked for and the candle that revealed it.    *)
TypeOK ==
    /\ latest \in [Keys -> Int \cup {None}]
    /\ store \in [Keys -> Seq(Int)]
    /\ phase \in {"idle", "filling", "accepting", "writing", "failed"}
    /\ series \in Keys \cup {None} /\ (series = None <=> phase = "idle")
    /\ todo \in Seq(Int) /\ Len(todo) <= MaxCandles + 1
    /\ Fill!TypeOK
    /\ newest \in [Keys -> Int \cup {None}]

(* No series of the store has a hole, a repeated or a misplaced candle,    *)
(* whatever the stream delivers and whatever REST answers.                 *)
StoreIsContiguous ==
    \A k \in Keys : \A i \in 1 .. Len(store[k]) - 1 :
        store[k][i + 1] = NextOpen(store[k][i])

(* The detector, which moves before the append, is ahead of the store by   *)
(* the candle being written and by no other: an append that fails leaves a *)
(* collector that has stopped, never one that goes on with a hole.         *)
DetectorMatchesStore ==
    \A k \in Keys : latest[k] # LastStored(k) =>
        /\ k = series /\ phase \in {"writing", "failed"}
        /\ latest[k] = Head(todo)

(* Between two calls nothing the stream delivered is missing: the store of *)
(* a series ends less than one interval before the newest candle handed    *)
(* over, so a dropped candle was one the store already covers.             *)
CaughtUp ==
    phase = "idle" => \A k \in Keys : newest[k] # None =>
        LastStored(k) # None /\ newest[k] < NextOpen(LastStored(k))

(* The error "REST recovery did not restore continuity" cannot occur: what *)
(* backfill_klines accepts is what the detector accepts, candle by candle, *)
(* the one that revealed the gap included.                                 *)
RecoveryRestoresContinuity ==
    phase = "accepting" => Continuity(latest[series], Head(todo)) = "Continuous"

(* Whatever pages the server answers with, a recovery that succeeds        *)
(* returns every candle of the hole and no other, in order: the loop of    *)
(* backfill_klines proves continuity as it claims.                         *)
DoneIsWholeRange == Fill!DoneIsWholeRange

(* No request of the loop is refused by KlineRequest::validate, and none   *)
(* asks for more than one page: the limit is computed from the cursor,     *)
(* which the answers of the server move.                                   *)
RequestsAreValid == Fill!RequestsAreValid

(* Whatever the server answers with, the cursor moves over the candles of  *)
(* the hole and never past its end, nor between two of them.               *)
CursorStaysInRange == Fill!CursorStaysInRange

(* The checks of the loop reject no truthful page, however short, and the  *)
(* final count agrees with the last one.                                   *)
HonestPageIsTaken == Fill!HonestPageIsTaken

(* Every call returns or fails: the recovery and its appends come to an    *)
(* end however the range is cut into pages.                                *)
CallReturns == phase # "idle" ~> phase \in {"idle", "failed"}

(* The store implements the log the collector promises: it only grows, one *)
(* candle that continues its series at a time.                             *)
Log == INSTANCE CandleLog WITH log <- store
ImplementsCandleLog == Log!Spec
=============================================================================
