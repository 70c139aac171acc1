----------------------------- MODULE WatchKlines -----------------------------
(***************************************************************************)
(* The watch-klines collector: the supervisor task of KlineSupervisor, the *)
(* bounded channel, and the loop of watch_klines that audits every frame   *)
(* in raw.jsonl, hands closed candles to Ingest and stops on Ctrl-C.       *)
(***************************************************************************)
EXTENDS Integers, Sequences

CONSTANTS
    None, Step, Keys, Times, PageLimit, MaxCandles, Pages,  \* see Ingest
    Frames, Capacity, Initial, Maximum, AttemptBound        \* see KlineSupervisor

(* What Ingest assumes of them.                                            *)
ASSUME CallAssumption ==
    /\ None \notin Int /\ None \notin Keys /\ Step \in Nat \ {0}
    /\ Times \subseteq Int /\ Pages \subseteq Seq(Int)
    /\ PageLimit \in Nat \ {0} /\ MaxCandles \in Nat \ {0}

(* The frames of the subscribed streams.                                   *)
ASSUME FramesAssumption ==
    Frames \subseteq [candle : [key : Keys, open : Times], closed : BOOLEAN]

VARIABLES
    latest, store, phase, series, todo,
    fill, start, end, cursor, recovered, newest,       \* see Ingest
    sup, outbox, backoff, delay, queue, rxOpen, shutdown, handle,
    last, attempts,                                    \* see KlineSupervisor
    main,     \* the loop of watch_klines: running, auditing, joining,
              \* exited or failed
    inHand,   \* the frame being audited, None when there is none
    audited   \* raw.jsonl: the frames persisted

Ingest == INSTANCE Ingest
Stream == INSTANCE KlineSupervisor WITH NoFrame <- None

(* The delays and the channel are ones the supervisor is made for.         *)
ASSUME StreamAssumption == Stream!SupervisorAssumption /\ Stream!GrowthAssumption

mainVars   == <<main, inHand, audited>>
ingestVars == <<latest, store, phase, series, todo,
                fill, start, end, cursor, recovered, newest>>
streamVars == <<sup, outbox, backoff, delay, queue, rxOpen, shutdown, handle,
                last, attempts>>
vars       == <<ingestVars, streamVars, mainVars>>

-----------------------------------------------------------------------------
Init ==
    /\ Ingest!Init /\ Stream!Init
    /\ main = "running" /\ inHand = None /\ audited = {}

(* Mutant: the loop selects again while a candle is being ingested.        *)
SelectingAnyway == main = "running" /\ phase # "failed"

(* The select of the loop: no item is being handled.                       *)
Selecting == main = "running" /\ phase = "idle"

NextIs(types) == queue # <<>> /\ Head(queue).type \in types

ReceiveRaw ==
    /\ Selecting /\ NextIs({"Raw"})
    /\ Stream!Receive
    /\ main' = "auditing" /\ inHand' = Head(queue).frame
    /\ UNCHANGED <<audited, ingestVars>>

ReceiveClosed ==
    /\ Selecting /\ NextIs({"ClosedKline"})
    /\ Stream!Receive
    /\ LET candle == Head(queue).frame.candle IN Ingest!Offer(candle.key, candle.open)
    /\ UNCHANGED mainVars

(* Lifecycle transitions and protocol errors are logged.                   *)
ReceiveNotice ==
    /\ Selecting /\ NextIs(Stream!NoticeTypes)
    /\ Stream!Receive
    /\ UNCHANGED <<mainVars, ingestVars>>

(* raw_store.append of the frame in hand.                                  *)
Audit(frame) == audited' = audited \cup {frame}

AuditOk ==
    /\ main = "auditing"
    /\ Audit(inHand)
    /\ main' = "running" /\ inHand' = None
    /\ UNCHANGED <<ingestVars, streamVars>>

(* An error leaves watch_klines at once; its locals are dropped, the       *)
(* sender of the shutdown channel before the receiver of the items.        *)
Unwind == main' = "failed" /\ inHand' = None /\ Stream!DropHandle

AuditFails ==
    /\ main = "auditing"
    /\ Unwind
    /\ UNCHANGED <<audited, ingestVars>>

IngestStep ==
    /\ main = "running"
    /\ Ingest!Proceed
    /\ UNCHANGED <<mainVars, streamVars>>

IngestFails ==
    /\ main = "running" /\ phase = "failed"
    /\ Unwind
    /\ UNCHANGED <<audited, ingestVars>>

DropItems ==
    /\ main = "failed"
    /\ Stream!DropReceiver
    /\ UNCHANGED <<mainVars, ingestVars>>

(* Ctrl-C, or a channel found closed and empty: leave the loop, ask the    *)
(* supervisor to stop and wait for it, receiving nothing any more.         *)
Stop ==
    /\ Selecting
    /\ Stream!RequestShutdown
    /\ main' = "joining"
    /\ UNCHANGED <<inHand, audited, ingestVars>>

(* Waiting for Ctrl-C itself fails, and that error leaves watch_klines     *)
(* from the select: nothing is joined.                                     *)
SignalFails ==
    /\ Selecting
    /\ Unwind
    /\ UNCHANGED <<audited, ingestVars>>

(* Mutant: the exit waits for the channel to be empty as well.             *)
JoinedAndDrained == sup = "done" /\ queue = <<>>

(* supervisor_task.await returns.                                          *)
Joined == sup = "done"

Exit ==
    /\ main = "joining" /\ Joined
    /\ main' = "exited"
    /\ UNCHANGED <<inHand, audited, ingestVars, streamVars>>

StreamStep == Stream!Run /\ UNCHANGED <<mainVars, ingestVars>>

Loop == ReceiveRaw \/ ReceiveClosed \/ ReceiveNotice \/ AuditOk \/ AuditFails
          \/ IngestStep \/ IngestFails \/ DropItems \/ Exit

Stopped == main \in {"exited", "failed"} /\ sup = "done" /\ UNCHANGED vars

(* The supervisor waits for room in a channel that the loop, waiting for   *)
(* the supervisor, no longer empties.  Its own disjunct of Next, so that   *)
(* checking for deadlock finds every other way to get stuck.               *)
SendBlocks == outbox # <<>> /\ rxOpen /\ Len(queue) = Capacity

Blocked == main = "joining" /\ SendBlocks /\ UNCHANGED vars

Next == Loop \/ Stop \/ SignalFails \/ StreamStep \/ Stopped \/ Blocked

(* Both tasks are polled whenever they can move; nobody has to press       *)
(* Ctrl-C, and the wait for it need not fail.                              *)
Fairness ==
    /\ WF_vars(Loop)
    /\ WF_vars(StreamStep /\ Stream!Advance) /\ WF_vars(StreamStep /\ Stream!Send)
    /\ SF_vars(StreamStep /\ Stream!StopSeen) /\ SF_vars(StreamStep /\ Stream!Rotate)

Spec == Init /\ [][Next]_vars /\ Fairness

(* The same with a network on which every connection attempt ends.         *)
ConnectingSpec == Spec /\ WF_vars(StreamStep /\ Stream!Connect)

-----------------------------------------------------------------------------
(* Whatever ends up in closed-klines.jsonl, recovered candles included,    *)
(* was caused by a closed frame of its series that is already in raw.jsonl *)
(* and is not older than the candle.                                       *)
StoredIsAudited ==
    \A k \in Keys : \A i \in 1 .. Len(store[k]) :
        \E f \in audited : f.closed /\ f.candle.key = k /\ f.candle.open >= store[k][i]

(* While the loop works, through recoveries, full channels and errors that *)
(* are not its own, the supervisor has not ended behind its back.          *)
StreamOutlivesLoop == main \in {"running", "auditing"} => sup # "done"

(* The loop keeps receiving: an item in the channel is taken out unless    *)
(* the collector stops or fails.                                           *)
ChannelIsServed ==
    Len(queue) = Capacity ~> Len(queue) < Capacity \/ main \notin {"running", "auditing"}

(* A stop request ends the collector unless the supervisor hangs in        *)
(* connect_async or waits for room in a channel nobody empties any more.   *)
StopEndsOrBlocks ==
    main = "joining" ~>
        \/ main = "exited"
        \/ [](sup = "connecting")
        \/ []SendBlocks

(* "Runs until shutdown is requested or the consumer disappears": once     *)
(* shutdown is requested, the supervisor ends.                             *)
RunsUntilShutdown == shutdown ~> sup = "done"

(* Composed with the stream, ingestion is that of Ingest and keeps its     *)
(* progress: the loop leaves no call half done, whenever Ctrl-C comes.     *)
ImplementsIngest == Ingest!Spec
=============================================================================
