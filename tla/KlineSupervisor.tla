--------------------------- MODULE KlineSupervisor ---------------------------
(***************************************************************************)
(* KlineStreamSupervisor::run: the task that keeps a WebSocket session to  *)
(* the exchange alive (connect, read, rotate, reconnect with a bounded     *)
(* backoff) and reports everything it does and reads through a bounded     *)
(* channel, until it is told to stop or nobody listens.                    *)
(*                                                                         *)
(* Every await on the channel is a step of its own: what is still to be    *)
(* sent is in outbox, and nothing else moves until it is empty.            *)
(***************************************************************************)
EXTENDS Integers, Sequences

CONSTANTS
    NoFrame,           \* what an item that carries no frame carries
    Frames,            \* the text frames of the exchange that parse: the
                       \* candle each carries and whether it is closed
    Capacity,          \* of the channel (2048 in watch-klines)
    Initial, Maximum,  \* of the reconnect delay (1 s and 60 s)
    AttemptBound       \* bound of the history variable attempts

ASSUME SupervisorAssumption ==
    /\ \A f \in Frames : f.closed \in BOOLEAN
    /\ Capacity \in Nat \ {0}
    /\ Initial \in Nat \ {0} /\ Maximum \in Nat /\ Initial <= Maximum
    /\ AttemptBound \in Nat \ {0}

(* The delay after n others, if nothing bounded it.                        *)
Unbounded[n \in 0 .. AttemptBound] == IF n = 0 THEN Initial ELSE 2 * Unbounded[n - 1]

(* Delays are counted as long as they still grow.                          *)
ASSUME GrowthAssumption == Maximum <= Unbounded[AttemptBound - 1]

VARIABLES
    sup,       \* where the task is: top, connecting, session, retry,
               \* sleeping or done
    outbox,    \* the items it is sending, in order
    backoff,   \* ReconnectBackoff.next
    delay,     \* the delay it sleeps for
    queue,     \* the channel
    rxOpen,    \* the receiver of the channel exists
    shutdown,  \* the value in the shutdown channel
    handle,    \* the sender of the shutdown channel exists
    last,      \* history: the last item that entered the channel
    attempts   \* history: delays taken since the last connection

taskVars    == <<sup, outbox, backoff, delay, attempts>>
channelVars == <<queue, last>>
ownerVars   == <<rxOpen, shutdown, handle>>
vars        == <<taskVars, channelVars, ownerVars>>

-----------------------------------------------------------------------------
(* KlineStreamItem and StreamLifecycle.                                    *)
Carries(type, frame) == [type |-> type, frame |-> frame]
Raw(frame)           == Carries("Raw", frame)
ClosedKline(frame)   == Carries("ClosedKline", frame)
Notice(type)         == Carries(type, NoFrame)

NoticeTypes == {"Connecting", "Connected", "Rotating", "Disconnected", "ProtocolError"}

Items == {Notice(type) : type \in NoticeTypes}
           \cup {Raw(f) : f \in Frames}
           \cup {ClosedKline(f) : f \in {g \in Frames : g.closed}}

Nothing == Notice("Nothing")

(* Mutant: the candle goes before its frame.                               *)
OutputCandleFirst(frame) ==
    IF frame.closed THEN <<ClosedKline(frame), Raw(frame)>> ELSE <<Raw(frame)>>

(* What one good text frame is turned into: the exact frame, then its      *)
(* candle if the exchange says it is closed.                               *)
Output(frame) == IF frame.closed THEN <<Raw(frame), ClosedKline(frame)>> ELSE <<Raw(frame)>>

(* Mutant: nothing bounds the delay.                                       *)
DoubledWithoutBound(d) == 2 * d

(* ReconnectBackoff::next_delay: the delay after the current one.          *)
Doubled(d) == IF 2 * d < Maximum THEN 2 * d ELSE Maximum

Init ==
    /\ sup = "top" /\ outbox = <<>>
    /\ backoff = Initial /\ delay = 0
    /\ queue = <<>>
    /\ rxOpen = TRUE /\ shutdown = FALSE /\ handle = TRUE
    /\ last = Nothing /\ attempts = 0

-----------------------------------------------------------------------------
(* The task is at a place of its own, with nothing left to send.           *)
At(place) == sup = place /\ outbox = <<>>

GoTo(place, items) == sup' = place /\ outbox' = items

(* Mutant: the attempt is not reported.                                    *)
LoopTopSilent ==
    /\ At("top")
    /\ GoTo(IF shutdown THEN "done" ELSE "connecting", <<>>)
    /\ UNCHANGED <<backoff, delay, attempts, channelVars, ownerVars>>

(* The top of the outer loop, where shutdown is looked at.                 *)
LoopTop ==
    /\ At("top")
    /\ IF shutdown THEN GoTo("done", <<>>) ELSE GoTo("connecting", <<Notice("Connecting")>>)
    /\ UNCHANGED <<backoff, delay, attempts, channelVars, ownerVars>>

(* Mutant: a connection leaves the delay where it is.                      *)
KeepBackoff == attempts' = 0 /\ UNCHANGED backoff

(* Only a connection brings the delay back to the first one.               *)
ResetBackoff == backoff' = Initial /\ attempts' = 0

ConnectOk ==
    /\ At("connecting")
    /\ GoTo("session", <<Notice("Connected")>>)
    /\ ResetBackoff
    /\ UNCHANGED <<delay, channelVars, ownerVars>>

ConnectFails ==
    /\ At("connecting")
    /\ GoTo("retry", <<Notice("Disconnected")>>)
    /\ UNCHANGED <<backoff, delay, attempts, channelVars, ownerVars>>

(* The session's select: a text frame that parses as a kline event.        *)
TextFrame(frame) ==
    /\ At("session")
    /\ GoTo("session", Output(frame))
    /\ UNCHANGED <<backoff, delay, attempts, channelVars, ownerVars>>

(* A text frame that does not parse, or a binary frame.                    *)
BadFrame ==
    /\ At("session")
    /\ GoTo("session", <<Notice("ProtocolError")>>)
    /\ UNCHANGED <<backoff, delay, attempts, channelVars, ownerVars>>

(* Mutant: the end of a session ends the task.                             *)
SessionEndsTask ==
    /\ At("session")
    /\ GoTo("done", <<>>)
    /\ UNCHANGED <<backoff, delay, attempts, channelVars, ownerVars>>

(* A close frame, a transport error, the end of the stream, or a ping that *)
(* could not be answered.                                                  *)
SessionEnds ==
    /\ At("session")
    /\ GoTo("retry", <<Notice("Disconnected")>>)
    /\ UNCHANGED <<backoff, delay, attempts, channelVars, ownerVars>>

(* Mutant: the rotation is reported and the session goes on.               *)
RotateWithoutBreak ==
    /\ At("session")
    /\ GoTo("session", <<Notice("Rotating")>>)
    /\ UNCHANGED <<backoff, delay, attempts, channelVars, ownerVars>>

(* The session has reached max_session_age.                                *)
Rotate ==
    /\ At("session")
    /\ GoTo("retry", <<Notice("Rotating"), Notice("Disconnected")>>)
    /\ UNCHANGED <<backoff, delay, attempts, channelVars, ownerVars>>

(* shutdown.changed() answers: told to stop, or its sender is gone.        *)
MustStop == shutdown \/ ~handle

StopSeen ==
    /\ At("session") \/ At("sleeping")
    /\ MustStop
    /\ GoTo("done", <<>>)
    /\ UNCHANGED <<backoff, delay, attempts, channelVars, ownerVars>>

StartDelay ==
    /\ At("retry")
    /\ GoTo("sleeping", <<>>)
    /\ delay' = backoff
    /\ backoff' = Doubled(backoff)
    /\ attempts' = IF attempts < AttemptBound THEN attempts + 1 ELSE attempts
    /\ UNCHANGED <<channelVars, ownerVars>>

Wake ==
    /\ At("sleeping")
    /\ GoTo("top", <<>>)
    /\ delay' = 0
    /\ UNCHANGED <<backoff, attempts, channelVars, ownerVars>>

(* send_item: waits for room, and fails once the receiver is gone.         *)
HasRoom == Len(queue) < Capacity

SendItem ==
    /\ outbox # <<>> /\ rxOpen /\ HasRoom
    /\ queue' = Append(queue, Head(outbox))
    /\ last' = Head(outbox)
    /\ outbox' = Tail(outbox)
    /\ UNCHANGED <<sup, backoff, delay, attempts, ownerVars>>

(* Mutant: no failed send ends the task.                                   *)
SendFailureIgnored ==
    /\ outbox # <<>> /\ ~rxOpen
    /\ outbox' = Tail(outbox)
    /\ UNCHANGED <<sup, backoff, delay, attempts, channelVars, ownerVars>>

(* Every failed send ends the task but that of Rotating.                   *)
SendFails ==
    /\ outbox # <<>> /\ ~rxOpen
    /\ IF Head(outbox) = Notice("Rotating")
       THEN outbox' = Tail(outbox) /\ UNCHANGED sup
       ELSE GoTo("done", <<>>)
    /\ UNCHANGED <<backoff, delay, attempts, channelVars, ownerVars>>

Connect == ConnectOk \/ ConnectFails
Read    == (\E f \in Frames : TextFrame(f)) \/ BadFrame \/ SessionEnds
Send    == SendItem \/ SendFails

(* What the task does when it only waits for itself or for time to pass.   *)
Advance == LoopTop \/ StartDelay \/ Wake

Run == Advance \/ Connect \/ Read \/ Rotate \/ StopSeen \/ Send

-----------------------------------------------------------------------------
(* What the owner of the channels may do.                                  *)
Receive ==
    /\ rxOpen /\ queue # <<>>
    /\ queue' = Tail(queue)
    /\ UNCHANGED <<taskVars, last, ownerVars>>

DropReceiver ==
    /\ rxOpen
    /\ rxOpen' = FALSE /\ queue' = <<>>
    /\ UNCHANGED <<taskVars, last, shutdown, handle>>

RequestShutdown ==
    /\ handle /\ ~shutdown
    /\ shutdown' = TRUE
    /\ UNCHANGED <<taskVars, channelVars, rxOpen, handle>>

DropHandle ==
    /\ handle
    /\ handle' = FALSE
    /\ UNCHANGED <<taskVars, channelVars, rxOpen, shutdown>>

Owner == Receive \/ DropReceiver \/ RequestShutdown \/ DropHandle

Stopped == sup = "done" /\ UNCHANGED vars

Next == Run \/ Owner \/ Stopped

(* The runtime polls the task again whenever it can move.  The select of   *)
(* the session picks among its ready branches at random, so a branch that  *)
(* is ready again and again is taken: hence strong fairness of StopSeen    *)
(* and of Rotate.  Nothing is assumed of connect_async, which has no       *)
(* timeout, nor of the exchange.                                           *)
RunFairness ==
    /\ WF_vars(Advance) /\ WF_vars(Send)
    /\ SF_vars(StopSeen) /\ SF_vars(Rotate)

(* As long as it exists, the owner of the receiver empties the channel.    *)
Spec == Init /\ [][Next]_vars /\ RunFairness /\ WF_vars(Receive)

-----------------------------------------------------------------------------
(* The variables stay in their domains.                                    *)
TypeOK ==
    /\ sup \in {"top", "connecting", "session", "retry", "sleeping", "done"}
    /\ outbox \in Seq(Items) /\ Len(outbox) <= 2
    /\ backoff \in Initial .. Maximum
    /\ delay \in 0 .. Maximum
    /\ queue \in Seq(Items) /\ Len(queue) <= Capacity
    /\ {rxOpen, shutdown, handle} \subseteq BOOLEAN
    /\ last \in Items \cup {Nothing}
    /\ attempts \in 0 .. AttemptBound

(* What may enter the channel after an item.                               *)
InSession(item) == item.type \in {"Connected", "Raw", "ClosedKline", "ProtocolError"}

MayFollow(previous, item) ==
    CASE item.type = "Connecting"   -> previous.type \in {"Nothing", "Disconnected"}
      [] item.type = "Connected"    -> previous.type = "Connecting"
      [] item.type = "Disconnected" -> InSession(previous) \/ previous.type \in {"Connecting", "Rotating"}
      [] item.type = "ClosedKline"  -> previous = Raw(item.frame)
      [] OTHER                      -> InSession(previous)

Owes(item) == item.type = "Raw" /\ item.frame.closed

(* The channel tells the story of the connection in order: frames are      *)
(* reported only between Connected and Disconnected, every session is      *)
(* closed before the next one is opened, and a closed candle comes right   *)
(* behind the exact frame it was parsed from, which is never left without  *)
(* it while the receiver lives.                                            *)
EmissionOrder ==
    [][Len(queue') > Len(queue) =>
          LET item == queue'[Len(queue')] IN
          /\ MayFollow(last, item)
          /\ Owes(last) => item = ClosedKline(last.frame)]_vars

(* The n-th delay since the last connection is the n-th of the sequence    *)
(* that doubles from Initial up to Maximum, however connections, failed    *)
(* attempts and rotations alternate.                                       *)
BackoffSchedule ==
    sup = "sleeping" =>
        LET exact == Unbounded[attempts - 1]
        IN  delay = IF exact < Maximum THEN exact ELSE Maximum

(* A task that is told to stop, or that nobody listens to, ends, unless it *)
(* hangs in connect_async for ever.                                        *)
StopsWhenAsked == shutdown \/ ~rxOpen ~> sup = "done" \/ [](sup = "connecting")

(* Every disconnection that is reported is followed by an attempt to       *)
(* connect, unless the task has ended.                                     *)
DisconnectIsRetried == last.type = "Disconnected" ~> last.type = "Connecting" \/ sup = "done"

(* No session outlives the rotation timer, however busy the exchange is.   *)
SessionIsBounded == sup = "session" ~> sup # "session"
=============================================================================
