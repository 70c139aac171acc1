-------------------------- MODULE WatchKlinesProofs --------------------------
(***************************************************************************)
(* Proofs about the watch-klines collector, for every set of series and    *)
(* frames, channel and stream, and for every server: no candle is stored   *)
(* that no audited frame accounts for, and the collector takes the steps   *)
(* of ingestion and of the supervisor and no others, so that what is       *)
(* proved of these holds of it.                                            *)
(***************************************************************************)
EXTENDS WatchKlines, SequenceTheorems, TLAPS

Calls == INSTANCE IngestProofs
Tasks == INSTANCE KlineSupervisorProofs WITH NoFrame <- None

-----------------------------------------------------------------------------
(* What is on its way to the loop, in the channel or about to enter it.    *)
Channel == queue \o outbox

(* The frames that are in raw.jsonl, or were taken out to be put there.    *)
Seen == IF main = "auditing" THEN audited \cup {inHand} ELSE audited

(* A closed candle comes right behind its frame, which is in front of it   *)
(* or has been taken out.                                                  *)
Announced(items, before) ==
    \A i \in 1 .. Len(items) : items[i].type = "ClosedKline" =>
        /\ items[i].frame \in Frames /\ items[i].frame.closed
        /\ IF i = 1 THEN items[i].frame \in before
           ELSE items[i - 1] = Stream!Raw(items[i].frame)

(* Until an error of the loop, whose frame is never audited.               *)
ChannelInv ==
    /\ queue \in Seq(Stream!Items) /\ outbox \in Seq(Stream!Items)
    /\ main # "failed" => rxOpen /\ Announced(Channel, Seen)

(* The newest candle handed to ingestion came in an audited frame.         *)
NewestIsAudited ==
    \A k \in Keys : newest[k] # None =>
        \E f \in audited : f.closed /\ f.candle.key = k /\ f.candle.open = newest[k]

(* Nothing stored is newer than it.                                        *)
StoredIsCovered ==
    \A k \in Keys : \A i \in 1 .. Len(store[k]) :
        newest[k] # None /\ store[k][i] <= newest[k]

WInv == Calls!IInv /\ ChannelInv /\ NewestIsAudited /\ StoredIsCovered

-----------------------------------------------------------------------------
(* What the collector assumes is enough for ingestion.                     *)
LEMMA CallAssumptions ==
    /\ Calls!IngestAssumption /\ Calls!BackfillAssumption
    /\ Calls!NoneAssumption /\ Calls!StepAssumption
  BY CallAssumption
     DEF CallAssumption, Calls!IngestAssumption, Calls!BackfillAssumption,
         Calls!NoneAssumption, Calls!StepAssumption

(* The collector's ingestion is the one IngestProofs is about.             *)
LEMMA FetchIsCalls == ASSUME Ingest!Fill!Fetch PROVE Calls!Fill!Fetch
  <1>1. ASSUME NEW page, Ingest!Fill!PageExtends(page) PROVE Calls!Fill!PageExtends(page)
    BY <1>1 DEF Ingest!Fill!PageExtends, Calls!Fill!PageExtends, Ingest!Fill!Takes,
       Calls!Fill!Takes, Ingest!Fill!Mismatch, Calls!Fill!Mismatch, Ingest!Fill!Expects,
       Calls!Fill!Expects, Ingest!Fill!Verdict, Calls!Fill!Verdict, Ingest!Fill!CandleCount,
       Calls!Fill!CandleCount
  <1>2. ASSUME NEW page, Ingest!Fill!PageRejected(page) PROVE Calls!Fill!PageRejected(page)
    BY <1>2 DEF Ingest!Fill!PageRejected, Calls!Fill!PageRejected, Ingest!Fill!Takes,
       Calls!Fill!Takes, Ingest!Fill!Mismatch, Calls!Fill!Mismatch, Ingest!Fill!Expects,
       Calls!Fill!Expects
  <1>3. ASSUME Ingest!Fill!RequestFails PROVE Calls!Fill!RequestFails
    BY <1>3 DEF Ingest!Fill!RequestFails, Calls!Fill!RequestFails
  <1>4. QED
    BY <1>1, <1>2, <1>3 DEF Ingest!Fill!Fetch, Calls!Fill!Fetch

(* A candle of the stream is offered as there.                             *)
LEMMA OfferIsCalls ==
    ASSUME NEW k, NEW t, Ingest!Offer(k, t)
    PROVE  Calls!Offer(k, t)
  <1>1. CASE Ingest!Take(k, t)
    BY <1>1 DEF Calls!Offer, Ingest!Take, Ingest!HandOver, Ingest!Newer, Ingest!Advances,
       Ingest!Continuity, Ingest!Observed, Ingest!NextOpen, Ingest!fillVars, Calls!Take,
       Calls!HandOver, Calls!Newer, Calls!Advances, Calls!Continuity, Calls!Observed,
       Calls!NextOpen, Calls!fillVars
  <1>2. CASE Ingest!Ignore(k, t)
    BY <1>2 DEF Calls!Offer, Ingest!Ignore, Ingest!HandOver, Ingest!Newer, Ingest!Dropped,
       Ingest!Continuity, Ingest!NextOpen, Ingest!fillVars, Ingest!callVars, Calls!Ignore,
       Calls!HandOver, Calls!Newer, Calls!Dropped, Calls!Continuity, Calls!NextOpen,
       Calls!fillVars, Calls!callVars
  <1>3. CASE Ingest!DetectGap(k, t)
    BY <1>3 DEF Calls!Offer, Ingest!DetectGap, Ingest!HandOver, Ingest!Newer,
       Ingest!Continuity, Ingest!NextOpen, Ingest!GapRange, Ingest!Fill!Begin,
       Ingest!Fill!RangeIsValid, Ingest!Fill!CandleCount, Calls!DetectGap, Calls!HandOver,
       Calls!Newer, Calls!Continuity, Calls!NextOpen, Calls!GapRange, Calls!Fill!Begin,
       Calls!Fill!RangeIsValid, Calls!Fill!CandleCount
  <1>4. QED
    BY <1>1, <1>2, <1>3 DEF Ingest!Offer

(* And a call proceeds as there.                                           *)
LEMMA ProceedIsCalls == ASSUME Ingest!Proceed PROVE Calls!Proceed
  <1>1. CASE Ingest!FetchPage
    BY <1>1, FetchIsCalls DEF Ingest!FetchPage, Ingest!callVars, Calls!FetchPage,
       Calls!callVars, Calls!Proceed
  <1>2. CASE Ingest!Recover
    BY <1>2 DEF Ingest!Recover, Ingest!InOrder, Ingest!Fill!Return, Calls!Recover,
       Calls!InOrder, Calls!Fill!Return, Calls!Proceed
  <1>3. CASE Ingest!RecoveryFails
    BY <1>3 DEF Ingest!RecoveryFails, Ingest!Fill!Return, Calls!RecoveryFails,
       Calls!Fill!Return, Calls!Proceed
  <1>4. CASE Ingest!AcceptNext
    BY <1>4 DEF Ingest!AcceptNext, Ingest!Advances, Ingest!Continuity, Ingest!Observed,
       Ingest!NextOpen, Ingest!fillVars, Calls!AcceptNext, Calls!Advances, Calls!Continuity,
       Calls!Observed, Calls!NextOpen, Calls!fillVars, Calls!Proceed
  <1>5. CASE Ingest!WriteOk
    BY <1>5 DEF Ingest!WriteOk, Ingest!Settle, Ingest!fillVars, Calls!WriteOk, Calls!Settle,
       Calls!fillVars, Calls!Proceed
  <1>6. CASE Ingest!WriteFails
    BY <1>6 DEF Ingest!WriteFails, Ingest!fillVars, Calls!WriteFails, Calls!fillVars,
       Calls!Proceed
  <1>7. QED
    BY <1>1, <1>2, <1>3, <1>4, <1>5, <1>6 DEF Ingest!Proceed

-----------------------------------------------------------------------------
(* The candle a call was made for is the last it will store, and none that *)
(* it stores before is newer.                                              *)
LEMMA HandIsCovered ==
    ASSUME Calls!IInv, phase = "writing"
    PROVE  /\ series \in Keys /\ Head(todo) \in Int
           /\ newest[series] \in Int /\ Head(todo) <= newest[series]
  <1>1. /\ series \in Keys /\ todo \in Seq(Int) /\ todo # <<>>
        /\ latest[series] \in Int /\ Head(todo) = todo[1] /\ todo[1] = latest[series]
    BY CallAssumptions, Calls!WrittenContinues DEF Calls!IInv, Calls!TypeOK
  <1>2. PICK n \in Nat \ {0} : n = Len(todo)
    BY <1>1
  <1>3. newest[series] = todo[n]
    BY <1>2 DEF Calls!IInv, Calls!NewestInv
  <1>4. todo[n] = latest[series] + (n - 1) * Step
    BY <1>2 DEF Calls!IInv, Calls!HandInv
  <1>5. 0 * Step <= (n - 1) * Step /\ 0 * Step = 0 /\ (n - 1) * Step \in Int
    BY <1>2, CallAssumption, Calls!Recovery!MultiplesGrow DEF CallAssumption
  <1>6. QED
    BY <1>1, <1>3, <1>4, <1>5

(* A candle handed over leaves what is covered covered.                    *)
LEMMA OfferCovers ==
    ASSUME Calls!IInv, StoredIsCovered, NEW c \in Keys, NEW t \in Times, Calls!Offer(c, t)
    PROVE  StoredIsCovered'
  <1>1. UNCHANGED store /\ newest' = [newest EXCEPT ![c] = Calls!Newer(c, t)]
    BY DEF Calls!Offer, Calls!Take, Calls!Ignore, Calls!DetectGap, Calls!HandOver,
       Calls!callVars
  <1>2. newest \in [Keys -> Int \cup {None}] /\ t \in Int /\ t # None
    BY CallAssumption DEF CallAssumption, Calls!IInv, Calls!TypeOK
  <1>3. ASSUME NEW k \in Keys, newest[k] # None
        PROVE  newest'[k] # None /\ newest[k] <= newest'[k] /\ newest[k] \in Int
                 /\ newest'[k] \in Int
    BY <1>1, <1>2, <1>3 DEF Calls!Newer
  <1>4. store \in [Keys -> Seq(Int)]
    BY DEF Calls!IInv, Calls!TypeOK
  <1>5. QED
    BY <1>1, <1>3, <1>4 DEF StoredIsCovered

(* So does every step of the call.                                         *)
LEMMA ProceedCovers ==
    ASSUME Calls!IInv, StoredIsCovered, Calls!Proceed
    PROVE  StoredIsCovered' /\ UNCHANGED newest
  <1>1. UNCHANGED newest
    BY DEF Calls!Proceed, Calls!FetchPage, Calls!Recover, Calls!RecoveryFails,
       Calls!AcceptNext, Calls!WriteOk, Calls!WriteFails
  <1>2. CASE ~Calls!WriteOk
    <2>1. UNCHANGED store
      BY <1>2 DEF Calls!Proceed, Calls!FetchPage, Calls!Recover, Calls!RecoveryFails,
         Calls!AcceptNext, Calls!WriteFails, Calls!callVars
    <2>2. QED
      BY <1>1, <2>1 DEF StoredIsCovered
  <1>3. CASE Calls!WriteOk
    <2>1. /\ phase = "writing"
          /\ store' = [store EXCEPT ![series] = Append(store[series], Head(todo))]
      BY <1>3 DEF Calls!WriteOk
    <2>2. store \in [Keys -> Seq(Int)]
      BY DEF Calls!IInv, Calls!TypeOK
    <2>3. /\ series \in Keys /\ Head(todo) \in Int
          /\ newest[series] \in Int /\ Head(todo) <= newest[series]
      BY <2>1, HandIsCovered
    <2>4. ASSUME NEW k \in Keys, NEW i \in 1 .. Len(store'[k])
          PROVE  newest[k] # None /\ store'[k][i] <= newest[k]
      <3>1. CASE k # series
        BY <2>1, <2>2, <2>4, <3>1 DEF StoredIsCovered
      <3>2. CASE k = series /\ i = Len(store[series]) + 1
        BY <2>1, <2>2, <2>3, <3>2, CallAssumption DEF CallAssumption
      <3>3. CASE k = series /\ i \in 1 .. Len(store[series])
        BY <2>1, <2>2, <3>3 DEF StoredIsCovered
      <3>4. QED
        BY <2>1, <2>2, <2>3, <3>1, <3>2, <3>3
    <2>5. QED
      BY <1>1, <2>4 DEF StoredIsCovered
  <1>4. QED
    BY <1>1, <1>2, <1>3

-----------------------------------------------------------------------------
(* A notice is an item and no candle.                                      *)
LEMMA NoticesAnnounceNothing ==
    ASSUME NEW type \in Stream!NoticeTypes
    PROVE  Stream!Notice(type) \in Stream!Items /\ Stream!Notice(type).type # "ClosedKline"
  <1>1. Stream!Notice(type) \in Stream!Items
    BY DEF Stream!Items
  <1>2. Stream!Notice(type).type = type
    BY DEF Stream!Notice, Stream!Carries
  <1>3. QED
    BY <1>1, <1>2 DEF Stream!NoticeTypes

(* What the supervisor begins to report announces every closed candle.     *)
LEMMA ReportsAnnounce ==
    ASSUME Stream!Run, ~Stream!Send, NEW before
    PROVE  /\ outbox = <<>> /\ outbox' \in Seq(Stream!Items) /\ Announced(outbox', before)
           /\ UNCHANGED <<queue, rxOpen>>
  <1>1. /\ outbox = <<>> /\ UNCHANGED <<queue, rxOpen>>
        /\ \/ outbox' = <<>>
           \/ \E type \in Stream!NoticeTypes : outbox' = <<Stream!Notice(type)>>
           \/ outbox' = <<Stream!Notice("Rotating"), Stream!Notice("Disconnected")>>
           \/ \E f \in Frames : outbox' = Stream!Output(f)
    <2>1. CASE Stream!Advance
      BY <2>1 DEF Stream!Advance, Stream!LoopTop, Stream!StartDelay, Stream!Wake, Stream!At,
         Stream!GoTo, Stream!NoticeTypes, Stream!channelVars, Stream!ownerVars
    <2>2. CASE Stream!Connect
      BY <2>2 DEF Stream!Connect, Stream!ConnectOk, Stream!ConnectFails, Stream!At,
         Stream!GoTo, Stream!NoticeTypes, Stream!channelVars, Stream!ownerVars
    <2>3. CASE Stream!Read
      BY <2>3 DEF Stream!Read, Stream!TextFrame, Stream!BadFrame, Stream!SessionEnds,
         Stream!At, Stream!GoTo, Stream!NoticeTypes, Stream!channelVars, Stream!ownerVars
    <2>4. CASE Stream!Rotate
      BY <2>4 DEF Stream!Rotate, Stream!At, Stream!GoTo, Stream!channelVars, Stream!ownerVars
    <2>5. CASE Stream!StopSeen
      BY <2>5 DEF Stream!StopSeen, Stream!At, Stream!GoTo, Stream!channelVars,
         Stream!ownerVars
    <2>6. QED
      BY <2>1, <2>2, <2>3, <2>4, <2>5 DEF Stream!Run
  <1>2. CASE outbox' = <<>>
    BY <1>1, <1>2 DEF Announced
  <1>3. ASSUME NEW type \in Stream!NoticeTypes, outbox' = <<Stream!Notice(type)>>
        PROVE  outbox' \in Seq(Stream!Items) /\ Announced(outbox', before)
    BY <1>3, NoticesAnnounceNothing DEF Announced
  <1>4. CASE outbox' = <<Stream!Notice("Rotating"), Stream!Notice("Disconnected")>>
    <2>1. "Rotating" \in Stream!NoticeTypes /\ "Disconnected" \in Stream!NoticeTypes
      BY DEF Stream!NoticeTypes
    <2>2. QED
      BY <1>1, <1>4, <2>1, NoticesAnnounceNothing DEF Announced
  <1>5. ASSUME NEW f \in Frames, outbox' = Stream!Output(f)
        PROVE  outbox' \in Seq(Stream!Items) /\ Announced(outbox', before)
    <2>1. CASE f.closed
      <3>1. outbox' = <<Stream!Raw(f), Stream!ClosedKline(f)>>
        BY <1>5, <2>1 DEF Stream!Output
      <3>2. Stream!Raw(f) \in Stream!Items /\ Stream!ClosedKline(f) \in Stream!Items
        BY <2>1 DEF Stream!Items
      <3>3. /\ Stream!Raw(f).type = "Raw" /\ Stream!ClosedKline(f).frame = f
        BY DEF Stream!Raw, Stream!ClosedKline, Stream!Carries
      <3>4. QED
        BY <2>1, <3>1, <3>2, <3>3 DEF Announced
    <2>2. CASE ~f.closed
      BY <1>5, <2>2 DEF Stream!Output, Stream!Raw, Stream!Carries, Stream!Items, Announced
    <2>3. QED
      BY <2>1, <2>2
  <1>6. QED
    BY <1>1, <1>2, <1>3, <1>4, <1>5

(* Adding reports that announce their candles to a channel that does.      *)
LEMMA AnnouncedTogether ==
    ASSUME NEW items \in Seq(Stream!Items), NEW more \in Seq(Stream!Items), NEW before,
           Announced(items, before), Announced(more, {})
    PROVE  Announced(items \o more, before)
  <1> DEFINE all == items \o more
  <1>1. PICK n \in Nat : n = Len(items)
    OBVIOUS
  <1>2. PICK m \in Nat : m = Len(more)
    OBVIOUS
  <1>3. /\ Len(all) = n + m /\ \A i \in 1 .. n : all[i] = items[i]
        /\ \A i \in n + 1 .. n + m : all[i] = more[i - n]
    BY <1>1, <1>2
  <1> HIDE DEF all
  <1> SUFFICES ASSUME NEW i \in 1 .. n + m, all[i].type = "ClosedKline"
               PROVE  /\ all[i].frame \in Frames /\ all[i].frame.closed
                      /\ IF i = 1 THEN all[i].frame \in before
                         ELSE all[i - 1] = Stream!Raw(all[i].frame)
    BY <1>3 DEF Announced, all
  <1>4. CASE i \in 1 .. n
    <2>1. all[i] = items[i] /\ (i # 1 => all[i - 1] = items[i - 1])
      BY <1>3, <1>4
    <2>2. QED
      BY <1>1, <1>4, <2>1 DEF Announced
  <1>5. CASE i \in n + 1 .. n + m
    <2>1. i - n \in 1 .. m /\ all[i] = more[i - n]
      BY <1>3, <1>5
    <2>2. /\ more[i - n].frame \in Frames /\ more[i - n].frame.closed
          /\ i - n # 1 /\ more[i - n - 1] = Stream!Raw(more[i - n].frame)
      BY <1>2, <2>1 DEF Announced
    <2>3. i - 1 \in n + 1 .. n + m /\ all[i - 1] = more[i - n - 1] /\ i # 1
      BY <1>3, <2>1, <2>2
    <2>4. QED
      BY <2>1, <2>2, <2>3
  <1>6. QED
    BY <1>4, <1>5

(* Taking out the first item leaves the others announced, if its frame is  *)
(* seen when it carries one.                                               *)
LEMMA AnnouncedBehind ==
    ASSUME NEW items \in Seq(Stream!Items), items # <<>>, NEW before, NEW after,
           Announced(items, before),
           Head(items).type = "Raw" => Head(items).frame \in after
    PROVE  Announced(Tail(items), after)
  <1>1. /\ Len(Tail(items)) = Len(items) - 1 /\ Head(items) = items[1]
        /\ \A i \in 1 .. Len(items) - 1 : Tail(items)[i] = items[i + 1]
    OBVIOUS
  <1> SUFFICES ASSUME NEW i \in 1 .. Len(items) - 1, items[i + 1].type = "ClosedKline"
               PROVE  /\ items[i + 1].frame \in Frames /\ items[i + 1].frame.closed
                      /\ IF i = 1 THEN items[2].frame \in after
                         ELSE Tail(items)[i - 1] = Stream!Raw(items[i + 1].frame)
    BY <1>1 DEF Announced
  <1>2. /\ items[i + 1].frame \in Frames /\ items[i + 1].frame.closed
        /\ items[i] = Stream!Raw(items[i + 1].frame)
    <2>1. i + 1 \in 1 .. Len(items) /\ i + 1 # 1 /\ (i + 1) - 1 = i
      OBVIOUS
    <2>2. QED
      BY <2>1 DEF Announced
  <1>3. CASE i = 1
    BY <1>1, <1>2, <1>3 DEF Stream!Raw, Stream!Carries
  <1>4. CASE i # 1
    <2>1. i - 1 \in 1 .. Len(items) - 1 /\ (i - 1) + 1 = i
      BY <1>4
    <2>2. QED
      BY <1>1, <1>2, <1>4, <2>1
  <1>5. QED
    BY <1>3, <1>4

(* The supervisor keeps the channel in order, and changes nothing else.    *)
LEMMA StreamKeepsChannel ==
    ASSUME ChannelInv, Stream!Run, UNCHANGED mainVars
    PROVE  ChannelInv'
  <1>1. Seen' = Seen /\ UNCHANGED main
    BY DEF Seen, mainVars
  <1>2. CASE ~Stream!Send
    <2>1. /\ outbox = <<>> /\ outbox' \in Seq(Stream!Items) /\ Announced(outbox', {})
          /\ UNCHANGED <<queue, rxOpen>>
      BY <1>2, ReportsAnnounce
    <2>2. Channel = queue /\ Channel' = queue \o outbox'
      BY <2>1 DEF Channel, ChannelInv
    <2>3. Announced(Channel, Seen) => Announced(Channel', Seen)
      BY <2>1, <2>2, AnnouncedTogether DEF ChannelInv
    <2>4. QED
      BY <1>1, <2>1, <2>3 DEF ChannelInv, Announced
  <1>3. CASE Stream!SendItem
    <2>1. /\ outbox # <<>> /\ queue' = Append(queue, Head(outbox))
          /\ outbox' = Tail(outbox) /\ UNCHANGED rxOpen
      BY <1>3 DEF Stream!SendItem, Stream!ownerVars
    <2>2. queue' \in Seq(Stream!Items) /\ outbox' \in Seq(Stream!Items) /\ Channel' = Channel
      BY <2>1 DEF Channel, ChannelInv
    <2>3. QED
      BY <1>1, <2>1, <2>2 DEF ChannelInv, Announced
  <1>4. CASE Stream!SendFails
    <2>1. main = "failed" /\ UNCHANGED queue
      BY <1>4 DEF Stream!SendFails, Stream!channelVars, ChannelInv
    <2>2. outbox # <<>> /\ (outbox' = Tail(outbox) \/ outbox' = <<>>)
      BY <1>4 DEF Stream!SendFails, Stream!GoTo
    <2>3. outbox' \in Seq(Stream!Items)
      <3>1. outbox \in Seq(Stream!Items) /\ <<>> \in Seq(Stream!Items)
        BY DEF ChannelInv
      <3>2. Tail(outbox) \in Seq(Stream!Items)
        BY <2>2, <3>1
      <3>3. QED
        BY <2>2, <3>1, <3>2
    <2>4. QED
      BY <1>1, <2>1, <2>3 DEF ChannelInv
  <1>5. QED
    BY <1>2, <1>3, <1>4 DEF Stream!Send

(* Receiving does too, if a frame that is taken out counts as seen.        *)
LEMMA ReceiveKeepsChannel ==
    ASSUME ChannelInv, main # "failed", Stream!Receive,
           Head(queue).type = "Raw" => Head(queue).frame \in Seen'
    PROVE  ChannelInv'
  <1>1. /\ queue # <<>> /\ queue' = Tail(queue) /\ UNCHANGED <<outbox, rxOpen>>
    BY DEF Stream!Receive, Stream!taskVars, Stream!ownerVars
  <1>2. queue \in Seq(Stream!Items) /\ outbox \in Seq(Stream!Items)
    BY DEF ChannelInv
  <1>3. /\ Channel \in Seq(Stream!Items) /\ Channel # <<>> /\ Head(Channel) = Head(queue)
        /\ Channel' = Tail(Channel)
    BY <1>1, <1>2 DEF Channel
  <1>4. Announced(Channel', Seen')
    BY <1>3, AnnouncedBehind DEF ChannelInv
  <1>5. QED
    BY <1>1, <1>2, <1>4 DEF ChannelInv, Announced

(* A closed candle at the front of the channel has been audited.           *)
LEMMA FrontIsAudited ==
    ASSUME ChannelInv, main = "running", queue # <<>>, Head(queue).type = "ClosedKline"
    PROVE  Head(queue).frame \in audited \cap Frames /\ Head(queue).frame.closed
  <1>1. queue \in Seq(Stream!Items) /\ outbox \in Seq(Stream!Items)
    BY DEF ChannelInv
  <1>2. Channel[1] = Head(queue) /\ 1 \in 1 .. Len(Channel)
    BY <1>1 DEF Channel
  <1>3. QED
    BY <1>2 DEF ChannelInv, Announced, Seen

-----------------------------------------------------------------------------
(* The collector starts with nothing seen and nothing stored.              *)
LEMMA InitWInv == Init => WInv
  <1> SUFFICES ASSUME Init PROVE WInv
    OBVIOUS
  <1>1. Calls!Init
    BY DEF Init, Ingest!Init, Ingest!Fill!Init, Ingest!Fill!NothingHeld, Calls!Init,
       Calls!Fill!Init, Calls!Fill!NothingHeld
  <1>2. Calls!IInv
    BY <1>1, CallAssumptions, Calls!InitIInv
  <1>3. /\ store = [k \in Keys |-> <<>>] /\ newest = [k \in Keys |-> None]
        /\ queue = <<>> /\ outbox = <<>> /\ rxOpen
    BY <1>1 DEF Calls!Init, Init, Stream!Init
  <1>4. NewestIsAudited /\ StoredIsCovered
    BY <1>3 DEF NewestIsAudited, StoredIsCovered
  <1>5. Channel = <<>>
    BY <1>3 DEF Channel
  <1>6. ChannelInv
    BY <1>3, <1>5 DEF ChannelInv, Announced
  <1>7. QED
    BY <1>2, <1>4, <1>6 DEF WInv

(* Steps that leave ingestion alone and lose no audited frame.             *)
LEMMA IngestionRests ==
    ASSUME WInv, UNCHANGED ingestVars, audited \subseteq audited', ChannelInv'
    PROVE  WInv'
  <1>1. Calls!IInv'
    <2>1. UNCHANGED Calls!vars
      BY DEF ingestVars, Calls!vars, Calls!callVars, Calls!fillVars
    <2>2. QED
      BY <2>1, CallAssumptions, Calls!NextIInv DEF WInv
  <1>2. UNCHANGED <<store, newest>>
    BY DEF ingestVars
  <1>3. NewestIsAudited' /\ StoredIsCovered'
    BY <1>2 DEF WInv, NewestIsAudited, StoredIsCovered
  <1>4. QED
    BY <1>1, <1>3 DEF WInv

(* A frame is taken out to be audited.                                     *)
LEMMA ReceiveRawWInv == ASSUME WInv, ReceiveRaw PROVE WInv'
  <1>1. /\ main = "running" /\ main' = "auditing" /\ inHand' = Head(queue).frame
        /\ Stream!Receive /\ UNCHANGED <<audited, ingestVars>>
    BY DEF ReceiveRaw, Selecting
  <1>2. Head(queue).frame \in Seen'
    BY <1>1 DEF Seen
  <1>3. ChannelInv'
    BY <1>1, <1>2, ReceiveKeepsChannel DEF WInv
  <1>4. QED
    BY <1>1, <1>3, IngestionRests

(* A notice carries nothing.                                               *)
LEMMA ReceiveNoticeWInv == ASSUME WInv, ReceiveNotice PROVE WInv'
  <1>1. /\ main = "running" /\ Head(queue).type \in Stream!NoticeTypes
        /\ Stream!Receive /\ UNCHANGED <<mainVars, ingestVars>>
    BY DEF ReceiveNotice, Selecting, NextIs
  <1>2. Head(queue).type # "Raw"
    BY <1>1 DEF Stream!NoticeTypes
  <1>3. ChannelInv'
    BY <1>1, <1>2, ReceiveKeepsChannel DEF WInv
  <1>4. QED
    BY <1>1, <1>3, IngestionRests DEF mainVars

(* A closed candle is handed over: its frame has been audited.             *)
LEMMA ReceiveClosedWInv == ASSUME WInv, ReceiveClosed PROVE WInv'
  <1> DEFINE f == Head(queue).frame
  <1>1. /\ main = "running" /\ Stream!Receive /\ UNCHANGED mainVars
        /\ queue # <<>> /\ Head(queue).type = "ClosedKline"
        /\ Ingest!Offer(f.candle.key, f.candle.open)
    BY DEF ReceiveClosed, Selecting, NextIs
  <1>2. f \in audited /\ f \in Frames /\ f.closed
    BY <1>1, FrontIsAudited DEF WInv
  <1> HIDE DEF f
  <1>3. PICK k \in Keys, t \in Times : k = f.candle.key /\ t = f.candle.open
    BY <1>2, FramesAssumption DEF FramesAssumption
  <1>4. Calls!Offer(k, t)
    BY <1>1, <1>3, OfferIsCalls
  <1>5. Calls!IInv' /\ StoredIsCovered'
    BY <1>4, CallAssumptions, Calls!NextIInv, OfferCovers DEF WInv, Calls!Next
  <1>6. newest' = [newest EXCEPT ![k] = Calls!Newer(k, t)] /\ UNCHANGED audited
    BY <1>1, <1>4 DEF Calls!Offer, Calls!Take, Calls!Ignore, Calls!DetectGap, Calls!HandOver,
       mainVars
  <1>7. NewestIsAudited'
    <2>1. newest \in [Keys -> Int \cup {None}]
      BY DEF WInv, Calls!IInv, Calls!TypeOK
    <2>2. newest'[k] = newest[k] \/ newest'[k] = t
      BY <1>6, <2>1 DEF Calls!Newer
    <2>3. ASSUME NEW c \in Keys, newest'[c] # None
          PROVE  \E g \in audited : g.closed /\ g.candle.key = c /\ g.candle.open = newest'[c]
      <3>1. CASE newest'[c] = newest[c]
        BY <2>3, <3>1 DEF WInv, NewestIsAudited
      <3>2. CASE c = k /\ newest'[k] = t
        BY <1>2, <1>3, <3>2
      <3>3. QED
        BY <1>6, <2>1, <2>2, <3>1, <3>2
    <2>4. QED
      BY <1>6, <2>3 DEF NewestIsAudited
  <1>8. ChannelInv'
    BY <1>1, ReceiveKeepsChannel DEF WInv
  <1>9. QED
    BY <1>5, <1>7, <1>8 DEF WInv

(* A call proceeds; the channel waits.                                     *)
LEMMA IngestStepWInv == ASSUME WInv, IngestStep PROVE WInv'
  <1>1. Calls!Proceed /\ UNCHANGED <<mainVars, streamVars>>
    BY ProceedIsCalls DEF IngestStep
  <1>2. Calls!IInv' /\ StoredIsCovered' /\ UNCHANGED newest
    BY <1>1, CallAssumptions, Calls!NextIInv, ProceedCovers DEF WInv, Calls!Next
  <1>3. NewestIsAudited' /\ ChannelInv'
    BY <1>1, <1>2 DEF WInv, NewestIsAudited, ChannelInv, Announced, Channel, Seen, mainVars,
       streamVars
  <1>4. QED
    BY <1>2, <1>3 DEF WInv

(* The frame in hand is audited.                                           *)
LEMMA AuditOkWInv == ASSUME WInv, AuditOk PROVE WInv'
  <1>1. /\ main = "auditing" /\ main' = "running" /\ audited' = audited \cup {inHand}
        /\ UNCHANGED <<ingestVars, streamVars>>
    BY DEF AuditOk, Audit
  <1>2. Seen' = Seen
    BY <1>1 DEF Seen
  <1>3. ChannelInv'
    BY <1>1, <1>2 DEF WInv, ChannelInv, Announced, Channel, streamVars
  <1>4. QED
    BY <1>1, <1>3, IngestionRests

(* After an error nothing is taken out of the channel any more.            *)
LEMMA FailureWInv ==
    ASSUME WInv, AuditFails \/ IngestFails \/ SignalFails \/ DropItems
    PROVE  WInv'
  <1>1. main' = "failed" /\ UNCHANGED <<audited, ingestVars, outbox>>
    BY DEF AuditFails, IngestFails, SignalFails, DropItems, Unwind, Stream!DropHandle,
       Stream!DropReceiver, Stream!taskVars, mainVars
  <1>2. queue' = queue \/ queue' = <<>>
    BY DEF AuditFails, IngestFails, SignalFails, DropItems, Unwind, Stream!DropHandle,
       Stream!DropReceiver, Stream!channelVars
  <1>3. queue' \in Seq(Stream!Items)
    <2>1. queue \in Seq(Stream!Items) /\ <<>> \in Seq(Stream!Items)
      BY DEF WInv, ChannelInv
    <2>2. QED
      BY <1>2, <2>1
  <1>4. ChannelInv'
    BY <1>1, <1>3 DEF WInv, ChannelInv
  <1>5. QED
    BY <1>1, <1>4, IngestionRests

(* Leaving the loop, the exit and a wait change nothing that matters here. *)
LEMMA QuietWInv ==
    ASSUME WInv, Stop \/ Exit \/ UNCHANGED vars
    PROVE  WInv'
  <1>1. /\ UNCHANGED <<audited, ingestVars, queue, outbox, rxOpen>>
        /\ Seen' = Seen /\ (main = "failed" <=> main' = "failed")
    BY DEF Stop, Selecting, Exit, Stream!RequestShutdown, Stream!taskVars,
       Stream!channelVars, vars, mainVars, streamVars, Seen
  <1>2. ChannelInv'
    BY <1>1 DEF WInv, ChannelInv, Announced, Channel
  <1>3. QED
    BY <1>1, <1>2, IngestionRests

(* Every step of the two tasks keeps the invariant.                        *)
LEMMA NextWInv == WInv /\ [Next]_vars => WInv'
  <1> SUFFICES ASSUME WInv, [Next]_vars PROVE WInv'
    OBVIOUS
  <1>1. CASE ReceiveRaw \/ ReceiveClosed \/ ReceiveNotice
    BY <1>1, ReceiveRawWInv, ReceiveClosedWInv, ReceiveNoticeWInv
  <1>2. CASE AuditOk
    BY <1>2, AuditOkWInv
  <1>3. CASE AuditFails \/ IngestFails \/ SignalFails \/ DropItems
    BY <1>3, FailureWInv
  <1>4. CASE IngestStep
    BY <1>4, IngestStepWInv
  <1>5. CASE Stop \/ Exit \/ UNCHANGED vars
    BY <1>5, QuietWInv
  <1>6. CASE StreamStep
    <2>1. ChannelInv' /\ UNCHANGED <<audited, ingestVars>>
      BY <1>6, StreamKeepsChannel DEF StreamStep, WInv, mainVars
    <2>2. QED
      BY <2>1, IngestionRests
  <1>7. QED
    BY <1>1, <1>2, <1>3, <1>4, <1>5, <1>6 DEF Next, Loop, Stopped, Blocked

(* The invariant holds for ever.                                           *)
THEOREM CollectorInvariant == Spec => []WInv
  BY InitWInv, NextWInv, PTL DEF Spec

-----------------------------------------------------------------------------
(* Every stored candle, recovered ones included, is accounted for by an    *)
(* audited frame of a closed candle of its series that is not older.       *)
THEOREM StoredCandlesAreAudited == Spec => []StoredIsAudited
  <1>1. WInv => StoredIsAudited
    BY DEF WInv, NewestIsAudited, StoredIsCovered, StoredIsAudited
  <1>2. QED
    BY <1>1, CollectorInvariant, PTL

(* Composed with the stream, ingestion is that of Ingest: whatever the     *)
(* tasks and Ctrl-C do, the collector takes its steps and no others.       *)
THEOREM CollectorIngests == Spec => Ingest!Init /\ [][Ingest!Next]_(Ingest!vars)
  <1>1. Init => Ingest!Init
    BY DEF Init
  <1>2. WInv /\ [Next]_vars => [Ingest!Next]_(Ingest!vars)
    <2> SUFFICES ASSUME WInv, [Next]_vars PROVE Ingest!Next \/ UNCHANGED ingestVars
      BY DEF ingestVars, Ingest!vars, Ingest!callVars, Ingest!fillVars
    <2>1. CASE ReceiveClosed
      <3>1. /\ main = "running" /\ queue # <<>> /\ Head(queue).type = "ClosedKline"
            /\ Ingest!Offer(Head(queue).frame.candle.key, Head(queue).frame.candle.open)
        BY <2>1 DEF ReceiveClosed, Selecting, NextIs
      <3>2. Head(queue).frame \in Frames
        BY <3>1, FrontIsAudited DEF WInv
      <3>3. /\ Head(queue).frame.candle.key \in Keys
            /\ Head(queue).frame.candle.open \in Times
        BY <3>2, FramesAssumption DEF FramesAssumption
      <3>4. QED
        BY <3>1, <3>3 DEF Ingest!Next
    <2>2. CASE IngestStep
      BY <2>2 DEF IngestStep, Ingest!Next
    <2>3. CASE ~ReceiveClosed /\ ~IngestStep
      BY <2>3 DEF Next, Loop, ReceiveRaw, ReceiveNotice, AuditOk, AuditFails, IngestFails,
         SignalFails, DropItems, Exit, Stop, StreamStep, Stopped, Blocked, vars
    <2>4. QED
      BY <2>1, <2>2, <2>3
  <1>3. QED
    BY <1>1, <1>2, CollectorInvariant, PTL DEF Spec

-----------------------------------------------------------------------------
(* While the loop works nobody has asked the supervisor to stop, and both  *)
(* ends of its channels exist.                                             *)
AliveInv == main \in {"running", "auditing"} =>
                rxOpen /\ handle /\ ~shutdown /\ sup # "done"

(* The supervisor ends for no other reason.                                *)
LEMMA RunStaysAlive ==
    ASSUME rxOpen, handle, ~shutdown, sup # "done", Stream!Run
    PROVE  sup' # "done" /\ UNCHANGED <<rxOpen, handle, shutdown>>
  <1>1. CASE Stream!Advance
    BY <1>1 DEF Stream!Advance, Stream!LoopTop, Stream!StartDelay, Stream!Wake, Stream!GoTo,
       Stream!ownerVars
  <1>2. CASE Stream!Connect
    BY <1>2 DEF Stream!Connect, Stream!ConnectOk, Stream!ConnectFails, Stream!GoTo,
       Stream!ownerVars
  <1>3. CASE Stream!Read
    BY <1>3 DEF Stream!Read, Stream!TextFrame, Stream!BadFrame, Stream!SessionEnds,
       Stream!GoTo, Stream!ownerVars
  <1>4. CASE Stream!Rotate
    BY <1>4 DEF Stream!Rotate, Stream!GoTo, Stream!ownerVars
  <1>5. ~Stream!StopSeen
    BY DEF Stream!StopSeen, Stream!MustStop
  <1>6. CASE Stream!Send
    BY <1>6 DEF Stream!Send, Stream!SendItem, Stream!SendFails, Stream!ownerVars
  <1>7. QED
    BY <1>1, <1>2, <1>3, <1>4, <1>5, <1>6 DEF Stream!Run

(* The stream never ends behind the back of a loop that works.             *)
THEOREM StreamOutlivesItsLoop == Spec => []StreamOutlivesLoop
  <1>1. Init => AliveInv
    BY DEF Init, Stream!Init, AliveInv
  <1>2. AliveInv /\ [Next]_vars => AliveInv'
    <2> SUFFICES ASSUME AliveInv, [Next]_vars, main' \in {"running", "auditing"}
                 PROVE  (rxOpen /\ handle /\ ~shutdown /\ sup # "done")'
      BY DEF AliveInv
    <2>1. CASE ReceiveRaw \/ ReceiveClosed \/ ReceiveNotice
      BY <2>1 DEF ReceiveRaw, ReceiveClosed, ReceiveNotice, Selecting, Stream!Receive,
         Stream!taskVars, Stream!ownerVars, AliveInv
    <2>2. CASE AuditOk \/ IngestStep \/ UNCHANGED vars
      BY <2>2 DEF AuditOk, IngestStep, AliveInv, vars, mainVars, streamVars
    <2>3. CASE StreamStep
      BY <2>3, RunStaysAlive DEF StreamStep, AliveInv, mainVars
    <2>4. ~AuditFails /\ ~IngestFails /\ ~SignalFails /\ ~DropItems /\ ~Stop /\ ~Exit
      BY DEF AuditFails, IngestFails, SignalFails, Unwind, DropItems, Stop, Exit, mainVars
    <2>5. QED
      BY <2>1, <2>2, <2>3, <2>4 DEF Next, Loop, Stopped, Blocked
  <1>3. AliveInv => StreamOutlivesLoop
    BY DEF AliveInv, StreamOutlivesLoop
  <1>4. QED
    BY <1>1, <1>2, <1>3, PTL DEF Spec
-----------------------------------------------------------------------------
(* What the supervisor assumes of its constants.                           *)
LEMMA TaskAssumptions == Tasks!SupervisorAssumption /\ Tasks!GrowthAssumption
  BY StreamAssumption DEF StreamAssumption, Stream!SupervisorAssumption,
     Stream!GrowthAssumption, Stream!Unbounded, Tasks!SupervisorAssumption,
     Tasks!GrowthAssumption, Tasks!Unbounded

(* The loop is an owner of the channels as the supervisor knows it.        *)
LEMMA OwnerIsOwner == Stream!Owner => Tasks!Owner
  <1>1. Stream!Receive => Tasks!Receive
    BY DEF Stream!Receive, Stream!taskVars, Stream!ownerVars, Tasks!Receive, Tasks!taskVars,
       Tasks!ownerVars
  <1>2. Stream!DropReceiver => Tasks!DropReceiver
    BY DEF Stream!DropReceiver, Stream!taskVars, Tasks!DropReceiver, Tasks!taskVars
  <1>3. Stream!RequestShutdown => Tasks!RequestShutdown
    BY DEF Stream!RequestShutdown, Stream!taskVars, Stream!channelVars,
       Tasks!RequestShutdown, Tasks!taskVars, Tasks!channelVars
  <1>4. Stream!DropHandle => Tasks!DropHandle
    BY DEF Stream!DropHandle, Stream!taskVars, Stream!channelVars,
       Tasks!DropHandle, Tasks!taskVars, Tasks!channelVars
  <1>5. QED
    BY <1>1, <1>2, <1>3, <1>4 DEF Stream!Owner, Tasks!Owner

(* Its step is one of the supervisor that was proved about.                *)
LEMMA RunIsRun == Stream!Run => Tasks!Run
  <1>1. ASSUME Stream!Advance PROVE Tasks!Advance
    BY <1>1 DEF Stream!Advance, Stream!LoopTop, Stream!StartDelay, Stream!Wake, Stream!At,
       Stream!GoTo, Stream!Doubled, Stream!Notice, Stream!Carries, Stream!channelVars,
       Stream!ownerVars, Tasks!Advance, Tasks!LoopTop, Tasks!StartDelay, Tasks!Wake, Tasks!At,
       Tasks!GoTo, Tasks!Doubled, Tasks!Notice, Tasks!Carries, Tasks!channelVars,
       Tasks!ownerVars
  <1>2. ASSUME Stream!Connect PROVE Tasks!Connect
    BY <1>2 DEF Stream!Connect, Stream!ConnectOk, Stream!ConnectFails, Stream!At, Stream!GoTo,
       Stream!ResetBackoff, Stream!Notice, Stream!Carries, Stream!channelVars,
       Stream!ownerVars, Tasks!Connect, Tasks!ConnectOk, Tasks!ConnectFails, Tasks!At,
       Tasks!GoTo, Tasks!ResetBackoff, Tasks!Notice, Tasks!Carries, Tasks!channelVars,
       Tasks!ownerVars
  <1>3. ASSUME Stream!Read PROVE Tasks!Read
    BY <1>3 DEF Stream!Read, Stream!TextFrame, Stream!BadFrame, Stream!SessionEnds, Stream!At,
       Stream!GoTo, Stream!Output, Stream!Raw, Stream!ClosedKline, Stream!Notice,
       Stream!Carries, Stream!channelVars, Stream!ownerVars, Tasks!Read, Tasks!TextFrame,
       Tasks!BadFrame, Tasks!SessionEnds, Tasks!At, Tasks!GoTo, Tasks!Output, Tasks!Raw,
       Tasks!ClosedKline, Tasks!Notice, Tasks!Carries, Tasks!channelVars, Tasks!ownerVars
  <1>4. ASSUME Stream!Rotate \/ Stream!StopSeen PROVE Tasks!Rotate \/ Tasks!StopSeen
    BY <1>4 DEF Stream!Rotate, Stream!StopSeen, Stream!MustStop, Stream!At, Stream!GoTo,
       Stream!Notice, Stream!Carries, Stream!channelVars, Stream!ownerVars, Tasks!Rotate,
       Tasks!StopSeen, Tasks!MustStop, Tasks!At, Tasks!GoTo, Tasks!Notice, Tasks!Carries,
       Tasks!channelVars, Tasks!ownerVars
  <1>5. ASSUME Stream!Send PROVE Tasks!Send
    BY <1>5 DEF Stream!Send, Stream!SendItem, Stream!SendFails, Stream!HasRoom, Stream!GoTo,
       Stream!Notice, Stream!Carries, Stream!channelVars, Stream!ownerVars, Tasks!Send,
       Tasks!SendItem, Tasks!SendFails, Tasks!HasRoom, Tasks!GoTo, Tasks!Notice,
       Tasks!Carries, Tasks!channelVars, Tasks!ownerVars
  <1>6. QED
    BY <1>1, <1>2, <1>3, <1>4, <1>5 DEF Stream!Run, Tasks!Run

(* Composed with the loop, the stream is that of KlineSupervisor: when it  *)
(* receives, fails and stops, the loop does to the channels only what the  *)
(* supervisor expects of their owner.                                      *)
THEOREM CollectorStreams == Spec => Tasks!Init /\ [][Tasks!Next]_(Tasks!vars)
  <1>1. Init => Tasks!Init
    BY DEF Init, Stream!Init, Stream!Nothing, Stream!Notice, Stream!Carries,
       Tasks!Init, Tasks!Nothing, Tasks!Notice, Tasks!Carries
  <1>2. [Next]_vars => [Tasks!Next]_(Tasks!vars)
    <2> SUFFICES ASSUME [Next]_vars PROVE Tasks!Next \/ UNCHANGED streamVars
      BY DEF streamVars, Tasks!vars, Tasks!taskVars, Tasks!channelVars, Tasks!ownerVars
    <2>1. CASE ReceiveRaw \/ ReceiveClosed \/ ReceiveNotice \/ AuditFails \/ IngestFails
                  \/ SignalFails \/ DropItems \/ Stop
      <3>1. Stream!Owner
        BY <2>1 DEF ReceiveRaw, ReceiveClosed, ReceiveNotice, AuditFails, IngestFails,
           SignalFails, Unwind, DropItems, Stop, Stream!Owner
      <3>2. QED
        BY <3>1, OwnerIsOwner DEF Tasks!Next
    <2>2. CASE StreamStep
      BY <2>2, RunIsRun DEF StreamStep, Tasks!Next
    <2>3. CASE AuditOk \/ IngestStep \/ Exit \/ Stopped \/ Blocked \/ UNCHANGED vars
      BY <2>3 DEF AuditOk, IngestStep, Exit, Stopped, Blocked, vars
    <2>4. QED
      BY <2>1, <2>2, <2>3 DEF Next, Loop
  <1>3. QED
    BY <1>1, <1>2, PTL DEF Spec

(* The channel of the collector tells the story of its connection in       *)
(* order, whatever the loop does with it.                                  *)
THEOREM CollectorEmitsInOrder == Spec => Tasks!EmissionOrder
  <1>1. QED
    BY CollectorStreams, TaskAssumptions, Tasks!EmissionStaysOrdered, PTL

(* The collector backs off as the supervisor does by itself.               *)
THEOREM CollectorBacksOff == Spec => []Tasks!BackoffSchedule
  <1>1. QED
    BY CollectorStreams, TaskAssumptions, Tasks!BackoffStaysExact, PTL
=============================================================================
