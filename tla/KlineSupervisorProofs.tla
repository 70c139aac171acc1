------------------------ MODULE KlineSupervisorProofs ------------------------
(***************************************************************************)
(* Proofs about the stream supervisor, for every set of frames, capacity   *)
(* and delays, with an owner that receives, drops or stops at any moment:  *)
(* the channel tells the story of the connection in order, and the delays  *)
(* between two attempts are those of the documented sequence.              *)
(***************************************************************************)
EXTENDS KlineSupervisor, SequenceTheorems, TLAPS

-----------------------------------------------------------------------------
(* An item is in order behind another.                                     *)
Follows(previous, item) ==
    MayFollow(previous, item) /\ (Owes(previous) => item = ClosedKline(previous.frame))

(* The items are in order, the first one behind "previous".                *)
Chain(previous, items) ==
    \A i \in 1 .. Len(items) :
        Follows(IF i = 1 THEN previous ELSE items[i - 1], items[i])

(* What will have entered the channel last once the items have.            *)
Final(previous, items) == IF items = <<>> THEN previous ELSE items[Len(items)]

(* Where the task is tells what it has reported, or is about to.           *)
Told(place, item) ==
    /\ place \in {"top", "sleeping"} => item.type \in {"Nothing", "Disconnected"}
    /\ place = "connecting" => item.type = "Connecting"
    /\ place = "session" => InSession(item)
    /\ place = "retry" => item.type = "Disconnected"
    /\ place # "done" => ~Owes(item)

(* Once the receiver is gone nothing is reported any more.                 *)
OrderInv == rxOpen => Chain(last, outbox) /\ Told(sup, Final(last, outbox))

IInv == TypeOK /\ OrderInv

(* What is sent.                                                           *)
LEMMA ItemTypes ==
    /\ \A type \in NoticeTypes : Notice(type) \in Items
    /\ \A f \in Frames : Output(f) \in Seq(Items) /\ Len(Output(f)) <= 2
  <1>1. \A type \in NoticeTypes : Notice(type) \in Items
    BY DEF Items
  <1>2. ASSUME NEW f \in Frames
        PROVE  Output(f) \in Seq(Items) /\ Len(Output(f)) <= 2
    <2>1. Raw(f) \in Items /\ (f.closed => ClosedKline(f) \in Items)
      BY DEF Items
    <2>2. CASE f.closed
      BY <2>1, <2>2 DEF Output
    <2>3. CASE ~f.closed
      BY <2>1, <2>3 DEF Output
    <2>4. QED
      BY <2>2, <2>3
  <1>3. QED
    BY <1>1, <1>2

(* One item, or two, in order.                                             *)
LEMMA ChainOfOne ==
    ASSUME NEW p, NEW a, Follows(p, a)
    PROVE  Chain(p, <<a>>) /\ Final(p, <<a>>) = a
  BY DEF Chain, Final

(* The same for two reports, the first behind p.                           *)
LEMMA ChainOfTwo ==
    ASSUME NEW p, NEW a, NEW b, Follows(p, a), Follows(a, b)
    PROVE  Chain(p, <<a, b>>) /\ Final(p, <<a, b>>) = b
  <1> DEFINE s == <<a, b>>
  <1>1. Len(s) = 2 /\ s[1] = a /\ s[2] = b /\ s # <<>>
    OBVIOUS
  <1> HIDE DEF s
  <1>2. Chain(p, s) /\ Final(p, s) = b
    BY <1>1, 1 .. 2 = {1, 2} DEF Chain, Final
  <1>3. QED
    BY <1>2 DEF s

(* Nothing to send.                                                        *)
LEMMA ChainOfNone == ASSUME NEW p PROVE Chain(p, <<>>) /\ Final(p, <<>>) = p
  BY DEF Chain, Final

(* The rest of a chain is one.                                             *)
LEMMA ChainOfRest ==
    ASSUME NEW p, NEW items \in Seq(Items), items # <<>>, Chain(p, items)
    PROVE  /\ Follows(p, Head(items)) /\ Chain(Head(items), Tail(items))
           /\ Final(Head(items), Tail(items)) = Final(p, items)
  <1>1. /\ Len(items) \in Nat \ {0} /\ Head(items) = items[1]
        /\ Len(Tail(items)) = Len(items) - 1
        /\ \A i \in 1 .. Len(items) - 1 : Tail(items)[i] = items[i + 1]
        /\ (Tail(items) = <<>> <=> Len(items) = 1)
    <2>1. /\ Len(items) \in Nat \ {0} /\ Head(items) = items[1]
          /\ Tail(items) \in Seq(Items) /\ Len(Tail(items)) = Len(items) - 1
          /\ \A i \in 1 .. Len(items) - 1 : Tail(items)[i] = items[i + 1]
      OBVIOUS
    <2>2. Tail(items) = <<>> <=> Len(Tail(items)) = 0
      BY <2>1, EmptySeq
    <2>3. QED
      BY <2>1, <2>2
  <1>2. Follows(p, Head(items))
    BY <1>1 DEF Chain
  <1>3. ASSUME NEW i \in 1 .. Len(Tail(items))
        PROVE  Follows(IF i = 1 THEN Head(items) ELSE Tail(items)[i - 1], Tail(items)[i])
    <2>1. i + 1 \in 1 .. Len(items) /\ i + 1 # 1 /\ Tail(items)[i] = items[i + 1]
      BY <1>1
    <2>2. Follows(items[i + 1 - 1], items[i + 1])
      BY <2>1 DEF Chain
    <2>3. (IF i = 1 THEN Head(items) ELSE Tail(items)[i - 1]) = items[i]
      BY <1>1
    <2>4. i + 1 - 1 = i
      BY <1>1
    <2>5. QED
      BY <2>1, <2>2, <2>3, <2>4
  <1>4. Final(Head(items), Tail(items)) = Final(p, items)
    <2>1. CASE Len(items) = 1
      BY <1>1, <2>1 DEF Final
    <2>2. CASE Len(items) # 1
      BY <1>1, <2>2 DEF Final
    <2>3. QED
      BY <2>1, <2>2
  <1>5. QED
    BY <1>2, <1>3, <1>4 DEF Chain

-----------------------------------------------------------------------------
(* Nothing has been reported at first.                                     *)
LEMMA InitIInv == Init => IInv
  <1> SUFFICES ASSUME Init PROVE IInv
    OBVIOUS
  <1>1. TypeOK
    <2>1. /\ backoff \in Initial .. Maximum /\ delay \in 0 .. Maximum
          /\ attempts \in 0 .. AttemptBound
      BY SupervisorAssumption DEF Init, SupervisorAssumption
    <2>2. /\ outbox \in Seq(Items) /\ Len(outbox) <= 2
          /\ queue \in Seq(Items) /\ Len(queue) <= Capacity
      BY SupervisorAssumption DEF Init, SupervisorAssumption
    <2>3. QED
      BY <2>1, <2>2 DEF Init, TypeOK
  <1>2. OrderInv
    BY ChainOfNone DEF Init, OrderInv, Told, Nothing, Notice, Carries, Owes, InSession
  <1>3. QED
    BY <1>1, <1>2 DEF IInv

(* The places.                                                             *)
Places == {"top", "connecting", "session", "retry", "sleeping", "done"}

(* A step of the task that sends nothing of its outbox, which is empty,    *)
(* but fills it with what is in order.                                     *)
LEMMA GoToIInv ==
    ASSUME IInv, outbox = <<>>, NEW place \in Places, NEW items \in Seq(Items),
           Len(items) <= 2, GoTo(place, items), UNCHANGED <<channelVars, ownerVars>>,
           backoff' \in Initial .. Maximum, delay' \in 0 .. Maximum,
           attempts' \in 0 .. AttemptBound,
           rxOpen => Chain(last, items) /\ Told(place, Final(last, items))
    PROVE  IInv'
  <1>1. TypeOK'
    BY DEF IInv, TypeOK, GoTo, channelVars, ownerVars, Places
  <1>2. OrderInv'
    BY DEF OrderInv, GoTo, channelVars, ownerVars
  <1>3. QED
    BY <1>1, <1>2 DEF IInv

(* With an empty outbox, the last item is what the place tells.            *)
LEMMA LastIsTold == ASSUME IInv, outbox = <<>>, rxOpen PROVE Told(sup, last)
  BY ChainOfNone DEF IInv, OrderInv

(* The top of the loop.                                                    *)
LEMMA LoopTopIInv == ASSUME IInv, LoopTop PROVE IInv'
  <1>1. /\ outbox = <<>> /\ sup = "top" /\ UNCHANGED <<channelVars, ownerVars>>
        /\ UNCHANGED <<backoff, delay, attempts>>
    BY DEF LoopTop, At
  <1>2. /\ backoff' \in Initial .. Maximum /\ delay' \in 0 .. Maximum
        /\ attempts' \in 0 .. AttemptBound
    BY <1>1 DEF IInv, TypeOK
  <1>3. CASE shutdown
    <2>1. GoTo("done", <<>>) /\ <<>> \in Seq(Items) /\ Len(<<>>) <= 2
      BY <1>3 DEF LoopTop
    <2>2. Chain(last, <<>>) /\ Told("done", Final(last, <<>>))
      BY ChainOfNone DEF Told
    <2>3. QED
      BY <1>1, <1>2, <2>1, <2>2, GoToIInv DEF Places
  <1>4. CASE ~shutdown
    <2> DEFINE item == Notice("Connecting")
    <2>1. GoTo("connecting", <<item>>) /\ <<item>> \in Seq(Items) /\ Len(<<item>>) <= 2
      BY <1>4, ItemTypes DEF LoopTop, NoticeTypes
    <2>2. ASSUME rxOpen
          PROVE  Chain(last, <<item>>) /\ Told("connecting", Final(last, <<item>>))
      <3>1. Told("top", last)
        BY <1>1, <2>2, LastIsTold
      <3>2. Follows(last, item)
        BY <3>1 DEF Told, Follows, MayFollow, Notice, Carries
      <3>3. Told("connecting", item)
        BY DEF Told, Notice, Carries, Owes, InSession
      <3>4. QED
        BY <3>2, <3>3, ChainOfOne
    <2>3. QED
      BY <1>1, <1>2, <2>1, <2>2, GoToIInv DEF Places
  <1>5. QED
    BY <1>3, <1>4

(* A step of the task that leaves its delays alone.                        *)
LEMMA DelaysKept ==
    ASSUME IInv, UNCHANGED <<backoff, delay, attempts>>
    PROVE  /\ backoff' \in Initial .. Maximum /\ delay' \in 0 .. Maximum
           /\ attempts' \in 0 .. AttemptBound
  BY DEF IInv, TypeOK

(* A step from place to place that sends one notice, which is in order.    *)
LEMMA NoticeIInv ==
    ASSUME IInv, outbox = <<>>, NEW place \in Places, NEW type \in NoticeTypes,
           GoTo(place, <<Notice(type)>>), UNCHANGED <<channelVars, ownerVars>>,
           backoff' \in Initial .. Maximum, delay' \in 0 .. Maximum,
           attempts' \in 0 .. AttemptBound,
           Told(sup, last) => Follows(last, Notice(type)),
           Told(place, Notice(type))
    PROVE  IInv'
  <1>1. <<Notice(type)>> \in Seq(Items) /\ Len(<<Notice(type)>>) <= 2
    BY ItemTypes
  <1>2. rxOpen => Chain(last, <<Notice(type)>>) /\ Told(place, Final(last, <<Notice(type)>>))
    BY LastIsTold, ChainOfOne
  <1>3. QED
    BY <1>1, <1>2, GoToIInv

(* A step from place to place that sends nothing.                          *)
LEMMA SilentIInv ==
    ASSUME IInv, outbox = <<>>, NEW place \in Places,
           GoTo(place, <<>>), UNCHANGED <<channelVars, ownerVars>>,
           backoff' \in Initial .. Maximum, delay' \in 0 .. Maximum,
           attempts' \in 0 .. AttemptBound,
           Told(sup, last) => Told(place, last)
    PROVE  IInv'
  <1>1. <<>> \in Seq(Items) /\ Len(<<>>) <= 2
    OBVIOUS
  <1>2. rxOpen => Chain(last, <<>>) /\ Told(place, Final(last, <<>>))
    BY LastIsTold, ChainOfNone
  <1>3. QED
    BY <1>1, <1>2, GoToIInv

(* A connection, or an attempt that failed.                                *)
LEMMA ConnectIInv == ASSUME IInv, Connect PROVE IInv'
  <1>1. CASE ConnectOk
    <2>1. /\ GoTo("session", <<Notice("Connected")>>) /\ sup = "connecting" /\ outbox = <<>>
          /\ UNCHANGED <<channelVars, ownerVars>>
      BY <1>1 DEF ConnectOk, At
    <2>2. /\ backoff' \in Initial .. Maximum /\ delay' \in 0 .. Maximum
          /\ attempts' \in 0 .. AttemptBound
      BY <1>1, SupervisorAssumption
         DEF ConnectOk, ResetBackoff, IInv, TypeOK, SupervisorAssumption
    <2>3. Told(sup, last) => Follows(last, Notice("Connected"))
      BY <2>1 DEF Told, Follows, MayFollow, Notice, Carries
    <2>4. Told("session", Notice("Connected"))
      BY DEF Told, Notice, Carries, Owes, InSession
    <2>5. QED
      BY <2>1, <2>2, <2>3, <2>4, NoticeIInv DEF Places, NoticeTypes
  <1>2. CASE ConnectFails
    <2>1. /\ GoTo("retry", <<Notice("Disconnected")>>) /\ sup = "connecting" /\ outbox = <<>>
          /\ UNCHANGED <<channelVars, ownerVars>> /\ UNCHANGED <<backoff, delay, attempts>>
      BY <1>2 DEF ConnectFails, At
    <2>2. Told(sup, last) => Follows(last, Notice("Disconnected"))
      BY <2>1 DEF Told, Follows, MayFollow, Notice, Carries
    <2>3. Told("retry", Notice("Disconnected"))
      BY DEF Told, Notice, Carries, Owes, InSession
    <2>4. QED
      BY <2>1, <2>2, <2>3, DelaysKept, NoticeIInv DEF Places, NoticeTypes
  <1>3. QED
    BY <1>1, <1>2 DEF Connect

(* A frame is reported behind what the session reported before, and its    *)
(* candle behind it.                                                       *)
LEMMA TextFrameIInv == ASSUME IInv, NEW f \in Frames, TextFrame(f) PROVE IInv'
  <1>1. /\ GoTo("session", Output(f)) /\ sup = "session" /\ outbox = <<>>
        /\ UNCHANGED <<channelVars, ownerVars>> /\ UNCHANGED <<backoff, delay, attempts>>
    BY DEF TextFrame, At
  <1>2. Output(f) \in Seq(Items) /\ Len(Output(f)) <= 2
    BY ItemTypes
  <1>3. ASSUME rxOpen
        PROVE  Chain(last, Output(f)) /\ Told("session", Final(last, Output(f)))
    <2>1. InSession(last) /\ ~Owes(last)
      BY <1>1, <1>3, LastIsTold DEF Told
    <2>2. Follows(last, Raw(f))
      BY <2>1 DEF Follows, MayFollow, Raw, Carries
    <2>3. CASE f.closed
      <3>1. Follows(Raw(f), ClosedKline(f))
        BY DEF Follows, MayFollow, Raw, ClosedKline, Carries
      <3>2. Told("session", ClosedKline(f))
        BY DEF Told, ClosedKline, Carries, InSession, Owes
      <3>3. QED
        BY <2>2, <2>3, <3>1, <3>2, ChainOfTwo DEF Output
    <2>4. CASE ~f.closed
      <3>1. Told("session", Raw(f))
        BY <2>4 DEF Told, Raw, Carries, InSession, Owes
      <3>2. QED
        BY <2>2, <2>4, <3>1, ChainOfOne DEF Output
    <2>5. QED
      BY <2>3, <2>4
  <1>4. QED
    BY <1>1, <1>2, <1>3, DelaysKept, GoToIInv DEF Places

(* A frame that does not parse, or the end of the session.                 *)
LEMMA ReadIInv == ASSUME IInv, Read PROVE IInv'
  <1>1. CASE BadFrame
    <2>1. /\ GoTo("session", <<Notice("ProtocolError")>>) /\ sup = "session" /\ outbox = <<>>
          /\ UNCHANGED <<channelVars, ownerVars>> /\ UNCHANGED <<backoff, delay, attempts>>
      BY <1>1 DEF BadFrame, At
    <2>2. Told(sup, last) => Follows(last, Notice("ProtocolError"))
      BY <2>1 DEF Told, Follows, MayFollow, Notice, Carries
    <2>3. Told("session", Notice("ProtocolError"))
      BY DEF Told, Notice, Carries, Owes, InSession
    <2>4. QED
      BY <2>1, <2>2, <2>3, DelaysKept, NoticeIInv DEF Places, NoticeTypes
  <1>2. CASE SessionEnds
    <2>1. /\ GoTo("retry", <<Notice("Disconnected")>>) /\ sup = "session" /\ outbox = <<>>
          /\ UNCHANGED <<channelVars, ownerVars>> /\ UNCHANGED <<backoff, delay, attempts>>
      BY <1>2 DEF SessionEnds, At
    <2>2. Told(sup, last) => Follows(last, Notice("Disconnected"))
      BY <2>1 DEF Told, Follows, MayFollow, Notice, Carries
    <2>3. Told("retry", Notice("Disconnected"))
      BY DEF Told, Notice, Carries, Owes, InSession
    <2>4. QED
      BY <2>1, <2>2, <2>3, DelaysKept, NoticeIInv DEF Places, NoticeTypes
  <1>3. QED
    BY <1>1, <1>2, TextFrameIInv DEF Read

(* The rotation is reported, and then the end of the session.              *)
LEMMA RotateIInv == ASSUME IInv, Rotate PROVE IInv'
  <1> DEFINE first  == Notice("Rotating")
             second == Notice("Disconnected")
  <1>1. /\ GoTo("retry", <<first, second>>) /\ sup = "session" /\ outbox = <<>>
        /\ UNCHANGED <<channelVars, ownerVars>> /\ UNCHANGED <<backoff, delay, attempts>>
    BY DEF Rotate, At
  <1>2. <<first, second>> \in Seq(Items) /\ Len(<<first, second>>) <= 2
    BY ItemTypes DEF NoticeTypes
  <1>3. Told(sup, last) => Follows(last, first)
    BY <1>1 DEF Told, Follows, MayFollow, Notice, Carries
  <1>4. Follows(first, second)
    BY DEF Follows, MayFollow, Owes, Notice, Carries
  <1>5. Told("retry", second)
    BY DEF Told, Notice, Carries, Owes, InSession
  <1> HIDE DEF first, second
  <1>6. rxOpen => Chain(last, <<first, second>>)
                    /\ Told("retry", Final(last, <<first, second>>))
    BY <1>1, <1>3, <1>4, <1>5, LastIsTold, ChainOfTwo
  <1>7. QED
    BY <1>1, <1>2, <1>6, DelaysKept, GoToIInv DEF Places

(* Seeing the stop request reports nothing.                                *)
LEMMA StopSeenIInv == ASSUME IInv, StopSeen PROVE IInv'
  <1>1. /\ GoTo("done", <<>>) /\ outbox = <<>>
        /\ UNCHANGED <<channelVars, ownerVars>> /\ UNCHANGED <<backoff, delay, attempts>>
    BY DEF StopSeen, At
  <1>2. Told("done", last)
    BY DEF Told
  <1>3. QED
    BY <1>1, <1>2, DelaysKept, SilentIInv DEF Places

(* Neither does choosing the delay before the next attempt.                *)
LEMMA StartDelayIInv == ASSUME IInv, StartDelay PROVE IInv'
  <1>1. /\ GoTo("sleeping", <<>>) /\ sup = "retry" /\ outbox = <<>>
        /\ UNCHANGED <<channelVars, ownerVars>>
    BY DEF StartDelay, At
  <1>2. /\ backoff' \in Initial .. Maximum /\ delay' \in 0 .. Maximum
        /\ attempts' \in 0 .. AttemptBound
    BY SupervisorAssumption DEF StartDelay, Doubled, IInv, TypeOK, SupervisorAssumption
  <1>3. Told(sup, last) => Told("sleeping", last)
    BY <1>1 DEF Told
  <1>4. QED
    BY <1>1, <1>2, <1>3, SilentIInv DEF Places

(* Nor the end of that delay.                                              *)
LEMMA WakeIInv == ASSUME IInv, Wake PROVE IInv'
  <1>1. /\ GoTo("top", <<>>) /\ sup = "sleeping" /\ outbox = <<>>
        /\ UNCHANGED <<channelVars, ownerVars>>
    BY DEF Wake, At
  <1>2. /\ backoff' \in Initial .. Maximum /\ delay' \in 0 .. Maximum
        /\ attempts' \in 0 .. AttemptBound
    BY SupervisorAssumption DEF Wake, IInv, TypeOK, SupervisorAssumption
  <1>3. Told(sup, last) => Told("top", last)
    BY <1>1 DEF Told
  <1>4. QED
    BY <1>1, <1>2, <1>3, SilentIInv DEF Places

(* What enters the channel leaves the rest in order behind it.             *)
LEMMA SendItemIInv == ASSUME IInv, SendItem PROVE IInv'
  <1>1. /\ outbox \in Seq(Items) /\ outbox # <<>> /\ Len(outbox) <= 2 /\ rxOpen
        /\ queue \in Seq(Items) /\ Len(queue) < Capacity /\ Capacity \in Nat
    BY SupervisorAssumption DEF SendItem, HasRoom, IInv, TypeOK, SupervisorAssumption
  <1>2. /\ Head(outbox) \in Items /\ Tail(outbox) \in Seq(Items)
        /\ Len(Tail(outbox)) <= 2
        /\ Append(queue, Head(outbox)) \in Seq(Items)
        /\ Len(Append(queue, Head(outbox))) <= Capacity
    BY <1>1
  <1>3. TypeOK'
    BY <1>2 DEF SendItem, IInv, TypeOK, ownerVars
  <1>4. /\ Chain(Head(outbox), Tail(outbox))
        /\ Final(Head(outbox), Tail(outbox)) = Final(last, outbox)
    BY <1>1, ChainOfRest DEF IInv, OrderInv
  <1>5. OrderInv'
    BY <1>1, <1>4 DEF SendItem, IInv, OrderInv, ownerVars
  <1>6. QED
    BY <1>3, <1>5 DEF IInv

(* Without a receiver nothing is in order, nor has to be.                  *)
LEMMA SendFailsIInv == ASSUME IInv, SendFails PROVE IInv'
  <1>1. /\ outbox \in Seq(Items) /\ outbox # <<>> /\ Len(outbox) <= 2
        /\ ~rxOpen /\ rxOpen' = rxOpen
    BY DEF SendFails, IInv, TypeOK, ownerVars
  <1>2. Tail(outbox) \in Seq(Items) /\ Len(Tail(outbox)) <= 2
    BY <1>1
  <1>3. TypeOK'
    <2>1. /\ sup' \in {sup, "done"} /\ outbox' \in {Tail(outbox), <<>>}
          /\ UNCHANGED <<backoff, delay, attempts, channelVars, ownerVars>>
      BY DEF SendFails, GoTo
    <2>2. outbox' \in Seq(Items) /\ Len(outbox') <= 2
      <3>1. <<>> \in Seq(Items) /\ Len(<<>>) <= 2
        OBVIOUS
      <3>2. QED
        BY <1>2, <2>1, <3>1
    <2>3. QED
      BY <2>1, <2>2 DEF IInv, TypeOK, channelVars, ownerVars
  <1>4. QED
    BY <1>1, <1>3 DEF IInv, OrderInv

(* The owner takes from the channel, closes it or asks for a stop.         *)
LEMMA OwnerIInv == ASSUME IInv, Owner PROVE IInv'
  <1>1. queue \in Seq(Items) /\ Len(queue) <= Capacity /\ Capacity \in Nat
    BY SupervisorAssumption DEF IInv, TypeOK, SupervisorAssumption
  <1>2. /\ UNCHANGED <<taskVars, last>> /\ (rxOpen' => rxOpen)
        /\ {rxOpen', shutdown', handle'} \subseteq BOOLEAN
    <2>1. rxOpen \in BOOLEAN /\ shutdown \in BOOLEAN /\ handle \in BOOLEAN
      BY DEF IInv, TypeOK
    <2>2. CASE Receive
      BY <2>1, <2>2 DEF Receive, ownerVars
    <2>3. CASE DropReceiver
      BY <2>1, <2>3 DEF DropReceiver
    <2>4. CASE RequestShutdown
      BY <2>1, <2>4 DEF RequestShutdown, channelVars
    <2>5. CASE DropHandle
      BY <2>1, <2>5 DEF DropHandle, channelVars
    <2>6. QED
      BY <2>2, <2>3, <2>4, <2>5 DEF Owner
  <1>3. queue' \in Seq(Items) /\ Len(queue') <= Capacity
    <2>1. CASE queue' = queue
      BY <1>1, <2>1
    <2>2. CASE queue # <<>> /\ queue' = Tail(queue)
      BY <1>1, <2>2
    <2>3. CASE queue' = <<>>
      BY <1>1, <2>3
    <2>4. QED
      BY <2>1, <2>2, <2>3 DEF Owner, Receive, DropReceiver, RequestShutdown, DropHandle,
         channelVars
  <1>4. TypeOK'
    BY <1>2, <1>3 DEF IInv, TypeOK, taskVars
  <1>5. OrderInv'
    BY <1>2 DEF IInv, OrderInv, taskVars
  <1>6. QED
    BY <1>4, <1>5 DEF IInv

(* Every step keeps the invariant.                                         *)
LEMMA NextIInv == IInv /\ [Next]_vars => IInv'
  <1> SUFFICES ASSUME IInv, [Next]_vars PROVE IInv'
    OBVIOUS
  <1>1. CASE Run
    BY <1>1, LoopTopIInv, StartDelayIInv, WakeIInv, ConnectIInv, ReadIInv, RotateIInv,
       StopSeenIInv, SendItemIInv, SendFailsIInv DEF Run, Advance, Send
  <1>2. CASE Owner
    BY <1>2, OwnerIInv
  <1>3. CASE UNCHANGED vars
    <2>1. TypeOK'
      BY <1>3 DEF IInv, TypeOK, vars, taskVars, channelVars, ownerVars
    <2>2. OrderInv'
      BY <1>3 DEF IInv, OrderInv, vars, taskVars, channelVars, ownerVars
    <2>3. QED
      BY <2>1, <2>2 DEF IInv
  <1>4. QED
    BY <1>1, <1>2, <1>3 DEF Next, Stopped

-----------------------------------------------------------------------------
(* The invariant holds for ever, whatever the scheduler does.              *)
THEOREM SupervisorInvariant == Init /\ [][Next]_vars => []IInv
  <1>1. QED
    BY InitIInv, NextIInv, PTL

(* The variables stay in their domains: delays within their bounds, and    *)
(* never more in the channel than it holds.                                *)
THEOREM SupervisorTypeCorrect == Spec => []TypeOK
  <1>1. IInv => TypeOK
    BY DEF IInv
  <1>2. QED
    BY <1>1, SupervisorInvariant, PTL DEF Spec

(* The channel tells the story of the connection in order, and a closed    *)
(* candle comes right behind the frame it was parsed from.                 *)
THEOREM EmissionStaysOrdered == Init /\ [][Next]_vars => EmissionOrder
  <1>1. ASSUME IInv, [Next]_vars, Len(queue') > Len(queue)
        PROVE  LET item == queue'[Len(queue')]
               IN  /\ MayFollow(last, item)
                   /\ Owes(last) => item = ClosedKline(last.frame)
    <2>1. queue \in Seq(Items) /\ Len(queue) \in Nat /\ outbox \in Seq(Items)
      BY <1>1 DEF IInv, TypeOK
    <2>2. CASE SendItem
      <3>1. queue'[Len(queue')] = Head(outbox)
        BY <2>1, <2>2 DEF SendItem
      <3>2. Follows(last, Head(outbox))
        BY <1>1, <2>1, <2>2, ChainOfRest DEF SendItem, IInv, OrderInv
      <3>3. QED
        BY <3>1, <3>2 DEF Follows
    <2>3. CASE ~SendItem
      <3>1. queue' = queue \/ (queue # <<>> /\ queue' = Tail(queue)) \/ queue' = <<>>
        BY <1>1, <2>3 DEF Next, Run, Advance, Connect, Read, Send, Owner, Stopped, vars,
           LoopTop, StartDelay, Wake, ConnectOk, ConnectFails, TextFrame, BadFrame,
           SessionEnds, Rotate, StopSeen, SendFails, Receive, DropReceiver,
           RequestShutdown, DropHandle, channelVars
      <3>2. ~(Len(queue') > Len(queue))
        BY <2>1, <3>1
      <3>3. QED
        BY <1>1, <3>2
    <2>4. QED
      BY <2>2, <2>3
  <1>2. IInv /\ [Next]_vars =>
            [Len(queue') > Len(queue) =>
                LET item == queue'[Len(queue')] IN
                /\ MayFollow(last, item)
                /\ Owes(last) => item = ClosedKline(last.frame)]_vars
    BY <1>1
  <1>3. QED
    BY <1>2, SupervisorInvariant, PTL DEF EmissionOrder

(* And so it does for the supervisor with the fairness of the runtime.     *)
THEOREM EmissionIsOrdered == Spec => EmissionOrder
  <1>1. QED
    BY EmissionStaysOrdered, PTL DEF Spec
-----------------------------------------------------------------------------
(* One delay more.                                                         *)
Twice(d, n) == 2 * d

Growth == INSTANCE Folding WITH Base <- Initial, Op <- Twice

(* The recursion for the delays up to the m-th.                            *)
IsDoubling(f, m) == f = [n \in 0 .. m |-> IF n = 0 THEN Initial ELSE 2 * f[n - 1]]

(* There is such a sequence, however long.                                 *)
LEMMA DoublingExists == ASSUME NEW m \in Nat PROVE \E f : IsDoubling(f, m)
  <1> DEFINE T == {k \in Nat : \E f : IsDoubling(f, k)}
  <1>1. 0 \in T
    <2> DEFINE f == [n \in 0 .. 0 |-> Initial]
    <2>1. f = [n \in 0 .. 0 |-> IF n = 0 THEN Initial ELSE 2 * f[n - 1]]
      OBVIOUS
    <2>2. IsDoubling(f, 0)
      BY <2>1 DEF IsDoubling
    <2>3. QED
      BY <2>2
  <1>2. ASSUME NEW k \in T PROVE k + 1 \in T
    <2>1. PICK f : IsDoubling(f, k)
      OBVIOUS
    <2> DEFINE g == [n \in 0 .. k + 1 |-> IF n = k + 1 THEN 2 * f[k] ELSE f[n]]
    <2>2. ASSUME NEW n \in 0 .. k + 1
          PROVE  g[n] = IF n = 0 THEN Initial ELSE 2 * g[n - 1]
      <3>1. CASE n = k + 1
        <4>1. n # 0 /\ n - 1 = k /\ k \in 0 .. k + 1 /\ k # k + 1
          BY <3>1
        <4>2. QED
          BY <3>1, <4>1
      <3>2. CASE n # k + 1
        <4>1. n \in 0 .. k /\ g[n] = f[n]
          BY <3>2
        <4>2. f[n] = IF n = 0 THEN Initial ELSE 2 * f[n - 1]
          BY <2>1, <4>1 DEF IsDoubling
        <4>3. n # 0 => n - 1 \in 0 .. k + 1 /\ n - 1 # k + 1
          BY <4>1
        <4>4. QED
          BY <4>1, <4>2, <4>3
      <3>3. QED
        BY <3>1, <3>2
    <2>3. g = [n \in 0 .. k + 1 |-> g[n]]
      OBVIOUS
    <2> HIDE DEF g
    <2>4. IsDoubling(g, k + 1)
      BY <2>2, <2>3 DEF IsDoubling
    <2>5. QED
      BY <2>4
  <1>3. T = Nat
    <2>1. T \in SUBSET Nat
      OBVIOUS
    <2> HIDE DEF T
    <2>2. QED
      BY <1>1, <1>2, <2>1, Growth!Induction
  <1>4. QED
    BY <1>3

(* The delays without a bound, as they are defined; they are numbers.      *)
LEMMA UnboundedDoubles ==
    /\ Unbounded[0] = Initial
    /\ \A n \in 0 .. AttemptBound : Unbounded[n] \in Int
    /\ \A n \in 1 .. AttemptBound : Unbounded[n] = 2 * Unbounded[n - 1]
  <1>1. AttemptBound \in Nat /\ Initial \in Int
    BY SupervisorAssumption DEF SupervisorAssumption
  <1>2. IsDoubling(Unbounded, AttemptBound)
    BY <1>1, DoublingExists DEF IsDoubling, Unbounded
  <1>3. \A n \in 0 .. AttemptBound :
            Unbounded[n] = IF n = 0 THEN Initial ELSE 2 * Unbounded[n - 1]
    BY <1>2 DEF IsDoubling
  <1> DEFINE T == {n \in Nat : n <= AttemptBound => Unbounded[n] \in Int}
  <1>4. 0 \in T
    BY <1>1, <1>3
  <1>5. ASSUME NEW n \in T PROVE n + 1 \in T
    <2> SUFFICES ASSUME n + 1 <= AttemptBound PROVE Unbounded[n + 1] \in Int
      OBVIOUS
    <2>1. Unbounded[n] \in Int /\ n + 1 \in 0 .. AttemptBound /\ n + 1 # 0 /\ (n + 1) - 1 = n
      BY <1>1
    <2>2. Unbounded[n + 1] = 2 * Unbounded[n]
      BY <1>3, <2>1
    <2>3. QED
      BY <2>1, <2>2
  <1>6. T = Nat
    <2>1. T \in SUBSET Nat
      OBVIOUS
    <2> HIDE DEF T
    <2>2. QED
      BY <1>4, <1>5, <2>1, Growth!Induction
  <1>7. \A n \in 0 .. AttemptBound : Unbounded[n] \in Int
    BY <1>6
  <1>8. QED
    BY <1>1, <1>3, <1>7

(* The delay after n others.                                               *)
Bounded(n) == IF Unbounded[n] < Maximum THEN Unbounded[n] ELSE Maximum

(* The next delay is the one that the delays since the last connection     *)
(* call for, and so is the one that is slept.                              *)
ScheduleInv ==
    /\ backoff = Bounded(attempts)
    /\ sup = "sleeping" => attempts >= 1 /\ delay = Bounded(attempts - 1)

(* One delay more doubles it, up to the maximum.                           *)
LEMMA BoundedDoubles ==
    ASSUME NEW n \in 0 .. AttemptBound - 1
    PROVE  Bounded(n + 1) = Doubled(Bounded(n))
  <1>1. /\ AttemptBound \in Nat /\ Maximum \in Nat
        /\ n \in 0 .. AttemptBound /\ n + 1 \in 1 .. AttemptBound /\ (n + 1) - 1 = n
    BY SupervisorAssumption DEF SupervisorAssumption
  <1>2. Unbounded[n] \in Int /\ Unbounded[n + 1] = 2 * Unbounded[n]
    BY <1>1, UnboundedDoubles
  <1>3. QED
    BY <1>1, <1>2 DEF Bounded, Doubled

(* At the bound of the count the delay no longer grows.                    *)
LEMMA BoundedIsConstant ==
    /\ Bounded(AttemptBound - 1) = Maximum /\ Bounded(AttemptBound) = Maximum
    /\ Doubled(Maximum) = Maximum
  <1>1. /\ AttemptBound \in Nat \ {0} /\ Maximum \in Nat
        /\ Maximum <= Unbounded[AttemptBound - 1]
    BY SupervisorAssumption, GrowthAssumption DEF SupervisorAssumption, GrowthAssumption
  <1>2. AttemptBound - 1 \in 0 .. AttemptBound /\ AttemptBound \in 1 .. AttemptBound
    BY <1>1
  <1>3. /\ Unbounded[AttemptBound - 1] \in Int
        /\ Unbounded[AttemptBound] = 2 * Unbounded[AttemptBound - 1]
    BY <1>2, UnboundedDoubles
  <1>4. Doubled(Maximum) = Maximum
    BY <1>1 DEF Doubled
  <1>5. QED
    BY <1>1, <1>3, <1>4 DEF Bounded

(* The first delay.                                                        *)
LEMMA BoundedStarts == Bounded(0) = Initial
  BY SupervisorAssumption, UnboundedDoubles DEF SupervisorAssumption, Bounded

(* At first.                                                               *)
LEMMA InitScheduleInv == Init => ScheduleInv
  BY BoundedStarts DEF Init, ScheduleInv

(* A delay is taken.                                                       *)
LEMMA StartDelayScheduleInv ==
    ASSUME TypeOK, ScheduleInv, StartDelay
    PROVE  ScheduleInv'
  <1>1. /\ attempts \in 0 .. AttemptBound /\ AttemptBound \in Nat \ {0}
        /\ backoff = Bounded(attempts)
    BY SupervisorAssumption DEF SupervisorAssumption, TypeOK, ScheduleInv
  <1>2. delay' = backoff /\ backoff' = Doubled(backoff)
    BY DEF StartDelay
  <1>3. CASE attempts < AttemptBound
    <2>1. attempts' = attempts + 1 /\ attempts \in 0 .. AttemptBound - 1
      BY <1>1, <1>3 DEF StartDelay
    <2>2. backoff' = Bounded(attempts')
      BY <1>1, <1>2, <2>1, BoundedDoubles
    <2>3. attempts' >= 1 /\ attempts' - 1 = attempts
      BY <1>1, <2>1
    <2>4. QED
      BY <1>1, <1>2, <2>2, <2>3 DEF ScheduleInv, Bounded
  <1>4. CASE attempts >= AttemptBound
    <2>1. attempts' = AttemptBound /\ attempts = AttemptBound
      BY <1>1, <1>4 DEF StartDelay
    <2>2. backoff = Maximum /\ delay' = Maximum /\ backoff' = Maximum
      BY <1>1, <1>2, <2>1, BoundedIsConstant
    <2>3. QED
      BY <1>1, <2>1, <2>2, BoundedIsConstant DEF ScheduleInv, Bounded
  <1>5. QED
    BY <1>1, <1>3, <1>4

(* Every step.                                                             *)
LEMMA NextScheduleInv == TypeOK /\ ScheduleInv /\ [Next]_vars => ScheduleInv'
  <1> SUFFICES ASSUME TypeOK, ScheduleInv, [Next]_vars PROVE ScheduleInv'
    OBVIOUS
  <1>1. ASSUME UNCHANGED <<backoff, delay, attempts>>, sup' = "sleeping" => sup = "sleeping"
        PROVE  ScheduleInv'
    BY <1>1 DEF ScheduleInv, Bounded
  <1>2. CASE StartDelay
    BY <1>2, StartDelayScheduleInv
  <1>3. CASE ConnectOk
    BY <1>3, BoundedStarts DEF ConnectOk, ResetBackoff, GoTo, ScheduleInv, Bounded
  <1>4. CASE Wake
    BY <1>4 DEF Wake, GoTo, ScheduleInv, Bounded
  <1>5. CASE LoopTop
    BY <1>1, <1>5 DEF LoopTop, GoTo
  <1>6. CASE ConnectFails \/ Read \/ Rotate \/ StopSeen
    BY <1>1, <1>6 DEF ConnectFails, Read, TextFrame, BadFrame, SessionEnds, Rotate, StopSeen, GoTo
  <1>7. CASE Send
    BY <1>1, <1>7 DEF Send, SendItem, SendFails, GoTo
  <1>8. CASE Owner
    BY <1>1, <1>8 DEF Owner, Receive, DropReceiver, RequestShutdown, DropHandle, taskVars
  <1>9. CASE UNCHANGED vars
    BY <1>1, <1>9 DEF vars, taskVars
  <1>10. QED
    BY <1>2, <1>3, <1>4, <1>5, <1>6, <1>7, <1>8, <1>9
    DEF Next, Run, Advance, Connect, Stopped

(* The n-th delay since the last connection is the n-th of the sequence    *)
(* that doubles from Initial up to Maximum: next_delay is called once per  *)
(* retry and reset once per connection, in whatever order these come.      *)
THEOREM BackoffStaysExact == Init /\ [][Next]_vars => []BackoffSchedule
  <1>1. ScheduleInv => BackoffSchedule
    BY DEF ScheduleInv, BackoffSchedule, Bounded
  <1>2. IInv => TypeOK
    BY DEF IInv
  <1>3. QED
    BY <1>1, <1>2, InitScheduleInv, NextScheduleInv, SupervisorInvariant, PTL

(* And so it is for the supervisor with the fairness of the runtime.       *)
THEOREM BackoffIsExact == Spec => []BackoffSchedule
  <1>1. QED
    BY BackoffStaysExact, PTL DEF Spec
=============================================================================
