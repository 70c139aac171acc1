------------------------------ MODULE StoreProofs ------------------------------
(***************************************************************************)
(* Proofs about the JSON-lines store and about download-klines, for every  *)
(* set of records, answer and skew of the clock, and any number of         *)
(* appends, crashes and restarts.  First the store alone: a file that can  *)
(* be read misses no acknowledged record.  Then the command: it uses its   *)
(* file as the store demands, what it stores as closed is final, and what  *)
(* it reports is what replay finds.                                        *)
(***************************************************************************)
EXTENDS Download, SequenceTheorems, TLAPS

-----------------------------------------------------------------------------
(* "place" finds the elements of xs in log, in order.                      *)
Places(place, xs, log) ==
    /\ place \in [DOMAIN xs -> DOMAIN log]
    /\ \A i \in DOMAIN xs : /\ log[place[i]] = xs[i]
                            /\ \A j \in 1 .. i - 1 : place[j] < place[i]

(* While no line is garbled, what was acknowledged is in the lines.  The   *)
(* tail does not count: only a line that ended keeps its record, and one   *)
(* that lands behind a tail is garbled.                                    *)
LinesComplete ==
    (\A i \in 1 .. Len(lines) : lines[i] # Garbled) => \E place : Places(place, acked, lines)

IInv == TypeOK /\ LinesComplete

(* The elements stay where they are when the log grows.                    *)
LEMMA PlacesInLonger ==
    ASSUME NEW S, NEW xs \in Seq(S), NEW log \in Seq(S), NEW r \in S,
           NEW place, Places(place, xs, log)
    PROVE  Places(place, xs, Append(log, r))
  <1>1. /\ DOMAIN log \subseteq DOMAIN Append(log, r)
        /\ \A k \in DOMAIN log : Append(log, r)[k] = log[k]
    OBVIOUS
  <1>2. \A i \in DOMAIN xs : place[i] \in DOMAIN log
    BY DEF Places
  <1>3. QED
    BY <1>1, <1>2 DEF Places

(* An element added to both is found at the end of the log.                *)
LEMMA PlacesOfLonger ==
    ASSUME NEW S, NEW xs \in Seq(S), NEW log \in Seq(S), NEW r \in S,
           NEW place, Places(place, xs, log)
    PROVE  \E q : Places(q, Append(xs, r), Append(log, r))
  <1> DEFINE n == Len(xs)
             m == Len(log)
             q == [i \in DOMAIN Append(xs, r) |-> IF i = n + 1 THEN m + 1 ELSE place[i]]
  <1>1. /\ DOMAIN Append(xs, r) = 1 .. n + 1 /\ DOMAIN xs = 1 .. n
        /\ DOMAIN Append(log, r) = 1 .. m + 1 /\ DOMAIN log = 1 .. m
        /\ n \in Nat /\ m \in Nat
    OBVIOUS
  <1>2. /\ Append(xs, r)[n + 1] = r /\ Append(log, r)[m + 1] = r
        /\ \A i \in 1 .. n : Append(xs, r)[i] = xs[i]
        /\ \A k \in 1 .. m : Append(log, r)[k] = log[k]
    OBVIOUS
  <1>3. \A i \in 1 .. n : place[i] \in 1 .. m /\ log[place[i]] = xs[i]
                            /\ \A j \in 1 .. i - 1 : place[j] < place[i]
    BY <1>1 DEF Places
  <1> HIDE DEF n, m
  <1>4. q \in [DOMAIN Append(xs, r) -> DOMAIN Append(log, r)]
    BY <1>1, <1>3
  <1>5. q[n + 1] = m + 1 /\ \A i \in 1 .. n : q[i] = place[i]
    BY <1>1
  <1> HIDE DEF q
  <1>6. ASSUME NEW i \in 1 .. n + 1
        PROVE  Append(log, r)[q[i]] = Append(xs, r)[i]
    <2>1. CASE i = n + 1
      BY <1>2, <1>5, <2>1
    <2>2. CASE i \in 1 .. n
      <3>1. q[i] = place[i] /\ place[i] \in 1 .. m /\ log[place[i]] = xs[i]
        BY <1>3, <1>5, <2>2
      <3>2. Append(log, r)[place[i]] = log[place[i]] /\ Append(xs, r)[i] = xs[i]
        BY <1>2, <2>2, <3>1
      <3>3. QED
        BY <3>1, <3>2
    <2>3. i = n + 1 \/ i \in 1 .. n
      BY <1>1
    <2>4. QED
      BY <2>1, <2>2, <2>3
  <1>7. ASSUME NEW i \in 1 .. n + 1, NEW j \in 1 .. i - 1
        PROVE  q[j] < q[i]
    <2>1. j \in 1 .. n /\ q[j] = place[j] /\ place[j] \in 1 .. m
      BY <1>1, <1>3, <1>5
    <2>2. CASE i = n + 1
      BY <1>1, <1>5, <2>1, <2>2
    <2>3. CASE i \in 1 .. n
      BY <1>3, <1>5, <2>1, <2>3
    <2>4. QED
      BY <1>1, <2>2, <2>3
  <1>8. Places(q, Append(xs, r), Append(log, r))
    BY <1>1, <1>4, <1>6, <1>7 DEF Places
  <1>9. QED
    BY <1>8

-----------------------------------------------------------------------------
(* An empty file misses nothing.                                           *)
LEMMA InitIInv == Init => IInv
  <1> SUFFICES ASSUME Init PROVE IInv
    OBVIOUS
  <1>1. TypeOK
    BY StoreAssumption DEF Init, TypeOK, StoreAssumption
  <1>2. Places(<<>>, acked, lines)
    BY DEF Init, Places
  <1>3. QED
    BY <1>1, <1>2 DEF IInv, LinesComplete

(* A step that adds a line, of a record or garbled, misses nothing.        *)
LEMMA LineAdded ==
    ASSUME IInv, NEW record \in Records, lines' = Append(lines, Landed(record)),
           acked' = acked \/ acked' = Append(acked, record)
    PROVE  LinesComplete'
  <1> DEFINE S == Records \cup {Garbled}
  <1>1. lines \in Seq(S) /\ acked \in Seq(S) /\ Landed(record) \in S
    <2>1. Seq(Records) \subseteq Seq(S)
      OBVIOUS
    <2>2. QED
      BY <2>1 DEF IInv, TypeOK, Landed
  <1> SUFFICES ASSUME \A i \in 1 .. Len(lines') : lines'[i] # Garbled
               PROVE  \E place : Places(place, acked', lines')
    BY DEF LinesComplete
  <1>2. /\ \A i \in 1 .. Len(lines) : lines[i] # Garbled
        /\ Landed(record) # Garbled
    <2>1. /\ Len(lines') = Len(lines) + 1 /\ Len(lines) \in Nat
          /\ lines'[Len(lines) + 1] = Landed(record)
          /\ \A i \in 1 .. Len(lines) : lines'[i] = lines[i]
      BY <1>1
    <2>2. QED
      BY <2>1
  <1>3. Landed(record) = record
    BY <1>2 DEF Landed
  <1>4. PICK place : Places(place, acked, lines)
    BY <1>2 DEF IInv, LinesComplete
  <1> HIDE DEF S
  <1>5. CASE acked' = acked
    BY <1>1, <1>4, <1>5, PlacesInLonger
  <1>6. CASE acked' = Append(acked, record)
    BY <1>1, <1>3, <1>4, <1>6, PlacesOfLonger
  <1>7. QED
    BY <1>5, <1>6

(* A step that leaves both alone misses nothing.                           *)
LEMMA LinesKept ==
    ASSUME IInv, lines' = lines, acked' = acked PROVE LinesComplete'
  BY DEF IInv, LinesComplete, Places

(* An append that returns.                                                 *)
LEMMA AppendOkIInv == ASSUME IInv, NEW r \in Records, AppendOk(r) PROVE IInv'
  <1>1. TypeOK'
    <2>1. Landed(r) \in Records \cup {Garbled}
      BY DEF Landed
    <2>2. /\ lines' \in Seq(Records \cup {Garbled}) /\ Len(lines') = Len(lines) + 1
          /\ acked' \in Seq(Records) /\ Len(acked') = Len(acked) + 1
      BY <2>1 DEF IInv, TypeOK, AppendOk
    <2>3. Len(acked') <= Len(lines')
      BY <2>2 DEF IInv, TypeOK
    <2>4. appends' \in 0 .. AppendBound
      BY StoreAssumption DEF IInv, TypeOK, AppendOk, Begin, StoreAssumption
    <2>5. QED
      BY <2>2, <2>3, <2>4, StoreAssumption DEF IInv, TypeOK, AppendOk, StoreAssumption
  <1>2. LinesComplete'
    BY LineAdded DEF AppendOk
  <1>3. QED
    BY <1>1, <1>2 DEF IInv

(* An append nobody learns of.                                             *)
LEMMA AppendUnackedIInv == ASSUME IInv, NEW r \in Records, AppendUnacked(r) PROVE IInv'
  <1>1. TypeOK'
    <2>1. Landed(r) \in Records \cup {Garbled}
      BY DEF Landed
    <2>2. lines' \in Seq(Records \cup {Garbled}) /\ Len(lines') = Len(lines) + 1
      BY <2>1 DEF IInv, TypeOK, AppendUnacked
    <2>3. acked' = acked /\ Len(acked') <= Len(lines')
      BY <2>2 DEF IInv, TypeOK, AppendUnacked
    <2>4. appends' \in 0 .. AppendBound
      BY StoreAssumption DEF IInv, TypeOK, AppendUnacked, Begin, StoreAssumption
    <2>5. QED
      BY <2>2, <2>3, <2>4, StoreAssumption DEF IInv, TypeOK, AppendUnacked, StoreAssumption
  <1>2. LinesComplete'
    BY LineAdded DEF AppendUnacked
  <1>3. QED
    BY <1>1, <1>2 DEF IInv

(* An append that is torn.                                                 *)
LEMMA AppendTornIInv ==
    ASSUME IInv, NEW r \in Records, NEW reached, AppendTorn(r, reached) PROVE IInv'
  <1>1. lines' = lines /\ acked' = acked
    BY DEF AppendTorn
  <1>2. TypeOK'
    <2>1. appends' \in 0 .. AppendBound
      BY StoreAssumption DEF IInv, TypeOK, AppendTorn, Begin, StoreAssumption
    <2>2. \/ tail' = "whole" /\ tailRecord' = r
          \/ tail' = "part" /\ tailRecord' = Garbled
      BY DEF AppendTorn
    <2>3. up' = FALSE
      BY DEF AppendTorn
    <2>4. QED
      BY <1>1, <2>1, <2>2, <2>3, StoreAssumption DEF IInv, TypeOK, StoreAssumption
  <1>3. QED
    BY <1>1, <1>2, LinesKept DEF IInv

(* An append that reaches nothing.                                         *)
LEMMA AppendRefusedIInv == ASSUME IInv, AppendRefused PROVE IInv'
  <1>1. TypeOK'
    <2>1. appends' \in 0 .. AppendBound
      BY StoreAssumption DEF IInv, TypeOK, AppendRefused, Begin, StoreAssumption
    <2>2. QED
      BY <2>1 DEF IInv, TypeOK, AppendRefused
  <1>2. QED
    BY <1>1, LinesKept DEF IInv, AppendRefused

(* A step that leaves the file and its history alone.                      *)
LEMMA FileKept ==
    ASSUME IInv, UNCHANGED <<lines, tail, tailRecord, acked, appends>>, up' \in BOOLEAN
    PROVE  IInv'
  <1>1. TypeOK'
    BY DEF IInv, TypeOK
  <1>2. QED
    BY <1>1, LinesKept DEF IInv

(* Every step keeps the invariant.                                         *)
LEMMA NextIInv == IInv /\ [Next]_vars => IInv'
  <1> SUFFICES ASSUME IInv, [Next]_vars PROVE IInv'
    OBVIOUS
  <1>1. ASSUME NEW r \in Records, AppendOk(r) \/ AppendUnacked(r) PROVE IInv'
    BY <1>1, AppendOkIInv, AppendUnackedIInv
  <1>2. ASSUME NEW r \in Records, NEW reached \in {"part", "whole"}, AppendTorn(r, reached)
        PROVE  IInv'
    BY <1>2, AppendTornIInv
  <1>3. CASE AppendRefused
    BY <1>3, AppendRefusedIInv
  <1>4. CASE Exit
    BY <1>4, FileKept DEF Exit
  <1>5. CASE Restart
    BY <1>5, FileKept DEF Restart
  <1>6. CASE UNCHANGED vars
    BY <1>6, FileKept DEF vars, IInv, TypeOK
  <1>7. QED
    BY <1>1, <1>2, <1>3, <1>4, <1>5, <1>6 DEF Next

(* A file that reads well is complete.                                     *)
LEMMA IInvImplies == IInv => ReadIsComplete
  <1> SUFFICES ASSUME IInv, Readable
               PROVE  \E place \in [DOMAIN acked -> DOMAIN Content] :
                          \A i \in DOMAIN acked :
                              /\ Content[place[i]] = acked[i]
                              /\ \A j \in 1 .. i - 1 : place[j] < place[i]
    BY DEF ReadIsComplete
  <1> DEFINE S == Records \cup {Garbled}
  <1>1. lines \in Seq(S) /\ acked \in Seq(S) /\ tailRecord \in S
    <2>1. Seq(Records) \subseteq Seq(S)
      OBVIOUS
    <2>2. QED
      BY <2>1 DEF IInv, TypeOK
  <1>2. PICK place : Places(place, acked, lines)
    BY DEF IInv, LinesComplete, Readable
  <1> HIDE DEF S
  <1>3. Places(place, acked, Content)
    BY <1>1, <1>2, PlacesInLonger DEF Content
  <1>4. QED
    BY <1>3 DEF Places

(* The invariant holds for ever.                                           *)
THEOREM StoreInvariant == Spec => []IInv
  <1>1. QED
    BY InitIInv, NextIInv, PTL DEF Spec

(* Whatever crashes the file went through, a read that succeeds returns    *)
(* every record whose append returned, in order.                           *)
THEOREM StoreReadIsComplete == Spec => []ReadIsComplete
  <1>1. QED
    BY StoreInvariant, IInvImplies, PTL


-----------------------------------------------------------------------------
(* A candle that is not final is not marked closed by a clock that is not  *)
(* ahead.                                                                  *)
Sound(candle) == skew <= 0 /\ candle.closed => candle.final

(* The clock was read before the answer under way was made.                *)
ClockInv ==
    phase = "asking" =>
        /\ observed \in Int /\ observed <= now + skew
        /\ answer # None => /\ answer.rows \in Answers
                            /\ answer.made \in Int /\ observed <= answer.made + skew

(* What is in hand, and from there in the file, is sound.                  *)
CandlesInv == candles \in Seq(Records) /\ \A i \in 1 .. Len(candles) : Sound(candles[i])

FileInv == /\ \A i \in 1 .. Len(lines) : lines[i] # Garbled => Sound(lines[i])
           /\ tailRecord # Garbled => Sound(tailRecord)

DInv == IInv /\ DownloadTypeOK /\ ClockInv /\ CandlesInv /\ FileInv

(* The command changes no more than the store allows it to change.         *)
LEMMA NextStores == DInv /\ [DownloadNext]_downloadVars => [Next]_vars
  <1> SUFFICES ASSUME DInv, [DownloadNext]_downloadVars PROVE [Next]_vars
    OBVIOUS
  <1>1. ASSUME Fail PROVE [Next]_vars
    BY <1>1 DEF Fail, Next
  <1>2. ASSUME NEW request \in Requests, Ask(request) PROVE [Next]_vars
    BY <1>1, <1>2 DEF Ask
  <1>3. ASSUME NEW rows \in Answers, Generate(rows) PROVE [Next]_vars
    BY <1>3 DEF Generate
  <1>4. CASE Arrive
    BY <1>1, <1>4 DEF Arrive
  <1>5. CASE RequestFails
    BY <1>1, <1>5 DEF RequestFails
  <1>6. CASE Store
    <2> DEFINE candle == candles[tally.written + 1]
    <2>1. candle \in Records
      BY <1>6 DEF DInv, DownloadTypeOK, CandlesInv, Store
    <2>2. \/ AppendOk(candle) \/ AppendUnacked(candle)
          \/ \E reached \in {"part", "whole"} : AppendTorn(candle, reached)
          \/ AppendRefused
      BY <1>6 DEF Store
    <2> HIDE DEF candle
    <2>3. QED
      BY <2>1, <2>2 DEF Next
  <1>7. CASE Finish
    BY <1>7 DEF Finish, Next
  <1>8. CASE RunAgain
    BY <1>8 DEF RunAgain, Next
  <1>9. CASE Tick
    BY <1>9 DEF Tick
  <1>10. CASE UNCHANGED downloadVars
    BY <1>10 DEF downloadVars
  <1>11. QED
    BY <1>2, <1>3, <1>4, <1>5, <1>6, <1>7, <1>8, <1>9, <1>10 DEF DownloadNext

-----------------------------------------------------------------------------
(* No command runs at first, and the file is empty.                        *)
LEMMA InitDInv == DownloadInit => DInv
  <1> SUFFICES ASSUME DownloadInit PROVE DInv
    OBVIOUS
  <1>1. IInv
    BY InitIInv DEF DownloadInit
  <1>2. DownloadTypeOK
    BY <1>1, DownloadAssumption DEF DownloadInit, Init, NoCommand, FreshTally,
       DownloadTypeOK, IInv, DownloadAssumption
  <1>3. ClockInv /\ CandlesInv /\ FileInv
    BY DEF DownloadInit, Init, NoCommand, ClockInv, CandlesInv, FileInv
  <1>4. QED
    BY <1>1, <1>2, <1>3 DEF DInv

(* A process that ends between two appends.                                *)
LEMMA QuitDInv ==
    ASSUME DInv, IInv', Quit, Exit, UNCHANGED <<now, skew, base>>
    PROVE  DInv'
  <1>1. DownloadTypeOK'
    BY DEF DInv, Quit, Exit, DownloadTypeOK, NoCommand, FreshTally, IInv
  <1>2. ClockInv' /\ CandlesInv' /\ FileInv'
    BY DEF DInv, Quit, Exit, ClockInv, CandlesInv, FileInv, Sound
  <1>3. QED
    BY <1>1, <1>2 DEF DInv

(* A request is validated and its clock read.                              *)
LEMMA AskDInv ==
    ASSUME DInv, IInv', NEW request \in Requests, Ask(request) PROVE DInv'
  <1>1. CASE IsValid(request)
    <2>1. now + skew \in Int /\ skew \in Int /\ now \in Int
      BY DownloadAssumption DEF DInv, DownloadTypeOK, DownloadAssumption
    <2>2. answer = None /\ candles = <<>> /\ tally = FreshTally /\ up
      BY DEF Ask, DInv, DownloadTypeOK, NoCommand
    <2>3. /\ phase' = "asking" /\ observed' = now + skew
          /\ UNCHANGED <<vars, now, skew, answer, candles, tally, report, base>>
      BY <1>1 DEF Ask
    <2>4. DownloadTypeOK'
      BY <2>1, <2>2, <2>3 DEF DInv, DownloadTypeOK, vars, IInv
    <2>5. ClockInv' /\ CandlesInv' /\ FileInv'
      BY <2>1, <2>2, <2>3 DEF DInv, ClockInv, CandlesInv, FileInv, Sound, vars
    <2>6. QED
      BY <2>4, <2>5 DEF DInv
  <1>2. CASE ~IsValid(request)
    BY <1>2, QuitDInv DEF Ask, Fail
  <1>3. QED
    BY <1>1, <1>2

(* An answer is made after the clock was read.                             *)
LEMMA GenerateDInv ==
    ASSUME DInv, IInv', NEW rows \in Answers, Generate(rows) PROVE DInv'
  <1>1. now \in Int /\ skew \in Int /\ phase = "asking"
    BY DownloadAssumption DEF DInv, DownloadTypeOK, DownloadAssumption, Generate
  <1>2. DownloadTypeOK'
    BY <1>1 DEF DInv, DownloadTypeOK, Generate, vars, IInv
  <1>3. ClockInv'
    BY <1>1 DEF DInv, ClockInv, Generate
  <1>4. CandlesInv' /\ FileInv'
    BY DEF DInv, CandlesInv, FileInv, Sound, Generate, vars
  <1>5. QED
    BY <1>2, <1>3, <1>4 DEF DInv

(* What is parsed is sound, because the clock is older than the answer.    *)
LEMMA ArriveDInv == ASSUME DInv, IInv', Arrive PROVE DInv'
  <1>1. CASE Fail
    BY <1>1, QuitDInv DEF Fail
  <1>2. CASE ~Fail
    <2>1. /\ phase = "asking" /\ answer # None
          /\ \A i \in DOMAIN answer.rows : answer.rows[i] # Malformed
          /\ phase' = "writing" /\ answer' = None
          /\ candles' = [i \in DOMAIN answer.rows |-> ParseRow(answer.rows[i], answer.made)]
          /\ UNCHANGED <<vars, now, skew, observed, tally, report, base>>
      BY <1>2 DEF Arrive
    <2>2. /\ answer.rows \in Answers /\ answer.made \in Int /\ observed \in Int
          /\ observed <= answer.made + skew /\ skew \in Int
      BY <2>1, DownloadAssumption DEF DInv, ClockInv, DownloadTypeOK, DownloadAssumption
    <2>3. /\ answer.rows \in Seq(CandleTimes \cup {Malformed})
          /\ \A i \in DOMAIN answer.rows : answer.rows[i] \in CandleTimes
          /\ \A i \in DOMAIN answer.rows : \A closed, final \in BOOLEAN :
                [open |-> answer.rows[i].open, closed |-> closed, final |-> final] \in Records
      BY <2>1, <2>2, DownloadAssumption DEF DownloadAssumption
    <2>4. ASSUME NEW i \in DOMAIN answer.rows
          PROVE  /\ ParseRow(answer.rows[i], answer.made) \in Records
                 /\ skew <= 0 /\ ParseRow(answer.rows[i], answer.made).closed
                        => ParseRow(answer.rows[i], answer.made).final
      <3> DEFINE close == answer.rows[i].close
      <3>1. close \in Int
        BY <2>3 DEF CandleTimes
      <3> HIDE DEF close
      <3>2. skew <= 0 /\ close < observed => close < answer.made
        BY <2>2, <3>1
      <3>3. ParseRow(answer.rows[i], answer.made) =
                [open |-> answer.rows[i].open, closed |-> close < observed,
                 final |-> close < answer.made]
        BY DEF ParseRow, ObservedAt, close
      <3>4. PICK closed \in BOOLEAN, final \in BOOLEAN :
                (closed <=> close < observed) /\ (final <=> close < answer.made)
        OBVIOUS
      <3>5. ParseRow(answer.rows[i], answer.made) =
                [open |-> answer.rows[i].open, closed |-> closed, final |-> final]
        BY <3>3, <3>4
      <3>6. QED
        BY <2>3, <3>2, <3>4, <3>5
    <2>5. candles' \in Seq(Records) /\ \A i \in 1 .. Len(candles') :
              skew <= 0 /\ candles'[i].closed => candles'[i].final
      <3>1. DOMAIN answer.rows = 1 .. Len(answer.rows) /\ Len(answer.rows) \in Nat
        BY <2>3
      <3>2. candles' \in Seq(Records) /\ Len(candles') = Len(answer.rows)
        BY <2>1, <2>4, <3>1
      <3>3. QED
        BY <2>1, <2>4, <3>1, <3>2
    <2>6. tally.written = 0 /\ up /\ tally' = tally
      BY <2>1 DEF DInv, DownloadTypeOK
    <2>7. DownloadTypeOK'
      BY <2>1, <2>2, <2>5, <2>6 DEF DInv, DownloadTypeOK, vars, IInv
    <2>8. ClockInv' /\ CandlesInv' /\ FileInv'
      BY <2>1, <2>5 DEF DInv, ClockInv, CandlesInv, FileInv, Sound, vars
    <2>9. QED
      BY <2>7, <2>8 DEF DInv
  <1>3. QED
    BY <1>1, <1>2

(* An error or a kill while a request is under way.                        *)
LEMMA RequestFailsDInv == ASSUME DInv, IInv', RequestFails PROVE DInv'
  BY QuitDInv DEF RequestFails, Fail

(* The file keeps what is sound, and gets no more than the candle in hand. *)
LEMMA FileStaysSound ==
    ASSUME DInv, NEW candle \in Records, Sound(candle), skew' = skew,
           lines' = lines \/ lines' = Append(lines, Landed(candle)),
           tailRecord' \in {tailRecord, Garbled, candle}
    PROVE  FileInv'
  <1>1. lines \in Seq(Records \cup {Garbled}) /\ Landed(candle) \in {candle, Garbled}
    BY DEF DInv, IInv, TypeOK, Landed
  <1>2. ASSUME NEW i \in 1 .. Len(lines'), lines'[i] # Garbled
        PROVE  Sound(lines'[i])
    <2>1. lines'[i] = candle \/ (i \in 1 .. Len(lines) /\ lines'[i] = lines[i])
      BY <1>1, <1>2
    <2>2. QED
      BY <1>2, <2>1 DEF DInv, FileInv
  <1>3. tailRecord' # Garbled => Sound(tailRecord')
    BY DEF DInv, FileInv
  <1>4. QED
    BY <1>2, <1>3 DEF FileInv, Sound

(* A candle is appended, or the process ends.                              *)
LEMMA StoreDInv == ASSUME DInv, IInv', Store PROVE DInv'
  <1> DEFINE candle == candles[tally.written + 1]
  <1>1. /\ candle \in Records /\ Sound(candle) /\ phase = "writing"
        /\ tally.written \in Nat /\ tally.written + 1 \in 1 .. Len(candles)
        /\ UNCHANGED <<now, skew, report, base>>
    BY DEF DInv, DownloadTypeOK, CandlesInv, Store
  <1>2. \/ AppendOk(candle) /\ tally' = Tallied(tally, candle)
              /\ UNCHANGED <<phase, observed, answer, candles>>
        \/ AppendUnacked(candle) /\ Quit
        \/ (\E reached \in {"part", "whole"} : AppendTorn(candle, reached)) /\ Quit
        \/ AppendRefused /\ Quit
    BY DEF Store
  <1> HIDE DEF candle
  <1>3. FileInv'
    <2>1. /\ lines' = lines \/ lines' = Append(lines, Landed(candle))
          /\ tailRecord' \in {tailRecord, Garbled, candle}
      BY <1>2 DEF AppendOk, AppendUnacked, AppendTorn, AppendRefused
    <2>2. QED
      BY <1>1, <2>1, FileStaysSound
  <1>4. Len(lines) \in Nat /\ Len(lines') \in Nat
    BY DEF DInv, IInv, TypeOK
  <1>5. CASE AppendOk(candle) /\ tally' = Tallied(tally, candle)
                 /\ UNCHANGED <<phase, observed, answer, candles>>
    <2>1. tally'.written = tally.written + 1
      BY <1>5 DEF Tallied
    <2>2. Len(lines') = Len(lines) + 1 /\ up' = up
      BY <1>5 DEF AppendOk, DInv, IInv, TypeOK
    <2>3. /\ tally'.written \in 0 .. Len(candles')
          /\ base' # None => base' \in 0 .. Len(lines') - tally'.written
      BY <1>1, <1>4, <1>5, <2>1, <2>2 DEF DInv, DownloadTypeOK
    <2>4. DownloadTypeOK'
      BY <1>1, <1>5, <2>2, <2>3 DEF DInv, DownloadTypeOK, IInv
    <2>5. ClockInv' /\ CandlesInv'
      BY <1>1, <1>5 DEF DInv, ClockInv, CandlesInv, Sound
    <2>6. QED
      BY <1>3, <2>4, <2>5 DEF DInv
  <1>6. ASSUME Quit, AppendUnacked(candle) \/ AppendRefused
                  \/ \E reached \in {"part", "whole"} : AppendTorn(candle, reached)
        PROVE  DInv'
    <2>1. up' = FALSE /\ Len(lines') >= Len(lines)
      <3>1. up' = FALSE /\ (lines' = lines \/ lines' = Append(lines, Landed(candle)))
        BY <1>6 DEF AppendUnacked, AppendTorn, AppendRefused
      <3>2. lines' = Append(lines, Landed(candle)) => Len(lines') = Len(lines) + 1
        BY DEF DInv, IInv, TypeOK
      <3>3. QED
        BY <1>4, <3>1, <3>2
    <2>2. phase' = "idle" /\ NoCommand' /\ tally'.written = 0 /\ Len(candles') = 0
      BY <1>6 DEF Quit, NoCommand, FreshTally
    <2>3. base' # None => base' \in 0 .. Len(lines') - tally'.written
      BY <1>1, <1>4, <2>1, <2>2 DEF DInv, DownloadTypeOK
    <2>4. DownloadTypeOK'
      BY <1>1, <2>1, <2>2, <2>3 DEF DInv, DownloadTypeOK, IInv
    <2>5. ClockInv' /\ CandlesInv'
      BY <1>6 DEF Quit, ClockInv, CandlesInv
    <2>6. QED
      BY <1>3, <2>4, <2>5 DEF DInv
  <1>7. QED
    BY <1>2, <1>5, <1>6

(* The counts are printed.                                                 *)
LEMMA FinishDInv == ASSUME DInv, IInv', Finish PROVE DInv'
  BY QuitDInv DEF Finish

(* The next process finds the file as it is.                               *)
LEMMA RunAgainDInv == ASSUME DInv, IInv', RunAgain PROVE DInv'
  <1>1. phase = "idle" /\ NoCommand /\ tally.written = 0 /\ Len(lines) \in Nat
    BY DEF DInv, DownloadTypeOK, RunAgain, Restart, NoCommand, FreshTally, IInv, TypeOK
  <1>2. base' # None => base' \in 0 .. Len(lines') - tally'.written
    BY <1>1 DEF RunAgain, Restart, command
  <1>3. DownloadTypeOK'
    BY <1>1, <1>2 DEF DInv, DownloadTypeOK, RunAgain, Restart, command, NoCommand, IInv
  <1>4. ClockInv' /\ CandlesInv' /\ FileInv'
    BY DEF DInv, ClockInv, CandlesInv, FileInv, Sound, RunAgain, Restart, command
  <1>5. QED
    BY <1>3, <1>4 DEF DInv

(* Time passes.                                                            *)
LEMMA TickDInv == ASSUME DInv, IInv', Tick PROVE DInv'
  <1>1. now \in Int /\ skew \in Int /\ now' \in 0 .. MaxTime /\ now' = now + 1
    BY DownloadAssumption DEF DInv, DownloadTypeOK, DownloadAssumption, Tick
  <1>2. DownloadTypeOK'
    BY <1>1 DEF DInv, DownloadTypeOK, Tick, vars, command, NoCommand, IInv
  <1>3. ClockInv'
    BY <1>1 DEF DInv, ClockInv, Tick, command
  <1>4. CandlesInv' /\ FileInv'
    BY DEF DInv, CandlesInv, FileInv, Sound, Tick, vars, command
  <1>5. QED
    BY <1>2, <1>3, <1>4 DEF DInv

(* Every step keeps the invariant.                                         *)
LEMMA NextDInv == DInv /\ [DownloadNext]_downloadVars => DInv'
  <1> SUFFICES ASSUME DInv, [DownloadNext]_downloadVars PROVE DInv'
    OBVIOUS
  <1>1. IInv'
    BY NextStores, NextIInv DEF DInv
  <1>2. CASE \E request \in Requests : Ask(request)
    BY <1>1, <1>2, AskDInv
  <1>3. CASE \E rows \in Answers : Generate(rows)
    BY <1>1, <1>3, GenerateDInv
  <1>4. CASE Arrive \/ RequestFails \/ Store \/ Finish \/ RunAgain \/ Tick
    BY <1>1, <1>4, ArriveDInv, RequestFailsDInv, StoreDInv, FinishDInv, RunAgainDInv, TickDInv
  <1>5. CASE UNCHANGED downloadVars
    <2>1. DownloadTypeOK'
      BY <1>5 DEF DInv, DownloadTypeOK, downloadVars, vars, command, NoCommand, TypeOK
    <2>2. ClockInv' /\ CandlesInv' /\ FileInv'
      BY <1>5 DEF DInv, ClockInv, CandlesInv, FileInv, Sound, downloadVars, vars, command
    <2>3. QED
      BY <1>1, <2>1, <2>2 DEF DInv
  <1>6. QED
    BY <1>2, <1>3, <1>4, <1>5 DEF DownloadNext

-----------------------------------------------------------------------------
(* The invariant holds for ever.                                           *)
THEOREM DownloadInvariant == DownloadSpec => []DInv
  <1>1. QED
    BY InitDInv, NextDInv, PTL DEF DownloadSpec

(* The file and the command stay in their domains.                         *)
THEOREM DownloadTypeCorrect == DownloadSpec => []DownloadTypeOK
  <1>1. DInv => DownloadTypeOK
    BY DEF DInv
  <1>2. QED
    BY <1>1, DownloadInvariant, PTL

(* The command uses its file as JsonlStore describes: every step of it is  *)
(* one of the store, or leaves the store alone.                            *)
THEOREM DownloadImplementsStore == DownloadSpec => Spec
  <1>1. DownloadInit => Init
    BY DEF DownloadInit
  <1>2. QED
    BY <1>1, NextStores, DownloadInvariant, PTL DEF DownloadSpec, Spec

(* What a file of downloads returns when it can be read is complete.       *)
THEOREM DownloadReadIsComplete == DownloadSpec => []ReadIsComplete
  <1>1. QED
    BY DownloadImplementsStore, StoreReadIsComplete, PTL

(* With a clock that is not ahead of the exchange's, a candle stored as    *)
(* closed had closed on the exchange when the exchange answered.           *)
THEOREM StoredClosedIsFinal == DownloadSpec => []ClosedIsFinal
  <1>1. DInv => ClosedIsFinal
    <2> SUFFICES ASSUME DInv, skew <= 0, NEW i \in DOMAIN Content,
                        Content[i] # Garbled, Content[i].closed
                 PROVE  Content[i].final
      BY DEF ClosedIsFinal
    <2>1. lines \in Seq(Records \cup {Garbled}) /\ tailRecord \in Records \cup {Garbled}
      BY DEF DInv, IInv, TypeOK
    <2>2. (i \in 1 .. Len(lines) /\ Content[i] = lines[i]) \/ Content[i] = tailRecord
      BY <2>1 DEF Content
    <2>3. QED
      BY <2>2 DEF DInv, FileInv, Sound
  <1>2. QED
    BY <1>1, DownloadInvariant, PTL
-----------------------------------------------------------------------------
(* What replay counts: one line of the file after the other.               *)
Counting == INSTANCE Folding WITH Base <- NoCounts, Op <- Count

(* The open times of the lines behind the first b of them.                 *)
Opens(b, file) == [i \in 1 .. Len(file) - b |-> file[b + i].open]

OpenTimes(candidates) == {r.open : r \in candidates}

(* Replay is a loop, and a line more is a turn more.                       *)
LEMMA ReplayOfNothing == ReplayOf(<<>>) = NoCounts
  <1>1. ReplayOf(<<>>) = Counting!FoldLeft(Count, NoCounts, <<>>)
    BY Zenon DEF ReplayOf, FoldLeft, MapThenFoldSet, Max, Counting!FoldLeft,
       Counting!MapThenFoldSet, Counting!Max
  <1>2. QED
    BY <1>1, Counting!FoldOfEmpty

(* The candle behind some others is counted after them.                    *)
LEMMA ReplayOfOneMore ==
    ASSUME NEW S, NEW opens \in Seq(S), NEW open \in S
    PROVE  ReplayOf(Append(opens, open)) = Count(ReplayOf(opens), open)
  <1>1. \A xs : ReplayOf(xs) = Counting!FoldLeft(Count, NoCounts, xs)
    BY Zenon DEF ReplayOf, FoldLeft, MapThenFoldSet, Max, Counting!FoldLeft,
       Counting!MapThenFoldSet, Counting!Max
  <1>2. QED
    BY <1>1, Counting!FoldOfAppend

(* A line more is an open time more.                                       *)
LEMMA OpensGrow ==
    ASSUME NEW S, NEW file \in Seq(S), NEW candle \in S, NEW b \in 0 .. Len(file)
    PROVE  /\ Opens(b, file) \in Seq(OpenTimes(S)) /\ candle.open \in OpenTimes(S)
           /\ Opens(b, Append(file, candle)) = Append(Opens(b, file), candle.open)
  <1> DEFINE T    == OpenTimes(S)
             more == Append(file, candle)
  <1>1. PICK n \in Nat : n = Len(file) /\ \A i \in 1 .. n : file[i] \in S
    OBVIOUS
  <1>2. PICK m \in Nat : m = n - b
    <2>1. b \in 0 .. n
      BY <1>1
    <2>2. n - b \in Nat
      BY <2>1
    <2>3. QED
      BY <2>2
  <1>3. Len(more) = n + 1 /\ more[n + 1] = candle /\ \A i \in 1 .. n : more[i] = file[i]
    BY <1>1
  <1>4. candle.open \in T
    BY DEF OpenTimes
  <1>5. Opens(b, file) = [i \in 1 .. m |-> file[b + i].open]
    BY <1>1, <1>2 DEF Opens
  <1>6. \A i \in 1 .. m : b + i \in 1 .. n
    BY <1>1, <1>2
  <1>7. Opens(b, file) \in [1 .. m -> T]
    BY <1>1, <1>5, <1>6 DEF OpenTimes
  <1> HIDE DEF T, more
  <1>8. Opens(b, file) \in Seq(T) /\ Len(Opens(b, file)) = m
    BY <1>7
  <1>9. (n + 1) - b = m + 1 /\ b + (m + 1) = n + 1
    BY <1>1, <1>2
  <1>10. Opens(b, more) = [i \in 1 .. m + 1 |-> more[b + i].open]
    BY <1>3, <1>9 DEF Opens
  <1> DEFINE xs == Append(Opens(b, file), candle.open)
  <1>11. xs \in Seq(T) /\ Len(xs) = m + 1 /\ xs[m + 1] = candle.open
         /\ \A i \in 1 .. m : xs[i] = Opens(b, file)[i]
    BY <1>4, <1>8, AppendProperties
  <1>12. ASSUME NEW i \in 1 .. m + 1 PROVE xs[i] = more[b + i].open
    <2>1. CASE i = m + 1
      BY <1>3, <1>9, <1>11, <2>1
    <2>2. CASE i # m + 1
      <3>1. i \in 1 .. m /\ b + i \in 1 .. n
        BY <1>6, <2>2
      <3>2. QED
        BY <1>3, <1>5, <1>11, <3>1
    <2>3. QED
      BY <2>1, <2>2
  <1> HIDE DEF xs
  <1>13. xs = [i \in 1 .. m + 1 |-> xs[i]]
    BY <1>11
  <1>14. xs = Opens(b, more)
    BY <1>10, <1>12, <1>13
  <1>15. QED
    BY <1>4, <1>8, <1>14 DEF xs, more, T

-----------------------------------------------------------------------------
(* The command and replay have counted the same.                           *)
CountsAgree(t, c) ==
    /\ c = [latest |-> c.latest, continuous |-> c.continuous, gaps |-> c.gaps,
            duplicates |-> c.duplicates, outOfOrder |-> c.outOfOrder]
    /\ c.continuous \in Nat /\ c.gaps \in Nat /\ c.duplicates \in Nat /\ c.outOfOrder \in Nat
    /\ t.latest = c.latest /\ t.gaps = c.gaps
    /\ t.duplicates = c.duplicates /\ t.outOfOrder = c.outOfOrder

(* They agree before the first candle.                                     *)
LEMMA CountsAgreeAtFirst == CountsAgree(FreshTally, NoCounts)
  BY DEF CountsAgree, FreshTally, NoCounts

(* The loop of the command and that of replay make the same turn.          *)
LEMMA CountsAgreeOnOneMore ==
    ASSUME NEW t, NEW c, CountsAgree(t, c), NEW candle
    PROVE  CountsAgree(Tallied(t, candle), Count(c, candle.open))
  <1> DEFINE open       == candle.open
             continuity == Continuity(c.latest, open)
             latest     == Observed(c.latest, open)
             One(kind)  == IF continuity = kind THEN 1 ELSE 0
             d          == Count(c, open)
  <1>1. continuity \in {"First", "Continuous", "Gap", "Duplicate", "OutOfOrder"}
    BY DEF Continuity
  <1>2. Tallied(t, candle) =
            [latest |-> latest, gaps |-> c.gaps + One("Gap"),
             duplicates |-> c.duplicates + One("Duplicate"),
             outOfOrder |-> c.outOfOrder + One("OutOfOrder"), written |-> t.written + 1]
    BY DEF Tallied, CountsAgree
  <1>3. d = [c EXCEPT !.latest = latest, ![Counter(continuity)] = @ + 1]
    BY DEF Count
  <1> HIDE DEF open, latest, continuity, d
  <1>4. CASE continuity \in {"First", "Continuous"}
    <2>1. Counter(continuity) = "continuous"
      BY <1>4 DEF Counter, Advances
    <2>2. d = [latest |-> latest, continuous |-> c.continuous + 1, gaps |-> c.gaps,
               duplicates |-> c.duplicates, outOfOrder |-> c.outOfOrder]
      BY <1>3, <2>1 DEF CountsAgree
    <2>3. One("Gap") = 0 /\ One("Duplicate") = 0 /\ One("OutOfOrder") = 0
      BY <1>4
    <2>4. QED
      BY <1>2, <2>2, <2>3 DEF CountsAgree, d, open
  <1>5. CASE continuity = "Gap"
    <2>1. Counter(continuity) = "gaps"
      BY <1>5 DEF Counter, Advances
    <2>2. d = [latest |-> latest, continuous |-> c.continuous, gaps |-> c.gaps + 1,
               duplicates |-> c.duplicates, outOfOrder |-> c.outOfOrder]
      BY <1>3, <2>1 DEF CountsAgree
    <2>3. One("Gap") = 1 /\ One("Duplicate") = 0 /\ One("OutOfOrder") = 0
      BY <1>5
    <2>4. QED
      BY <1>2, <2>2, <2>3 DEF CountsAgree, d, open
  <1>6. CASE continuity = "Duplicate"
    <2>1. Counter(continuity) = "duplicates"
      BY <1>6 DEF Counter, Advances
    <2>2. d = [latest |-> latest, continuous |-> c.continuous, gaps |-> c.gaps,
               duplicates |-> c.duplicates + 1, outOfOrder |-> c.outOfOrder]
      BY <1>3, <2>1 DEF CountsAgree
    <2>3. One("Gap") = 0 /\ One("Duplicate") = 1 /\ One("OutOfOrder") = 0
      BY <1>6
    <2>4. QED
      BY <1>2, <2>2, <2>3 DEF CountsAgree, d, open
  <1>7. CASE continuity = "OutOfOrder"
    <2>1. Counter(continuity) = "outOfOrder"
      BY <1>7 DEF Counter, Advances
    <2>2. d = [latest |-> latest, continuous |-> c.continuous, gaps |-> c.gaps,
               duplicates |-> c.duplicates, outOfOrder |-> c.outOfOrder + 1]
      BY <1>3, <2>1 DEF CountsAgree
    <2>3. One("Gap") = 0 /\ One("Duplicate") = 0 /\ One("OutOfOrder") = 1
      BY <1>7
    <2>4. QED
      BY <1>2, <2>2, <2>3 DEF CountsAgree, d, open
  <1>8. QED
    BY <1>1, <1>4, <1>5, <1>6, <1>7

-----------------------------------------------------------------------------
(* While the process lives, it has counted what it added to the file.      *)
TallyInv ==
    up /\ base # None =>
        /\ tail = "empty" /\ Len(lines) = base + tally.written
        /\ CountsAgree(tally, ReplayOf(Opens(base, lines)))

(* And what it printed at its end is that.                                 *)
PrintedInv ==
    report # None /\ base # None =>
        LET counts == ReplayOf(Opens(base, lines))
        IN  /\ report.stored = Len(lines) - base /\ report.gaps = counts.gaps
            /\ report.duplicates = counts.duplicates /\ report.outOfOrder = counts.outOfOrder

AgreeInv == TallyInv /\ PrintedInv

(* Nothing is counted in a file nobody has added to.                       *)
LEMMA NothingAdded ==
    ASSUME NEW S, NEW file \in Seq(S)
    PROVE  CountsAgree(FreshTally, ReplayOf(Opens(Len(file), file)))
  <1>1. Opens(Len(file), file) = <<>>
    <2>1. Len(file) \in Nat /\ 1 .. Len(file) - Len(file) = {}
      OBVIOUS
    <2>2. QED
      BY <2>1 DEF Opens
  <1>2. QED
    BY <1>1, ReplayOfNothing, CountsAgreeAtFirst

(* At first.                                                               *)
LEMMA InitAgreeInv == DownloadInit => AgreeInv
  <1> SUFFICES ASSUME DownloadInit PROVE AgreeInv
    OBVIOUS
  <1>1. lines = <<>> /\ tail = "empty" /\ base = 0 /\ report = None /\ tally = FreshTally
    BY DEF DownloadInit, Init, NoCommand
  <1>2. Len(<<>>) = 0 /\ <<>> \in Seq({})
    OBVIOUS
  <1>3. CountsAgree(tally, ReplayOf(Opens(base, lines)))
    BY <1>1, <1>2, NothingAdded
  <1>4. tally.written = 0 /\ Len(lines) = base + tally.written
    BY <1>1 DEF FreshTally
  <1>5. QED
    BY <1>1, <1>3, <1>4 DEF AgreeInv, TallyInv, PrintedInv

(* A process that ends without a report leaves none.                       *)
LEMMA EndAgreeInv ==
    ASSUME DInv, up, up' = FALSE, report' = report
    PROVE  AgreeInv'
  BY DEF DInv, DownloadTypeOK, AgreeInv, TallyInv, PrintedInv

(* Neither the file nor the counts change.                                 *)
LEMMA FrameAgreeInv ==
    ASSUME AgreeInv, UNCHANGED <<lines, tail, up, tally, report, base>>
    PROVE  AgreeInv'
  BY DEF AgreeInv, TallyInv, PrintedInv, Opens

(* A candle is appended and counted.                                       *)
LEMMA StoreAgreeInv == ASSUME DInv, AgreeInv, Store PROVE AgreeInv'
  <1> DEFINE candle == candles[tally.written + 1]
  <1>1. /\ candle \in Records /\ up /\ report = None /\ report' = report /\ base' = base
        /\ tally.written \in Nat /\ lines \in Seq(Records \cup {Garbled})
    BY DEF DInv, DownloadTypeOK, CandlesInv, Store, IInv, TypeOK
  <1>2. \/ AppendOk(candle) /\ tally' = Tallied(tally, candle)
        \/ up' = FALSE
    BY DEF Store, AppendUnacked, AppendTorn, AppendRefused
  <1> HIDE DEF candle
  <1>3. CASE up' = FALSE
    BY <1>1, <1>3, EndAgreeInv
  <1>4. ASSUME AppendOk(candle), tally' = Tallied(tally, candle), base # None
        PROVE  /\ tail' = "empty" /\ Len(lines') = base + tally'.written
               /\ CountsAgree(tally', ReplayOf(Opens(base, lines')))
    <2>1. /\ tail = "empty" /\ Len(lines) = base + tally.written
          /\ CountsAgree(tally, ReplayOf(Opens(base, lines)))
      BY <1>1, <1>4 DEF AgreeInv, TallyInv
    <2>2. base \in 0 .. Len(lines)
      BY <1>1, <1>4 DEF DInv, DownloadTypeOK
    <2>3. lines' = Append(lines, candle) /\ tail' = "empty"
      BY <1>4, <2>1 DEF AppendOk, Landed
    <2>4. tally'.written = tally.written + 1
      BY <1>4 DEF Tallied
    <2>5. Len(lines') = Len(lines) + 1
      BY <1>1, <2>3
    <2>6. Len(lines') = base + tally'.written
      BY <1>1, <2>1, <2>2, <2>4, <2>5
    <2>7. ReplayOf(Opens(base, lines')) = Count(ReplayOf(Opens(base, lines)), candle.open)
      <3> DEFINE S == Records \cup {Garbled}
                 T == OpenTimes(S)
      <3>0. lines \in Seq(S) /\ candle \in S
        BY <1>1
      <3> HIDE DEF S
      <3>1. /\ Opens(base, lines) \in Seq(T) /\ candle.open \in T
            /\ Opens(base, lines') = Append(Opens(base, lines), candle.open)
        BY <3>0, <2>2, <2>3, OpensGrow
      <3> HIDE DEF T
      <3>2. QED
        BY <3>1, ReplayOfOneMore
    <2>8. CountsAgree(tally', ReplayOf(Opens(base, lines')))
      BY <1>4, <2>1, <2>7, CountsAgreeOnOneMore
    <2>9. QED
      BY <2>3, <2>6, <2>8
  <1>5. CASE AppendOk(candle) /\ tally' = Tallied(tally, candle)
    BY <1>1, <1>4, <1>5 DEF AgreeInv, TallyInv, PrintedInv
  <1>6. QED
    BY <1>2, <1>3, <1>5

(* The counts are printed when the last candle is written.                 *)
LEMMA FinishAgreeInv == ASSUME DInv, AgreeInv, Finish PROVE AgreeInv'
  <1>1. up /\ up' = FALSE /\ UNCHANGED <<lines, base>> /\ tally.written = Len(candles)
    BY DEF Finish, Exit
  <1>2. report' = [stored |-> Len(candles), gaps |-> tally.gaps,
                   duplicates |-> tally.duplicates, outOfOrder |-> tally.outOfOrder]
    BY DEF Finish
  <1>3. TallyInv'
    BY <1>1 DEF TallyInv
  <1>4. ASSUME base # None
        PROVE  LET counts == ReplayOf(Opens(base, lines))
               IN  /\ report'.stored = Len(lines) - base /\ report'.gaps = counts.gaps
                   /\ report'.duplicates = counts.duplicates
                   /\ report'.outOfOrder = counts.outOfOrder
    <2>1. /\ Len(lines) = base + tally.written /\ base \in 0 .. Len(lines) - tally.written
          /\ CountsAgree(tally, ReplayOf(Opens(base, lines)))
      BY <1>1, <1>4 DEF AgreeInv, TallyInv, DInv, DownloadTypeOK
    <2>2. tally.written \in Nat /\ Len(lines) \in Nat
      BY DEF DInv, DownloadTypeOK, CandlesInv, IInv, TypeOK
    <2>3. report'.stored = Len(lines) - base
      BY <1>1, <1>2, <2>1, <2>2
    <2>4. QED
      BY <1>2, <2>1, <2>3 DEF CountsAgree
  <1>5. PrintedInv'
    BY <1>1, <1>4 DEF PrintedInv, Opens
  <1>6. QED
    BY <1>3, <1>5 DEF AgreeInv

(* The next process begins behind what it finds.                           *)
LEMMA RunAgainAgreeInv == ASSUME DInv, AgreeInv, RunAgain PROVE AgreeInv'
  <1>1. report' = None /\ UNCHANGED <<lines, tail, tally>>
    BY DEF RunAgain, Restart, command
  <1>2. base' # None => base' = Len(lines) /\ tail = "empty"
    BY DEF RunAgain
  <1>3. tally = FreshTally /\ lines \in Seq(Records \cup {Garbled}) /\ Len(lines) \in Nat
    BY DEF DInv, DownloadTypeOK, RunAgain, Restart, NoCommand, IInv, TypeOK
  <1>4. CountsAgree(FreshTally, ReplayOf(Opens(Len(lines), lines)))
    BY <1>3, NothingAdded
  <1>5. tally.written = 0
    BY <1>3 DEF FreshTally
  <1>6. TallyInv'
    BY <1>1, <1>2, <1>3, <1>4, <1>5 DEF TallyInv
  <1>7. QED
    BY <1>1, <1>6 DEF AgreeInv, PrintedInv

(* Every step keeps the counts equal.                                      *)
LEMMA NextAgreeInv == DInv /\ AgreeInv /\ [DownloadNext]_downloadVars => AgreeInv'
  <1> SUFFICES ASSUME DInv, AgreeInv, [DownloadNext]_downloadVars PROVE AgreeInv'
    OBVIOUS
  <1>1. ASSUME Fail PROVE AgreeInv'
    BY <1>1, EndAgreeInv DEF Fail, Exit
  <1>2. ASSUME NEW request \in Requests, Ask(request) PROVE AgreeInv'
    BY <1>1, <1>2, FrameAgreeInv DEF Ask, vars
  <1>3. ASSUME NEW rows \in Answers, Generate(rows) PROVE AgreeInv'
    BY <1>3, FrameAgreeInv DEF Generate, vars
  <1>4. CASE Arrive
    BY <1>1, <1>4, FrameAgreeInv DEF Arrive, vars
  <1>5. CASE RequestFails
    BY <1>1, <1>5 DEF RequestFails
  <1>6. CASE Store
    BY <1>6, StoreAgreeInv
  <1>7. CASE Finish
    BY <1>7, FinishAgreeInv
  <1>8. CASE RunAgain
    BY <1>8, RunAgainAgreeInv
  <1>9. CASE Tick
    BY <1>9, FrameAgreeInv DEF Tick, vars, command
  <1>10. CASE UNCHANGED downloadVars
    BY <1>10, FrameAgreeInv DEF downloadVars, vars, command
  <1>11. QED
    BY <1>2, <1>3, <1>4, <1>5, <1>6, <1>7, <1>8, <1>9, <1>10 DEF DownloadNext

(* What download-klines prints at its end is what replay finds in what it  *)
(* added, however long the answer was and whatever was in the file before, *)
(* torn lines excepted.                                                    *)
THEOREM ReportsStayTrue == DownloadSpec => []ReportsAgree
  <1>1. DInv /\ AgreeInv => ReportsAgree
    <2> SUFFICES ASSUME DInv, AgreeInv, report # None, base # None PROVE ReportsAgree
      BY DEF ReportsAgree
    <2> DEFINE added == SubSeq(lines, base + 1, Len(lines))
    <2>1. /\ lines \in Seq(Records \cup {Garbled}) /\ Len(lines) \in Nat
          /\ tally.written \in Nat /\ base \in 0 .. Len(lines)
      <3>1. /\ lines \in Seq(Records \cup {Garbled}) /\ candles \in Seq(Records)
            /\ tally.written \in 0 .. Len(candles)
            /\ base \in 0 .. Len(lines) - tally.written
        BY DEF DInv, DownloadTypeOK, CandlesInv, IInv, TypeOK
      <3>2. QED
        BY <3>1
    <2>2. PICK m \in Nat : m = Len(lines) - base
      BY <2>1
    <2>3. DOMAIN added = 1 .. m /\ Len(added) = m /\ \A i \in 1 .. m : added[i] = lines[base + i]
      BY <2>1, <2>2
    <2> HIDE DEF added
    <2>4. [i \in DOMAIN added |-> added[i].open] = Opens(base, lines)
      BY <2>2, <2>3 DEF Opens
    <2>5. /\ report.stored = Len(added)
          /\ report.gaps = ReplayOf(Opens(base, lines)).gaps
          /\ report.duplicates = ReplayOf(Opens(base, lines)).duplicates
          /\ report.outOfOrder = ReplayOf(Opens(base, lines)).outOfOrder
      BY <2>2, <2>3 DEF AgreeInv, PrintedInv
    <2>6. QED
      BY <2>4, <2>5 DEF ReportsAgree, added
  <1>2. QED
    BY <1>1, InitAgreeInv, NextAgreeInv, DownloadInvariant, PTL DEF DownloadSpec
=============================================================================
