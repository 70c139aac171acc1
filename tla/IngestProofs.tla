---------------------------- MODULE IngestProofs ----------------------------
(***************************************************************************)
(* Proofs about ingestion, for every set of series, interval, page size    *)
(* and stream, and for every server REST may turn out to be: the store is  *)
(* contiguous, the detector agrees with it, and a recovery that succeeds   *)
(* is never refused by the detector.                                       *)
(***************************************************************************)
EXTENDS Ingest, SequenceTheorems, TLAPS

Recovery == INSTANCE BackfillProofs

-----------------------------------------------------------------------------
(* The inductive invariant.  Besides the properties themselves it says     *)
(* what the candles in hand are while a call is under way.                 *)

(* A recovery is under way only while the call waits for it, and its range *)
(* is the hole between the detector and the candle in hand.                *)
FillInv ==
    /\ Recovery!IInv
    /\ fill # "idle" <=> phase = "filling"
    /\ phase = "filling" => Len(todo) = 1 /\ latest[series] # None
    /\ fill \in {"fetching", "done"} =>
          start = NextOpen(latest[series]) /\ end = todo[1]

(* The candles in hand continue the series one by one.                     *)
HandInv ==
    /\ phase = "idle" => todo = <<>>
    /\ phase \in {"accepting", "writing"} => todo # <<>> /\ latest[series] # None
    /\ phase = "accepting" =>
          \A i \in 1 .. Len(todo) : todo[i] = latest[series] + i * Step
    /\ phase = "writing" =>
          /\ \A i \in 1 .. Len(todo) : todo[i] = latest[series] + (i - 1) * Step
          /\ IF LastStored(series) = None
             THEN todo[1] \in Times
             ELSE todo[1] = NextOpen(LastStored(series))

(* A series is covered up to its newest candle, or the newest candle is    *)
(* the last one in hand.                                                   *)
Covered(k) ==
    newest[k] # None => LastStored(k) # None /\ newest[k] < NextOpen(LastStored(k))

NewestInv ==
    /\ \A k \in Keys : phase = "idle" \/ k # series => Covered(k)
    /\ phase \notin {"idle", "failed"} => newest[series] = todo[Len(todo)]

IInv ==
    /\ TypeOK /\ StoreIsContiguous /\ DetectorMatchesStore
    /\ FillInv /\ HandInv /\ NewestInv

-----------------------------------------------------------------------------
(* What the collector assumes is enough for the recovery it runs.          *)
LEMMA RecoveryAssumption == Recovery!BackfillAssumption /\ Recovery!StepAssumption
  BY StepAssumption, BackfillAssumption
     DEF StepAssumption, BackfillAssumption, Recovery!StepAssumption, Recovery!BackfillAssumption

(* The recovery the collector begins satisfies the invariant of Backfill.  *)
LEMMA RecoveryBegins ==
    ASSUME Recovery!IInv, NEW s \in Int, NEW e \in Int, Fill!Begin(s, e)
    PROVE  Recovery!IInv'
  BY RecoveryAssumption, Recovery!BeginIInv DEF Fill!Begin, Recovery!Begin,
     Fill!RangeIsValid, Recovery!RangeIsValid, Fill!CandleCount, Recovery!CandleCount

(* The end of the call keeps it.                                           *)
LEMMA RecoveryReturns == ASSUME Recovery!IInv, Fill!Return PROVE Recovery!IInv'
  BY RecoveryAssumption, Recovery!ReturnIInv DEF Fill!Return, Recovery!Return

(* Every page it fetches keeps it.                                         *)
LEMMA RecoveryFetches == ASSUME Recovery!IInv, Fill!Fetch PROVE Recovery!IInv'
  <1>1. ASSUME NEW page, Fill!PageExtends(page) PROVE Recovery!PageExtends(page)
    BY <1>1 DEF Fill!PageExtends, Recovery!PageExtends, Fill!Takes, Recovery!Takes,
       Fill!Mismatch, Recovery!Mismatch, Fill!Expects, Recovery!Expects,
       Fill!Verdict, Recovery!Verdict, Fill!CandleCount, Recovery!CandleCount
  <1>2. ASSUME NEW page, Fill!PageRejected(page) PROVE Recovery!PageRejected(page)
    BY <1>2 DEF Fill!PageRejected, Recovery!PageRejected, Fill!Takes, Recovery!Takes,
       Fill!Mismatch, Recovery!Mismatch, Fill!Expects, Recovery!Expects
  <1>3. ASSUME Fill!RequestFails PROVE Recovery!RequestFails
    BY <1>3 DEF Fill!RequestFails, Recovery!RequestFails
  <1>4. Recovery!Fetch
    BY <1>1, <1>2, <1>3 DEF Fill!Fetch, Recovery!Fetch
  <1>5. QED
    BY <1>4, RecoveryAssumption, Recovery!FetchIInv

(* A step that leaves the recovery alone keeps it.                         *)
LEMMA RecoveryRests ==
    ASSUME Recovery!IInv, UNCHANGED fillVars
    PROVE  Recovery!IInv'
  BY DEF fillVars, Recovery!IInv, Recovery!TypeOK, Recovery!RecoveredIsPrefix,
     Recovery!CursorStaysInRange, Recovery!RangeInv, Recovery!NothingHeld,
     Recovery!RangeIsValid, Recovery!CandleCount

-----------------------------------------------------------------------------
(* What each answer of the detector says of the candle.                    *)
LEMMA AnswersAreExact ==
    ASSUME NEW previous \in Int \cup {None}, NEW open \in Int
    PROVE  /\ Advances(Continuity(previous, open)) =>
                 previous = None \/ open = NextOpen(previous)
           /\ Continuity(previous, open) = "Gap" =>
                 previous \in Int /\ open > NextOpen(previous)
           /\ Dropped(Continuity(previous, open)) =>
                 previous \in Int /\ open < NextOpen(previous)
           /\ previous # None /\ open = NextOpen(previous) =>
                 Continuity(previous, open) = "Continuous"
  <1>1. CASE previous = None
    BY <1>1 DEF Continuity, Advances, Dropped
  <1>2. CASE previous \in Int
    <2>1. previous # None /\ NextOpen(previous) \in Int /\ NextOpen(previous) > previous
      BY <1>2, NoneAssumption, StepAssumption DEF NextOpen
    <2>2. CASE open = previous
      BY <1>2, <2>1, <2>2 DEF Continuity, Advances, Dropped
    <2>3. CASE open = NextOpen(previous)
      BY <1>2, <2>1, <2>3 DEF Continuity, Advances, Dropped
    <2>4. CASE open > NextOpen(previous)
      BY <1>2, <2>1, <2>4 DEF Continuity, Advances, Dropped
    <2>5. CASE open # previous /\ open < NextOpen(previous)
      BY <1>2, <2>1, <2>5 DEF Continuity, Advances, Dropped
    <2>6. QED
      BY <1>2, <2>1, <2>2, <2>3, <2>4, <2>5
  <1>3. QED
    BY <1>1, <1>2

(* The last candle stored is an open time unless nothing is stored.        *)
LEMMA LastStoredType ==
    ASSUME TypeOK, NEW k \in Keys
    PROVE  LastStored(k) \in Int \cup {None} /\ (LastStored(k) = None <=> store[k] = <<>>)
  <1>1. store[k] \in Seq(Int)
    BY DEF TypeOK
  <1>2. QED
    BY <1>1, NoneAssumption DEF LastStored

(* Between two calls the detector is where the store is.                   *)
LEMMA IdleDetector ==
    ASSUME IInv, phase = "idle"
    PROVE  /\ \A k \in Keys : latest[k] = LastStored(k) /\ Covered(k)
           /\ todo = <<>> /\ fill = "idle" /\ series = None
  BY DEF IInv, TypeOK, DetectorMatchesStore, FillInv, HandInv, NewestInv

(* The collector starts with nothing stored and nothing seen.              *)
LEMMA InitIInv == Init => IInv
  <1> SUFFICES ASSUME Init PROVE IInv
    OBVIOUS
  <1>1. Recovery!IInv
    BY RecoveryAssumption, Recovery!InitIInv
       DEF Init, Fill!Init, Fill!NothingHeld, Recovery!Init, Recovery!NothingHeld
  <1>2. TypeOK
    BY IngestAssumption, BackfillAssumption DEF Init, Fill!Init, Fill!NothingHeld, TypeOK,
       Fill!TypeOK, IngestAssumption, BackfillAssumption
  <1>3. fill = "idle"
    BY DEF Init, Fill!Init
  <1>4. QED
    BY <1>1, <1>2, <1>3 DEF Init, IInv, StoreIsContiguous, DetectorMatchesStore,
       LastStored, FillInv, HandInv, NewestInv, Covered

-----------------------------------------------------------------------------
(* The candle handed over is the newest one when the detector does not     *)
(* drop it.                                                                *)
LEMMA HandedOverIsNewest ==
    ASSUME IInv, phase = "idle", NEW k \in Keys, NEW t \in Int, HandOver(k, t),
           latest[k] = None \/ t >= NextOpen(latest[k])
    PROVE  /\ newest' \in [Keys -> Int \cup {None}] /\ newest'[k] = t
           /\ \A j \in Keys \ {k} : newest'[j] = newest[j]
  <1>1. latest[k] = LastStored(k) /\ Covered(k)
    BY IdleDetector
  <1>2. newest \in [Keys -> Int \cup {None}] /\ latest[k] \in Int \cup {None}
    BY DEF IInv, TypeOK
  <1>3. Newer(k, t) = t
    BY <1>1, <1>2, NoneAssumption, StepAssumption DEF Covered, Newer, NextOpen
  <1>4. QED
    BY <1>2, <1>3 DEF HandOver

(* A candle the detector accepts at once: the first or the next of its     *)
(* series.                                                                 *)
LEMMA TakeIInv ==
    ASSUME IInv, NEW k \in Keys, NEW t \in Times, Take(k, t)
    PROVE  IInv'
  <1>1. /\ phase = "idle" /\ HandOver(k, t) /\ t \in Int
        /\ phase' = "writing" /\ series' = k /\ todo' = <<t>>
        /\ UNCHANGED <<store, fillVars>>
    BY BackfillAssumption DEF Take, HandOver, BackfillAssumption
  <1>2. TypeOK /\ latest[k] \in Int \cup {None} /\ latest[k] = LastStored(k)
    BY <1>1, IdleDetector DEF IInv, TypeOK
  <1>3. latest[k] = None \/ t = NextOpen(latest[k])
    BY <1>1, <1>2, AnswersAreExact DEF Take
  <1>4. latest' = [latest EXCEPT ![k] = t]
    BY DEF Take, Observed
  <1>5. /\ newest' \in [Keys -> Int \cup {None}] /\ newest'[k] = t
        /\ \A j \in Keys \ {k} : newest'[j] = newest[j]
    BY <1>1, <1>2, <1>3, StepAssumption, HandedOverIsNewest DEF NextOpen
  <1>6. \A j \in Keys : LastStored(j)' = LastStored(j)
    BY <1>1 DEF LastStored
  <1>7. TypeOK'
    <2>1. Fill!TypeOK'
      BY <1>1, <1>2 DEF TypeOK, Fill!TypeOK, fillVars
    <2>2. latest' \in [Keys -> Int \cup {None}]
      BY <1>1, <1>2, <1>4 DEF TypeOK
    <2>3. /\ series' \in Keys /\ series' # None
          /\ todo' \in Seq(Int) /\ Len(todo') <= MaxCandles + 1
      BY <1>1, IngestAssumption, BackfillAssumption DEF IngestAssumption, BackfillAssumption
    <2>4. QED
      BY <1>1, <1>2, <1>5, <2>1, <2>2, <2>3 DEF TypeOK
  <1>8. StoreIsContiguous'
    BY <1>1 DEF IInv, StoreIsContiguous
  <1>9. DetectorMatchesStore'
    BY <1>1, <1>2, <1>4, <1>6, IdleDetector DEF DetectorMatchesStore, TypeOK
  <1>10. FillInv'
    <2>1. Recovery!IInv'
      BY <1>1, RecoveryRests DEF IInv, FillInv
    <2>2. fill' = "idle"
      BY <1>1, IdleDetector DEF fillVars
    <2>3. QED
      BY <1>1, <2>1, <2>2 DEF FillInv
  <1>11. HandInv'
    BY <1>1, <1>2, <1>3, <1>4, <1>6, StepAssumption, NoneAssumption DEF HandInv, TypeOK
  <1>12. NewestInv'
    BY <1>1, <1>5, <1>6, IdleDetector DEF NewestInv, Covered
  <1>13. QED
    BY <1>7, <1>8, <1>9, <1>10, <1>11, <1>12 DEF IInv

(* A duplicate or a candle out of order changes nothing but the history.   *)
LEMMA IgnoreIInv ==
    ASSUME IInv, NEW k \in Keys, NEW t \in Times, Ignore(k, t)
    PROVE  IInv'
  <1>1. /\ phase = "idle" /\ t \in Int
        /\ newest' = [newest EXCEPT ![k] = Newer(k, t)]
        /\ UNCHANGED <<latest, store, phase, series, todo>> /\ UNCHANGED fillVars
    BY BackfillAssumption DEF Ignore, HandOver, callVars, BackfillAssumption
  <1>2. /\ TypeOK /\ latest[k] \in Int \cup {None} /\ latest[k] = LastStored(k)
        /\ newest \in [Keys -> Int \cup {None}]
    BY <1>1, IdleDetector DEF IInv, TypeOK
  <1>3. latest[k] \in Int /\ t < NextOpen(latest[k])
    BY <1>1, <1>2, AnswersAreExact DEF Ignore
  <1>4. \A j \in Keys : LastStored(j)' = LastStored(j)
    BY <1>1 DEF LastStored
  <1>5. newest' \in [Keys -> Int \cup {None}]
    BY <1>1, <1>2 DEF Newer
  <1>6. \A j \in Keys : Covered(j)'
    <2>1. Covered(k)'
      <3>1. newest'[k] = Newer(k, t) /\ LastStored(k)' = latest[k] /\ latest[k] # None
        BY <1>1, <1>2, <1>3, <1>4, NoneAssumption
      <3>2. CASE Newer(k, t) = t
        BY <1>3, <3>1, <3>2 DEF Covered, NextOpen
      <3>3. CASE newest[k] # None /\ Newer(k, t) = newest[k]
        <4>1. newest[k] < NextOpen(latest[k])
          BY <1>1, <1>2, <3>3, IdleDetector DEF Covered
        <4>2. QED
          BY <3>1, <3>3, <4>1 DEF Covered, NextOpen
      <3>4. QED
        BY <3>2, <3>3 DEF Newer
    <2>2. ASSUME NEW j \in Keys \ {k} PROVE Covered(j)'
      BY <1>1, <1>2, <1>4, IdleDetector DEF Covered
    <2>3. QED
      BY <2>1, <2>2
  <1>7. TypeOK'
    BY <1>1, <1>2, <1>5 DEF TypeOK, Fill!TypeOK, fillVars
  <1>8. StoreIsContiguous' /\ DetectorMatchesStore'
    BY <1>1, <1>4 DEF IInv, StoreIsContiguous, DetectorMatchesStore
  <1>9. FillInv'
    BY <1>1, RecoveryRests DEF IInv, FillInv, fillVars
  <1>10. HandInv'
    BY <1>1, IdleDetector DEF HandInv
  <1>11. NewestInv'
    BY <1>1, <1>6 DEF NewestInv
  <1>12. QED
    BY <1>7, <1>8, <1>9, <1>10, <1>11 DEF IInv

(* A gap: the recovery begins, the detector does not move.                 *)
LEMMA DetectGapIInv ==
    ASSUME IInv, NEW k \in Keys, NEW t \in Times, DetectGap(k, t)
    PROVE  IInv'
  <1>1. /\ phase = "idle" /\ HandOver(k, t) /\ t \in Int
        /\ Fill!Begin(NextOpen(latest[k]), t)
        /\ phase' = "filling" /\ series' = k /\ todo' = <<t>>
        /\ UNCHANGED <<latest, store>>
    BY BackfillAssumption DEF DetectGap, GapRange, HandOver, BackfillAssumption
  <1>2. TypeOK /\ latest[k] \in Int \cup {None} /\ fill = "idle"
    BY <1>1, IdleDetector DEF IInv, TypeOK
  <1>3. latest[k] \in Int /\ t > NextOpen(latest[k]) /\ NextOpen(latest[k]) \in Int
    <2>1. latest[k] \in Int /\ t > NextOpen(latest[k])
      BY <1>1, <1>2, AnswersAreExact DEF DetectGap
    <2>2. QED
      BY <2>1, StepAssumption DEF NextOpen
  <1>4. /\ newest' \in [Keys -> Int \cup {None}] /\ newest'[k] = t
        /\ \A j \in Keys \ {k} : newest'[j] = newest[j]
    BY <1>1, <1>3, HandedOverIsNewest
  <1>5. \A j \in Keys : LastStored(j)' = LastStored(j)
    BY <1>1 DEF LastStored
  <1>6. /\ fill' \in {"fetching", "failed"}
        /\ fill' = "fetching" => start' = NextOpen(latest[k]) /\ end' = t
    BY <1>1 DEF Fill!Begin
  <1>7. Recovery!IInv'
    BY <1>1, <1>3, RecoveryBegins DEF IInv, FillInv
  <1>8. TypeOK'
    <2>1. Fill!TypeOK'
      BY <1>7 DEF Recovery!IInv, Recovery!TypeOK, Fill!TypeOK
    <2>2. /\ series' \in Keys /\ series' # None
          /\ todo' \in Seq(Int) /\ Len(todo') <= MaxCandles + 1
      BY <1>1, IngestAssumption, BackfillAssumption DEF IngestAssumption, BackfillAssumption
    <2>3. QED
      BY <1>1, <1>2, <1>4, <2>1, <2>2 DEF TypeOK
  <1>9. StoreIsContiguous' /\ DetectorMatchesStore'
    BY <1>1, <1>5, IdleDetector DEF IInv, StoreIsContiguous, DetectorMatchesStore
  <1>10. FillInv'
    BY <1>1, <1>3, <1>6, <1>7, NoneAssumption DEF FillInv
  <1>11. HandInv'
    BY <1>1 DEF HandInv
  <1>12. NewestInv'
    BY <1>1, <1>4, <1>5, IdleDetector DEF NewestInv, Covered
  <1>13. QED
    BY <1>8, <1>9, <1>10, <1>11, <1>12 DEF IInv

(* One page of the recovery.                                               *)
LEMMA FetchPageIInv == ASSUME IInv, FetchPage PROVE IInv'
  <1>1. /\ phase = "filling" /\ Fill!Fetch
        /\ UNCHANGED <<latest, store, phase, series, todo, newest>>
    BY DEF FetchPage, callVars
  <1>2. Recovery!IInv'
    BY <1>1, RecoveryFetches DEF IInv, FillInv
  <1>3. /\ fill = "fetching" /\ fill' \in {"fetching", "done", "failed"}
        /\ start' = start /\ end' = end
    BY <1>1 DEF Fill!Fetch, Fill!PageExtends, Fill!PageRejected, Fill!RequestFails,
       Fill!Verdict
  <1>4. \A j \in Keys : LastStored(j)' = LastStored(j)
    BY <1>1 DEF LastStored
  <1>5. TypeOK'
    <2>1. Fill!TypeOK'
      BY <1>2 DEF Recovery!IInv, Recovery!TypeOK, Fill!TypeOK
    <2>2. QED
      BY <1>1, <2>1 DEF IInv, TypeOK
  <1>6. StoreIsContiguous' /\ DetectorMatchesStore'
    BY <1>1, <1>4 DEF IInv, StoreIsContiguous, DetectorMatchesStore
  <1>7. FillInv'
    BY <1>1, <1>2, <1>3 DEF IInv, FillInv
  <1>8. HandInv' /\ NewestInv'
    BY <1>1, <1>4 DEF IInv, HandInv, NewestInv, Covered
  <1>9. QED
    BY <1>5, <1>6, <1>7, <1>8 DEF IInv

(* An error leaves the store and the detector as they are.                 *)
LEMMA ErrorIInv ==
    ASSUME IInv, phase \in {"filling", "accepting", "writing"}, phase' = "failed",
           UNCHANGED <<latest, store, series, todo, newest>>,
           Recovery!IInv', fill' = "idle"
    PROVE  IInv'
  <1>1. \A j \in Keys : LastStored(j)' = LastStored(j)
    BY DEF LastStored
  <1>2. TypeOK'
    <2>1. Fill!TypeOK'
      BY DEF Recovery!IInv, Recovery!TypeOK, Fill!TypeOK
    <2>2. QED
      BY <2>1 DEF IInv, TypeOK
  <1>3. StoreIsContiguous' /\ DetectorMatchesStore'
    BY <1>1 DEF IInv, StoreIsContiguous, DetectorMatchesStore
  <1>4. FillInv' /\ HandInv'
    BY DEF FillInv, HandInv
  <1>5. NewestInv'
    BY <1>1 DEF IInv, NewestInv, Covered
  <1>6. QED
    BY <1>2, <1>3, <1>4, <1>5 DEF IInv

(* An error of the recovery.                                               *)
LEMMA RecoveryFailsIInv == ASSUME IInv, RecoveryFails PROVE IInv'
  <1>1. Recovery!IInv' /\ fill' = "idle"
    BY RecoveryReturns DEF IInv, FillInv, RecoveryFails, Fill!Return
  <1>2. QED
    BY <1>1, ErrorIInv DEF RecoveryFails

(* An error of the store.                                                  *)
LEMMA WriteFailsIInv == ASSUME IInv, WriteFails PROVE IInv'
  <1>1. Recovery!IInv' /\ fill' = "idle"
    BY RecoveryRests DEF IInv, FillInv, WriteFails, fillVars
  <1>2. QED
    BY <1>1, ErrorIInv DEF WriteFails

(* What was recovered, then the candle that revealed the gap, continue the *)
(* series from where the detector stands.                                  *)
LEMMA RecoverIInv == ASSUME IInv, Recover PROVE IInv'
  <1>1. /\ phase = "filling" /\ fill = "done" /\ phase' = "accepting"
        /\ todo' = recovered \o todo
        /\ fill' = "idle"
        /\ UNCHANGED <<latest, store, series, newest>>
    BY DEF Recover, InOrder, Fill!Return
  <1>2. /\ TypeOK /\ series \in Keys /\ todo \in Seq(Int) /\ Len(todo) = 1
        /\ latest[series] \in Int /\ Step \in Int
    BY <1>1, StepAssumption DEF IInv, TypeOK, FillInv
  <1>3. /\ start = latest[series] + Step /\ end = todo[1]
        /\ recovered \in Seq(Int) /\ start \in Int
        /\ \A i \in 1 .. Len(recovered) : recovered[i] = start + (i - 1) * Step
        /\ end = start + Len(recovered) * Step
    BY <1>1 DEF IInv, FillInv, NextOpen, Recovery!IInv, Recovery!TypeOK,
       Recovery!RecoveredIsPrefix, Recovery!RangeInv
  <1>4. /\ todo' \in Seq(Int) /\ Len(todo') = Len(recovered) + 1 /\ todo' # <<>>
        /\ \A i \in 1 .. Len(recovered) : todo'[i] = recovered[i]
        /\ todo'[Len(todo')] = todo[1]
    <2>1. /\ todo' \in Seq(Int) /\ Len(todo') = Len(recovered) + 1
          /\ \A i \in 1 .. Len(recovered) + 1 : todo'[i] =
                   IF i <= Len(recovered) THEN recovered[i] ELSE todo[i - Len(recovered)]
      <3>1. /\ recovered \o todo \in Seq(Int)
            /\ Len(recovered \o todo) = Len(recovered) + Len(todo)
            /\ \A i \in 1 .. Len(recovered) + Len(todo) : (recovered \o todo)[i] =
                     IF i <= Len(recovered) THEN recovered[i] ELSE todo[i - Len(recovered)]
        BY <1>2, <1>3, ConcatProperties
      <3>2. QED
        BY <1>1, <1>2, <3>1
    <2>2. Len(recovered) \in Nat
      BY <1>3
    <2>3. todo' # <<>>
      BY <2>1, <2>2
    <2>4. QED
      BY <2>1, <2>2, <2>3
  <1>5. ASSUME NEW i \in 1 .. Len(todo')
        PROVE  todo'[i] = latest[series] + i * Step
    <2> DEFINE before == (i - 1) * Step
               here == i * Step
    <2>1. before \in Int /\ here \in Int /\ before = here - Step
      <3>1. i \in Int /\ (i - 1) * Step = i * Step - 1 * Step /\ 1 * Step = Step
        BY <1>2, Recovery!MultipleSplits, i \in Int, 1 \in Int
      <3>2. (i - 1) * Step \in Int /\ i * Step \in Int
        BY <1>2, <3>1
      <3>3. QED
        BY <1>2, <3>1, <3>2
    <2>2. todo'[i] = start + before
      <3>1. CASE i <= Len(recovered)
        <4>1. i \in 1 .. Len(recovered)
          BY <3>1
        <4>2. QED
          BY <1>3, <1>4, <4>1
      <3>2. CASE i = Len(recovered) + 1
        <4>1. i - 1 = Len(recovered) /\ i = Len(todo')
          BY <1>3, <1>4, <3>2
        <4>2. QED
          BY <1>3, <1>4, <4>1
      <3>3. QED
        BY <1>3, <1>4, <3>1, <3>2
    <2> HIDE DEF before, here
    <2>3. todo'[i] = latest[series] + here
      BY <1>2, <1>3, <2>1, <2>2
    <2>4. QED
      BY <2>3 DEF here
  <1>6. \A j \in Keys : LastStored(j)' = LastStored(j)
    BY <1>1 DEF LastStored
  <1>7. Recovery!IInv'
    BY RecoveryReturns DEF IInv, FillInv, Recover
  <1>8. TypeOK'
    <2>1. Fill!TypeOK'
      BY <1>7 DEF Recovery!IInv, Recovery!TypeOK, Fill!TypeOK
    <2>2. Len(todo') <= MaxCandles + 1
      <3>1. Len(recovered) \in Nat /\ Len(recovered) <= MaxCandles /\ MaxCandles \in Nat
        BY <1>3, BackfillAssumption
           DEF BackfillAssumption, IInv, FillInv, Recovery!IInv, Recovery!TypeOK
      <3>2. QED
        BY <1>4, <3>1
    <2>3. QED
      BY <1>1, <1>2, <1>4, <2>1, <2>2 DEF TypeOK
  <1>9. StoreIsContiguous' /\ DetectorMatchesStore'
    BY <1>1, <1>6 DEF IInv, StoreIsContiguous, DetectorMatchesStore
  <1>10. FillInv'
    BY <1>1, <1>7 DEF FillInv
  <1>11. HandInv'
    BY <1>1, <1>2, <1>4, <1>5, NoneAssumption DEF HandInv
  <1>12. NewestInv'
    BY <1>1, <1>2, <1>4, <1>6 DEF IInv, NewestInv, Covered
  <1>13. QED
    BY <1>8, <1>9, <1>10, <1>11, <1>12 DEF IInv

(* In the accepting phase the detector is where the store is, and the next *)
(* candle in hand is the one it expects.                                   *)
LEMMA NextIsExpected ==
    ASSUME IInv, phase = "accepting"
    PROVE  /\ series \in Keys /\ todo \in Seq(Int) /\ todo # <<>>
           /\ latest[series] \in Int /\ latest[series] = LastStored(series)
           /\ Head(todo) = todo[1] /\ todo[1] \in Int
           /\ todo[1] = NextOpen(latest[series])
           /\ Continuity(latest[series], Head(todo)) = "Continuous"
  <1>1. /\ series \in Keys /\ todo \in Seq(Int) /\ todo # <<>>
        /\ latest[series] \in Int /\ latest[series] = LastStored(series)
    BY DEF IInv, TypeOK, HandInv, DetectorMatchesStore
  <1>2. 1 \in 1 .. Len(todo) /\ Head(todo) = todo[1] /\ todo[1] \in Int
    BY <1>1
  <1>3. todo[1] = latest[series] + 1 * Step
    BY <1>2 DEF IInv, HandInv
  <1>4. todo[1] = NextOpen(latest[series])
    BY <1>1, <1>3, StepAssumption DEF NextOpen
  <1>5. Continuity(latest[series], todo[1]) = "Continuous"
    BY <1>1, <1>2, <1>4, NoneAssumption, AnswersAreExact
  <1>6. QED
    BY <1>1, <1>2, <1>4, <1>5

(* The detector accepts the next candle in hand.                           *)
LEMMA AcceptNextIInv == ASSUME IInv, AcceptNext PROVE IInv'
  <1>1. phase = "accepting" /\ UNCHANGED <<store, series, todo, newest>> /\ UNCHANGED fillVars
    BY DEF AcceptNext
  <1>2. /\ TypeOK /\ series \in Keys /\ todo \in Seq(Int) /\ todo # <<>>
        /\ latest[series] \in Int /\ latest[series] = LastStored(series)
        /\ Head(todo) = todo[1] /\ todo[1] \in Int
        /\ todo[1] = NextOpen(latest[series])
    BY <1>1, NextIsExpected DEF IInv
  <1>3. phase' = "writing" /\ latest' = [latest EXCEPT ![series] = todo[1]]
    BY <1>1, NextIsExpected DEF AcceptNext, Advances, Observed
  <1>4. \A j \in Keys : LastStored(j)' = LastStored(j)
    BY <1>1 DEF LastStored
  <1>5. /\ latest' \in [Keys -> Int \cup {None}] /\ latest'[series] = todo[1]
        /\ \A j \in Keys \ {series} : latest'[j] = latest[j]
    BY <1>2, <1>3 DEF TypeOK
  <1>6. TypeOK'
    BY <1>1, <1>2, <1>3, <1>5 DEF TypeOK, Fill!TypeOK, fillVars
  <1>7. StoreIsContiguous'
    BY <1>1 DEF IInv, StoreIsContiguous
  <1>8. DetectorMatchesStore'
    BY <1>1, <1>2, <1>3, <1>4, <1>5 DEF IInv, DetectorMatchesStore
  <1>9. FillInv'
    BY <1>1, <1>3, RecoveryRests DEF IInv, FillInv, fillVars
  <1>10. HandInv'
    <2>1. ASSUME NEW i \in 1 .. Len(todo)
          PROVE  todo[i] = todo[1] + (i - 1) * Step
      <3>1. todo[i] = latest[series] + i * Step
        BY <1>1 DEF IInv, HandInv
      <3>2. i \in Int /\ (i - 1) * Step = i * Step - 1 * Step /\ 1 * Step = Step
        BY StepAssumption, Recovery!MultipleSplits, i \in Int, 1 \in Int
      <3>3. QED
        BY <1>2, <3>1, <3>2, StepAssumption DEF NextOpen
    <2>2. latest'[series'] = todo[1] /\ latest'[series'] # None
      BY <1>1, <1>2, <1>5, NoneAssumption
    <2>3. LastStored(series)' # None /\ todo[1] = NextOpen(LastStored(series)')
      BY <1>1, <1>2, <1>4, NoneAssumption
    <2>4. QED
      BY <1>1, <1>2, <1>3, <2>1, <2>2, <2>3 DEF HandInv, NextOpen
  <1>11. NewestInv'
    BY <1>1, <1>3, <1>4 DEF IInv, NewestInv, Covered
  <1>12. QED
    BY <1>6, <1>7, <1>8, <1>9, <1>10, <1>11 DEF IInv

(* The candle being written is the one the detector moved to, and it       *)
(* continues what is stored.                                               *)
LEMMA WrittenContinues ==
    ASSUME IInv, phase = "writing"
    PROVE  /\ series \in Keys /\ todo \in Seq(Int) /\ todo # <<>>
           /\ Head(todo) = todo[1] /\ todo[1] \in Int /\ latest[series] = todo[1]
           /\ store[series] \in Seq(Int)
           /\ IF store[series] = <<>>
              THEN todo[1] \in Times
              ELSE todo[1] = NextOpen(store[series][Len(store[series])])
  <1>1. /\ series \in Keys /\ todo \in Seq(Int) /\ todo # <<>>
        /\ latest[series] \in Int
        /\ store[series] \in Seq(Int)
    BY DEF IInv, TypeOK, HandInv
  <1>2. 1 \in 1 .. Len(todo) /\ Head(todo) = todo[1] /\ todo[1] \in Int
    BY <1>1
  <1>3. todo[1] = latest[series] + 0 * Step
    <2>1. todo[1] = latest[series] + (1 - 1) * Step
      BY <1>2 DEF IInv, HandInv
    <2>2. QED
      BY <2>1
  <1>4. latest[series] = todo[1]
    BY <1>1, <1>3, StepAssumption
  <1>5. LastStored(series) = None <=> store[series] = <<>>
    BY <1>1, LastStoredType DEF IInv
  <1>6. QED
    BY <1>1, <1>2, <1>4, <1>5 DEF IInv, HandInv, LastStored

(* The candle in hand is persisted, the last of the call or not.           *)
LEMMA WriteOkIInv == ASSUME IInv, WriteOk PROVE IInv'
  <1> DEFINE x == todo[1]
             old == store[series]
  <1>1. /\ phase = "writing"
        /\ store' = [store EXCEPT ![series] = Append(store[series], Head(todo))]
        /\ todo' = Tail(todo)
        /\ todo' = <<>> => phase' = "idle" /\ series' = None
        /\ todo' # <<>> => phase' = "accepting" /\ series' = series
        /\ UNCHANGED <<latest, newest>> /\ UNCHANGED fillVars
    BY DEF WriteOk, Settle
  <1>2. /\ TypeOK /\ series \in Keys /\ series # None /\ todo \in Seq(Int) /\ todo # <<>>
        /\ Head(todo) = x /\ x \in Int /\ latest[series] = x
        /\ old \in Seq(Int)
        /\ old # <<>> => x = NextOpen(old[Len(old)])
    BY <1>1, WrittenContinues, IngestAssumption DEF IInv, IngestAssumption
  <1>3. /\ store' \in [Keys -> Seq(Int)]
        /\ store'[series] = Append(old, x)
        /\ \A j \in Keys \ {series} : store'[j] = store[j]
    <2>1. Append(old, x) \in Seq(Int)
      BY <1>2, AppendProperties
    <2>2. store' = [store EXCEPT ![series] = Append(old, x)]
      BY <1>1, <1>2
    <2> HIDE DEF x, old
    <2>3. QED
      BY <1>2, <2>1, <2>2 DEF TypeOK
  <1>4. /\ Append(old, x) # <<>> /\ Append(old, x)[Len(Append(old, x))] = x
        /\ Len(Append(old, x)) = Len(old) + 1
        /\ \A i \in 1 .. Len(old) : Append(old, x)[i] = old[i]
    BY <1>2, AppendProperties
  <1> HIDE DEF x, old
  <1>5. \A j \in Keys \ {series} : LastStored(j)' = LastStored(j)
    BY <1>3, <1>4 DEF LastStored
  <1>6. \A j \in Keys : j = series => LastStored(j)' = x
    BY <1>3, <1>4 DEF LastStored
  <1>7. /\ todo' \in Seq(Int) /\ Len(todo') = Len(todo) - 1
        /\ \A i \in 1 .. Len(todo') : todo'[i] = todo[i + 1]
    BY <1>1, <1>2, HeadTailProperties
  <1>8. TypeOK'
    <2>1. Fill!TypeOK'
      BY <1>1, <1>2 DEF TypeOK, Fill!TypeOK, fillVars
    <2>2. Len(todo') <= MaxCandles + 1
      <3>1. Len(todo) \in Nat /\ Len(todo) <= MaxCandles + 1 /\ MaxCandles \in Nat
        BY <1>2, BackfillAssumption DEF BackfillAssumption, TypeOK
      <3>2. QED
        BY <1>7, <3>1
    <2>3. QED
      BY <1>1, <1>2, <1>3, <1>7, <2>1, <2>2 DEF TypeOK
  <1>9. StoreIsContiguous'
    <2>1. ASSUME NEW i \in 1 .. Len(store'[series]) - 1
          PROVE  store'[series][i + 1] = NextOpen(store'[series][i])
      <3>1. i \in 1 .. Len(old) /\ Len(old) \in Nat /\ old # <<>>
        BY <1>2, <1>3, <1>4
      <3>2. CASE i = Len(old)
        BY <1>2, <1>3, <1>4, <3>1, <3>2
      <3>3. CASE i < Len(old)
        <4>1. i \in 1 .. Len(old) - 1 /\ i + 1 \in 1 .. Len(old)
          BY <3>1, <3>3
        <4>2. old[i + 1] = NextOpen(old[i])
          BY <1>2, <4>1 DEF IInv, StoreIsContiguous, old
        <4>3. QED
          BY <1>3, <1>4, <3>1, <4>1, <4>2
      <3>4. QED
        BY <3>1, <3>2, <3>3
    <2>2. ASSUME NEW j \in Keys \ {series}, NEW i \in 1 .. Len(store'[j]) - 1
          PROVE  store'[j][i + 1] = NextOpen(store'[j][i])
      BY <1>3 DEF IInv, StoreIsContiguous
    <2>3. QED
      BY <2>1, <2>2 DEF StoreIsContiguous, NextOpen
  <1>10. \A j \in Keys : latest'[j] = LastStored(j)'
    <2>1. ASSUME NEW j \in Keys \ {series} PROVE latest'[j] = LastStored(j)'
      BY <1>1, <1>5 DEF IInv, DetectorMatchesStore
    <2>2. QED
      BY <1>1, <1>2, <1>6, <2>1
  <1>11. DetectorMatchesStore'
    BY <1>10 DEF DetectorMatchesStore
  <1>12. FillInv'
    BY <1>1, RecoveryRests DEF IInv, FillInv, fillVars
  <1>13. HandInv'
    <2>1. ASSUME NEW i \in 1 .. Len(todo') PROVE todo'[i] = latest[series] + i * Step
      <3>1. i + 1 \in 1 .. Len(todo) /\ (i + 1) - 1 = i
        BY <1>2, <1>7
      <3>2. todo[i + 1] = latest[series] + ((i + 1) - 1) * Step
        BY <1>1, <3>1 DEF IInv, HandInv
      <3>3. QED
        BY <1>7, <3>1, <3>2
    <2>2. QED
      BY <1>1, <1>2, <2>1, NoneAssumption DEF HandInv
  <1>14. NewestInv'
    <2>1. newest[series] = todo[Len(todo)] /\ \A j \in Keys \ {series} : Covered(j)
      BY <1>1 DEF IInv, NewestInv
    <2>2. ASSUME NEW j \in Keys \ {series} PROVE Covered(j)'
      BY <1>1, <1>5, <2>1 DEF Covered, NextOpen
    <2>3. CASE todo' = <<>>
      <3>1. Len(todo) = 1 /\ newest[series] = x
        <4>1. Len(todo') = 0 /\ Len(todo) \in Nat
          BY <1>2, <2>3
        <4>2. Len(todo) = 1
          BY <1>7, <4>1
        <4>3. QED
          BY <2>1, <4>2 DEF x
      <3>2. ASSUME NEW j \in Keys, j = series PROVE Covered(j)'
        BY <1>1, <1>2, <1>6, <3>1, <3>2, NoneAssumption, StepAssumption DEF Covered, NextOpen
      <3>3. QED
        BY <1>1, <2>2, <2>3, <3>2 DEF NewestInv
    <2>4. CASE todo' # <<>>
      <3>1. Len(todo') \in 1 .. Len(todo') /\ todo'[Len(todo')] = todo[Len(todo)]
        <4>1. Len(todo') \in Nat /\ Len(todo') # 0 /\ Len(todo) \in Nat
          BY <1>2, <1>7, <2>4, EmptySeq
        <4>2. Len(todo') \in 1 .. Len(todo') /\ Len(todo') + 1 = Len(todo)
          BY <1>7, <4>1
        <4>3. QED
          BY <1>7, <4>2
      <3>2. QED
        BY <1>1, <2>1, <2>2, <2>4, <3>1 DEF NewestInv
    <2>5. QED
      BY <2>3, <2>4
  <1>15. QED
    BY <1>8, <1>9, <1>11, <1>12, <1>13, <1>14 DEF IInv

(* A step of somebody else.                                                *)
LEMMA RestIInv == ASSUME IInv, UNCHANGED vars PROVE IInv'
  <1>1. UNCHANGED <<latest, store, phase, series, todo, newest>> /\ UNCHANGED fillVars
    BY DEF vars, callVars
  <1>2. \A j \in Keys : LastStored(j)' = LastStored(j)
    BY <1>1 DEF LastStored
  <1>3. TypeOK'
    BY <1>1 DEF IInv, TypeOK, Fill!TypeOK, fillVars
  <1>4. StoreIsContiguous' /\ DetectorMatchesStore'
    BY <1>1, <1>2 DEF IInv, StoreIsContiguous, DetectorMatchesStore
  <1>5. FillInv'
    BY <1>1, RecoveryRests DEF IInv, FillInv, fillVars
  <1>6. HandInv'
    <2>1. CASE phase = "writing"
      <3>1. series \in Keys
        BY <2>1, WrittenContinues
      <3>2. QED
        BY <1>1, <1>2, <2>1, <3>1 DEF IInv, HandInv, NextOpen
    <2>2. CASE phase # "writing"
      BY <1>1, <2>2 DEF IInv, HandInv
    <2>3. QED
      BY <2>1, <2>2
  <1>7. NewestInv'
    BY <1>1, <1>2 DEF IInv, NewestInv, Covered
  <1>8. QED
    BY <1>3, <1>4, <1>5, <1>6, <1>7 DEF IInv

(* Every step of the collector keeps the invariant.                        *)
LEMMA NextIInv == IInv /\ [Next]_vars => IInv'
  <1> SUFFICES ASSUME IInv, [Next]_vars PROVE IInv'
    OBVIOUS
  <1>1. ASSUME NEW k \in Keys, NEW t \in Times, Offer(k, t) PROVE IInv'
    BY <1>1, TakeIInv, IgnoreIInv, DetectGapIInv DEF Offer
  <1>2. CASE FetchPage
    BY <1>2, FetchPageIInv
  <1>3. CASE Recover
    BY <1>3, RecoverIInv
  <1>4. CASE RecoveryFails
    BY <1>4, RecoveryFailsIInv
  <1>5. CASE AcceptNext
    BY <1>5, AcceptNextIInv
  <1>6. CASE WriteOk
    BY <1>6, WriteOkIInv
  <1>7. CASE WriteFails
    BY <1>7, WriteFailsIInv
  <1>8. CASE UNCHANGED vars
    BY <1>8, RestIInv
  <1>9. QED
    BY <1>1, <1>2, <1>3, <1>4, <1>5, <1>6, <1>7, <1>8 DEF Next, Proceed, Stopped

(* Everything below follows from the invariant holding for ever.           *)
THEOREM IngestInvariant == Spec => []IInv
  BY InitIInv, NextIInv, PTL DEF Spec

-----------------------------------------------------------------------------
(* What BackfillProofs shows of a recovery holds of those of the collector *)
(* in every state of the invariant.                                        *)
LEMMA RecoveryIsSound ==
    IInv => DoneIsWholeRange /\ RequestsAreValid /\ CursorStaysInRange /\ HonestPageIsTaken
  <1> SUFFICES ASSUME IInv
               PROVE  DoneIsWholeRange /\ RequestsAreValid /\ CursorStaysInRange /\ HonestPageIsTaken
    OBVIOUS
  <1>1. Recovery!IInv
    BY DEF IInv, FillInv
  <1>2. Recovery!DoneIsWholeRange /\ Recovery!RequestsAreValid /\ Recovery!HonestPageIsTaken
    BY <1>1, RecoveryAssumption,
       Recovery!WholeRange, Recovery!ValidRequests, Recovery!TruthIsTaken
  <1>3. DoneIsWholeRange
    BY <1>2 DEF DoneIsWholeRange, Fill!DoneIsWholeRange, Recovery!DoneIsWholeRange,
       Fill!CandleCount, Recovery!CandleCount
  <1>4. RequestsAreValid
    BY <1>2 DEF RequestsAreValid, Fill!RequestsAreValid, Recovery!RequestsAreValid,
       Fill!RequestIsValid, Recovery!RequestIsValid, Fill!Request, Recovery!Request,
       Fill!Remaining, Recovery!Remaining, Fill!CandleCount, Recovery!CandleCount
  <1>5. CursorStaysInRange
    BY <1>1 DEF Recovery!IInv, CursorStaysInRange, Fill!CursorStaysInRange,
       Recovery!CursorStaysInRange
  <1>6. HonestPageIsTaken
    BY <1>2 DEF HonestPageIsTaken, Fill!HonestPageIsTaken, Recovery!HonestPageIsTaken,
       Fill!Honest, Recovery!Honest, Fill!Request, Recovery!Request,
       Fill!Remaining, Recovery!Remaining, Fill!Takes, Recovery!Takes,
       Fill!Mismatch, Recovery!Mismatch, Fill!Expects, Recovery!Expects,
       Fill!Verdict, Recovery!Verdict, Fill!CandleCount, Recovery!CandleCount
  <1>7. QED
    BY <1>3, <1>4, <1>5, <1>6

(* Whatever hole the stream leaves and whatever the server answers, a      *)
(* recovery of the collector is the whole range or an error, asks for      *)
(* valid pages only, keeps its cursor in the range and refuses no truth.   *)
THEOREM RecoveriesAreSound ==
    Spec => [](DoneIsWholeRange /\ RequestsAreValid /\ CursorStaysInRange /\ HonestPageIsTaken)
  BY RecoveryIsSound, IngestInvariant, PTL

-----------------------------------------------------------------------------
(* The variables of the collector stay in their domains, and it holds no   *)
(* more candles than the longest range and the candle in hand.             *)
THEOREM IngestTypeCorrect == Spec => []TypeOK
  <1>1. IInv => TypeOK
    BY DEF IInv
  <1>2. QED
    BY <1>1, IngestInvariant, PTL

(* closed-klines.jsonl has no hole, no repetition and no misplaced candle, *)
(* whatever the stream delivers and whatever REST answers.                 *)
THEOREM StoreStaysContiguous == Spec => []StoreIsContiguous
  <1>1. IInv => StoreIsContiguous
    BY DEF IInv
  <1>2. QED
    BY <1>1, IngestInvariant, PTL

(* The detector is ahead of the store by the candle being written only.    *)
THEOREM DetectorAgreesWithStore == Spec => []DetectorMatchesStore
  <1>1. IInv => DetectorMatchesStore
    BY DEF IInv
  <1>2. QED
    BY <1>1, IngestInvariant, PTL

(* Between two calls no candle that was handed over is missing.            *)
THEOREM CollectorIsCaughtUp == Spec => []CaughtUp
  <1>1. IInv => CaughtUp
    BY DEF IInv, NewestInv, Covered, CaughtUp
  <1>2. QED
    BY <1>1, IngestInvariant, PTL

(* The detector accepts whatever a successful recovery brings, so the      *)
(* error branch of accept_recovered is dead code.                          *)
THEOREM RecoveryIsAccepted == Spec => []RecoveryRestoresContinuity
  <1>1. IInv => RecoveryRestoresContinuity
    BY NextIsExpected DEF RecoveryRestoresContinuity
  <1>2. QED
    BY <1>1, IngestInvariant, PTL

(* Ingestion implements the abstract log: every step of it appends the     *)
(* candle that continues a series, or leaves the store alone.              *)
THEOREM IngestImplementsLog == Spec => ImplementsCandleLog
  <1>1. Init => Log!Init
    BY DEF Init, Log!Init
  <1>2. IInv /\ [Next]_vars => [Log!Next]_store
    <2> SUFFICES ASSUME IInv, [Next]_vars, store' # store PROVE Log!Next
      OBVIOUS
    <2>1. WriteOk
      BY DEF Next, Offer, Take, Ignore, DetectGap, Proceed, FetchPage, Recover,
         RecoveryFails, AcceptNext, WriteFails, Stopped, vars, callVars
    <2>2. /\ series \in Keys
          /\ store' = [store EXCEPT ![series] = Append(@, todo[1])]
          /\ IF store[series] = <<>>
             THEN todo[1] \in Times
             ELSE todo[1] = NextOpen(store[series][Len(store[series])])
      BY <2>1, WrittenContinues DEF WriteOk
    <2>3. todo[1] \in Log!Candidates(series)
      BY <2>2 DEF Log!Candidates, NextOpen
    <2>4. Log!Persist(series, todo[1])
      BY <2>2 DEF Log!Persist
    <2>5. QED
      BY <2>2, <2>3, <2>4 DEF Log!Next
  <1>3. QED
    BY <1>1, <1>2, IngestInvariant, PTL DEF Spec, ImplementsCandleLog, Log!Spec
=============================================================================
