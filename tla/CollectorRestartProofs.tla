----------------------- MODULE CollectorRestartProofs -----------------------
(***************************************************************************)
(* Proofs about several runs of watch-klines on one directory.  What the   *)
(* current run has appended is to ingestion what the whole store is to a   *)
(* single run, so the invariant of IngestProofs holds of that part, and a  *)
(* restart begins an empty one.  Replay is then proved to tell whether the *)
(* file has breaks.                                                        *)
(***************************************************************************)
EXTENDS CollectorRestart, SequenceTheorems, TLAPS

-----------------------------------------------------------------------------
(* The place where the first candle of the current run goes.               *)
IsOrigin(k, place) == place \in firsts[k] /\ \A i \in firsts[k] : i <= place

Origin(k) == CHOOSE place : IsOrigin(k, place)

(* What the current run has appended.                                      *)
Written == [k \in Keys |-> SubSeq(store[k], Origin(k), Len(store[k]))]

Run == INSTANCE IngestProofs WITH store <- Written

(* Every run begins behind what is stored then, and never loses its place. *)
OriginInv ==
    /\ store \in [Keys -> Seq(Int)] /\ firsts \in [Keys -> SUBSET Int]
    /\ \A k \in Keys : /\ Origin(k) \in 1 .. Len(store[k]) + 1
                       /\ IsOrigin(k, Origin(k))

RInv == OriginInv /\ BreaksOnlyAtRestarts /\ Run!IInv

-----------------------------------------------------------------------------
(* What a single collector assumes is what each run assumes.               *)
LEMMA RunAssumptions ==
    /\ Run!NoneAssumption /\ Run!StepAssumption
    /\ Run!IngestAssumption /\ Run!BackfillAssumption
  BY NoneAssumption, StepAssumption, IngestAssumption, BackfillAssumption
     DEF Run!NoneAssumption, Run!StepAssumption, Run!IngestAssumption, Run!BackfillAssumption

(* There is only one greatest place.                                       *)
LEMMA OriginIs ==
    ASSUME NEW k, NEW place \in Int, IsOrigin(k, place), firsts[k] \subseteq Int
    PROVE  Origin(k) = place
  <1>1. ASSUME NEW other, IsOrigin(k, other) PROVE other = place
    BY <1>1 DEF IsOrigin
  <1>2. QED
    BY <1>1 DEF Origin

(* The recovery under way does not touch the store.                        *)
LEMMA FetchIsOfRun == ASSUME Fill!Fetch PROVE Run!Fill!Fetch
  <1>1. ASSUME NEW page, Fill!PageExtends(page) PROVE Run!Fill!PageExtends(page)
    BY <1>1 DEF Fill!PageExtends, Run!Fill!PageExtends, Fill!Takes, Run!Fill!Takes,
       Fill!Mismatch, Run!Fill!Mismatch, Fill!Expects, Run!Fill!Expects,
       Fill!Verdict, Run!Fill!Verdict, Fill!CandleCount, Run!Fill!CandleCount
  <1>2. ASSUME NEW page, Fill!PageRejected(page) PROVE Run!Fill!PageRejected(page)
    BY <1>2 DEF Fill!PageRejected, Run!Fill!PageRejected, Fill!Takes, Run!Fill!Takes,
       Fill!Mismatch, Run!Fill!Mismatch, Fill!Expects, Run!Fill!Expects
  <1>3. ASSUME Fill!RequestFails PROVE Run!Fill!RequestFails
    BY <1>3 DEF Fill!RequestFails, Run!Fill!RequestFails
  <1>4. QED
    BY <1>1, <1>2, <1>3 DEF Fill!Fetch, Run!Fill!Fetch

(* A step of ingestion that appends nothing is one of the current run.     *)
LEMMA SilentStepIsOfRun ==
    ASSUME Next, UNCHANGED <<store, firsts>>, ~WriteOk
    PROVE  Run!Next
  <1>1. Written' = Written
    BY DEF Written, Origin, IsOrigin
  <1>2. ASSUME NEW k \in Keys, NEW t \in Times, Take(k, t) PROVE Run!Next
    BY <1>1, <1>2 DEF Take, HandOver, Newer, Advances, Continuity, Observed, NextOpen, fillVars,
       Run!Take, Run!HandOver, Run!Newer, Run!Advances, Run!Continuity, Run!Observed,
       Run!NextOpen, Run!fillVars, Run!Next, Run!Offer
  <1>3. ASSUME NEW k \in Keys, NEW t \in Times, Ignore(k, t) PROVE Run!Next
    BY <1>1, <1>3 DEF Ignore, HandOver, Newer, Dropped, Continuity, NextOpen, fillVars, callVars,
       Run!Ignore, Run!HandOver, Run!Newer, Run!Dropped, Run!Continuity, Run!NextOpen,
       Run!fillVars, Run!callVars, Run!Next, Run!Offer
  <1>4. ASSUME NEW k \in Keys, NEW t \in Times, DetectGap(k, t) PROVE Run!Next
    BY <1>1, <1>4 DEF DetectGap, HandOver, Newer, Continuity, NextOpen, GapRange, Fill!Begin,
       Fill!RangeIsValid, Fill!CandleCount, Run!DetectGap, Run!HandOver, Run!Newer,
       Run!Continuity, Run!NextOpen, Run!GapRange, Run!Fill!Begin, Run!Fill!RangeIsValid,
       Run!Fill!CandleCount, Run!Next, Run!Offer
  <1>5. CASE FetchPage
    BY <1>1, <1>5, FetchIsOfRun DEF FetchPage, callVars, Run!FetchPage, Run!callVars,
       Run!Next, Run!Proceed
  <1>6. CASE Recover
    BY <1>1, <1>6 DEF Recover, InOrder, Fill!Return, Run!Recover, Run!InOrder, Run!Fill!Return,
       Run!Next, Run!Proceed
  <1>7. CASE RecoveryFails
    BY <1>1, <1>7 DEF RecoveryFails, Fill!Return, Run!RecoveryFails, Run!Fill!Return,
       Run!Next, Run!Proceed
  <1>8. CASE AcceptNext
    BY <1>1, <1>8 DEF AcceptNext, Advances, Continuity, Observed, NextOpen, fillVars,
       Run!AcceptNext, Run!Advances, Run!Continuity, Run!Observed, Run!NextOpen, Run!fillVars,
       Run!Next, Run!Proceed
  <1>9. CASE WriteFails
    BY <1>1, <1>9 DEF WriteFails, fillVars, Run!WriteFails, Run!fillVars, Run!Next, Run!Proceed
  <1>10. CASE Stopped
    BY <1>1, <1>10 DEF Stopped, vars, callVars, fillVars, Run!Stopped, Run!vars, Run!callVars,
       Run!fillVars, Run!Next
  <1>11. QED
    BY <1>2, <1>3, <1>4, <1>5, <1>6, <1>7, <1>8, <1>9, <1>10 DEF Next, Offer, Proceed

-----------------------------------------------------------------------------
(* A candle appended to a series is appended to any part that reaches to   *)
(* its end.                                                                *)
LEMMA PartGrows ==
    ASSUME NEW s \in Seq(Int), NEW x \in Int, NEW from \in 1 .. Len(s) + 1
    PROVE  SubSeq(Append(s, x), from, Len(s) + 1) = Append(SubSeq(s, from, Len(s)), x)
  <1> DEFINE long == SubSeq(Append(s, x), from, Len(s) + 1)
             part == SubSeq(s, from, Len(s))
  <1>1. PICK n \in Nat : n = Len(s)
    OBVIOUS
  <1>2. /\ Len(part) = n - from + 1 /\ part \in Seq(Int)
        /\ \A i \in 1 .. n - from + 1 : part[i] = s[from + i - 1]
    <2>1. \A i \in from .. n : s[i] \in Int
      BY <1>1
    <2>2. from \in Int /\ from <= n + 1
      BY <1>1
    <2>3. QED
      BY <1>1, <2>1, <2>2, SubSeqProperties
  <1>3. /\ Append(s, x) \in Seq(Int) /\ Len(Append(s, x)) = n + 1
        /\ Append(s, x)[n + 1] = x /\ \A i \in 1 .. n : Append(s, x)[i] = s[i]
    BY <1>1
  <1>4. /\ Len(long) = n - from + 2 /\ long \in Seq(Int)
        /\ \A i \in 1 .. n - from + 2 : long[i] = Append(s, x)[from + i - 1]
    <2>1. \A i \in from .. n + 1 : Append(s, x)[i] \in Int
      BY <1>1, <1>3
    <2>2. from \in Int /\ from <= n + 1 /\ n + 1 = Len(s) + 1
      BY <1>1
    <2>3. QED
      BY <2>1, <2>2, SubSeqProperties
  <1>5. /\ Len(Append(part, x)) = n - from + 2 /\ Append(part, x) \in Seq(Int)
        /\ Append(part, x)[n - from + 2] = x
        /\ \A i \in 1 .. n - from + 1 : Append(part, x)[i] = part[i]
    BY <1>2
  <1> HIDE DEF long, part
  <1>6. ASSUME NEW i \in 1 .. n - from + 2 PROVE long[i] = Append(part, x)[i]
    <2>1. CASE i = n - from + 2
      <3>1. from + i - 1 = n + 1
        BY <1>1, <2>1
      <3>2. QED
        BY <1>3, <1>4, <1>5, <2>1, <3>1
    <2>2. CASE i \in 1 .. n - from + 1
      <3>1. from + i - 1 \in 1 .. n
        BY <1>1, <2>2
      <3>2. QED
        BY <1>2, <1>3, <1>4, <1>5, <2>2, <3>1
    <2>3. from \in Int /\ n \in Int /\ i \in 1 .. n - from + 2
      BY <1>1
    <2>4. i = n - from + 2 \/ i \in 1 .. n - from + 1
      BY <2>3
    <2>5. QED
      BY <2>1, <2>2, <2>4
  <1>7. long = Append(part, x)
    BY <1>4, <1>5, <1>6, SeqEqual
  <1>8. QED
    BY <1>7 DEF long, part

(* The last candle of the current run, if it has one, is the last stored.  *)
LEMMA LastOfPart ==
    ASSUME OriginInv, NEW k \in Keys
    PROVE  /\ Written[k] \in Seq(Int)
           /\ Written[k] = <<>> <=> Origin(k) = Len(store[k]) + 1
           /\ Written[k] # <<>> =>
                 store[k] # <<>> /\ Written[k][Len(Written[k])] = store[k][Len(store[k])]
  <1> DEFINE s == store[k]
             from == Origin(k)
             part == SubSeq(s, from, Len(s))
  <1>1. Written[k] = part
    BY DEF Written
  <1>2. s \in Seq(Int) /\ from \in 1 .. Len(s) + 1 /\ Len(s) \in Nat
    BY DEF OriginInv
  <1> HIDE DEF s, from
  <1>3. part \in Seq(Int) /\ Len(part) = Len(s) - from + 1
        /\ \A i \in 1 .. Len(s) - from + 1 : part[i] = s[from + i - 1]
    <2>1. \A i \in from .. Len(s) : s[i] \in Int
      BY <1>2
    <2>2. from \in Int /\ from <= Len(s) + 1
      BY <1>2
    <2>3. QED
      BY <1>2, <2>1, <2>2, SubSeqProperties
  <1> HIDE DEF part
  <1>4. part = <<>> <=> from = Len(s) + 1
    BY <1>2, <1>3
  <1>5. part # <<>> => s # <<>> /\ part[Len(part)] = s[Len(s)]
    BY <1>2, <1>3
  <1>6. QED
    BY <1>1, <1>3, <1>4, <1>5 DEF s, from

(* Ingestion's append is an append of the current run.                     *)
LEMMA WriteOkIsOfRun ==
    ASSUME OriginInv, WriteOk, UNCHANGED firsts, series \in Keys, Head(todo) \in Int
    PROVE  Run!Next
  <1> DEFINE x == Head(todo)
  <1>1. store' = [store EXCEPT ![series] = Append(store[series], x)]
    BY DEF WriteOk
  <1>2. \A k : Origin(k)' = Origin(k)
    BY DEF Origin, IsOrigin
  <1>3. Written' = [Written EXCEPT ![series] = Append(Written[series], x)]
    <2>1. \A k \in Keys : k # series => Written'[k] = Written[k]
      BY <1>1, <1>2 DEF Written, OriginInv
    <2>2. store[series] \in Seq(Int) /\ Origin(series) \in 1 .. Len(store[series]) + 1
      BY DEF OriginInv
    <2>3. store'[series] = Append(store[series], x) /\ Len(store'[series]) = Len(store[series]) + 1
      BY <1>1, <2>2 DEF OriginInv
    <2>4. Written'[series] = Append(Written[series], x)
      BY <1>2, <2>2, <2>3, PartGrows DEF Written
    <2>5. QED
      BY <2>1, <2>4 DEF Written
  <1>4. QED
    BY <1>3 DEF WriteOk, Settle, fillVars, Run!WriteOk, Run!Settle, Run!fillVars,
       Run!Next, Run!Proceed

(* A candle that begins a run, or continues the series, breaks nothing.    *)
LEMMA GrowsWithoutBreak ==
    ASSUME OriginInv, BreaksOnlyAtRestarts, NEW k \in Keys, NEW x \in Int,
           store' = [store EXCEPT ![k] = Append(store[k], x)],
           \A s \in Keys : firsts[s] \subseteq firsts'[s],
           \/ Len(store[k]) + 1 \in firsts'[k]
           \/ x = NextOpen(store[k][Len(store[k])])
    PROVE  BreaksOnlyAtRestarts'
  <1> SUFFICES ASSUME NEW s \in Keys, NEW i \in 2 .. Len(store'[s])
               PROVE  i \in firsts'[s] \/ store'[s][i] = NextOpen(store'[s][i - 1])
    BY DEF BreaksOnlyAtRestarts, NextOpen
  <1>1. store[s] \in Seq(Int) /\ store[k] \in Seq(Int)
    BY DEF OriginInv
  <1>2. CASE s # k
    <2>1. store'[s] = store[s]
      BY <1>2 DEF OriginInv
    <2>2. QED
      BY <2>1 DEF BreaksOnlyAtRestarts
  <1>3. CASE s = k
    <2>1. store'[s] = Append(store[k], x)
      BY <1>3 DEF OriginInv
    <2>2. CASE i = Len(store[k]) + 1
      BY <1>1, <1>3, <2>1, <2>2
    <2>3. CASE i \in 2 .. Len(store[k])
      <3>1. store'[s][i] = store[s][i] /\ store'[s][i - 1] = store[s][i - 1]
        BY <1>1, <1>3, <2>1, <2>3
      <3>2. QED
        BY <1>3, <2>3, <3>1 DEF BreaksOnlyAtRestarts
    <2>4. QED
      BY <1>1, <2>1, <2>2, <2>3
  <1>4. QED
    BY <1>2, <1>3

-----------------------------------------------------------------------------
(* A first run begins at the first place.                                  *)
LEMMA InitRInv == RestartInit => RInv
  <1> SUFFICES ASSUME RestartInit PROVE RInv
    OBVIOUS
  <1>1. \A k \in Keys : IsOrigin(k, 1) /\ firsts[k] \subseteq Int
    BY DEF RestartInit, IsOrigin
  <1>2. \A k \in Keys : Origin(k) = 1
    BY <1>1, OriginIs
  <1>3. \A k \in Keys : store[k] = <<>>
    BY DEF RestartInit, Init
  <1>4. OriginInv /\ BreaksOnlyAtRestarts
    BY <1>1, <1>2, <1>3 DEF RestartInit, Init, OriginInv, BreaksOnlyAtRestarts
  <1>5. Written = [k \in Keys |-> <<>>]
    BY <1>3, <1>4, LastOfPart, <1>2 DEF Written
  <1>6. Run!Init
    BY <1>5 DEF RestartInit, Init, Fill!Init, Fill!NothingHeld, Run!Init, Run!Fill!Init,
       Run!Fill!NothingHeld
  <1>7. QED
    BY <1>4, <1>6, RunAssumptions, Run!InitIInv DEF RInv

(* A step of ingestion is one of the current run, and whatever it appends  *)
(* begins that run or continues what it wrote.                             *)
LEMMA CollectRInv == ASSUME RInv, Collect PROVE RInv'
  <1>1. OriginInv /\ BreaksOnlyAtRestarts /\ Run!IInv /\ Next /\ UNCHANGED firsts
    BY DEF RInv, Collect, runVars
  <1>2. \A k : Origin(k)' = Origin(k)
    BY <1>1 DEF Origin, IsOrigin
  <1>3. CASE ~WriteOk
    <2>1. UNCHANGED store
      BY <1>1, <1>3 DEF Next, Offer, Take, Ignore, DetectGap, Proceed, FetchPage, Recover,
         RecoveryFails, AcceptNext, WriteFails, Stopped, vars, callVars
    <2>2. Run!IInv'
      BY <1>1, <1>3, <2>1, SilentStepIsOfRun, RunAssumptions, Run!NextIInv
    <2>3. OriginInv' /\ BreaksOnlyAtRestarts'
      BY <1>1, <1>2, <2>1 DEF OriginInv, BreaksOnlyAtRestarts, IsOrigin
    <2>4. QED
      BY <2>2, <2>3 DEF RInv
  <1>4. CASE WriteOk
    <2>1. /\ series \in Keys /\ todo \in Seq(Int) /\ todo # <<>>
          /\ Head(todo) = todo[1] /\ todo[1] \in Int
          /\ Written[series] # <<>> =>
                todo[1] = NextOpen(Written[series][Len(Written[series])])
      BY <1>1, <1>4, RunAssumptions, Run!WrittenContinues DEF WriteOk, NextOpen, Run!NextOpen
    <2>2. Run!IInv'
      BY <1>1, <1>4, <2>1, WriteOkIsOfRun, RunAssumptions, Run!NextIInv
    <2>3. store' = [store EXCEPT ![series] = Append(store[series], todo[1])]
      BY <1>4, <2>1 DEF WriteOk
    <2>4. \/ Len(store[series]) + 1 \in firsts'[series]
          \/ todo[1] = NextOpen(store[series][Len(store[series])])
      BY <1>1, <2>1, LastOfPart DEF OriginInv, IsOrigin
    <2>5. BreaksOnlyAtRestarts'
      BY <1>1, <2>1, <2>3, <2>4, GrowsWithoutBreak
    <2>6. OriginInv'
      BY <1>1, <1>2, <2>1, <2>3 DEF OriginInv, IsOrigin
    <2>7. QED
      BY <2>2, <2>5, <2>6 DEF RInv
  <1>5. QED
    BY <1>3, <1>4

(* A run that begins satisfies the invariant of a single collector.        *)
LEMMA RunBegins == Run!Init' => Run!IInv'
  <1>1. Run!Init => Run!IInv
    BY RunAssumptions, Run!InitIInv
  <1>2. QED
    BY <1>1, PTL

(* So does one that does nothing.                                          *)
LEMMA RestOfRun ==
    ASSUME Run!IInv, UNCHANGED <<vars, runVars>>
    PROVE  Run!IInv'
  <1>1. Written' = Written
    BY DEF Written, Origin, IsOrigin, vars, callVars, runVars
  <1>2. UNCHANGED Run!vars
    BY <1>1 DEF vars, callVars, fillVars, Run!vars, Run!callVars, Run!fillVars
  <1>3. QED
    BY <1>2, RunAssumptions, Run!NextIInv

(* A restart finds the store as it was, or with the candle that was being  *)
(* written, and continues neither a series nor a call: the part of the new *)
(* run is empty.                                                           *)
LEMMA RebootRInv == ASSUME RInv, Reboot PROVE RInv'
  <1>1. /\ OriginInv /\ BreaksOnlyAtRestarts /\ Run!IInv
        /\ firsts' = [k \in Keys |-> firsts[k] \cup {Len(store'[k]) + 1}]
    BY DEF RInv, Reboot
  <1>2. \/ store' = store
        \/ /\ phase = "writing"
           /\ store' = [store EXCEPT ![series] = Append(store[series], todo[1])]
    BY DEF Reboot, Survives
  <1>3. phase = "writing" =>
           /\ series \in Keys /\ todo[1] \in Int
           /\ Written[series] # <<>> =>
                 todo[1] = NextOpen(Written[series][Len(Written[series])])
    BY <1>1, RunAssumptions, Run!WrittenContinues DEF NextOpen, Run!NextOpen
  <1>4. /\ store \in [Keys -> Seq(Int)] /\ store' \in [Keys -> Seq(Int)]
        /\ \A k \in Keys : Len(store[k]) \in Nat /\ Len(store'[k]) \in Nat
                             /\ Len(store[k]) <= Len(store'[k])
    <2>1. store \in [Keys -> Seq(Int)]
      BY <1>1 DEF OriginInv
    <2>2. CASE phase = "writing"
                 /\ store' = [store EXCEPT ![series] = Append(store[series], todo[1])]
      <3>1. ASSUME NEW k \in Keys
            PROVE  store'[k] \in Seq(Int) /\ Len(store[k]) <= Len(store'[k])
        BY <1>3, <2>1, <2>2
      <3>2. QED
        BY <1>3, <2>1, <2>2, <3>1
    <2>3. QED
      BY <1>2, <2>1, <2>2
  <1>5. BreaksOnlyAtRestarts'
    <2>1. \A k \in Keys : firsts[k] \subseteq firsts'[k]
      BY <1>1
    <2>2. CASE store' = store
      BY <1>1, <2>1, <2>2 DEF BreaksOnlyAtRestarts
    <2>3. CASE phase = "writing"
                 /\ store' = [store EXCEPT ![series] = Append(store[series], todo[1])]
      <3>1. \/ Len(store[series]) + 1 \in firsts'[series]
            \/ todo[1] = NextOpen(store[series][Len(store[series])])
        BY <1>1, <1>3, <2>1, <2>3, LastOfPart DEF OriginInv, IsOrigin
      <3>2. QED
        BY <1>1, <1>3, <2>1, <2>3, <3>1, GrowsWithoutBreak
    <2>4. QED
      BY <1>2, <2>2, <2>3
  <1>6. ASSUME NEW k \in Keys
        PROVE  /\ IsOrigin(k, Len(store[k]) + 1)' /\ firsts'[k] \subseteq Int
               /\ Origin(k)' = (Len(store[k]) + 1)'
    <2>1. firsts[k] \subseteq Int /\ \A i \in firsts[k] : i <= Len(store[k]) + 1
      BY <1>1, <1>4 DEF OriginInv, IsOrigin
    <2>2. IsOrigin(k, Len(store[k]) + 1)' /\ firsts'[k] \subseteq Int
      BY <1>1, <1>4, <2>1 DEF IsOrigin
    <2>3. ASSUME NEW other, other \in firsts'[k], \A i \in firsts'[k] : i <= other
          PROVE  other = Len(store'[k]) + 1
      BY <1>4, <2>2, <2>3 DEF IsOrigin
    <2>4. QED
      BY <2>2, <2>3 DEF Origin, IsOrigin
  <1>7. OriginInv'
    BY <1>1, <1>4, <1>6 DEF OriginInv
  <1>8. Written' = [k \in Keys |-> <<>>]
    <2>1. ASSUME NEW k \in Keys PROVE Written'[k] = <<>>
      <3>1. Written'[k] = SubSeq(store'[k], Len(store'[k]) + 1, Len(store'[k]))
        BY <1>6 DEF Written
      <3>2. QED
        BY <1>4, <3>1
    <2>2. QED
      BY <2>1 DEF Written
  <1>9. Run!Init'
    BY <1>8 DEF Reboot, Forget, Run!Init, Run!Fill!Init, Run!Fill!NothingHeld
  <1>10. Run!IInv'
    BY <1>9, RunBegins
  <1>11. QED
    BY <1>5, <1>7, <1>10 DEF RInv

(* The invariant holds of any number of runs, however they ended.          *)
THEOREM RestartInvariant == RestartSpec => []RInv
  <1>1. RInv /\ [RestartNext]_<<vars, runVars>> => RInv'
    <2> SUFFICES ASSUME RInv, [RestartNext]_<<vars, runVars>> PROVE RInv'
      OBVIOUS
    <2>1. CASE UNCHANGED <<vars, runVars>>
      <3>1. Run!IInv' /\ UNCHANGED <<store, firsts>>
        BY <2>1, RestOfRun DEF RInv, vars, runVars, callVars
      <3>2. QED
        BY <3>1 DEF RInv, OriginInv, BreaksOnlyAtRestarts, Origin, IsOrigin
    <2>2. QED
      BY <2>1, CollectRInv, RebootRInv DEF RestartNext
  <1>2. QED
    BY <1>1, InitRInv, PTL DEF RestartSpec

-----------------------------------------------------------------------------
(* Whatever crashes do to the collector, its file breaks only where a run  *)
(* began.                                                                  *)
THEOREM StoreBreaksOnlyAtRestarts == RestartSpec => []BreaksOnlyAtRestarts
  <1>1. RInv => BreaksOnlyAtRestarts
    BY DEF RInv
  <1>2. QED
    BY <1>1, RestartInvariant, PTL
-----------------------------------------------------------------------------
(* What replay counts: one candle of the file after the other.             *)
Counting == INSTANCE Folding WITH Base <- NoCounts, Op <- Count

(* Replay is the loop over the candles.                                    *)
LEMMA ReplayIsLoop ==
    ASSUME NEW candles \in Seq(Int)
    PROVE  \E f : Counting!IsChain(f, candles) /\ ReplayOf(candles) = f[Len(candles)]
  <1>1. ReplayOf(candles) = Counting!FoldLeft(Count, NoCounts, candles)
    BY Zenon DEF ReplayOf, FoldLeft, MapThenFoldSet, Max, Counting!FoldLeft,
       Counting!MapThenFoldSet, Counting!Max
  <1>2. QED
    BY <1>1, Counting!FoldIsChain

(* The counts are a record of numbers.                                     *)
AreCounts(c) ==
    /\ c = [latest |-> c.latest, continuous |-> c.continuous, gaps |-> c.gaps,
            duplicates |-> c.duplicates, outOfOrder |-> c.outOfOrder]
    /\ c.latest \in Int \cup {None}
    /\ c.continuous \in Nat /\ c.gaps \in Nat /\ c.duplicates \in Nat /\ c.outOfOrder \in Nat

(* How many candles did not continue the series.                           *)
Breaks(c) == c.gaps + c.duplicates + c.outOfOrder

(* A candle is counted once, and moves the detector if it continues.       *)
LEMMA CountTurn ==
    ASSUME NEW c, AreCounts(c), NEW open \in Int
    PROVE  LET d == Count(c, open)
           IN  /\ AreCounts(d) /\ d.latest = Observed(c.latest, open)
               /\ Advances(Continuity(c.latest, open)) => Breaks(d) = Breaks(c)
               /\ ~Advances(Continuity(c.latest, open)) => Breaks(d) = Breaks(c) + 1
  <1> DEFINE continuity == Continuity(c.latest, open)
             moved      == Observed(c.latest, open)
             d          == Count(c, open)
  <1>1. continuity \in {"First", "Continuous", "Gap", "Duplicate", "OutOfOrder"}
    BY DEF Continuity
  <1>2. moved \in Int \cup {None}
    BY DEF Observed, AreCounts
  <1>3. d = [c EXCEPT !.latest = moved, ![Counter(continuity)] = @ + 1]
    BY DEF Count
  <1> HIDE DEF d, moved, continuity
  <1>4. CASE Advances(continuity)
    <2>1. Counter(continuity) = "continuous"
      BY <1>1, <1>4 DEF Counter, Advances
    <2>2. d = [latest |-> moved, continuous |-> c.continuous + 1, gaps |-> c.gaps,
               duplicates |-> c.duplicates, outOfOrder |-> c.outOfOrder]
      BY <1>3, <2>1 DEF AreCounts
    <2>3. QED
      BY <1>2, <1>4, <2>2 DEF AreCounts, Breaks, d, moved, continuity
  <1>5. CASE continuity = "Gap"
    <2>1. Counter(continuity) = "gaps" /\ ~Advances(continuity)
      BY <1>5 DEF Counter, Advances
    <2>2. d = [latest |-> moved, continuous |-> c.continuous, gaps |-> c.gaps + 1,
               duplicates |-> c.duplicates, outOfOrder |-> c.outOfOrder]
      BY <1>3, <2>1 DEF AreCounts
    <2>3. QED
      BY <1>2, <2>1, <2>2 DEF AreCounts, Breaks, d, moved, continuity
  <1>6. CASE continuity = "Duplicate"
    <2>1. Counter(continuity) = "duplicates" /\ ~Advances(continuity)
      BY <1>6 DEF Counter, Advances
    <2>2. d = [latest |-> moved, continuous |-> c.continuous, gaps |-> c.gaps,
               duplicates |-> c.duplicates + 1, outOfOrder |-> c.outOfOrder]
      BY <1>3, <2>1 DEF AreCounts
    <2>3. QED
      BY <1>2, <2>1, <2>2 DEF AreCounts, Breaks, d, moved, continuity
  <1>7. CASE continuity = "OutOfOrder"
    <2>1. Counter(continuity) = "outOfOrder" /\ ~Advances(continuity)
      BY <1>7 DEF Counter, Advances
    <2>2. d = [latest |-> moved, continuous |-> c.continuous, gaps |-> c.gaps,
               duplicates |-> c.duplicates, outOfOrder |-> c.outOfOrder + 1]
      BY <1>3, <2>1 DEF AreCounts
    <2>3. QED
      BY <1>2, <2>1, <2>2 DEF AreCounts, Breaks, d, moved, continuity
  <1>8. QED
    BY <1>1, <1>4, <1>5, <1>6, <1>7 DEF Advances

(* The first k candles are without a break.                                *)
Whole(candles, k) == \A i \in 2 .. k : candles[i] = NextOpen(candles[i - 1])

(* Replay counts nothing but continuous candles exactly if each of them    *)
(* continues the one before it.                                            *)
LEMMA ReplayIsHonest ==
    ASSUME NEW candles \in Seq(Int)
    PROVE  Breaks(ReplayOf(candles)) = 0 <=> Whole(candles, Len(candles))
  <1>1. PICK n \in Nat : n = Len(candles) /\ \A i \in 1 .. n : candles[i] \in Int
    OBVIOUS
  <1>2. PICK f : Counting!IsChain(f, candles) /\ ReplayOf(candles) = f[n]
    BY <1>1, ReplayIsLoop
  <1> DEFINE P(k) == /\ AreCounts(f[k])
                     /\ f[k].latest = None <=> k = 0
                     /\ Breaks(f[k]) = 0 <=> Whole(candles, k)
                     /\ k # 0 /\ Whole(candles, k) => f[k].latest = candles[k]
             T == {k \in Nat : k <= n => P(k)}
  <1>3. 0 \in T
    <2>1. f[0] = NoCounts
      BY <1>2 DEF Counting!IsChain
    <2>2. AreCounts(NoCounts) /\ NoCounts.latest = None /\ Breaks(NoCounts) = 0
      BY DEF NoCounts, AreCounts, Breaks
    <2>3. Whole(candles, 0)
      BY DEF Whole
    <2>4. P(0)
      BY <2>1, <2>2, <2>3
    <2>5. QED
      BY <2>4
  <1>4. ASSUME NEW k \in T PROVE k + 1 \in T
    <2> SUFFICES ASSUME k + 1 <= n PROVE P(k + 1)
      OBVIOUS
    <2>1. k \in Nat /\ k <= n /\ P(k)
      OBVIOUS
    <2> DEFINE open == candles[k + 1]
    <2>2. open \in Int /\ f[k + 1] = Count(f[k], open)
      <3>1. k + 1 \in 1 .. Len(candles) /\ (k + 1) - 1 = k
        BY <1>1, <2>1
      <3>2. QED
        BY <1>1, <1>2, <3>1 DEF Counting!IsChain
    <2> DEFINE advances == Advances(Continuity(f[k].latest, open))
    <2>3. /\ AreCounts(f[k + 1]) /\ f[k + 1].latest = Observed(f[k].latest, open)
          /\ advances => Breaks(f[k + 1]) = Breaks(f[k])
          /\ ~advances => Breaks(f[k + 1]) = Breaks(f[k]) + 1
      <3> HIDE DEF open
      <3>1. QED
        BY <2>1, <2>2, CountTurn
    <2>4. Breaks(f[k]) \in Nat /\ f[k].latest \in Int \cup {None}
      BY <2>1 DEF AreCounts, Breaks
    <2>5. Whole(candles, k + 1) <=> Whole(candles, k) /\ (k # 0 => open = NextOpen(candles[k]))
      <3>1. ASSUME Whole(candles, k + 1)
            PROVE  Whole(candles, k) /\ (k # 0 => open = NextOpen(candles[k]))
        <4>1. k # 0 => k + 1 \in 2 .. k + 1 /\ (k + 1) - 1 = k
          BY <2>1
        <4>2. QED
          BY <3>1, <4>1, <2>1 DEF Whole
      <3>2. ASSUME Whole(candles, k), k # 0 => open = NextOpen(candles[k])
            PROVE  Whole(candles, k + 1)
        <4>1. \A i \in 2 .. k + 1 : i \in 2 .. k \/ (i = k + 1 /\ k # 0 /\ i - 1 = k)
          BY <2>1
        <4>2. QED
          BY <3>2, <4>1 DEF Whole
      <3>3. QED
        BY <3>1, <3>2
    <2>6. CASE k = 0
      <3>1. Whole(candles, k) /\ Breaks(f[k]) = 0 /\ f[k].latest = None
        BY <2>1, <2>6 DEF Whole
      <3>2. Whole(candles, k + 1)
        BY <2>5, <2>6, <3>1
      <3>3. Continuity(f[k].latest, open) = "First"
        BY <3>1 DEF Continuity
      <3>4. advances /\ f[k + 1].latest = open
        BY <2>3, <3>3 DEF Advances, Observed
      <3>5. open # None
        BY <2>2, NoneAssumption DEF NoneAssumption
      <3> HIDE DEF advances, open
      <3>6. QED
        BY <2>1, <2>3, <3>1, <3>2, <3>4, <3>5 DEF open
    <2>7. CASE k # 0
      <3>1. f[k].latest \in Int /\ f[k].latest # None
        BY <2>1, <2>4, <2>7
      <3>2. advances <=> open = NextOpen(f[k].latest)
        BY <2>2, <3>1, StepAssumption DEF Advances, Continuity, NextOpen, StepAssumption
      <3>3. f[k + 1].latest = IF advances THEN open ELSE f[k].latest
        BY <2>3 DEF Observed
      <3>4. f[k + 1].latest # None
        BY <2>2, <3>1, <3>3, NoneAssumption DEF NoneAssumption
      <3>5. Whole(candles, k) => f[k].latest = candles[k]
        BY <2>1, <2>7
      <3> HIDE DEF advances, open
      <3>6. CASE Whole(candles, k)
        <4>1. advances <=> Whole(candles, k + 1)
          BY <2>5, <2>7, <3>2, <3>5, <3>6
        <4>2. Breaks(f[k + 1]) = 0 <=> advances
          BY <2>1, <2>3, <2>4, <3>6
        <4>3. QED
          BY <2>1, <2>3, <3>3, <3>4, <4>1, <4>2 DEF open
      <3>7. CASE ~Whole(candles, k)
        <4>1. ~Whole(candles, k + 1) /\ Breaks(f[k + 1]) # 0
          BY <2>1, <2>3, <2>4, <2>5, <3>7
        <4>2. QED
          BY <2>1, <2>3, <3>4, <4>1
      <3>8. QED
        BY <3>6, <3>7
    <2>8. QED
      BY <2>6, <2>7
  <1>5. T = Nat
    <2>1. T \in SUBSET Nat
      OBVIOUS
    <2> HIDE DEF T
    <2>2. QED
      BY <1>3, <1>4, <2>1, Counting!Induction
  <1>6. P(n)
    <2>1. n \in T
      <3> HIDE DEF T
      <3>1. QED
        BY <1>5
    <2>2. QED
      BY <2>1
  <1>7. QED
    BY <1>1, <1>2, <1>6

(* Replay is honest about a file of any length, however it came about: it  *)
(* counts no gap, duplicate or misplaced candle if and only if every       *)
(* candle continues the one before it.                                     *)
THEOREM ReplayIsTruthful == RestartSpec => []ReplayTellsBreaks
  <1>1. RInv => ReplayTellsBreaks
    <2> SUFFICES ASSUME RInv, NEW k \in Keys
                 PROVE  Breaks(ReplayOf(store[k])) = 0 <=> Whole(store[k], Len(store[k]))
      BY DEF ReplayTellsBreaks, Breaks, Whole
    <2>1. store[k] \in Seq(Int)
      BY DEF RInv, OriginInv
    <2>2. QED
      BY <2>1, ReplayIsHonest
  <1>2. QED
    BY <1>1, RestartInvariant, PTL
=============================================================================
