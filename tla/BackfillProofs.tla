--------------------------- MODULE BackfillProofs ---------------------------
(***************************************************************************)
(* Proofs about one REST recovery, for every interval, page size, range    *)
(* and server: the candles backfill_klines returns are the whole range,    *)
(* every request makes progress, and no truthful answer is refused.        *)
(***************************************************************************)
EXTENDS Backfill, SequenceTheorems, TLAPS

-----------------------------------------------------------------------------
(* Open times that lie a whole number of intervals apart.                  *)

(* More intervals are longer.                                              *)
LEMMA MultiplesGrow ==
    ASSUME NEW a \in Int, NEW b \in Int, NEW s \in Nat \ {0}, a <= b
    PROVE  a * s <= b * s
  OBVIOUS

(* More multiples of the interval are more milliseconds.                   *)
LEMMA LongerIsMore ==
    ASSUME NEW a \in Int, NEW b \in Int, NEW s \in Nat \ {0}, a * s < b * s
    PROVE  a < b
  OBVIOUS

(* Fewer milliseconds are fewer multiples of the interval.                 *)
LEMMA ShorterIsFewer ==
    ASSUME NEW a \in Int, NEW b \in Int, NEW s \in Nat \ {0}, a * s <= b * s
    PROVE  a <= b
  <1> SUFFICES ASSUME b + 1 <= a PROVE FALSE
    OBVIOUS
  <1>1. (b + 1) * s <= a * s
    BY MultiplesGrow, b + 1 \in Int
  <1>2. (b + 1) * s = b * s + s
    OBVIOUS
  <1> DEFINE x == a * s
             y == b * s
  <1>3. x \in Int /\ y \in Int /\ x <= y /\ y + s <= x
    BY <1>1, <1>2
  <1> HIDE DEF x, y
  <1>4. QED
    BY <1>3

(* A multiple is divisible, and its quotient the number of intervals.      *)
LEMMA MultipleDivides ==
    ASSUME NEW n \in Int, NEW s \in Nat \ {0}
    PROVE  (n * s) % s = 0 /\ (n * s) \div s = n
  OBVIOUS

(* What is divisible is the quotient times the interval.                   *)
LEMMA QuotientIsExact ==
    ASSUME NEW x \in Int, NEW s \in Nat \ {0}, x % s = 0
    PROVE  x = (x \div s) * s /\ x \div s \in Int
  OBVIOUS

(* One interval more or less is one count more or less.                    *)
LEMMA MultipleSplits ==
    ASSUME NEW a \in Int, NEW b \in Int, NEW s \in Int
    PROVE  (a + b) * s = a * s + b * s /\ (a - b) * s = a * s - b * s
  OBVIOUS

(* Taking whole intervals off a multiple leaves a multiple.                *)
LEMMA MultipleMinusMultiple ==
    ASSUME NEW x \in Int, NEW n \in Int, NEW s \in Nat \ {0}, x % s = 0
    PROVE  (x - n * s) % s = 0
  <1> DEFINE q == x \div s
  <1>1. x = q * s /\ q \in Int
    BY QuotientIsExact
  <1> HIDE DEF q
  <1>2. q - n \in Int
    BY <1>1
  <1>3. ((q - n) * s) % s = 0
    BY <1>2, MultipleDivides
  <1>4. (q - n) * s = q * s - n * s
    BY <1>1, MultipleSplits
  <1>5. QED
    BY <1>1, <1>3, <1>4

(* A multiple that exceeds n - 1 intervals holds n of them.                *)
LEMMA MultipleHoldsAnother ==
    ASSUME NEW x \in Int, NEW n \in Int, NEW s \in Nat \ {0},
           x % s = 0, (n - 1) * s < x
    PROVE  n * s <= x
  <1> DEFINE q == x \div s
  <1>1. x = q * s /\ q \in Int
    BY QuotientIsExact
  <1> HIDE DEF q
  <1>2. n - 1 < q
    BY <1>1, LongerIsMore, n - 1 \in Int
  <1>3. n <= q
    BY <1>1, <1>2
  <1>4. QED
    BY <1>1, <1>3, MultiplesGrow

-----------------------------------------------------------------------------
(* The inductive invariant: the cursor moves in whole intervals inside the *)
(* range and the candles follow it.                                        *)
RangeInv ==
    /\ fill = "idle" => NothingHeld
    /\ fill \in {"fetching", "done"} => RangeIsValid(start, end)
    /\ fill = "fetching" => cursor < end
    /\ fill = "done" => cursor = end /\ Len(recovered) = CandleCount(start, end)

IInv == TypeOK /\ RecoveredIsPrefix /\ CursorStaysInRange /\ RangeInv

(* With nothing collected the cursor is at the start.                      *)
LEMMA NothingCollected ==
    ASSUME NEW s \in Int PROVE s = s + Len(<<>>) * Step
  BY StepAssumption

(* No call is being made at first.                                         *)
LEMMA InitIInv == Init => IInv
  BY NothingCollected, BackfillAssumption
     DEF BackfillAssumption, Init, NothingHeld, IInv, TypeOK, RecoveredIsPrefix,
         CursorStaysInRange, RangeInv

(* A call begins at the start of a range of whole intervals.               *)
LEMMA BeginIInv ==
    ASSUME IInv, NEW s \in Int, NEW e \in Int, Begin(s, e)
    PROVE  IInv'
  <1>0. fill = "idle" /\ NothingHeld
    BY DEF Begin, IInv, RangeInv
  <1>1. CASE RangeIsValid(s, e)
    <2>1. /\ fill' = "fetching" /\ recovered' = <<>>
          /\ start' = s /\ end' = e /\ cursor' = s
      BY <1>0, <1>1 DEF Begin, NothingHeld
    <2>2. (e - s) % Step = 0 /\ s < e
      BY <1>1 DEF RangeIsValid
    <2>3. TypeOK'
      BY <2>1, BackfillAssumption DEF BackfillAssumption, TypeOK
    <2>4. RecoveredIsPrefix'
      BY <2>1, NothingCollected DEF RecoveredIsPrefix
    <2>5. CursorStaysInRange'
      BY <2>1, <2>2 DEF CursorStaysInRange
    <2>6. RangeInv'
      BY <1>1, <2>1, <2>2 DEF RangeInv, RangeIsValid, CandleCount
    <2>7. QED
      BY <2>3, <2>4, <2>5, <2>6 DEF IInv
  <1>2. CASE ~RangeIsValid(s, e)
    BY <1>0, <1>2 DEF Begin, IInv, TypeOK, RecoveredIsPrefix, CursorStaysInRange, RangeInv
  <1>3. QED
    BY <1>1, <1>2

(* The first n candles of a page, behind what was collected, are the next  *)
(* n candles of the range.                                                 *)
LEMMA PageKeepsPrefix ==
    ASSUME TypeOK, RecoveredIsPrefix, NEW page \in Seq(Int), NEW n \in 1 .. Len(page),
           Takes(page, n)
    PROVE  LET longer == recovered \o SubSeq(page, 1, n) IN
           /\ longer \in Seq(Int)
           /\ Len(longer) = Len(recovered) + n
           /\ \A i \in 1 .. Len(longer) : longer[i] = start + (i - 1) * Step
           /\ Expects(n + 1) = start + Len(longer) * Step
  <1> DEFINE taken == SubSeq(page, 1, n)
             longer == recovered \o taken
  <1>1. Step \in Int /\ start \in Int /\ cursor \in Int /\ recovered \in Seq(Int)
    BY StepAssumption DEF TypeOK
  <1>2. taken \in Seq(Int) /\ Len(taken) = n /\ \A i \in 1 .. n : taken[i] = page[i]
    OBVIOUS
  <1> HIDE DEF taken
  <1>3. /\ longer \in Seq(Int)
        /\ Len(longer) = Len(recovered) + n
    <2>1. longer \in Seq(Int) /\ Len(longer) = Len(recovered) + Len(taken)
      BY <1>1, <1>2, ConcatProperties
    <2>2. QED
      BY <1>2, <2>1
  <1>4. cursor = start + Len(recovered) * Step
    BY DEF RecoveredIsPrefix
  <1>5. ASSUME NEW i \in 1 .. Len(longer)
        PROVE  longer[i] = start + (i - 1) * Step
    <2>1. CASE i <= Len(recovered)
      <3>1. longer[i] = recovered[i]
        BY <1>1, <1>2, <1>3, <2>1
      <3>2. QED
        BY <1>1, <2>1, <3>1 DEF RecoveredIsPrefix
    <2>2. CASE i > Len(recovered)
      <3> DEFINE j == i - Len(recovered)
      <3>1. j \in 1 .. n /\ longer[i] = taken[j] /\ i - 1 = Len(recovered) + (j - 1)
        BY <1>1, <1>2, <1>3, <2>2
      <3> HIDE DEF j, longer
      <3>2. longer[i] = cursor + (j - 1) * Step
        BY <1>2, <3>1 DEF Takes, Expects
      <3>3. (i - 1) * Step = Len(recovered) * Step + (j - 1) * Step
        BY <1>1, <3>1, MultipleSplits, Len(recovered) \in Int, j - 1 \in Int
      <3>4. QED
        BY <1>1, <1>4, <3>1, <3>2, <3>3
    <2>3. QED
      BY <1>1, <1>3, <2>1, <2>2
  <1>6. Expects(n + 1) = start + Len(longer) * Step
    <2>1. (Len(recovered) + n) * Step = Len(recovered) * Step + n * Step
      BY <1>1, MultipleSplits, Len(recovered) \in Int, n \in Int
    <2>2. (n + 1) - 1 = n
      OBVIOUS
    <2>3. QED
      BY <1>1, <1>3, <1>4, <2>1, <2>2 DEF Expects
  <1>7. QED
    BY <1>3, <1>5, <1>6 DEF taken

(* A page moves the cursor by whole intervals, to the end at most.         *)
LEMMA PageKeepsCursorInRange ==
    ASSUME TypeOK, CursorStaysInRange, fill = "fetching",
           NEW page \in Seq(Int), NEW n \in 1 .. Len(page), Takes(page, n)
    PROVE  /\ cursor <= Expects(n + 1) /\ Expects(n + 1) <= end
           /\ (end - Expects(n + 1)) % Step = 0
  <1>1. Step \in Nat \ {0} /\ end \in Int /\ cursor \in Int /\ n \in Int /\ n >= 1
    BY StepAssumption DEF TypeOK
  <1>2. (end - cursor) % Step = 0 /\ end - cursor \in Int
    BY <1>1 DEF CursorStaysInRange
  <1>3. (n - 1) * Step < end - cursor
    <2>1. n \in 1 .. n /\ page[n] = cursor + (n - 1) * Step /\ page[n] < end
      BY <1>1 DEF Takes, Expects
    <2>2. (n - 1) * Step \in Int
      BY <1>1
    <2>3. QED
      BY <1>1, <2>1, <2>2
  <1>4. n * Step <= end - cursor
    BY <1>1, <1>2, <1>3, MultipleHoldsAnother
  <1>5. (end - cursor - n * Step) % Step = 0
    BY <1>1, <1>2, MultipleMinusMultiple
  <1>6. 0 <= n * Step /\ n * Step \in Int
    BY <1>1, MultiplesGrow, 0 * Step = 0, 0 \in Int
  <1>7. Expects(n + 1) = cursor + n * Step
    BY <1>1, (n + 1) - 1 = n DEF Expects
  <1>8. end - Expects(n + 1) = end - cursor - n * Step
    BY <1>1, <1>6, <1>7
  <1>9. QED
    BY <1>1, <1>4, <1>5, <1>6, <1>7, <1>8

(* A beginning of a valid range is no longer than the longest one.         *)
LEMMA PrefixIsBounded ==
    ASSUME TypeOK, RangeIsValid(start, end), NEW n \in Nat, start + n * Step <= end
    PROVE  n <= MaxCandles
  <1> DEFINE c == CandleCount(start, end)
  <1>1. start \in Int /\ end \in Int /\ Step \in Nat \ {0} /\ MaxCandles \in Nat
    BY StepAssumption, BackfillAssumption DEF BackfillAssumption, TypeOK
  <1>2. end - start = c * Step /\ c \in Int /\ c <= MaxCandles
    BY <1>1, QuotientIsExact, end - start \in Int DEF RangeIsValid, CandleCount
  <1> HIDE DEF c
  <1>3. n * Step <= c * Step
    <2> DEFINE x == n * Step
    <2>1. x \in Int /\ start + x <= end
      BY <1>1
    <2> HIDE DEF x
    <2>2. x <= end - start
      BY <1>1, <2>1
    <2>3. QED
      BY <1>2, <2>2 DEF x
  <1>4. n <= c
    BY <1>1, <1>2, <1>3, ShorterIsFewer
  <1>5. QED
    BY <1>1, <1>2, <1>4

(* A page that is taken, whether or not it completes the range.            *)
LEMMA PageExtendsIInv ==
    ASSUME IInv, NEW page \in Seq(Int), PageExtends(page)
    PROVE  IInv'
  <1>1. PICK n \in 1 .. Len(page) :
          /\ Takes(page, n)
          /\ cursor' = Expects(n + 1)
          /\ recovered' = recovered \o SubSeq(page, 1, n)
    BY DEF PageExtends
  <1>2. /\ fill = "fetching" /\ start' = start /\ end' = end
        /\ fill' = IF cursor' < end THEN "fetching" ELSE Verdict(recovered')
    BY DEF PageExtends
  <1>3. /\ TypeOK /\ RecoveredIsPrefix /\ CursorStaysInRange /\ RangeIsValid(start, end)
    BY <1>2 DEF IInv, RangeInv
  <1>4. /\ recovered' \in Seq(Int)
        /\ \A i \in 1 .. Len(recovered') : recovered'[i] = start + (i - 1) * Step
        /\ cursor' = start + Len(recovered') * Step
    BY <1>1, <1>3, PageKeepsPrefix
  <1>5. /\ cursor <= cursor' /\ cursor' <= end
        /\ (end - cursor') % Step = 0
    BY <1>1, <1>2, <1>3, PageKeepsCursorInRange
  <1>6. cursor' \in Int
    BY <1>1, <1>3, StepAssumption DEF TypeOK, Expects
  <1>7. TypeOK'
    <2>1. Len(recovered') <= MaxCandles
      BY <1>3, <1>4, <1>5, PrefixIsBounded
    <2>2. QED
      BY <1>2, <1>3, <1>4, <1>6, <2>1 DEF TypeOK, Verdict
  <1>8. RecoveredIsPrefix'
    BY <1>2, <1>4 DEF RecoveredIsPrefix
  <1>9. CursorStaysInRange'
    <2>1. start <= cursor /\ start \in Int /\ cursor \in Int
      BY <1>2, <1>3 DEF CursorStaysInRange, TypeOK
    <2>2. QED
      BY <1>2, <1>5, <1>6, <2>1 DEF CursorStaysInRange
  <1>10. RangeInv'
    <2>1. end \in Int /\ fill' # "idle"
      BY <1>2, <1>3 DEF TypeOK, Verdict
    <2>2. RangeIsValid(start, end)'
      BY <1>2, <1>3 DEF RangeIsValid, CandleCount
    <2>3. fill' = "fetching" => cursor' < end'
      BY <1>2 DEF Verdict
    <2>4. ASSUME fill' = "done"
          PROVE  cursor' = end' /\ Len(recovered') = CandleCount(start, end)'
      <3>1. ~(cursor' < end) /\ Len(recovered') = CandleCount(start, end)
        BY <1>2, <2>4 DEF Verdict
      <3>2. QED
        BY <1>2, <1>5, <1>6, <2>1, <3>1 DEF CandleCount
    <2>5. QED
      BY <2>1, <2>2, <2>3, <2>4 DEF RangeInv
  <1>11. QED
    BY <1>7, <1>8, <1>9, <1>10 DEF IInv

(* What fails leaves the range and the candles alone, and what returns     *)
(* gives them up.                                                          *)
LEMMA FailureIInv ==
    ASSUME IInv, fill' = "failed", UNCHANGED <<start, end, cursor, recovered>>
    PROVE  IInv'
  BY DEF IInv, TypeOK, RecoveredIsPrefix, CursorStaysInRange, RangeInv

(* The end of a call leaves nothing behind.                                *)
LEMMA ReturnIInv == ASSUME IInv, Return PROVE IInv'
  <1>1. fill' = "idle" /\ NothingHeld'
    BY DEF Return, NothingHeld
  <1>2. Init'
    BY <1>1 DEF Init
  <1>3. QED
    BY <1>1, NothingCollected, BackfillAssumption
       DEF BackfillAssumption, NothingHeld, IInv, TypeOK, RecoveredIsPrefix,
       CursorStaysInRange, RangeInv

(* Whatever the server answers.                                            *)
LEMMA FetchIInv == ASSUME IInv, Fetch PROVE IInv'
  <1>1. ASSUME NEW page \in Pages, PageExtends(page) PROVE IInv'
    BY <1>1, PageExtendsIInv, BackfillAssumption DEF BackfillAssumption
  <1>2. ASSUME NEW page \in Pages, PageRejected(page) PROVE IInv'
    BY <1>2, FailureIInv DEF PageRejected
  <1>3. CASE RequestFails
    BY <1>3, FailureIInv DEF RequestFails
  <1>4. QED
    BY <1>1, <1>2, <1>3 DEF Fetch

(* Every step of the recovery keeps the invariant.                         *)
LEMMA NextIInv == IInv /\ [Next]_vars => IInv'
  <1> SUFFICES ASSUME IInv, [Next]_vars PROVE IInv'
    OBVIOUS
  <1>1. ASSUME NEW s \in Times, NEW e \in Times, Begin(s, e) PROVE IInv'
    BY <1>1, BeginIInv, BackfillAssumption DEF BackfillAssumption
  <1>2. CASE Fetch
    BY <1>2, FetchIInv
  <1>3. CASE Return
    BY <1>3, ReturnIInv
  <1>4. CASE UNCHANGED vars
    BY <1>4 DEF vars, NothingHeld, IInv, TypeOK, RecoveredIsPrefix, CursorStaysInRange,
       RangeInv, RangeIsValid, CandleCount
  <1>5. QED
    BY <1>1, <1>2, <1>3, <1>4 DEF Next

(* Everything below follows from the invariant holding for ever.           *)
THEOREM BackfillInvariant == Spec => []IInv
  BY InitIInv, NextIInv, PTL DEF Spec

(* The variables of a recovery stay in their domains, and it never holds   *)
(* more candles than the longest range has.                                *)
THEOREM BackfillTypeCorrect == Spec => []TypeOK
  <1>1. IInv => TypeOK
    BY DEF IInv
  <1>2. QED
    BY <1>1, BackfillInvariant, PTL

(* The cursor never leaves the range nor falls between two of its candles, *)
(* whatever the server answers with.                                       *)
THEOREM CursorIsInRange == Spec => []CursorStaysInRange
  <1>1. IInv => CursorStaysInRange
    BY DEF IInv
  <1>2. QED
    BY <1>1, BackfillInvariant, PTL

(* A recovery that is done has as many candles as its range, in its order. *)
LEMMA WholeRange == IInv => DoneIsWholeRange
  <1> SUFFICES ASSUME IInv, fill = "done"
               PROVE  recovered = [i \in 1 .. CandleCount(start, end) |-> start + (i - 1) * Step]
    BY DEF DoneIsWholeRange
  <1>1. recovered \in Seq(Int) /\ Len(recovered) = CandleCount(start, end)
    BY DEF IInv, TypeOK, RangeInv
  <1>2. recovered = [i \in 1 .. Len(recovered) |-> recovered[i]]
    BY <1>1
  <1>3. \A i \in 1 .. Len(recovered) : recovered[i] = start + (i - 1) * Step
    BY DEF IInv, RecoveredIsPrefix
  <1>4. QED
    BY <1>1, <1>2, <1>3

(* backfill_klines proves continuity: what it returns is the whole range,  *)
(* whatever the server answers with.                                       *)
THEOREM RecoveryIsWholeRange == Spec => []DoneIsWholeRange
  BY WholeRange, BackfillInvariant, PTL

(* The candles still missing are at least one.                             *)
LEMMA ValidRequests == IInv => RequestsAreValid
  <1> SUFFICES ASSUME IInv, fill = "fetching" PROVE RequestIsValid(Request)
    BY DEF RequestsAreValid
  <1> DEFINE left == end - cursor
  <1>1. /\ cursor \in Int /\ end \in Int /\ Step \in Nat \ {0}
        /\ PageLimit \in Nat \ {0} /\ left \in Int
        /\ left > 0 /\ left % Step = 0
    BY StepAssumption, BackfillAssumption
       DEF BackfillAssumption, IInv, TypeOK, CursorStaysInRange, RangeInv
  <1> HIDE DEF left
  <1>2. left = (left \div Step) * Step /\ left \div Step \in Int
    BY <1>1, QuotientIsExact
  <1>3. 0 * Step < (left \div Step) * Step
    BY <1>1, <1>2
  <1>4. 0 < left \div Step
    BY <1>1, <1>2, <1>3, LongerIsMore, 0 \in Int
  <1>5. Remaining \in Int /\ Remaining > 0
    BY <1>2, <1>4 DEF Remaining, CandleCount, left
  <1>6. cursor <= end - 1
    BY <1>1 DEF left
  <1>7. QED
    BY <1>1, <1>5, <1>6 DEF RequestIsValid, Request

(* No request of the loop is refused before it is sent: its limit counts   *)
(* the candles still missing, of which there is at least one.              *)
THEOREM RequestsPassValidation == Spec => []RequestsAreValid
  BY ValidRequests, BackfillInvariant, PTL
-----------------------------------------------------------------------------
(* While the loop runs, what is left is a whole number of candles, and     *)
(* with what was collected they are the range.                             *)
LEMMA CollectedAndLeft ==
    ASSUME IInv, fill = "fetching"
    PROVE  /\ Remaining \in Nat \ {0} /\ end = cursor + Remaining * Step
           /\ CandleCount(start, end) = Len(recovered) + Remaining
  <1> DEFINE left == end - cursor
  <1>0. /\ cursor \in Int /\ end \in Int /\ start \in Int /\ Step \in Nat \ {0}
        /\ left \in Int /\ left > 0 /\ left % Step = 0
    BY StepAssumption DEF IInv, TypeOK, CursorStaysInRange, RangeInv
  <1>1. /\ cursor \in Int /\ end \in Int /\ start \in Int /\ Step \in Nat \ {0}
        /\ left \in Int /\ left > 0 /\ left % Step = 0
        /\ Len(recovered) \in Nat /\ cursor = start + Len(recovered) * Step
    <2>1. recovered \in Seq(Int)
      BY DEF IInv, TypeOK
    <2>2. cursor = start + Len(recovered) * Step
      BY DEF IInv, RecoveredIsPrefix
    <2> HIDE DEF left
    <2>3. QED
      BY <1>0, <2>1, <2>2
  <1>2. Remaining = left \div Step
    BY DEF Remaining, CandleCount
  <1> HIDE DEF left
  <1>3. left = Remaining * Step /\ Remaining \in Int
    BY <1>1, <1>2, QuotientIsExact
  <1>4. Remaining > 0
    <2>1. 0 * Step < Remaining * Step
      BY <1>1, <1>3
    <2>2. QED
      BY <1>1, <1>3, <2>1, LongerIsMore, 0 \in Int
  <1>5. end - start = (Len(recovered) + Remaining) * Step
    <2>1. (Len(recovered) + Remaining) * Step = Len(recovered) * Step + Remaining * Step
      BY <1>1, <1>3, MultipleSplits
    <2>2. QED
      BY <1>1, <1>3, <2>1 DEF left
  <1>6. CandleCount(start, end) = Len(recovered) + Remaining
    BY <1>1, <1>3, <1>5, MultipleDivides, Len(recovered) + Remaining \in Int DEF CandleCount
  <1>7. QED
    BY <1>1, <1>3, <1>4, <1>6 DEF left

(* The candles of a truthful page are those the loop expects.              *)
LEMMA TruthIsTaken == IInv => HonestPageIsTaken
  <1> SUFFICES ASSUME IInv, fill = "fetching", NEW page \in Pages, Honest(page)
               PROVE  /\ Takes(page, Len(page)) /\ ~Mismatch(page, Len(page))
                      /\ Expects(Len(page) + 1) >= end =>
                             Verdict(recovered \o page) = "done"
    BY DEF HonestPageIsTaken
  <1>1. /\ page \in Seq(Int) /\ recovered \in Seq(Int)
        /\ cursor \in Int /\ end \in Int /\ Step \in Nat \ {0}
    BY StepAssumption, BackfillAssumption DEF BackfillAssumption, IInv, TypeOK
  <1>2. PICK n \in Nat : n = Len(page)
    BY <1>1
  <1>3. PICK r \in Nat \ {0} : r = Remaining
    BY CollectedAndLeft
  <1>4. end = cursor + r * Step /\ CandleCount(start, end) = Len(recovered) + r
    BY <1>3, CollectedAndLeft
  <1>5. n <= r
    BY <1>2, <1>3, BackfillAssumption DEF Honest, Request, BackfillAssumption
  <1>6. ASSUME NEW i \in 1 .. n PROVE page[i] = Expects(i) /\ page[i] < end
    <2>1. page[i] = cursor + (i - 1) * Step
      BY <1>2, <1>6 DEF Honest, Expects
    <2>2. (i - 1) * Step <= (r - 1) * Step
      BY <1>1, <1>5, MultiplesGrow, i - 1 \in Int, r - 1 \in Int, i - 1 <= r - 1
    <2>3. (r - 1) * Step = r * Step - 1 * Step
      BY <1>1, MultipleSplits, 1 \in Int
    <2>4. cursor + (i - 1) * Step < end
      <3> DEFINE a == (i - 1) * Step
                 b == (r - 1) * Step
                 c == r * Step
      <3>1. a \in Int /\ b \in Int /\ c \in Int /\ 1 * Step = Step
        BY <1>1
      <3>2. a <= b /\ b = c - Step /\ end = cursor + c
        BY <1>4, <2>2, <2>3, <3>1
      <3> HIDE DEF a, b, c
      <3>3. cursor + a < end
        BY <1>1, <3>1, <3>2
      <3>4. QED
        BY <3>3 DEF a
    <2>5. QED
      BY <2>1, <2>4 DEF Expects
  <1>7. Takes(page, n) /\ ~Mismatch(page, n)
    BY <1>2, <1>6 DEF Takes, Mismatch
  <1>8. ASSUME Expects(n + 1) >= end PROVE Verdict(recovered \o page) = "done"
    <2>1. r * Step <= n * Step
      <3> DEFINE c == r * Step
                 d == n * Step
      <3>1. c \in Int /\ d \in Int /\ (n + 1) - 1 = n
        BY <1>1
      <3>2. cursor + d >= cursor + c
        BY <1>4, <1>8, <3>1 DEF Expects
      <3> HIDE DEF c, d
      <3>3. c <= d
        BY <1>1, <3>1, <3>2
      <3>4. QED
        BY <3>3 DEF c, d
    <2>2. n = r
      <3>1. ~(n < r)
        <4> SUFFICES ASSUME n < r PROVE FALSE
          OBVIOUS
        <4>1. (n + 1) * Step <= r * Step
          BY <1>1, MultiplesGrow, n + 1 \in Int, n + 1 <= r
        <4>2. (n + 1) * Step = n * Step + 1 * Step
          BY <1>1, MultipleSplits, 1 \in Int
        <4> DEFINE c == r * Step
                   d == n * Step
        <4>3. c \in Int /\ d \in Int /\ d + Step <= c /\ c <= d
          BY <1>1, <2>1, <4>1, <4>2
        <4> HIDE DEF c, d
        <4>4. QED
          BY <1>1, <4>3
      <3>2. QED
        BY <1>5, <3>1
    <2>3. Len(recovered \o page) = Len(recovered) + n
      BY <1>1, <1>2
    <2>4. QED
      BY <1>4, <2>2, <2>3 DEF Verdict
  <1>9. QED
    BY <1>2, <1>7, <1>8

(* No truthful page is rejected: the check of each candle, the check for   *)
(* progress and the final count accept every beginning of the page that    *)
(* was asked for, and the candles that complete the range complete the     *)
(* call.                                                                   *)
THEOREM HonestPagesAreTaken == Spec => []HonestPageIsTaken
  BY TruthIsTaken, BackfillInvariant, PTL
-----------------------------------------------------------------------------
(* A request that does not end the call takes at least one candle off      *)
(* those that remain, whatever the server answers: the safety half of      *)
(* CallReturns, and the bound on the number of requests of one call.       *)
THEOREM PagesMakeProgress ==
    Spec => [][fill = "fetching" /\ fill' = "fetching" => Remaining' \in 1 .. Remaining - 1]_vars
  <1>1. ASSUME IInv, Next, fill = "fetching", fill' = "fetching"
        PROVE  Remaining' \in 1 .. Remaining - 1
    <2>1. PICK page \in Pages : PageExtends(page)
      BY <1>1 DEF Next, Begin, Fetch, PageRejected, RequestFails, Return
    <2>2. page \in Seq(Int) /\ Step \in Nat \ {0}
      BY StepAssumption, BackfillAssumption DEF BackfillAssumption
    <2>3. PICK n \in Nat \ {0} : cursor' = Expects(n + 1)
      BY <2>1, <2>2 DEF PageExtends
    <2>4. end' = end /\ cursor' < end'
      BY <1>1, <2>1 DEF PageExtends, Verdict
    <2>5. PICK r \in Nat \ {0} : r = Remaining /\ end = cursor + r * Step
      BY <1>1, CollectedAndLeft
    <2>6. cursor \in Int /\ cursor' = cursor + n * Step
      BY <1>1, <2>3, (n + 1) - 1 = n DEF IInv, TypeOK, Expects
    <2>7. end' - cursor' = (r - n) * Step
      <3>1. (r - n) * Step = r * Step - n * Step
        BY <2>2, MultipleSplits
      <3> DEFINE a == r * Step
                 b == n * Step
      <3>2. a \in Int /\ b \in Int /\ end = cursor + a /\ cursor' = cursor + b
        BY <2>2, <2>5, <2>6
      <3> HIDE DEF a, b
      <3>3. end' - cursor' = a - b
        BY <2>4, <2>6, <3>2
      <3>4. QED
        BY <3>1, <3>3 DEF a, b
    <2>8. Remaining' = r - n
      BY <2>2, <2>7, MultipleDivides, r - n \in Int DEF Remaining, CandleCount
    <2>9. 0 < r - n
      <3>1. end' \in Int /\ cursor' \in Int
        <4>1. end \in Int /\ n * Step \in Int
          BY <1>1, <2>2 DEF IInv, TypeOK
        <4>2. QED
          BY <2>4, <2>6, <4>1
      <3> DEFINE left == (r - n) * Step
      <3>2. left = end' - cursor' /\ 0 * Step = 0
        BY <2>2, <2>7
      <3> HIDE DEF left
      <3>3. 0 * Step < left
        BY <2>4, <3>1, <3>2
      <3>4. QED
        BY <2>2, <3>3, LongerIsMore, 0 \in Int, r - n \in Int DEF left
    <2>10. QED
      BY <2>5, <2>8, <2>9
  <1>2. IInv /\ [Next]_vars =>
            [fill = "fetching" /\ fill' = "fetching" => Remaining' \in 1 .. Remaining - 1]_vars
    BY <1>1
  <1>3. QED
    BY <1>2, BackfillInvariant, PTL DEF Spec
=============================================================================
