------------------------------ MODULE OrderProofs ------------------------------
(***************************************************************************)
(* Proofs about what an order is decided on.  The risk gate, for every     *)
(* account, price, order and valid configuration: what an approval         *)
(* promises and what cannot buy one.  The floors of the symbol filters,    *)
(* for every filter and candidate: the best value the exchange takes.  And *)
(* the public client, for every payload and timeout: what it returns is    *)
(* whole, coherent in time and faithful to the payload.                    *)
(***************************************************************************)
EXTENDS RiskGate, PublicClient, SequenceTheorems, FiniteSetTheorems, TLAPS

-----------------------------------------------------------------------------
(* More steps of the grid are longer.                                      *)
LEMMA MultiplesGrow ==
    ASSUME NEW a \in Int, NEW b \in Int, NEW s \in Nat \ {0}, a <= b
    PROVE  a * s <= b * s
  OBVIOUS

(* A longer multiple of the step has more steps.                          *)
LEMMA LongerIsMore ==
    ASSUME NEW a \in Int, NEW b \in Int, NEW s \in Nat \ {0}, a * s < b * s
    PROVE  a < b
  OBVIOUS

(* A multiple is divisible, and its quotient the number of steps.          *)
LEMMA MultipleDivides ==
    ASSUME NEW n \in Int, NEW s \in Nat \ {0}
    PROVE  (n * s) % s = 0 /\ (n * s) \div s = n
  OBVIOUS

(* What is divisible is the quotient times the step.                       *)
LEMMA QuotientIsExact ==
    ASSUME NEW x \in Int, NEW s \in Nat \ {0}, x % s = 0
    PROVE  x = (x \div s) * s /\ x \div s \in Int
  OBVIOUS

(* One step more or less     is one count more or less.                    *)
LEMMA MultipleSplits ==
    ASSUME NEW a \in Int, NEW b \in Int, NEW s \in Int
    PROVE  (a + b) * s = a * s + b * s /\ (a - b) * s = a * s - b * s
  OBVIOUS

-----------------------------------------------------------------------------
(* What the rounded quotient is: twice the dividend lies within one        *)
(* divisor of twice the quotient, and on the edge the quotient is even.    *)
IsNearest(a, b, q) ==
    /\ (2 * q - 1) * b <= 2 * (a * Unit) /\ 2 * (a * Unit) <= (2 * q + 1) * b
    /\ 2 * (a * Unit) \in {(2 * q - 1) * b, (2 * q + 1) * b} => q % 2 = 0

(* Quotient rounds to the nearest unit.                                    *)
LEMMA QuotientIsNearest ==
    ASSUME NEW a \in Nat, NEW b \in Nat \ {0}
    PROVE  Quotient(a, b) \in Nat /\ IsNearest(a, b, Quotient(a, b))
  <1> DEFINE x == a * Unit
             q == x \div b
             r == x % b
  <1>1. x \in Nat
    BY RiskAssumption DEF RiskAssumption
  <1> HIDE DEF x
  <1>2. x = q * b + r /\ q \in Nat /\ r \in 0 .. b - 1
    BY <1>1
  <1> HIDE DEF q, r
  <1>3. /\ (2 * q - 1) * b = 2 * (q * b) - b /\ (2 * q + 1) * b = 2 * (q * b) + b
        /\ (2 * (q + 1) - 1) * b = 2 * (q * b) + b
        /\ (2 * (q + 1) + 1) * b = 2 * (q * b) + b + b + b
    BY <1>2
  <1> DEFINE p == q * b
  <1>4. p \in Nat /\ x = p + r
    BY <1>2
  <1>5. CASE 2 * r > b \/ (2 * r = b /\ q % 2 = 1)
    <2>1. Quotient(a, b) = q + 1
      BY <1>5 DEF Quotient, q, r, x
    <2>2. 2 * r = b => (q + 1) % 2 = 0
      BY <1>2, <1>5
    <2> HIDE DEF p
    <2>3. /\ 2 * p + b <= 2 * x /\ 2 * x < 2 * p + b + b + b
          /\ 2 * x = 2 * p + b => 2 * r = b
      BY <1>2, <1>4, <1>5
    <2>4. IsNearest(a, b, q + 1)
      BY <1>2, <1>3, <1>4, <2>2, <2>3 DEF IsNearest, x, p
    <2>5. QED
      BY <1>2, <2>1, <2>4
  <1>6. CASE ~(2 * r > b \/ (2 * r = b /\ q % 2 = 1))
    <2>1. Quotient(a, b) = q
      BY <1>6 DEF Quotient, q, r, x
    <2>2. 2 * r = b => q % 2 = 0
      BY <1>2, <1>6
    <2> HIDE DEF p
    <2>3. /\ 2 * p - b < 2 * x /\ 2 * x <= 2 * p + b
          /\ 2 * x = 2 * p + b => 2 * r = b
      BY <1>2, <1>4, <1>6
    <2>4. IsNearest(a, b, q)
      BY <1>2, <1>3, <1>4, <2>2, <2>3 DEF IsNearest, x, p
    <2>5. QED
      BY <1>2, <2>1, <2>4
  <1>7. QED
    BY <1>5, <1>6

(* A larger dividend over a smaller divisor has no smaller quotient.       *)
LEMMA QuotientIsMonotone ==
    ASSUME NEW a \in Nat, NEW b \in Nat \ {0}, NEW c \in Nat, NEW d \in Nat \ {0},
           a <= c, d <= b
    PROVE  Quotient(a, b) <= Quotient(c, d)
  <1> DEFINE p == Quotient(a, b)
             q == Quotient(c, d)
  <1>1. p \in Nat /\ q \in Nat /\ IsNearest(a, b, p) /\ IsNearest(c, d, q)
    BY QuotientIsNearest
  <1> HIDE DEF p, q
  <1>2. SUFFICES ASSUME q < p PROVE FALSE
    BY <1>1 DEF p, q
  <1>3. 2 * (a * Unit) <= 2 * (c * Unit)
    BY MultiplesGrow, RiskAssumption DEF RiskAssumption
  <1>4. (2 * p - 1) * d <= (2 * p - 1) * b
    <2>1. 2 * p - 1 \in Nat \ {0}
      BY <1>1, <1>2
    <2>2. d * (2 * p - 1) <= b * (2 * p - 1)
      BY <2>1, MultiplesGrow
    <2>3. QED
      BY <2>1, <2>2
  <1>5. (2 * q + 1) * d <= (2 * p - 1) * d
    BY <1>1, <1>2, MultiplesGrow, 2 * q + 1 \in Int, 2 * p - 1 \in Int, 2 * q + 1 <= 2 * p - 1
  <1>6. /\ 2 * (a * Unit) = (2 * p - 1) * b /\ 2 * (c * Unit) = (2 * q + 1) * d
        /\ (2 * q + 1) * d = (2 * p - 1) * d
    <2>1. /\ 2 * (a * Unit) \in Int /\ 2 * (c * Unit) \in Int /\ (2 * p - 1) * b \in Int
          /\ (2 * q + 1) * d \in Int /\ (2 * p - 1) * d \in Int
      BY <1>1, RiskAssumption DEF RiskAssumption
    <2>2. (2 * p - 1) * b <= 2 * (a * Unit) /\ 2 * (c * Unit) <= (2 * q + 1) * d
      BY <1>1 DEF IsNearest
    <2>3. QED
      BY <1>3, <1>4, <1>5, <2>1, <2>2
  <1>7. p % 2 = 0 /\ q % 2 = 0
    BY <1>1, <1>6 DEF IsNearest
  <1>8. p = q + 1
    <2>1. ~(2 * q + 1 < 2 * p - 1)
      <3>1. SUFFICES ASSUME 2 * q + 2 <= 2 * p - 1 PROVE FALSE
        BY <1>1
      <3>2. (2 * q + 2) * d <= (2 * p - 1) * d
        BY <1>1, <3>1, MultiplesGrow, 2 * q + 2 \in Int, 2 * p - 1 \in Int
      <3>3. (2 * q + 2) * d = (2 * q + 1) * d + d
        BY <1>1
      <3>4. (2 * q + 1) * d \in Int
        BY <1>1
      <3>5. QED
        BY <1>6, <3>2, <3>3, <3>4
    <2>2. QED
      BY <1>1, <1>2, <2>1
  <1>9. QED
    BY <1>1, <1>7, <1>8

-----------------------------------------------------------------------------
(* The constants as the steps below need them.                             *)
LEMMA Domains ==
    ASSUME GateTypeOK
    PROVE  /\ limits.leverage \in Int /\ limits.loss \in Int /\ limits.drawdown \in Int
           /\ context.equity \in Int /\ context.gross \in Nat /\ context.pnl \in Int
           /\ context.drawdown \in Nat /\ context.price \in Nat \ {0}
           /\ context.fresh \in BOOLEAN /\ context.state \in RiskStates
           /\ \A intent \in Intents : intent.quantity \in Nat \ {0}
  BY RiskAssumption DEF GateTypeOK, Contexts, Intents, RiskAssumption

(* A gate has valid limits, and whatever it is asked is in the domains.    *)
THEOREM RiskTypeCorrect == GateSpec => []GateTypeOK
  <1>1. GateInit => GateTypeOK
    BY DEF GateInit, GateTypeOK
  <1>2. GateTypeOK /\ [GateNext]_gateVars => GateTypeOK'
    <2> SUFFICES ASSUME GateTypeOK, [GateNext]_gateVars PROVE GateTypeOK'
      OBVIOUS
    <2>1. CASE Evaluate
      <3>1. PICK intent \in Intents : decision' = Verdict(limits, context, intent)
        BY <2>1 DEF Evaluate
      <3>2. decision' \in RiskCodes \cup {"Approved", "None"}
        BY <3>1 DEF Verdict, FirstBreach, RiskCodes
      <3>3. QED
        BY <2>1, <3>2 DEF Evaluate, GateTypeOK
    <2>2. CASE Refresh
      <3>1. context' \in Contexts
        BY <2>2 DEF Refresh, Become, Contexts, GateTypeOK
      <3>2. QED
        BY <2>2, <3>1 DEF Refresh, GateTypeOK
    <2>3. CASE UNCHANGED gateVars
      BY <2>3 DEF gateVars, GateTypeOK
    <2>4. QED
      BY <2>1, <2>2, <2>3 DEF GateNext
  <1>3. QED
    BY <1>1, <1>2, PTL DEF GateSpec

(* What an approved opening order has passed.                              *)
LEMMA ApprovedOpening ==
    ASSUME NEW l, NEW c, NEW intent
    PROVE  intent.effect = "Open" =>
             (Approves(l, c, intent) <=>
                 /\ IsWellFormed(intent) /\ ~(c.equity <= 0)
                 /\ c.state \notin {"ReduceOnly", "Halted", "EmergencyExit"} /\ c.fresh
                 /\ ~LossReached(l, c) /\ ~(c.drawdown >= l.drawdown)
                 /\ ~(ProjectedLeverage(c, intent) > l.leverage))
  BY DEF Approves, Verdict, FirstBreach

(* An approved opening order leaves the account within its leverage, up to *)
(* half a unit of rounding, and touches no other limit.                    *)
THEOREM OpeningStaysWithinLimits == GateSpec => []OpeningIsWithinLimits
  <1>1. GateTypeOK => OpeningIsWithinLimits
    <2> SUFFICES ASSUME GateTypeOK, NEW intent \in Intents, intent.effect = "Open",
                        Approves(limits, context, intent)
                 PROVE  /\ context.state \in {"Normal", "Degraded"} /\ context.fresh
                        /\ context.equity > 0
                        /\ context.pnl + limits.loss > 0
                        /\ context.drawdown < limits.drawdown
                        /\ 2 * Unit * (context.gross + intent.quantity * context.price)
                               <= (2 * limits.leverage + 1) * context.equity
      BY DEF OpeningIsWithinLimits
    <2> DEFINE a == context.gross + intent.quantity * context.price
               b == context.equity
               q == Quotient(a, b)
    <2>1. /\ context.state \notin {"ReduceOnly", "Halted", "EmergencyExit"} /\ context.fresh
          /\ ~(b <= 0) /\ ~LossReached(limits, context)
          /\ ~(context.drawdown >= limits.drawdown) /\ ~(q > limits.leverage)
      BY ApprovedOpening DEF ProjectedLeverage
    <2>2. a \in Nat /\ b \in Nat \ {0}
      BY <2>1, Domains
    <2>3. /\ context.state \in {"Normal", "Degraded"}
          /\ context.pnl + limits.loss > 0 /\ context.drawdown < limits.drawdown
      BY <2>1, Domains DEF LossReached, RiskStates
    <2> HIDE DEF a, b
    <2>4. q \in Nat /\ 2 * (a * Unit) <= (2 * q + 1) * b
      BY <2>2, QuotientIsNearest DEF IsNearest
    <2> HIDE DEF q
    <2>5. q <= limits.leverage /\ limits.leverage \in Int
      BY <2>1, <2>4, Domains
    <2>6. (2 * q + 1) * b <= (2 * limits.leverage + 1) * b
      BY <2>2, <2>4, <2>5, MultiplesGrow, 2 * q + 1 \in Int, 2 * limits.leverage + 1 \in Int,
         2 * q + 1 <= 2 * limits.leverage + 1
    <2>7. 2 * Unit * a = 2 * (a * Unit)
      BY <2>2, RiskAssumption DEF RiskAssumption
    <2>8. 2 * Unit * a <= (2 * limits.leverage + 1) * b
      <3>1. /\ 2 * (a * Unit) \in Int /\ (2 * q + 1) * b \in Int
            /\ (2 * limits.leverage + 1) * b \in Int
        BY <2>2, <2>4, <2>5, RiskAssumption DEF RiskAssumption
      <3>2. QED
        BY <2>4, <2>6, <2>7, <3>1
    <2>9. QED
      BY <2>1, <2>2, <2>3, <2>8 DEF a, b
  <1>2. QED
    BY <1>1, RiskTypeCorrect, PTL

(* Splitting an order buys nothing.                                        *)
THEOREM SplittingBuysNothing == GateSpec => []SplittingNeverHelps
  <1>1. GateTypeOK => SplittingNeverHelps
    <2> SUFFICES ASSUME GateTypeOK, NEW first \in Intents, NEW rest \in Intents,
                        first.effect = "Open", rest.effect = "Open",
                        Approves(limits, [context EXCEPT !.gross =
                                              @ + first.quantity * context.price], rest)
                 PROVE  Approves(limits, context,
                                 [rest EXCEPT !.quantity = @ + first.quantity])
      BY DEF SplittingNeverHelps
    <2> DEFINE later == [context EXCEPT !.gross = @ + first.quantity * context.price]
               whole == [rest EXCEPT !.quantity = @ + first.quantity]
    <2>1. /\ later.gross = context.gross + first.quantity * context.price
          /\ later.state = context.state /\ later.equity = context.equity
          /\ later.pnl = context.pnl /\ later.drawdown = context.drawdown
          /\ later.price = context.price /\ later.fresh = context.fresh
      BY DEF GateTypeOK, Contexts
    <2>2. /\ whole.quantity = rest.quantity + first.quantity
          /\ whole.effect = "Open" /\ whole.style = rest.style
          /\ whole.priced = rest.priced /\ whole.reasoned = rest.reasoned
      BY DEF Intents
    <2>3. Approves(limits, later, rest)
      OBVIOUS
    <2> HIDE DEF later, whole
    <2>4. ProjectedLeverage(later, rest) = ProjectedLeverage(context, whole)
      <3>1. /\ first.quantity \in Nat /\ rest.quantity \in Nat
            /\ context.gross \in Nat /\ context.price \in Nat
        BY Domains
      <3>2. (rest.quantity + first.quantity) * context.price
                = rest.quantity * context.price + first.quantity * context.price
        BY <3>1, MultipleSplits
      <3>3. later.gross + rest.quantity * later.price
                = context.gross + whole.quantity * context.price
        BY <2>1, <2>2, <3>1, <3>2
      <3>4. QED
        BY <2>1, <3>3 DEF ProjectedLeverage
    <2>5. IsWellFormed(whole) <=> IsWellFormed(rest)
      BY <2>2 DEF IsWellFormed
    <2>6. LossReached(limits, later) <=> LossReached(limits, context)
      BY <2>1 DEF LossReached
    <2>7. Approves(limits, context, whole)
      BY <2>1, <2>2, <2>3, <2>4, <2>5, <2>6, ApprovedOpening
    <2>8. QED
      BY <2>7 DEF whole
  <1>2. QED
    BY <1>1, RiskTypeCorrect, PTL

(* An order that is approved in the worse of two contexts is approved in   *)
(* the better one.                                                         *)
LEMMA WorseIsStricter ==
    ASSUME GateTypeOK, GateTypeOK', NEW intent \in Intents, Worse(context, context'),
           Approves(limits, context', intent)
    PROVE  Approves(limits, context, intent)
  <1> DEFINE c == context
             d == context'
  <1>1. /\ c.equity \in Int /\ c.gross \in Nat /\ c.price \in Nat /\ c.pnl \in Int
        /\ c.drawdown \in Nat /\ c.state \in RiskStates
        /\ limits.loss \in Int /\ limits.drawdown \in Int /\ limits.leverage \in Int
        /\ intent.quantity \in Nat
    BY Domains
  <1>2. /\ d.equity \in Int /\ d.gross \in Nat /\ d.price \in Nat /\ d.pnl \in Int
        /\ d.drawdown \in Nat /\ d.state \in RiskStates
    BY RiskAssumption DEF GateTypeOK, Contexts, RiskAssumption
  <1>3. /\ Severity(d.state) >= Severity(c.state) /\ d.equity <= c.equity
        /\ d.gross >= c.gross /\ d.pnl <= c.pnl /\ d.drawdown >= c.drawdown
        /\ d.price >= c.price /\ (d.fresh => c.fresh)
    BY DEF Worse
  <1> HIDE DEF c, d
  <1>4. Approves(limits, d, intent)
    BY DEF d
  <1>5. CASE intent.effect = "Open"
    <2>1. /\ IsWellFormed(intent) /\ ~(d.equity <= 0)
          /\ d.state \notin {"ReduceOnly", "Halted", "EmergencyExit"} /\ d.fresh
          /\ ~LossReached(limits, d) /\ ~(d.drawdown >= limits.drawdown)
          /\ ~(ProjectedLeverage(d, intent) > limits.leverage)
      BY <1>4, <1>5, ApprovedOpening
    <2>2. /\ ~(c.equity <= 0) /\ ~LossReached(limits, c) /\ ~(c.drawdown >= limits.drawdown)
      BY <1>1, <1>2, <1>3, <2>1 DEF LossReached
    <2>3. c.state \notin {"ReduceOnly", "Halted", "EmergencyExit"} /\ c.fresh
      BY <1>1, <1>2, <1>3, <2>1 DEF Severity, RiskStates
    <2>4. ~(ProjectedLeverage(c, intent) > limits.leverage)
      <3> DEFINE x == c.gross + intent.quantity * c.price
                 y == d.gross + intent.quantity * d.price
      <3>1. intent.quantity * c.price <= intent.quantity * d.price
        <4>1. c.price * intent.quantity <= d.price * intent.quantity
          BY <1>1, <1>2, <1>3, Domains, MultiplesGrow
        <4>2. QED
          BY <1>1, <1>2, <4>1
      <3>2. x \in Nat /\ y \in Nat /\ x <= y
        BY <1>1, <1>2, <1>3, <3>1
      <3>3. c.equity \in Nat \ {0} /\ d.equity \in Nat \ {0}
        BY <1>1, <1>2, <2>1, <2>2
      <3> HIDE DEF x, y
      <3>4. Quotient(x, c.equity) <= Quotient(y, d.equity)
        BY <1>3, <3>2, <3>3, QuotientIsMonotone
      <3>5. Quotient(x, c.equity) \in Nat /\ Quotient(y, d.equity) \in Nat
        BY <3>2, <3>3, QuotientIsNearest
      <3>6. QED
        BY <1>1, <2>1, <3>4, <3>5 DEF ProjectedLeverage, x, y
    <2>5. Approves(limits, c, intent)
      BY <1>5, <2>1, <2>2, <2>3, <2>4, ApprovedOpening
    <2>6. QED
      BY <2>5 DEF c
  <1>6. CASE intent.effect # "Open"
    <2>1. IsWellFormed(intent) /\ ~(d.equity <= 0)
      BY <1>4 DEF Approves, Verdict
    <2>2. ~(c.equity <= 0)
      BY <1>1, <1>2, <1>3, <2>1
    <2>3. QED
      BY <1>6, <2>1, <2>2 DEF Approves, Verdict, c
  <1>7. QED
    BY <1>5, <1>6

(* However a context gets worse, a refused order stays refused.            *)
THEOREM WorseBuysNothing == GateSpec => WorseNeverApproves
  <1>1. GateTypeOK /\ GateTypeOK' /\ [GateNext]_gateVars =>
            [\A intent \in Intents :
                 Worse(context, context') /\ ~Approves(limits, context, intent) =>
                     ~Approves(limits, context', intent)]_gateVars
    BY WorseIsStricter
  <1>2. QED
    BY <1>1, RiskTypeCorrect, PTL DEF GateSpec, WorseNeverApproves


(* No grid point lies behind the floor, before the candidate.              *)
LEMMA NothingBetween ==
    ASSUME NEW d \in Int, NEW s \in Nat \ {0}, NEW y \in Int,
           d - (d % s) < y, y <= d
    PROVE  y % s # 0
  <1> DEFINE k == d \div s
  <1>1. d = k * s + (d % s) /\ d % s \in 0 .. s - 1 /\ k \in Int
    OBVIOUS
  <1> HIDE DEF k
  <1>2. SUFFICES ASSUME y % s = 0 PROVE FALSE
    OBVIOUS
  <1> DEFINE q == y \div s
  <1>3. y = q * s /\ q \in Int
    BY <1>2, QuotientIsExact
  <1> HIDE DEF q
  <1>4. k * s < q * s
    BY <1>1, <1>3
  <1>5. k < q
    BY <1>1, <1>3, <1>4, LongerIsMore
  <1>6. (k + 1) * s <= q * s
    BY <1>1, <1>3, <1>5, MultiplesGrow, k + 1 \in Int, k + 1 <= q
  <1>7. (k + 1) * s = k * s + s
    BY <1>1, MultipleSplits, 1 * s = s
  <1>8. QED
    BY <1>1, <1>3, <1>6, <1>7

(* What is left after taking off the remainder is whole and not negative.  *)
LEMMA RemainderOff ==
    ASSUME NEW d \in Nat, NEW s \in Nat \ {0}
    PROVE  /\ d % s \in 0 .. s - 1 /\ d % s <= d
           /\ (d - (d % s)) % s = 0
  <1> DEFINE k == d \div s
  <1>1. d = k * s + (d % s) /\ d % s \in 0 .. s - 1 /\ k \in Nat
    OBVIOUS
  <1> HIDE DEF k
  <1>2. k \in Int /\ (k * s) % s = 0
    <2>1. k \in Int
      BY <1>1
    <2>2. QED
      BY <2>1, MultipleDivides
  <1>3. k * s >= 0
    BY <1>1
  <1>4. d - (d % s) = k * s
    BY <1>1
  <1>5. QED
    BY <1>1, <1>2, <1>3, <1>4

(* Floored is the last grid point that is not above the candidate.         *)
LEMMA FlooredIsBest ==
    ASSUME NEW c \in Int, NEW a \in Int, NEW s \in Int, a <= c
    PROVE  Floored(c, a, s) \in Int /\ IsBest(Floored(c, a, s), c, a, s)
  <1>1. CASE s <= 0
    BY <1>1 DEF Floored, IsBest, OnGrid
  <1>2. CASE s > 0
    <2> DEFINE d == c - a
               x == c - (d % s)
    <2>1. d \in Nat /\ s \in Nat \ {0} /\ Floored(c, a, s) = x
      BY <1>2 DEF Floored
    <2>2. d % s \in 0 .. s - 1 /\ d % s <= d /\ (d - (d % s)) % s = 0
      BY <2>1, RemainderOff
    <2>3. x \in Int /\ x - a = d - (d % s) /\ x >= a /\ x <= c
      BY <2>1, <2>2
    <2>4. OnGrid(x, a, s)
      BY <2>2, <2>3 DEF OnGrid
    <2>5. ASSUME NEW y \in x + 1 .. c PROVE ~OnGrid(y, a, s)
      <3>1. y - a \in Int /\ d - (d % s) < y - a /\ y - a <= d
        BY <2>3, <2>5
      <3>2. (y - a) % s # 0
        BY <2>1, <3>1, NothingBetween
      <3>3. QED
        BY <1>2, <3>2 DEF OnGrid
    <2>6. QED
      BY <2>1, <2>3, <2>4, <2>5 DEF IsBest
  <1>3. QED
    BY <1>1, <1>2

(* There is only one.                                                      *)
LEMMA BestIsUnique ==
    ASSUME NEW c \in Int, NEW a \in Int, NEW s \in Int, NEW x \in Int, NEW y \in Int,
           IsBest(x, c, a, s), IsBest(y, c, a, s)
    PROVE  x = y
  <1>1. ~(x < y)
    BY y \in x + 1 .. c \/ ~(x < y) DEF IsBest
  <1>2. ~(y < x)
    BY x \in y + 1 .. c \/ ~(y < x) DEF IsBest
  <1>3. QED
    BY <1>1, <1>2

(* The floor of a price is the last point of its grid that is not above    *)
(* the candidate and within the bounds, and a positive candidate is        *)
(* refused only if there is none: PriceFilter::floor.                      *)
THEOREM PriceFloorIsExact ==
    ASSUME NEW filter \in Filters, NEW candidate \in Int
    PROVE  IsPriceFloor(filter, candidate, PriceFloor(filter, candidate))
  <1> DEFINE a == Anchor(filter)
             price == Floored(candidate, a, filter.step)
  <1>1. /\ filter.min \in Int /\ filter.max \in Int /\ filter.step \in Int
        /\ a \in Int /\ 0 <= a /\ filter.min <= a
    BY DEF Filters, Anchor, Enabled
  <1>2. CASE TooLow(filter, candidate)
    <2>1. PriceFloor(filter, candidate) = Refused
      BY <1>2 DEF PriceFloor
    <2>2. ASSUME candidate > 0, NEW x \in 0 .. candidate,
                 IsBest(x, candidate, a, filter.step)
          PROVE  FALSE
      BY <1>1, <1>2, <2>2 DEF TooLow, IsBest, OnGrid, Anchor
    <2>3. QED
      BY <2>1, <2>2 DEF IsPriceFloor
  <1>3. CASE ~TooLow(filter, candidate)
    <2>1. candidate > 0 /\ a <= candidate
      BY <1>1, <1>3 DEF TooLow, Anchor
    <2>2. price \in Int /\ IsBest(price, candidate, a, filter.step)
      BY <1>1, <2>1, FlooredIsBest
    <2> HIDE DEF price
    <2>3. CASE TooHigh(filter, price)
      <3>1. PriceFloor(filter, candidate) = Refused
        BY <2>3 DEF PriceFloor, price
      <3>2. ASSUME NEW x \in 0 .. candidate, IsBest(x, candidate, a, filter.step)
            PROVE  ~PriceAllowed(filter, x)
        <4>1. x = price
          BY <1>1, <2>2, <3>2, BestIsUnique
        <4>2. QED
          BY <1>1, <2>2, <2>3, <4>1 DEF TooHigh, PriceAllowed, Enabled
      <3>3. QED
        BY <3>1, <3>2 DEF IsPriceFloor
    <2>4. CASE ~TooHigh(filter, price)
      <3>1. PriceFloor(filter, candidate) = price /\ price # Refused
        BY <1>3, <2>2, <2>4, RefusedAssumption DEF PriceFloor, price
      <3>2. PriceAllowed(filter, price)
        BY <1>1, <2>2, <2>4 DEF TooHigh, PriceAllowed, Enabled, IsBest, OnGrid
      <3>3. QED
        BY <2>1, <2>2, <3>1, <3>2 DEF IsPriceFloor
    <2>5. QED
      BY <2>3, <2>4
  <1>4. QED
    BY <1>2, <1>3

(* The floor of a quantity is the last point of its grid that is not above *)
(* the candidate and within the bounds, and a candidate is refused only if *)
(* there is none: LotSizeFilter::floor.                                    *)
THEOREM LotFloorIsExact ==
    ASSUME NEW filter \in Filters, NEW candidate \in Int
    PROVE  IsLotFloor(filter, candidate, LotFloor(filter, candidate))
  <1> DEFINE quantity == Floored(candidate, filter.min, filter.step)
  <1>1. filter.min \in Int /\ filter.max \in Int /\ filter.step \in Int
    BY DEF Filters
  <1>2. CASE candidate < filter.min
    <2>1. LotFloor(filter, candidate) = Refused
      BY <1>2 DEF LotFloor
    <2>2. QED
      BY <1>1, <1>2, <2>1 DEF IsLotFloor
  <1>3. CASE filter.min <= candidate
    <2>1. quantity \in Int /\ IsBest(quantity, candidate, filter.min, filter.step)
      BY <1>1, <1>3, FlooredIsBest
    <2> HIDE DEF quantity
    <2>2. CASE quantity > filter.max
      <3>1. LotFloor(filter, candidate) = Refused
        BY <2>2 DEF LotFloor, quantity
      <3>2. ASSUME NEW x \in filter.min .. candidate,
                   IsBest(x, candidate, filter.min, filter.step)
            PROVE  ~LotAllowed(filter, x)
        <4>1. x = quantity
          BY <1>1, <2>1, <3>2, BestIsUnique
        <4>2. QED
          BY <1>1, <2>1, <2>2, <4>1 DEF LotAllowed
      <3>3. QED
        BY <3>1, <3>2 DEF IsLotFloor
    <2>3. CASE quantity <= filter.max
      <3>1. LotFloor(filter, candidate) = quantity /\ quantity # Refused
        BY <1>1, <1>3, <2>1, <2>3, RefusedAssumption DEF LotFloor, quantity
      <3>2. LotAllowed(filter, quantity)
        BY <1>1, <2>1, <2>3 DEF LotAllowed, IsBest, OnGrid
      <3>3. QED
        BY <2>1, <3>1, <3>2 DEF IsLotFloor
    <2>4. QED
      BY <1>1, <2>1, <2>2, <2>3
  <1>4. QED
    BY <1>1, <1>2, <1>3

-----------------------------------------------------------------------------
(* The public client.  The inductive invariant: where the call is tells    *)
(* what is there of it, its times lie between its start and its deadline,  *)
(* and whatever has arrived was parsed from a payload of the exchange.     *)

(* The endpoints of the market context.                                    *)
LEMMA ContextIs ==
    Context = {"premiumIndex", "bookTicker", "openInterest", "ticker24h", "fundingRate"}
  BY DEF Context, Fields

(* A call that waits is within its timeout; one that is done is all there, *)
(* and was so within the timeout.                                          *)
TimesInv ==
    /\ call = "waiting" => now <= Deadline
    /\ call = "done" =>
          /\ completed \in Int /\ completed <= Deadline /\ DOMAIN parts = joined
          /\ \A e \in DOMAIN generated : generated[e] <= completed

(* What an answer that was taken is kept as.                               *)
IsPart(e, part) ==
    \E payload \in Payloads[e] :
        /\ Parse(e, payload) # Malformed
        /\ part = [answer |-> Parse(e, payload),
                   raw |-> IF e = "exchangeInfo" THEN payload ELSE None]

PartsInv == \A e \in DOMAIN parts : IsPart(e, parts[e])

CInv == TypeOK /\ TimesInv /\ PartsInv

(* A part stays what it is while the contract asked for does.              *)
LEMMA PartStays ==
    ASSUME NEW e, NEW part, IsPart(e, part), UNCHANGED symbol
    PROVE  IsPart(e, part)'
  <1>1. \A payload : Parse(e, payload)' = Parse(e, payload)
    BY DEF Parse, ParseRows, IsRequested
  <1>2. QED
    BY <1>1 DEF IsPart

(* The clock stands at its start, and there is no call.                    *)
LEMMA InitCInv == Init => CInv
  BY ClientAssumption DEF ClientAssumption, Init, NoCall, CInv, TypeOK, TimesInv, PartsInv

(* A call begins with nothing there, or is refused.                        *)
LEMMA BeginCInv ==
    ASSUME CInv, NEW endpoints \in Calls, NEW s \in Symbols \cup {None}, NEW limit,
           Begin(endpoints, s, limit)
    PROVE  CInv'
  <1>1. NoCall /\ now \in 0 .. MaxTime /\ Timeout \in Nat
    BY ClientAssumption DEF CInv, TypeOK, Begin, ClientAssumption
  <1>2. DOMAIN parts = {} /\ DOMAIN generated = {} /\ completed = None
    BY <1>1 DEF NoCall
  <1>3. TypeOK'
    BY <1>1, <1>2 DEF Begin, TypeOK, CInv
  <1>4. TimesInv'
    BY <1>1 DEF Begin, TimesInv, Deadline
  <1>5. PartsInv'
    BY <1>2 DEF Begin, PartsInv
  <1>6. QED
    BY <1>3, <1>4, <1>5 DEF CInv

(* Between two reads of the clock the exchange makes an answer.            *)
LEMMA GenerateCInv == ASSUME CInv, NEW e \in joined, Generate(e) PROVE CInv'
  <1>1. /\ DOMAIN generated' = DOMAIN generated \cup {e} /\ generated'[e] = now
        /\ \A x \in DOMAIN generated : x # e => generated'[x] = generated[x]
    BY DEF Generate, Extended
  <1>2. /\ call = "waiting" /\ e \notin DOMAIN generated
        /\ UNCHANGED <<now, call, joined, symbol, started, parts, completed>>
    BY DEF Generate
  <1>3. TypeOK'
    <2>1. /\ DOMAIN parts' \subseteq DOMAIN generated' /\ DOMAIN generated' \subseteq joined'
          /\ \A x \in DOMAIN generated' : generated'[x] \in started' .. now'
      BY <1>1, <1>2 DEF CInv, TypeOK
    <2>2. QED
      BY <1>2, <2>1 DEF CInv, TypeOK, NoCall
  <1>4. TimesInv'
    BY <1>2 DEF CInv, TimesInv, Deadline
  <1>5. PartsInv'
    BY <1>2, PartStays DEF CInv, PartsInv
  <1>6. QED
    BY <1>3, <1>4, <1>5 DEF CInv

(* The first error leaves nothing.                                         *)
LEMMA FailCInv == ASSUME CInv, call = "waiting", Fail PROVE CInv'
  <1>1. DOMAIN parts' = {} /\ DOMAIN generated' = {}
    BY DEF Fail
  <1>2. TypeOK'
    BY <1>1 DEF Fail, CInv, TypeOK
  <1>3. QED
    BY <1>1, <1>2 DEF Fail, CInv, TimesInv, PartsInv

(* An answer that parses is kept, and the last one completes the call.     *)
LEMMA AcceptCInv ==
    ASSUME CInv, NEW e \in joined, NEW payload \in Payloads[e], call = "waiting",
           e \in DOMAIN generated \ DOMAIN parts, Parse(e, payload) # Malformed,
           Accept(e, payload), UNCHANGED <<now, joined, symbol, started, generated>>
    PROVE  CInv'
  <1> DEFINE part == [answer |-> Parse(e, payload),
                      raw |-> IF e = "exchangeInfo" THEN payload ELSE None]
  <1>1. parts' = Extended(parts, e, part)
    BY DEF Accept
  <1>2. IsPart(e, part)
    BY DEF IsPart
  <1> HIDE DEF part
  <1>3. /\ DOMAIN parts' = DOMAIN parts \cup {e} /\ parts'[e] = part
        /\ \A x \in DOMAIN parts : x # e => parts'[x] = parts[x]
    BY <1>1 DEF Extended
  <1>4. now \in Int /\ now \in 0 .. MaxTime /\ completed = None /\ now <= Deadline
    BY DEF CInv, TypeOK, TimesInv
  <1>5. \/ DOMAIN parts' = joined /\ call' = "done" /\ completed' = now
        \/ UNCHANGED <<call, completed>>
    BY DEF Accept, AllAreIn, CompletedAt
  <1>6. TypeOK'
    <2>1. DOMAIN parts' \subseteq DOMAIN generated'
      BY <1>3 DEF CInv, TypeOK
    <2>2. call' \in {"waiting", "done"} /\ (completed' # None <=> call' = "done")
      BY <1>4, <1>5, ClientAssumption DEF ClientAssumption
    <2>3. QED
      BY <2>1, <2>2 DEF CInv, TypeOK
  <1>7. TimesInv'
    <2>1. Deadline' = Deadline
      BY DEF Deadline
    <2>2. \A x \in DOMAIN generated : generated[x] <= now
      BY DEF CInv, TypeOK
    <2>3. QED
      BY <1>4, <1>5, <2>1, <2>2 DEF TimesInv
  <1>8. PartsInv'
    <2>1. ASSUME NEW x \in DOMAIN parts' PROVE IsPart(x, parts'[x])
      BY <1>2, <1>3 DEF CInv, PartsInv
    <2>2. QED
      BY <2>1, PartStays DEF PartsInv
  <1>9. QED
    BY <1>6, <1>7, <1>8 DEF CInv

(* The clock moves up to the deadline of a call that waits.                *)
LEMMA TickCInv == ASSUME CInv, Tick PROVE CInv'
  <1>1. /\ now \in 0 .. MaxTime /\ started \in 0 .. now /\ now' = now + 1 /\ now < MaxTime
        /\ UNCHANGED <<call, joined, symbol, started, generated, parts, completed>>
        /\ call = "waiting" => now < Deadline
    BY DEF CInv, TypeOK, Tick
  <1>2. TypeOK'
    <2>1. \A e \in DOMAIN generated : generated[e] \in started .. now
      BY DEF CInv, TypeOK
    <2>2. \A e \in DOMAIN generated' : generated'[e] \in started' .. now'
      BY <1>1, <2>1
    <2>3. now' \in 0 .. MaxTime /\ started' \in 0 .. now'
      BY <1>1, ClientAssumption DEF ClientAssumption
    <2>4. QED
      BY <1>1, <2>2, <2>3 DEF CInv, TypeOK, NoCall
  <1>3. TimesInv'
    <2>1. Deadline' = Deadline /\ Deadline \in Int
      BY <1>1, ClientAssumption DEF Deadline, ClientAssumption
    <2>2. QED
      BY <1>1, <2>1 DEF CInv, TimesInv
  <1>4. PartsInv'
    BY <1>1, PartStays DEF CInv, PartsInv
  <1>5. QED
    BY <1>2, <1>3, <1>4 DEF CInv

(* A caller that is done leaves nothing for the next.                      *)
LEMMA ReturnCInv == ASSUME CInv, Return PROVE CInv'
  <1>1. NoCall' /\ call' = "idle" /\ now' = now
    BY DEF Return, NoCall
  <1>2. now' \in 0 .. MaxTime
    BY <1>1 DEF CInv, TypeOK
  <1>3. DOMAIN parts' = {} /\ DOMAIN generated' = {}
    BY <1>1 DEF NoCall
  <1>4. QED
    BY <1>1, <1>2, <1>3 DEF NoCall, CInv, TypeOK, TimesInv, PartsInv

(* Every step of the client keeps the invariant.                           *)
LEMMA NextCInv == CInv /\ [Next]_vars => CInv'
  <1> SUFFICES ASSUME CInv, [Next]_vars PROVE CInv'
    OBVIOUS
  <1>1. CASE Request
    BY <1>1, BeginCInv DEF Request
  <1>2. CASE Exchange
    <2>1. PICK e \in joined : Generate(e) \/ \E payload \in Payloads[e] : Arrive(e, payload)
      BY <1>2 DEF Exchange
    <2>2. ASSUME NEW payload \in Payloads[e], Arrive(e, payload) PROVE CInv'
      <3>1. call = "waiting" /\ e \in DOMAIN generated \ DOMAIN parts
        BY <2>2 DEF Arrive
      <3>2. CASE Parse(e, payload) = Malformed
        BY <2>2, <3>1, <3>2, FailCInv DEF Arrive
      <3>3. CASE Parse(e, payload) # Malformed
        BY <2>2, <3>1, <3>3, AcceptCInv DEF Arrive
      <3>4. QED
        BY <3>2, <3>3
    <2>3. QED
      BY <2>1, <2>2, GenerateCInv
  <1>3. CASE RequestFails
    BY <1>3, FailCInv DEF RequestFails
  <1>4. CASE TimesOut
    BY <1>4, FailCInv DEF TimesOut
  <1>5. CASE Tick
    BY <1>5, TickCInv
  <1>6. CASE Return
    BY <1>6, ReturnCInv
  <1>7. CASE UNCHANGED vars
    <2>1. UNCHANGED <<now, call, joined, symbol, started, generated, parts, completed>>
      BY <1>7 DEF vars
    <2>2. TypeOK' /\ TimesInv'
      BY <2>1 DEF CInv, TypeOK, NoCall, TimesInv, Deadline
    <2>3. PartsInv'
      BY <2>1, PartStays DEF CInv, PartsInv
    <2>4. QED
      BY <2>2, <2>3 DEF CInv
  <1>8. QED
    BY <1>1, <1>2, <1>3, <1>4, <1>5, <1>6, <1>7 DEF Next

(* Everything below follows from the invariant holding for ever.           *)
THEOREM ClientInvariant == Spec => []CInv
  BY InitCInv, NextCInv, PTL DEF Spec

(* The variables of the client stay in their domains.                      *)
THEOREM ClientTypeCorrect == Spec => []TypeOK
  <1>1. CInv => TypeOK
    BY DEF CInv
  <1>2. QED
    BY <1>1, ClientInvariant, PTL

(* Whatever the exchange answers and however long that takes, every part   *)
(* of a result was made in the timeout before its completed_at.            *)
THEOREM SnapshotsAreCoherent == Spec => []SnapshotIsCoherent
  <1>1. CInv => SnapshotIsCoherent
    <2> SUFFICES ASSUME CInv, call = "done", NEW e \in joined
                 PROVE  generated[e] \in completed - Timeout .. completed
      BY DEF SnapshotIsCoherent
    <2>1. /\ e \in DOMAIN parts /\ e \in DOMAIN generated
          /\ started \in Int /\ Timeout \in Int /\ completed \in Int
          /\ completed <= started + Timeout
      BY ClientAssumption DEF CInv, TypeOK, TimesInv, Deadline, ClientAssumption
    <2>2. generated[e] \in Int /\ started <= generated[e] /\ generated[e] <= completed
      BY <2>1 DEF CInv, TypeOK, TimesInv
    <2>3. QED
      BY <2>1, <2>2
  <1>2. QED
    BY <1>1, ClientInvariant, PTL

(* No call outlives its timeout, and what one returns was complete within  *)
(* it: the safety half of CallEnds, for an exchange that may stall at any  *)
(* byte of an answer.                                                      *)
THEOREM CallsKeepTheirDeadline ==
    Spec => [](/\ call = "waiting" => now <= Deadline
               /\ call = "done" => completed <= Deadline)
  <1>1. CInv => /\ call = "waiting" => now <= Deadline
                /\ call = "done" => completed <= Deadline
    BY DEF CInv, TimesInv
  <1>2. QED
    BY <1>1, ClientInvariant, PTL

-----------------------------------------------------------------------------
(* A record that parses is about the contract asked for, and its prices    *)
(* are positive.                                                           *)
LEMMA ParsedRow ==
    ASSUME NEW e \in Context, NEW payload \in Payloads[e], ParseRows(e, payload) # Malformed,
           NEW i \in DOMAIN ParseRows(e, payload)
    PROVE  LET row == ParseRows(e, payload)[i]
           IN  /\ row.symbol = symbol
               /\ \A f \in DOMAIN Fields[e] :
                     /\ Fields[e][f] = "price" => row.values[f] = "positive"
                     /\ Fields[e][f] = "optional price" => row.values[f] \in {"positive", None}
  <1> DEFINE rows == [j \in DOMAIN payload |-> ParseRow(e, payload[j])]
             values == [f \in DOMAIN Fields[e] |-> Reading(Fields[e][f], payload[i].raw[f])]
  <1>1. /\ ParseRows(e, payload) = rows
        /\ \A j \in DOMAIN payload : rows[j] # Malformed /\ IsRequested(rows[j])
    BY DEF ParseRows
  <1>2. /\ i \in DOMAIN payload /\ rows[i] = ParseRow(e, payload[i])
        /\ rows[i] # Malformed /\ IsRequested(rows[i])
    BY <1>1
  <1> HIDE DEF rows
  <1>3. /\ rows[i] = [symbol |-> payload[i].symbol, values |-> values]
        /\ \A f \in DOMAIN values : values[f] # Malformed
    BY <1>2 DEF ParseRow
  <1>4. payload[i].raw \in [DOMAIN Fields[e] -> RawValues]
    BY <1>2, PayloadAssumption DEF PayloadAssumption
  <1>5. ASSUME NEW f \in DOMAIN Fields[e]
        PROVE  /\ Fields[e][f] = "price" => values[f] = "positive"
               /\ Fields[e][f] = "optional price" => values[f] \in {"positive", None}
    <2>1. /\ payload[i].raw[f] \in RawValues
          /\ values[f] = Reading(Fields[e][f], payload[i].raw[f]) /\ values[f] # Malformed
      BY <1>3, <1>4
    <2> HIDE DEF values
    <2>2. ASSUME Fields[e][f] = "price" PROVE values[f] = "positive"
      BY <2>1, <2>2 DEF Reading
    <2>3. ASSUME Fields[e][f] = "optional price" PROVE values[f] \in {"positive", None}
      BY <2>1, <2>3 DEF Reading, RawValues
    <2>4. QED
      BY <2>2, <2>3
  <1>6. rows[i].symbol = symbol
    BY <1>2 DEF IsRequested
  <1>7. rows[i].values = values
    BY <1>3
  <1> HIDE DEF values
  <1>8. QED
    BY <1>1, <1>5, <1>6, <1>7

(* A call that returns data returns every answer it joined, each about the *)
(* contract asked for and with no price that is not positive.              *)
THEOREM SnapshotsAreWhole == Spec => []SnapshotIsWhole
  <1>1. CInv => SnapshotIsWhole
    <2> SUFFICES ASSUME CInv, call = "done", NEW e \in joined
                 PROVE  /\ e \in DOMAIN parts
                        /\ e \in Context =>
                               \A i \in DOMAIN parts[e].answer :
                                   LET row == parts[e].answer[i]
                                   IN  /\ row.symbol = symbol
                                       /\ \A f \in DOMAIN Fields[e] :
                                             /\ Fields[e][f] = "price" => row.values[f] = "positive"
                                             /\ Fields[e][f] = "optional price" =>
                                                    row.values[f] \in {"positive", None}
      BY DEF SnapshotIsWhole
    <2>1. e \in DOMAIN parts
      BY DEF CInv, TimesInv
    <2>2. PICK payload \in Payloads[e] :
            Parse(e, payload) # Malformed /\ parts[e].answer = Parse(e, payload)
      BY <2>1 DEF CInv, PartsInv, IsPart
    <2>3. CASE e \in Context
      <3>1. Parse(e, payload) = ParseRows(e, payload)
        BY <2>3, ContextIs DEF Parse
      <3>2. parts[e].answer = ParseRows(e, payload) /\ ParseRows(e, payload) # Malformed
        BY <2>2, <3>1
      <3> DEFINE rows == ParseRows(e, payload)
      <3>3. \A i \in DOMAIN rows :
                LET row == rows[i]
                IN  /\ row.symbol = symbol
                    /\ \A f \in DOMAIN Fields[e] :
                          /\ Fields[e][f] = "price" => row.values[f] = "positive"
                          /\ Fields[e][f] = "optional price" => row.values[f] \in {"positive", None}
        BY <2>3, <3>2, ParsedRow
      <3> HIDE DEF rows
      <3>4. parts[e].answer = rows
        BY <3>2 DEF rows
      <3>5. QED
        BY <2>1, <3>3, <3>4
    <2>4. QED
      BY <2>1, <2>3
  <1>2. QED
    BY <1>1, ClientInvariant, PTL

-----------------------------------------------------------------------------
(* The metadata.  Filters and contracts are gone over one by one: each     *)
(* turn of the loop is a step of a proof by induction.                     *)
Filtering == INSTANCE Folding WITH Base <- NoRules, Op <- WithFilter
Listing   == INSTANCE Folding WITH Base <- <<>>, Op <- Kept

(* The loop of parse_filters, turn by turn.                                *)
LEMMA FilterTurns ==
    ASSUME NEW S, NEW filters \in Seq(S)
    PROVE  \E f : /\ f[0] = NoRules
                  /\ \A k \in 1 .. Len(filters) : f[k] = WithFilter(f[k - 1], filters[k])
                  /\ FoldLeft(WithFilter, NoRules, filters) = f[Len(filters)]
  <1>1. FoldLeft(WithFilter, NoRules, filters)
            = Filtering!FoldLeft(WithFilter, NoRules, filters)
    BY Zenon DEF FoldLeft, MapThenFoldSet, Max, Filtering!FoldLeft, Filtering!MapThenFoldSet,
       Filtering!Max
  <1>2. QED
    BY <1>1, Filtering!FoldIsChain DEF Filtering!IsChain

(* The loop over the contracts.                                            *)
LEMMA ContractTurns ==
    ASSUME NEW S, NEW contracts \in Seq(S)
    PROVE  \E f : /\ f[0] = <<>>
                  /\ \A k \in 1 .. Len(contracts) : f[k] = Kept(f[k - 1], contracts[k])
                  /\ TradingPerpetuals(contracts) = f[Len(contracts)]
  <1>1. TradingPerpetuals(contracts) = Listing!FoldLeft(Kept, <<>>, contracts)
    BY Zenon DEF TradingPerpetuals, FoldLeft, MapThenFoldSet, Max, Listing!FoldLeft,
       Listing!MapThenFoldSet, Listing!Max
  <1>2. QED
    BY <1>1, Listing!FoldIsChain DEF Listing!IsChain

(* A place behind all of those listed is listed last.                      *)
LEMMA ListsGrow ==
    ASSUME NEW S, NEW listed \in Seq(S), NEW n \in Nat, NEW places \in SUBSET (1 .. n),
           NEW xs, Lists(listed, xs, places), xs[n + 1] \in S
    PROVE  Lists(Append(listed, xs[n + 1]), xs, places \cup {n + 1})
  <1> DEFINE more == places \cup {n + 1}
             UpTo(P, j) == {i \in P : i <= j}
  <1>1. /\ IsFiniteSet(places) /\ n + 1 \notin places
        /\ Cardinality(places) \in Nat /\ Cardinality(more) = Cardinality(places) + 1
    <2>1. IsFiniteSet(1 .. n)
      BY FS_Interval
    <2>2. IsFiniteSet(places)
      BY <2>1, FS_Subset
    <2>3. n + 1 \notin places
      OBVIOUS
    <2>4. QED
      BY <2>2, <2>3, FS_AddElement, FS_CardinalityType
  <1>2. /\ Len(listed) = Cardinality(places)
        /\ Len(Append(listed, xs[n + 1])) = Cardinality(more)
        /\ Append(listed, xs[n + 1])[Cardinality(more)] = xs[n + 1]
        /\ \A k \in 1 .. Cardinality(places) : Append(listed, xs[n + 1])[k] = listed[k]
    <2>1. Len(listed) = Cardinality(places)
      BY DEF Lists
    <2>2. QED
      BY <1>1, <2>1, AppendProperties
  <1>3. ASSUME NEW j \in places
        PROVE  Append(listed, xs[n + 1])[Cardinality(UpTo(more, j))] = xs[j]
    <2>1. UpTo(more, j) = UpTo(places, j)
      OBVIOUS
    <2>2. UpTo(places, j) \subseteq places /\ j \in UpTo(places, j)
      OBVIOUS
    <2>3. Cardinality(UpTo(places, j)) \in 1 .. Cardinality(places)
      <3>1. /\ IsFiniteSet(UpTo(places, j))
            /\ Cardinality(UpTo(places, j)) <= Cardinality(places)
        BY <1>1, <2>2, FS_Subset
      <3>2. Cardinality(UpTo(places, j)) \in Nat /\ Cardinality(UpTo(places, j)) # 0
        BY <2>2, <3>1, FS_CardinalityType, FS_EmptySet
      <3>3. QED
        BY <1>1, <3>1, <3>2
    <2>4. listed[Cardinality(UpTo(places, j))] = xs[j]
      BY DEF Lists
    <2>5. QED
      BY <1>2, <2>1, <2>3, <2>4
  <1>4. Append(listed, xs[n + 1])[Cardinality(UpTo(more, n + 1))] = xs[n + 1]
    <2>1. \A i \in more : i <= n + 1
      OBVIOUS
    <2>2. UpTo(more, n + 1) = more
      BY <2>1
    <2>3. QED
      BY <1>2, <2>2
  <1>5. QED
    BY <1>2, <1>3, <1>4 DEF Lists

(* Nothing is listed of no places.                                         *)
LEMMA NothingListed == ASSUME NEW xs PROVE Lists(<<>>, xs, {})
  BY FS_EmptySet DEF Lists

(* The filters of one type among the first k, and the unknown ones.        *)
OfType(filters, type, k) == {j \in 1 .. k : filters[j].type = type}
Unknown(filters, k) == {j \in 1 .. k : filters[j].type \notin KnownFilters}

(* What rules must be after the first k filters.                           *)
Follow(rules, filters, k) ==
    /\ rules \in [known : [KnownFilters -> {None} \cup {filters[i].value : i \in 1 .. k}],
                  unknown : Seq({filters[i].type : i \in 1 .. k})]
    /\ Lists(rules.unknown, [j \in DOMAIN filters |-> filters[j].type], Unknown(filters, k))
    /\ \A type \in KnownFilters :
          \/ OfType(filters, type, k) = {} /\ rules.known[type] = None
          \/ \E j \in OfType(filters, type, k) :
                /\ \A i \in OfType(filters, type, k) : i <= j
                /\ rules.known[type] = filters[j].value

(* Without a filter there are no rules.                                    *)
LEMMA NoRulesFollow == ASSUME NEW filters PROVE Follow(NoRules, filters, 0)
  <1>1. Unknown(filters, 0) = {} /\ \A type : OfType(filters, type, 0) = {}
    BY DEF Unknown, OfType
  <1>2. /\ NoRules.unknown = <<>> /\ \A type \in KnownFilters : NoRules.known[type] = None
        /\ NoRules \in [known : [KnownFilters -> {None} \cup {filters[i].value : i \in 1 .. 0}],
                        unknown : Seq({filters[i].type : i \in 1 .. 0})]
    BY DEF NoRules
  <1>3. QED
    BY <1>1, <1>2, NothingListed DEF Follow

(* One turn more.                                                          *)
LEMMA WithFilterFollows ==
    ASSUME NEW filters, NEW n \in Nat, DOMAIN filters = 1 .. n, NEW k \in Nat, k < n,
           NEW rules, Follow(rules, filters, k)
    PROVE  Follow(WithFilter(rules, filters[k + 1]), filters, k + 1)
  <1> DEFINE filter == filters[k + 1]
             next == WithFilter(rules, filter)
             types == [j \in DOMAIN filters |-> filters[j].type]
             V(m) == {None} \cup {filters[i].value : i \in 1 .. m}
             T(m) == {filters[i].type : i \in 1 .. m}
  <1>1. /\ rules.known \in [KnownFilters -> V(k)] /\ rules.unknown \in Seq(T(k))
        /\ rules = [known |-> rules.known, unknown |-> rules.unknown]
    BY DEF Follow
  <1>2. V(k) \subseteq V(k + 1) /\ T(k) \subseteq T(k + 1) /\ k + 1 \in 1 .. k + 1
    OBVIOUS
  <1>3. filter.value \in V(k + 1) /\ filter.type \in T(k + 1) /\ types[k + 1] = filter.type
    BY <1>2
  <1>4. rules.unknown \in Seq(T(k + 1))
    BY <1>1, <1>2
  <1>5. CASE filter.type \in KnownFilters
    <2>1. next = [known |-> [rules.known EXCEPT ![filter.type] = filter.value],
                  unknown |-> rules.unknown]
      BY <1>1, <1>5 DEF WithFilter
    <2>2. next.known \in [KnownFilters -> V(k + 1)]
      <3>1. rules.known \in [KnownFilters -> V(k + 1)]
        BY <1>1, <1>2
      <3>2. next.known = [rules.known EXCEPT ![filter.type] = filter.value]
        BY <2>1
      <3> HIDE DEF V, next
      <3>3. QED
        BY <1>3, <3>1, <3>2
    <2>3. next \in [known : [KnownFilters -> V(k + 1)], unknown : Seq(T(k + 1))]
      BY <1>4, <2>1, <2>2
    <2>4. Unknown(filters, k + 1) = Unknown(filters, k)
      BY <1>5 DEF Unknown
    <2>5. ASSUME NEW type \in KnownFilters
          PROVE  \/ OfType(filters, type, k + 1) = {} /\ next.known[type] = None
                 \/ \E j \in OfType(filters, type, k + 1) :
                       /\ \A i \in OfType(filters, type, k + 1) : i <= j
                       /\ next.known[type] = filters[j].value
      <3>1. CASE type = filter.type
        <4>1. next.known[type] = filter.value
          BY <1>1, <1>5, <2>1, <3>1
        <4>2. /\ k + 1 \in OfType(filters, type, k + 1)
              /\ \A i \in OfType(filters, type, k + 1) : i <= k + 1
          BY <3>1 DEF OfType
        <4>3. QED
          BY <4>1, <4>2
      <3>2. CASE type # filter.type
        <4>1. next.known[type] = rules.known[type]
          BY <1>1, <1>5, <2>1, <3>2
        <4>2. OfType(filters, type, k + 1) = OfType(filters, type, k)
          BY <3>2 DEF OfType
        <4>3. QED
          BY <4>1, <4>2 DEF Follow
      <3>3. QED
        BY <3>1, <3>2
    <2>6. next.unknown = rules.unknown
      BY <2>1
    <2>7. QED
      BY <2>3, <2>4, <2>5, <2>6 DEF Follow
  <1>6. CASE filter.type \notin KnownFilters
    <2>1. next = [known |-> rules.known, unknown |-> Append(rules.unknown, filter.type)]
      BY <1>1, <1>6 DEF WithFilter
    <2>2. next.known = rules.known /\ next.known \in [KnownFilters -> V(k + 1)]
      BY <1>1, <1>2, <2>1
    <2>3. Append(rules.unknown, filter.type) \in Seq(T(k + 1))
      BY <1>3, <1>4, AppendProperties
    <2>4. next \in [known : [KnownFilters -> V(k + 1)], unknown : Seq(T(k + 1))]
      <3> DEFINE unknown == Append(rules.unknown, filter.type)
                 A == [KnownFilters -> V(k + 1)]
                 B == Seq(T(k + 1))
      <3>1. next = [known |-> rules.known, unknown |-> unknown]
        BY <2>1
      <3>2. rules.known \in A /\ unknown \in B
        BY <2>2, <2>3
      <3> HIDE DEF next, unknown, A, B
      <3>3. next \in [known : A, unknown : B]
        BY <3>1, <3>2
      <3>4. QED
        BY <3>3 DEF A, B
    <2>5. /\ Unknown(filters, k + 1) = Unknown(filters, k) \cup {k + 1}
          /\ Unknown(filters, k) \in SUBSET (1 .. k)
      BY <1>6 DEF Unknown
    <2>6. Lists(rules.unknown, types, Unknown(filters, k))
      BY DEF Follow
    <2>7. Lists(Append(rules.unknown, types[k + 1]), types, Unknown(filters, k) \cup {k + 1})
      BY <1>3, <1>4, <2>5, <2>6, ListsGrow
    <2>8. next.unknown = Append(rules.unknown, types[k + 1])
      BY <1>3, <2>1
    <2>9. \A type \in KnownFilters : OfType(filters, type, k + 1) = OfType(filters, type, k)
      BY <1>6 DEF OfType
    <2>10. \A type \in KnownFilters :
             \/ OfType(filters, type, k + 1) = {} /\ next.known[type] = None
             \/ \E j \in OfType(filters, type, k + 1) :
                   /\ \A i \in OfType(filters, type, k + 1) : i <= j
                   /\ next.known[type] = filters[j].value
      BY <2>2, <2>9 DEF Follow
    <2>11. QED
      BY <2>4, <2>5, <2>7, <2>8, <2>10 DEF Follow
  <1>7. QED
    BY <1>5, <1>6

(* The rules of a contract follow all of its filters.                      *)
LEMMA RulesFollow ==
    ASSUME NEW S, NEW filters \in Seq(S)
    PROVE  Follow(FoldLeft(WithFilter, NoRules, filters), filters, Len(filters))
  <1>1. PICK n \in Nat : n = Len(filters) /\ DOMAIN filters = 1 .. n
    OBVIOUS
  <1>2. PICK f : /\ f[0] = NoRules
                 /\ \A k \in 1 .. n : f[k] = WithFilter(f[k - 1], filters[k])
                 /\ FoldLeft(WithFilter, NoRules, filters) = f[n]
    BY <1>1, FilterTurns
  <1> DEFINE T == {k \in Nat : k <= n => Follow(f[k], filters, k)}
  <1>3. 0 \in T
    BY <1>2, NoRulesFollow
  <1>4. ASSUME NEW k \in T PROVE k + 1 \in T
    <2> SUFFICES ASSUME k + 1 <= n PROVE Follow(f[k + 1], filters, k + 1)
      OBVIOUS
    <2>1. k \in Nat /\ k < n /\ Follow(f[k], filters, k)
      OBVIOUS
    <2>2. f[k + 1] = WithFilter(f[k], filters[k + 1])
      BY <1>2, <2>1, k + 1 \in 1 .. n, (k + 1) - 1 = k
    <2>3. QED
      BY <1>1, <2>1, <2>2, WithFilterFollows
  <1>5. T = Nat
    <2>1. T \in SUBSET Nat
      OBVIOUS
    <2> HIDE DEF T
    <2>2. QED
      BY <1>3, <1>4, <2>1, Filtering!Induction
  <1>6. QED
    BY <1>1, <1>2, <1>5

(* trading_perpetuals lists what trades, each contract in its place.       *)
LEMMA TradingIsListed ==
    ASSUME NEW S, NEW contracts \in Seq(S)
    PROVE  Lists(TradingPerpetuals(contracts), contracts,
                 {i \in DOMAIN contracts : contracts[i].trades})
  <1>1. PICK n \in Nat : n = Len(contracts) /\ DOMAIN contracts = 1 .. n
    OBVIOUS
  <1>2. PICK f : /\ f[0] = <<>>
                 /\ \A k \in 1 .. n : f[k] = Kept(f[k - 1], contracts[k])
                 /\ TradingPerpetuals(contracts) = f[n]
    BY <1>1, ContractTurns
  <1> DEFINE Trading(k) == {i \in 1 .. k : contracts[i].trades}
             P(k) == f[k] \in Seq(S) /\ Lists(f[k], contracts, Trading(k))
             T == {k \in Nat : k <= n => P(k)}
  <1>3. 0 \in T
    <2>1. Trading(0) = {} /\ <<>> \in Seq(S)
      OBVIOUS
    <2>2. QED
      BY <1>2, <2>1, NothingListed
  <1>4. ASSUME NEW k \in T PROVE k + 1 \in T
    <2> SUFFICES ASSUME k + 1 <= n PROVE P(k + 1)
      OBVIOUS
    <2>1. k \in Nat /\ k < n /\ f[k] \in Seq(S) /\ Lists(f[k], contracts, Trading(k))
      OBVIOUS
    <2>2. f[k + 1] = Kept(f[k], contracts[k + 1]) /\ contracts[k + 1] \in S
      BY <1>1, <1>2, <2>1, k + 1 \in 1 .. n, (k + 1) - 1 = k
    <2>3. CASE contracts[k + 1].trades
      <3>1. f[k + 1] = Append(f[k], contracts[k + 1])
        BY <2>2, <2>3 DEF Kept
      <3>2. Trading(k + 1) = Trading(k) \cup {k + 1} /\ Trading(k) \in SUBSET (1 .. k)
        BY <2>3
      <3>3. f[k + 1] \in Seq(S)
        BY <2>1, <2>2, <3>1, AppendProperties
      <3>4. Lists(Append(f[k], contracts[k + 1]), contracts, Trading(k) \cup {k + 1})
        <4> HIDE DEF Trading
        <4>1. QED
          BY <2>1, <2>2, <3>2, ListsGrow
      <3>5. QED
        BY <3>1, <3>2, <3>3, <3>4
    <2>4. CASE ~contracts[k + 1].trades
      <3>1. f[k + 1] = f[k] /\ Trading(k + 1) = Trading(k)
        BY <2>2, <2>4 DEF Kept
      <3>2. QED
        BY <2>1, <3>1
    <2>5. QED
      BY <2>3, <2>4
  <1>5. T = Nat
    <2>1. T \in SUBSET Nat
      OBVIOUS
    <2> HIDE DEF T
    <2>2. QED
      BY <1>3, <1>4, <2>1, Listing!Induction
  <1>6. P(n)
    <2>1. n \in T
      <3> HIDE DEF T
      <3>1. QED
        BY <1>5
    <2>2. QED
      BY <2>1
  <1>7. Trading(n) = {i \in DOMAIN contracts : contracts[i].trades}
    BY <1>1
  <1>8. QED
    BY <1>2, <1>6, <1>7

(* The answer of exchangeInfo is every contract of the payload, with the   *)
(* rules that the loop over its filters ends with, and none of them is     *)
(* malformed.                                                              *)
LEMMA ParsedContracts ==
    ASSUME NEW payload, IsMetadata(payload), ParseExchangeInfo(payload) # Malformed
    PROVE  LET raw       == payload.symbols
               contracts == ParseExchangeInfo(payload)
           IN  /\ contracts \in Seq(Range(contracts)) /\ Len(contracts) = Len(raw)
               /\ DOMAIN contracts = DOMAIN raw /\ DOMAIN raw = 1 .. Len(raw)
               /\ \A i \in DOMAIN raw :
                     /\ contracts[i].symbol = raw[i].symbol
                     /\ contracts[i].rules = FoldLeft(WithFilter, NoRules, raw[i].filters)
                     /\ contracts[i].trades <=> raw[i].type = "PERPETUAL" /\ raw[i].status = "TRADING"
                     /\ raw[i].filters \in Seq(Range(raw[i].filters))
                     /\ \A j \in DOMAIN raw[i].filters : ~IsMalformed(raw[i].filters[j])
  <1> DEFINE raw       == payload.symbols
             contracts == [i \in DOMAIN raw |-> ParseContract(raw[i])]
  <1>1. /\ ParseExchangeInfo(payload) = contracts
        /\ \A i \in DOMAIN raw : contracts[i] # Malformed
    BY DEF ParseExchangeInfo
  <1>2. PICK n \in Nat : n = Len(raw) /\ DOMAIN raw = 1 .. n
    BY DEF IsMetadata
  <1>3. DOMAIN contracts = DOMAIN raw
    OBVIOUS
  <1>4. contracts \in Seq(Range(contracts)) /\ Len(contracts) = n
    <2>1. \A i \in 1 .. n : contracts[i] \in Range(contracts)
      BY <1>2, <1>3 DEF Range
    <2>2. contracts \in [1 .. n -> Range(contracts)]
      BY <1>2, <2>1
    <2> HIDE DEF contracts
    <2>3. QED
      BY <2>2
  <1>5. ASSUME NEW i \in DOMAIN raw
        PROVE  /\ contracts[i].symbol = raw[i].symbol
               /\ contracts[i].rules = FoldLeft(WithFilter, NoRules, raw[i].filters)
               /\ contracts[i].trades <=> raw[i].type = "PERPETUAL" /\ raw[i].status = "TRADING"
               /\ \A j \in DOMAIN raw[i].filters : ~IsMalformed(raw[i].filters[j])
    <2>1. contracts[i] = ParseContract(raw[i]) /\ ParseContract(raw[i]) # Malformed
      BY <1>1
    <2>2. /\ ParseContract(raw[i]) =
                [symbol |-> raw[i].symbol, rules |-> ParseFilters(raw[i].filters),
                 trades |-> raw[i].type = "PERPETUAL" /\ raw[i].status = "TRADING"]
          /\ ParseFilters(raw[i].filters) # Malformed
      BY <2>1 DEF ParseContract
    <2>3. /\ ParseFilters(raw[i].filters) = FoldLeft(WithFilter, NoRules, raw[i].filters)
          /\ \A j \in DOMAIN raw[i].filters : ~IsMalformed(raw[i].filters[j])
      BY <2>2 DEF ParseFilters
    <2> DEFINE trading == raw[i].type = "PERPETUAL" /\ raw[i].status = "TRADING"
    <2> HIDE DEF contracts, raw
    <2>4. contracts[i] = [symbol |-> raw[i].symbol, rules |-> ParseFilters(raw[i].filters),
                          trades |-> trading]
      BY <2>1, <2>2
    <2> HIDE DEF trading
    <2>5. contracts[i].symbol = raw[i].symbol /\ contracts[i].rules = ParseFilters(raw[i].filters)
      BY <2>4
    <2>6. contracts[i].trades = trading
      BY <2>4
    <2>7. contracts[i].trades <=> raw[i].type = "PERPETUAL" /\ raw[i].status = "TRADING"
      BY <2>6, Zenon DEF trading
    <2>8. QED
      BY <2>3, <2>5, <2>7
  <1>6. \A i \in DOMAIN raw : raw[i].filters \in Seq(Range(raw[i].filters))
    BY DEF IsMetadata
  <1> HIDE DEF contracts
  <1>7. QED
    BY <1>1, <1>2, <1>3, <1>4, <1>5, <1>6

(* The greatest of a set is its maximum.                                   *)
LEMMA GreatestIsMax ==
    ASSUME NEW P \in SUBSET Int, NEW j \in P, \A i \in P : i <= j
    PROVE  Max(P) = j
  <1>1. \A m \in P : (\A i \in P : m >= i) => m = j
    OBVIOUS
  <1>2. Max(P) \in P /\ \A i \in P : Max(P) >= i
    BY DEF Max
  <1>3. QED
    BY <1>1, <1>2

(* A set of places that is not empty has a minimum.                        *)
LEMMA MinIsIn ==
    ASSUME NEW P \in SUBSET Nat, P # {}
    PROVE  Min(P) \in P
  <1>1. PICK x \in P : \A y \in P : x <= y
    BY Filtering!LeastNumber
  <1>2. QED
    BY <1>1 DEF Min

(* ExchangeInfo::contract finds the first contract of a name.              *)
LEMMA FirstIsFound ==
    ASSUME NEW S, NEW contracts \in Seq(S), NEW s
    PROVE  LET named == {i \in DOMAIN contracts : contracts[i].symbol = s}
           IN  Contract(contracts, s) =
                   IF named = {} THEN None ELSE contracts[Min(named)]
  <1> DEFINE named == {i \in 1 .. Len(contracts) : contracts[i].symbol = s}
             first == IF named # {} THEN Min(named) ELSE 0
  <1>1. Contract(contracts, s) = IF first = 0 THEN None ELSE contracts[first]
    BY Zenon DEF Contract, SelectInSeq
  <1>2. ASSUME named # {} PROVE Min(named) # 0
    <2>1. named \in SUBSET Nat
      OBVIOUS
    <2>2. Min(named) \in named
      BY <1>2, <2>1, MinIsIn
    <2>3. QED
      BY <2>2
  <1>3. DOMAIN contracts = 1 .. Len(contracts)
    OBVIOUS
  <1> HIDE DEF named
  <1>4. Contract(contracts, s) = IF named = {} THEN None ELSE contracts[Min(named)]
    BY <1>1, <1>2
  <1>5. QED
    BY <1>3, <1>4 DEF named

(* What the answer of a finished exchangeInfo call was parsed from.        *)
LEMMA FinishedMetadata ==
    ASSUME CInv, call = "done", joined = {"exchangeInfo"}
    PROVE  \E payload :
               /\ IsMetadata(payload) /\ ParseExchangeInfo(payload) # Malformed
               /\ parts["exchangeInfo"].raw = payload
               /\ parts["exchangeInfo"].answer = ParseExchangeInfo(payload)
  <1>1. "exchangeInfo" \in DOMAIN parts
    BY DEF CInv, TimesInv
  <1>2. IsPart("exchangeInfo", parts["exchangeInfo"])
    BY <1>1 DEF CInv, PartsInv
  <1>3. \A payload : Parse("exchangeInfo", payload) = ParseExchangeInfo(payload)
    BY DEF Parse
  <1>4. QED
    BY <1>2, <1>3, PayloadAssumption DEF IsPart, PayloadAssumption

(* Every filter is in the rules, or was replaced.                          *)
FaithfulRules(rules, filters) ==
    LET Of(type) == {j \in DOMAIN filters : filters[j].type = type}
    IN  /\ Lists(rules.unknown, [j \in DOMAIN filters |-> filters[j].type],
                 {j \in DOMAIN filters : filters[j].type \notin KnownFilters})
        /\ \A type \in KnownFilters :
              IF Of(type) = {} THEN rules.known[type] = None
              ELSE rules.known[type] = filters[Max(Of(type))].value

(* The rules of one contract are faithful to its filters.                  *)
LEMMA RulesAreFaithful ==
    ASSUME NEW S, NEW filters \in Seq(S), NEW rules, Follow(rules, filters, Len(filters))
    PROVE  FaithfulRules(rules, filters)
  <1>1. DOMAIN filters = 1 .. Len(filters) /\ Len(filters) \in Nat
    OBVIOUS
  <1>2. /\ Unknown(filters, Len(filters))
               = {j \in DOMAIN filters : filters[j].type \notin KnownFilters}
        /\ \A type : OfType(filters, type, Len(filters))
               = {j \in DOMAIN filters : filters[j].type = type}
    BY <1>1 DEF Unknown, OfType
  <1>3. ASSUME NEW type \in KnownFilters
        PROVE  LET places == {j \in DOMAIN filters : filters[j].type = type}
               IN  IF places = {} THEN rules.known[type] = None
                   ELSE rules.known[type] = filters[Max(places)].value
    <2> DEFINE places == {j \in DOMAIN filters : filters[j].type = type}
    <2>1. places \in SUBSET Int
      BY <1>1
    <2>2. \/ places = {} /\ rules.known[type] = None
          \/ \E j \in places : /\ \A i \in places : i <= j
                               /\ rules.known[type] = filters[j].value
      BY <1>2 DEF Follow
    <2> HIDE DEF places
    <2>3. IF places = {} THEN rules.known[type] = None
          ELSE rules.known[type] = filters[Max(places)].value
      BY <2>1, <2>2, GreatestIsMax
    <2>4. QED
      BY <2>3 DEF places
  <1>4. QED
    BY <1>2, <1>3 DEF Follow, FaithfulRules

(* exchangeInfo is taken whole: every filter of every contract is in its   *)
(* rules, an unknown one by name and in its place, a known one unless a    *)
(* later one replaced it; lookups and the list of what trades agree.       *)
THEOREM MetadataStaysFaithful == Spec => []MetadataIsFaithful
  <1>1. CInv => MetadataIsFaithful
    <2> SUFFICES ASSUME CInv, call = "done", joined = {"exchangeInfo"}
                 PROVE  MetadataIsFaithful
      BY DEF MetadataIsFaithful
    <2>1. PICK payload :
            /\ IsMetadata(payload) /\ ParseExchangeInfo(payload) # Malformed
            /\ parts["exchangeInfo"].raw = payload
            /\ parts["exchangeInfo"].answer = ParseExchangeInfo(payload)
      BY FinishedMetadata
    <2> DEFINE contracts == parts["exchangeInfo"].answer
               raw       == parts["exchangeInfo"].raw.symbols
    <2>2. /\ contracts \in Seq(Range(contracts)) /\ Len(contracts) = Len(raw)
          /\ DOMAIN contracts = DOMAIN raw
          /\ \A i \in DOMAIN raw :
                /\ contracts[i].symbol = raw[i].symbol
                /\ contracts[i].rules = FoldLeft(WithFilter, NoRules, raw[i].filters)
                /\ contracts[i].trades <=> raw[i].type = "PERPETUAL" /\ raw[i].status = "TRADING"
                /\ raw[i].filters \in Seq(Range(raw[i].filters))
      BY <2>1, ParsedContracts
    <2> HIDE DEF contracts, raw
    <2>3. ASSUME NEW i \in DOMAIN raw
          PROVE  FaithfulRules(contracts[i].rules, raw[i].filters)
      <3>1. Follow(contracts[i].rules, raw[i].filters, Len(raw[i].filters))
        BY <2>2, RulesFollow
      <3>2. QED
        BY <2>2, <3>1, RulesAreFaithful
    <2>4. ASSUME NEW s \in Symbols
          PROVE  LET Named == {i \in DOMAIN raw : raw[i].symbol = s}
                 IN  IF Named = {} THEN Contract(contracts, s) = None
                     ELSE Contract(contracts, s) = contracts[Min(Named)]
      <3> DEFINE named == {i \in DOMAIN contracts : contracts[i].symbol = s}
      <3>1. named = {i \in DOMAIN raw : raw[i].symbol = s}
        BY <2>2
      <3>2. contracts \in Seq(Range(contracts))
        BY <2>2
      <3>3. Contract(contracts, s) = IF named = {} THEN None ELSE contracts[Min(named)]
        BY <3>2, FirstIsFound
      <3> HIDE DEF named
      <3>4. QED
        BY <3>1, <3>3
    <2>5. Lists(TradingPerpetuals(contracts), contracts,
                {i \in DOMAIN raw : raw[i].type = "PERPETUAL" /\ raw[i].status = "TRADING"})
      <3>1. {i \in DOMAIN contracts : contracts[i].trades}
                = {i \in DOMAIN raw : raw[i].type = "PERPETUAL" /\ raw[i].status = "TRADING"}
        BY <2>2
      <3>2. QED
        BY <2>2, <3>1, TradingIsListed
    <2>6. Len(contracts) = Len(raw)
      BY <2>2
    <2>7. QED
      BY <2>3, <2>4, <2>5, <2>6, Zenon DEF MetadataIsFaithful, FaithfulRules, contracts, raw
  <1>2. QED
    BY <1>1, ClientInvariant, PTL

-----------------------------------------------------------------------------
(* Zero is the floor only of a price below one tick with no minimum.       *)
LEMMA ZeroIsBelowOneTick ==
    ASSUME NEW filter \in Filters, NEW candidate \in Int, PriceFloor(filter, candidate) = 0
    PROVE  ~Enabled(filter.min) /\ candidate < filter.step
  <1>1. filter.min \in Int /\ filter.step \in Int /\ 0 # Refused
    BY RefusedAssumption DEF Filters
  <1>2. candidate > 0 /\ IsBest(0, candidate, Anchor(filter), filter.step)
    BY <1>1, PriceFloorIsExact DEF IsPriceFloor
  <1>3. ~Enabled(filter.min) /\ Anchor(filter) = 0
    BY <1>1, <1>2 DEF IsBest, OnGrid, Anchor, Enabled
  <1>4. \A y \in 1 .. candidate : ~(y >= 0 /\ (filter.step > 0 => (y - 0) % filter.step = 0))
    BY <1>2, <1>3 DEF IsBest, OnGrid
  <1>5. filter.step > 0
    BY <1>1, <1>2, <1>4, candidate \in 1 .. candidate
  <1>6. ASSUME filter.step <= candidate PROVE FALSE
    <2>1. (1 * filter.step) % filter.step = 0
      BY <1>1, <1>5, MultipleDivides, 1 \in Int
    <2>2. (filter.step - 0) % filter.step = 0 /\ filter.step \in 1 .. candidate
      BY <1>1, <1>5, <1>6, <2>1
    <2>3. QED
      BY <1>4, <2>2
  <1>7. QED
    BY <1>1, <1>3, <1>6

(* A filter that is in the rules has bounds and a step.                    *)
LEMMA KnownBounds ==
    ASSUME NEW payload, IsMetadata(payload), ParseExchangeInfo(payload) # Malformed,
           NEW i \in DOMAIN ParseExchangeInfo(payload),
           NEW type \in {"PRICE_FILTER", "LOT_SIZE"}
    PROVE  LET value == ParseExchangeInfo(payload)[i].rules.known[type]
           IN  value # None => value \in Filters
  <1> DEFINE filters == payload.symbols[i].filters
             rules   == ParseExchangeInfo(payload)[i].rules
  <1>1. /\ i \in DOMAIN payload.symbols /\ filters \in Seq(Range(filters))
        /\ rules = FoldLeft(WithFilter, NoRules, filters)
        /\ \A j \in DOMAIN filters : ~IsMalformed(filters[j])
    BY ParsedContracts
  <1>2. \A j \in DOMAIN filters : filters[j].type \in {"PRICE_FILTER", "LOT_SIZE"} =>
            filters[j].value \in Filters \cup {Malformed}
    BY <1>1 DEF IsMetadata
  <1> HIDE DEF filters, rules
  <1>3. Follow(rules, filters, Len(filters)) /\ type \in KnownFilters
    BY <1>1, RulesFollow DEF KnownFilters
  <1>4. \A j \in OfType(filters, type, Len(filters)) :
            j \in DOMAIN filters /\ filters[j].type = type
    BY <1>1 DEF OfType
  <1>5. ASSUME NEW j \in OfType(filters, type, Len(filters))
        PROVE  filters[j].value \in Filters
    BY <1>1, <1>2, <1>3, <1>4 DEF IsMalformed
  <1>6. rules.known[type] # None => rules.known[type] \in Filters
    BY <1>3, <1>5 DEF Follow
  <1>7. QED
    BY <1>6 DEF rules

(* Both floors of every filter that was parsed are the best values the     *)
(* exchange takes, for every candidate.                                    *)
THEOREM FloorsStayExact == Spec => []FloorsAreExact
  <1>1. CInv => FloorsAreExact
    <2> SUFFICES ASSUME CInv, call = "done", joined = {"exchangeInfo"}
                 PROVE  FloorsAreExact
      BY DEF FloorsAreExact
    <2>1. PICK payload :
            /\ IsMetadata(payload) /\ ParseExchangeInfo(payload) # Malformed
            /\ parts["exchangeInfo"].answer = ParseExchangeInfo(payload)
      BY FinishedMetadata
    <2> DEFINE contracts == ParseExchangeInfo(payload)
    <2>2. ASSUME NEW i \in DOMAIN contracts, NEW candidate \in Candidates
          PROVE  LET known == contracts[i].rules.known
                     price == known["PRICE_FILTER"]
                     lot   == known["LOT_SIZE"]
                 IN  /\ price # None =>
                           LET answer == PriceFloor(price, candidate)
                           IN  /\ IsPriceFloor(price, candidate, answer)
                               /\ answer = 0 => ~Enabled(price.min) /\ candidate < price.step
                     /\ lot # None => IsLotFloor(lot, candidate, LotFloor(lot, candidate))
      <3> DEFINE price == contracts[i].rules.known["PRICE_FILTER"]
                 lot   == contracts[i].rules.known["LOT_SIZE"]
      <3>1. (price # None => price \in Filters) /\ (lot # None => lot \in Filters)
        BY <2>1, KnownBounds
      <3>2. candidate \in Int
        BY ClientAssumption DEF ClientAssumption
      <3> HIDE DEF price, lot
      <3>3. price # None => /\ IsPriceFloor(price, candidate, PriceFloor(price, candidate))
                            /\ PriceFloor(price, candidate) = 0 =>
                                   ~Enabled(price.min) /\ candidate < price.step
        BY <3>1, <3>2, PriceFloorIsExact, ZeroIsBelowOneTick
      <3>4. lot # None => IsLotFloor(lot, candidate, LotFloor(lot, candidate))
        BY <3>1, <3>2, LotFloorIsExact
      <3>5. QED
        BY <3>3, <3>4 DEF price, lot
    <2>3. parts["exchangeInfo"].answer = contracts
      BY <2>1
    <2> HIDE DEF contracts
    <2>4. QED
      BY <2>2, <2>3 DEF FloorsAreExact
  <1>2. QED
    BY <1>1, ClientInvariant, PTL
=============================================================================
