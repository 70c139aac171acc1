------------------------------ MODULE RiskGate ------------------------------
(***************************************************************************)
(* qh-risk: the gate every order intent passes before execution, and the   *)
(* limits of qh-config it is built with.  Fractions and leverages are      *)
(* integers in units of 1/Unit.  evaluate keeps no state of its own: what  *)
(* changes between two calls is the context its caller passes.             *)
(***************************************************************************)
EXTENDS Integers

CONSTANTS
    Unit,                     \* what 1 (Decimal::ONE) is in the units of a fraction
    Equities, Grosses,        \* account snapshots: equity and gross notional,
    Pnls, Drawdowns,          \* daily PnL and drawdown fractions
    Prices, Quantities,       \* mark prices and quantities of intents
    Limits                    \* the configurations a gate may be asked for

ASSUME RiskAssumption ==
    /\ Unit \in Nat \ {0}
    /\ Equities \subseteq Int /\ Grosses \subseteq Nat
    /\ Pnls \subseteq Int /\ Drawdowns \subseteq Nat
    /\ Prices \subseteq Nat \ {0} /\ Quantities \subseteq Nat \ {0}
    /\ Limits \subseteq [leverage : Int, loss : Int, drawdown : Int]

VARIABLES
    limits,    \* RiskGate.limits
    context,   \* RiskContext of the next call
    decision   \* what the last call answered; "None" before it

gateVars == <<limits, context, decision>>

RiskStates == {"Normal", "Degraded", "ReduceOnly", "Halted", "EmergencyExit"}
RiskCodes == {"InvalidIntent", "InvalidEquity", "StateBlocked", "StaleMarketData",
              "DailyLossLimit", "DrawdownLimit", "GrossLeverageLimit"}

Contexts == [state : RiskStates, equity : Equities, gross : Grosses, pnl : Pnls,
             drawdown : Drawdowns, price : Prices, fresh : BOOLEAN]

(* An intent as far as the gate reads it.                                  *)
Intents == [effect : {"Open", "Reduce"}, style : {"Market", "Limit"}, priced : BOOLEAN,
            reasoned : BOOLEAN, quantity : Quantities]

(* RiskConfig::validate.                                                   *)
IsFraction(x) == 0 < x /\ x < Unit
IsValid(l) == /\ 0 < l.leverage /\ l.leverage <= 5 * Unit
              /\ IsFraction(l.loss) /\ IsFraction(l.drawdown)

(* OrderIntent::validate.                                                  *)
IsWellFormed(intent) == (intent.style = "Limit" => intent.priced) /\ intent.reasoned

(* Decimal division: the nearest unit, a tie going to the even one.        *)
Quotient(a, b) ==
    LET q == (a * Unit) \div b
        r == (a * Unit) % b
    IN  IF 2 * r > b \/ (2 * r = b /\ q % 2 = 1) THEN q + 1 ELSE q

(* Mutant: the leverage of what is held, without what the order adds.      *)
LeverageHeld(c, intent) == Quotient(c.gross, c.equity)

(* Mutant: the leverage of the order alone.                                *)
LeverageOfOrder(c, intent) == Quotient(intent.quantity * c.price, c.equity)

ProjectedLeverage(c, intent) == Quotient(c.gross + intent.quantity * c.price, c.equity)

(* Mutant: the sign of the PnL is taken the other way round.              *)
UnsignedLoss(l, c) == c.pnl >= l.loss

LossReached(l, c) == c.pnl <= -l.loss

(* The checks only an opening order is put to, in the order of the code.   *)
FirstBreach(l, c, intent) ==
    IF c.state \in {"ReduceOnly", "Halted", "EmergencyExit"} THEN "StateBlocked"
    ELSE IF ~c.fresh THEN "StaleMarketData"
    ELSE IF LossReached(l, c) THEN "DailyLossLimit"
    ELSE IF c.drawdown >= l.drawdown THEN "DrawdownLimit"
    ELSE IF ProjectedLeverage(c, intent) > l.leverage THEN "GrossLeverageLimit"
    ELSE "Approved"

(* RiskGate::evaluate.                                                     *)
Verdict(l, c, intent) ==
    IF ~IsWellFormed(intent) THEN "InvalidIntent"
    ELSE IF c.equity <= 0 THEN "InvalidEquity"
    ELSE IF intent.effect = "Open" THEN FirstBreach(l, c, intent)
    ELSE "Approved"

Approves(l, c, intent) == Verdict(l, c, intent) = "Approved"

-----------------------------------------------------------------------------
(* RiskGate::new: invalid limits make no gate.                             *)
GateInit == /\ limits \in {l \in Limits : IsValid(l)}
            /\ context \in Contexts
            /\ decision = "None"

Evaluate == \E intent \in Intents : /\ decision' = Verdict(limits, context, intent)
                                    /\ UNCHANGED <<limits, context>>

(* The world between two calls: one input of the context changes.          *)
Become(field, values) == \E v \in values : context' = [context EXCEPT ![field] = v]

Refresh == /\ \/ Become("state", RiskStates)   \/ Become("equity", Equities)
              \/ Become("gross", Grosses)      \/ Become("pnl", Pnls)
              \/ Become("drawdown", Drawdowns) \/ Become("price", Prices)
              \/ Become("fresh", BOOLEAN)
           /\ decision' = "None" /\ UNCHANGED limits

GateNext == Evaluate \/ Refresh

GateSpec == GateInit /\ [][GateNext]_gateVars

-----------------------------------------------------------------------------
(* A gate has limits validate accepts; the rest stays in its domain.       *)
GateTypeOK == /\ limits \in Limits /\ IsValid(limits)
              /\ context \in Contexts
              /\ decision \in RiskCodes \cup {"Approved", "None"}

(* What an approval promises, without the order of the checks and without  *)
(* a division: the order leaves the account within its leverage, up to the *)
(* half unit the division may round away, and no other limit is touched.   *)
OpeningIsWithinLimits ==
    \A intent \in Intents :
        intent.effect = "Open" /\ Approves(limits, context, intent) =>
            /\ context.state \in {"Normal", "Degraded"} /\ context.fresh
            /\ context.equity > 0
            /\ context.pnl + limits.loss > 0 /\ context.drawdown < limits.drawdown
            /\ 2 * Unit * (context.gross + intent.quantity * context.price)
                   <= (2 * limits.leverage + 1) * context.equity

(* However a context gets worse, an order the gate refused in the better   *)
(* one stays refused: losing money, ageing data, a stricter state or a     *)
(* dearer contract never buys an approval.                                 *)
Severity(state) == IF state \in {"Normal", "Degraded"} THEN 0 ELSE 1
Worse(c, d) == /\ Severity(d.state) >= Severity(c.state) /\ d.equity <= c.equity
               /\ d.gross >= c.gross /\ d.pnl <= c.pnl /\ d.drawdown >= c.drawdown
               /\ d.price >= c.price /\ (d.fresh => c.fresh)

WorseNeverApproves ==
    [][\A intent \in Intents :
           Worse(context, context') /\ ~Approves(limits, context, intent) =>
               ~Approves(limits, context', intent)]_gateVars

(* Splitting an order buys nothing: if its first part is approved, and its *)
(* rest once the first part is in the account, the whole was approvable.   *)
SplittingNeverHelps ==
    \A first, rest \in Intents :
        /\ first.effect = "Open" /\ rest.effect = "Open"
        /\ Approves(limits, context, first)
        /\ Approves(limits, [context EXCEPT !.gross = @ + first.quantity * context.price], rest)
        => Approves(limits, context, [rest EXCEPT !.quantity = @ + first.quantity])

(* "`Halted`: strategy-generated orders are blocked."                      *)
HaltedBlocksOrders == [][context.state = "Halted" => decision' # "Approved"]_gateVars
=============================================================================
