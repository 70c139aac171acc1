----------------------------- MODULE MCRiskGate -----------------------------
(* Values on both sides of every limit, in tenths: leverages 1.5 and 2.0,  *)
(* and configurations validate must refuse at each end of each range.      *)
EXTENDS RiskGate

MCPnls == {-2, 2}
MCEquities == {-1, 0, 3, 4}

MCLimits ==
    {[leverage |-> l, loss |-> 2, drawdown |-> 3] : l \in {0, 15, 20, 50, 51}} \cup
    {[leverage |-> 20, loss |-> x, drawdown |-> 3] : x \in {0, 10}} \cup
    {[leverage |-> 20, loss |-> 2, drawdown |-> x] : x \in {0, 10}}
=============================================================================
