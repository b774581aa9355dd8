----------------------------- MODULE MCDeliveries -----------------------------
(* A small instance of AssignmentDeliveries: months of four days, one        *)
(* contract an assignment, the second assignment of another equity.          *)
EXTENDS AssignmentDeliveries, TLC

CONSTANTS e1, e2

MCEquityOf == [a \in Assignments |-> IF a = 2 THEN e2 ELSE e1]
MCShares == [a \in Assignments |-> -1]
MCLastDay == [m \in 0..LastMonth |-> 4 * m]
=============================================================================
