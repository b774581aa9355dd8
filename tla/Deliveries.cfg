\* Two assignments of one equity, one of another; months of four days, a
\* holiday between them; the first ends on a Saturday, the second on a Friday.
CONSTANTS
  e1 = e1
  e2 = e2
  AssignmentCount = 3
  Equities = {e1, e2}
  EquityOf <- MCEquityOf
  Shares <- MCShares
  LastMonth = 3
  LastDay <- MCLastDay
  Weekend = {4, 5, 9, 10}
  Holidays = {7}
  VerifiedClosures = {7}
SPECIFICATION Spec
INVARIANTS
  DecisionDescribesTheBook
  PlainDeliveriesCountedOnce
  NextStatementReconciles
CHECK_DEADLOCK FALSE
