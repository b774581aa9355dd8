\* One assignment; the first month ends on a Friday, no holidays.
CONSTANTS
  e1 = e1
  e2 = e2
  AssignmentCount = 1
  Equities = {e1}
  EquityOf <- MCEquityOf
  Shares <- MCShares
  LastMonth = 2
  LastDay <- MCLastDay
  Weekend = {5, 6}
  Holidays = {}
  VerifiedClosures = {}
SPECIFICATION Spec
INVARIANT EveryDeliveryCountedOnce
CHECK_DEADLOCK FALSE
