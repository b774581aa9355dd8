SPECIFICATION Spec
CONSTANTS
  C1 = C1
  C2 = C2
  P = P
  S = S
  S2 = S2
  NoCampaign = NoCampaign
  Options = {C1, C2, P}
  Calls = {C1, C2}
  Equities = {S, S2}
  ForexPairs = {}
  Underlying <- MCUnderlying
  Namesake <- MCNamesake
  Strike <- MCStrike
  Campaigns <- MCCampaigns
  JoinDays = 60
  PerContract = 2
  Inputs <- MCInputs
  Records <- MCRecords
  MaxRecords = 2
  Ticks = 2
  Holidays = {7}
  BankHolidays = {8}
INVARIANT BasisDividedInProportion
INVARIANT MatchableRecordsAreMatched
INVARIANT ReplaysAgree
INVARIANT JournalExplainsPositions
INVARIANT FlatSymbolsHaveAReason
INVARIANT SharesLeaveOnce
PROPERTY ClosedUnitsAreUsedOnce
