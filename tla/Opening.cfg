SPECIFICATION ContinuitySpec
CONSTANTS
  C1 = C1
  C2 = C2
  P = P
  S = S
  NoCampaign = NoCampaign
  Options = {C1, C2, P}
  Calls = {C1, C2}
  Equities = {S}
  ForexPairs = {}
  Underlying <- MCUnderlying
  Namesake <- MCNamesake
  Strike <- MCStrike
  Campaigns <- MCCampaigns
  JoinDays = 30
  PerContract = 2
  Inputs <- MCInputs
  PeriodStart = 60
  MonthDays = 30
  SnapshotAt = 20
  CarriedInputs <- MCCarriedInputs
  NoOrigins = NoOrigins
INVARIANT RebindingIsExact
PROPERTY ProvenanceKeepsPositions
PROPERTY SeedingStopsAtTheDemand
INVARIANT ContinuityFollowsTheLots
INVARIANT CoverIsNotUsedTwice
