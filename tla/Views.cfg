\* A tab with three months at hand and one publication in between.
CONSTANTS
  S = S
  T = T
  F = F
  EurUsd = EurUsd
  NoSymbol = NoSymbol
  NoCampaign = NoCampaign
  NoFile = NoFile
  NoMonth = 0
  NoDay = 0
  LastMonth = 3
  Months <- MCMonths
  Days <- MCDays
  Futures <- MCFutures
  Pairs <- MCPairs
  YearOf <- MCYear
  QuarterOf <- MCQuarter
  Presets <- MCPresets
  Preference = "YTD"
  Starts <- MCStarts
  Files <- MCFiles
  MaxClicks = 2
  RouteLength = 3
  RouteQuotes = 1
  MaxLength = 5
SPECIFICATION Spec
CHECK_DEADLOCK FALSE
INVARIANTS DrawdownIsTheDeepestFall EveryDollarIsShownOnce RowsAgreeWithTheirDetail BackRestoresThePage
