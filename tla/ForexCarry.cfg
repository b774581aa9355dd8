CONSTANTS
  call = call
  put = put
  adjusted = adjusted
  stock = stock
  plain = plain
  pair = pair
  c1 = c1
  c2 = c2
  NoCampaign = NoCampaign
  Options = {call, put, adjusted}
  Calls = {call, adjusted}
  Equities = {stock, plain}
  ForexPairs = {pair}
  Underlying <- MCUnderlying
  Namesake <- MCNamesake
  Campaigns = {c1, c2}
  Splits <- MCSplits
  SnapshotRows <- MCSnapshotRows
  Traded = {call, stock}
  Quantities = {1}
  PerContract = 1
  LastMonth = 2
  MaxItems = 1
SPECIFICATION Spec
PROPERTY RoundTripKeepsPositions
CHECK_DEADLOCK FALSE
