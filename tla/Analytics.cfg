\* One wizard session finalizes two months while a tab loads the analytics.
CONSTANTS
  LastMonth = 2
  MaxRuns = 2
  Missing = Missing
  Legacy = Legacy
  Bootstrap = Bootstrap
  Torn = Torn
  Sessions = {s1}
  Wizards = {s1}
  Outcomes <- MCPlain
SPECIFICATION ReaderSpec
INVARIANTS LoadedMonthIsWhole
PROPERTIES PublishedMonthIsShown
