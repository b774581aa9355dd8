\* One operator using the wizard; any call may fail.
CONSTANTS
  LastMonth = 3
  MaxRuns = 3
  Missing = Missing
  Legacy = Legacy
  Bootstrap = Bootstrap
  Torn = Torn
  Sessions = {s1}
  Wizards = {s1}
  Outcomes <- MCExceptional
SPECIFICATION Spec
INVARIANTS ArchiveMatchesProvenance
PROPERTIES LedgerChain
