\* Two tabs of the wizard and a direct call on one month.
CONSTANTS
  LastMonth = 1
  MaxRuns = 2
  Missing = Missing
  Legacy = Legacy
  Bootstrap = Bootstrap
  Torn = Torn
  Sessions = {w1, w2, d1}
  Wizards = {w1, w2}
  Outcomes <- MCOutcomes
SYMMETRY MCSymmetry
SPECIFICATION Spec
INVARIANTS PublishedWhole PublishedComplete
PROPERTIES PublishedMonthsAreFinal
