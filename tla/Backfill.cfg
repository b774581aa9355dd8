\* Two exported months, one draft of the wizard, two attempts, two changes;
\* two candidates, one retained row, one of another workspace, two writes.
CONSTANTS
  january = january
  february = february
  s1 = s1
  s2 = s2
  SourceDrafts = {s1, s2}
  LocalDrafts = {l1}
  Months = {january, february}
  MonthOf <- MCMonthOf
  Attempts = {a1, a2}
  MaxEdits = 2
  Candidates = {k1, k2}
  Retained = {r}
  Elsewhere = {e}
  Protocol = protocol
  MaxWrites = 2
  LastMonth = 3
  Activities <- MCActivities
  Inventories <- MCInventories
SPECIFICATION MCSpec
INVARIANTS
  EditsSurvive
  ImportsHaveReceipts
  ForeignWritesSurvive
  RefusedOnlyForOthers
  PlannedYearIsOneBook
PROPERTIES
  UndoRestoresBackup
  StagedOverARecordedBaseline
