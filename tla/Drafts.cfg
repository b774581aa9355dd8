\* One tab finalizes a month that another tab still uploads documents for.
CONSTANTS
  Tabs = {1, 2}
  Finalizers = {1}
  Roles = {"history", "statement"}
  Required = {"history"}
  Documents <- MCDocuments
  NoDocument = NoDocument
  MaxRevision = 3
  MaxDrafts = 1
SPECIFICATION Spec
PROPERTIES ExecutesStoredDocuments AbandonedKept
