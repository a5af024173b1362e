SPECIFICATION FairSpec
CONSTANTS
  Docs = {d1, d2}
  MaxRetries = 1
  Missing = Missing
  Deleted = Deleted
  NoWriter = NoWriter
  MaxFaults = 1
INVARIANTS
  RecordsConsistent
PROPERTIES
  DeletedStaysDeleted
  VerdictIsFinal
  QueuedSettles
