SPECIFICATION FairSpec
CONSTANTS
  Backups = {b1, b2}
  Workers = {w1}
  MaxScheduled = 1
  Faults = {"crash", "lost_ack"}
  None = None
INVARIANT OneActiveBackup
INVARIANT RequiredBackupsKept
PROPERTY DeletedNeverReturns
PROPERTY QueuedSettles
PROPERTY DeletingResolves
CHECK_DEADLOCK FALSE
