SPECIFICATION Spec
CONSTANTS
  Backups = {b1, b2}
  Workers = {w1}
  MaxScheduled = 1
  Faults = {"overlap"}
  None = None
SYMMETRY Symmetry
INVARIANT RequiredBackupsKept
CHECK_DEADLOCK FALSE
