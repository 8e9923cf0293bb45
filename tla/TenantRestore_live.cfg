SPECIFICATION FairSpec
CONSTANTS
  Requests = {r1, r2}
  Workers = {w1, w2}
  Faults = {"crash", "backup_lost"}
  None = None
INVARIANT DataSurvives
INVARIANT UsersSeeWholeData
PROPERTY CompletedIsLive
PROPERTY ReplacesAtomically
PROPERTY RestoreSettles
PROPERTY DataComesBack
CHECK_DEADLOCK FALSE
