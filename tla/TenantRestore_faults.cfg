SPECIFICATION Spec
CONSTANTS
  Requests = {r1}
  Workers = {w1, w2}
  Faults = {"crash", "cron_crash", "slow", "rename_error", "db_error", "overlap",
            "stale_view", "backup_lost"}
  None = None
SYMMETRY Symmetry
INVARIANT TypeOK
INVARIANT OnlyApprovedRestored
CHECK_DEADLOCK FALSE
