SPECIFICATION Spec
CONSTANTS
  Backups = {b1, b2}
  Workers = {w1, w2}
  MaxScheduled = 1
  Faults = {"crash", "cron_crash", "slow", "lost_ack", "overlap"}
  None = None
SYMMETRY Symmetry
INVARIANT TypeOK
INVARIANT ClaimedOnce
INVARIANT OnlyVerifiedOffered
