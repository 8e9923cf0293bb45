SPECIFICATION Spec
CONSTANTS
  i1 = i1
  i2 = i2
  p1 = p1
  p2 = p2
  Runs = {r1, r2}
  Periods = {p1, p2}
  Installments = {i1, i2}
  Due <- MCDue
  Planned = 1
  Adjusted <- MCAdjusted
  Principal = 2
  Slice = 2
  Payments = {t1}
  Early = {1}
  Owed <- MCOwed
  Faults = {"overlap", "lost", "second", "capped", "changed", "deleted"}
  MaxFaults = 1
  None = None
CHECK_DEADLOCK FALSE
SYMMETRY Symmetry
INVARIANT TypeOK
INVARIANT AdvanceAddsUp
INVARIANT RepaidOnce
INVARIANT OwedIsDeducted
INVARIANT DeductedByPaidRuns
INVARIANT RemainderIsRight
INVARIANT PostedWhilePaid
INVARIANT PaidRunsKeepLines
INVARIANT ClosedWhilePaid
