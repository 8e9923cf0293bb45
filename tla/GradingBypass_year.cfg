SPECIFICATION FairSpec
CONSTANTS
  s1 = s1
  o1 = o1
  o2 = o2
  Students = {s1}
  TopGrade = 3
  Requests = {u1}
  Ops = {o1, o2}
  Workers = {w1, w2}
  Payload <- MCPayload
  Edits <- MCEdits
  StatusEdits = {"active"}
  Faults = {"overlap", "hasty", "crash", "save", "late",
            "stale", "half", "reinstated", "edited"}
  MaxFaults = 1
  Mixed = FALSE
  None = None
CHECK_DEADLOCK FALSE
INVARIANT TypeOK
INVARIANT ExecutedOnce
INVARIANT ReportedTruthfully
INVARIANT ClosedOnce
INVARIANT PlacementFollowsOutcome
INVARIANT GraduatesLeave
PROPERTY ClosesEveryone
PROPERTY Settles
