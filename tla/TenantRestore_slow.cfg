SPECIFICATION Spec
CONSTANTS
  Requests = {r1}
  Workers = {w1}
  Faults = {"slow"}
  None = None
SYMMETRY Symmetry
INVARIANT DataSurvives
CHECK_DEADLOCK FALSE
