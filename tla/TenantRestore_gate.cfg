SPECIFICATION Spec
CONSTANTS
  Requests = {r1}
  Workers = {w1}
  Faults = {}
  None = None
SYMMETRY Symmetry
INVARIANT GateOnlyWhileRestoring
CHECK_DEADLOCK FALSE
