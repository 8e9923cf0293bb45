SPECIFICATION Spec
CONSTANTS
  Txns = {t1, t2}
  Accounts = {a1, a2}
  Keys = {k1}
  Amounts <- MCAmounts
  Nets <- MCNets
  Procs = {p1, p2}
  Faults = {"completed_gone"}
  None = None
SYMMETRY Symmetry
INVARIANT BalanceFollowsCash
