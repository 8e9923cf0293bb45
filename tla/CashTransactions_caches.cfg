SPECIFICATION Spec
CONSTANTS
  Txns = {t1, t2}
  Accounts = {a1, a2}
  Keys = {k1}
  Amounts <- MCAmounts
  Nets <- MCNets
  Procs = {p1, p2}
  Faults = {}
  None = None
SYMMETRY Symmetry
INVARIANT TypeOK
INVARIANT LedgerMatchesCash
INVARIANT BillsFollowCash
INVARIANT BalanceFollowsCash
