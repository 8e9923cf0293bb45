------------------------- MODULE MCCashTransactions -------------------------
(* TLC instance of CashTransactions: amounts, bills and symmetry.          *)
EXTENDS CashTransactions, TLC

\* A payment and an expense.
MCAmounts == {2, -1}

\* Two payments exceed the two bills together.
MCNets == <<1, 2>>

Symmetry == UNION {Permutations(S) : S \in {Txns, Accounts, Keys, Procs}}
=============================================================================
