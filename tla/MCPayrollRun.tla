---------------------------- MODULE MCPayrollRun ----------------------------
(* TLC instance of PayrollRun: two installments, one in each period.       *)
EXTENDS PayrollRun, TLC

CONSTANTS i1, i2, p1, p2

MCDue == (i1 :> p1) @@ (i2 :> p2)

\* Both installments together may exceed the total.
MCAdjusted == (i1 :> {2}) @@ (i2 :> {})

\* An advance or a sponsorship.
MCOwed == {{"advance"}, {"ward"}}

Symmetry == Permutations(Runs)
=============================================================================
