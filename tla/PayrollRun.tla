----------------------------- MODULE PayrollRun -----------------------------
(***************************************************************************)
(* Payroll runs of one pay schedule (payroll_v2) and what they withhold    *)
(* from ONE employee: a salary advance, repaid by a recurring line and by  *)
(* early repayments, and the installments of a staff ward sponsorship,     *)
(* which may be cancelled while nothing has been deducted for it.          *)
(*                                                                         *)
(* A view loads its run without a lock, and the service decides on that    *)
(* copy.  Most requests are served in one step; one request at a time is   *)
(* slow: others run after it loaded its run, and again after the payment   *)
(* or its reversal has read the advance and the installments that it is    *)
(* about to save.  Requests on the advance, on an installment or on the    *)
(* sponsorship are never slow.                                             *)
(*                                                                         *)
(* Live rows of a paid run are purged (DELETE_PAID_LIVE_ROWS, the default).*)
(* Earnings, taxes, totals, refusals for want of settings or money, dates  *)
(* of assignments, and the installments of the advance, which no run       *)
(* deducts, are left out.                                                  *)
(***************************************************************************)
EXTENDS Integers, FiniteSets, FiniteSetsExt

CONSTANTS
  Runs, Periods,
  Installments,   \* of the sponsorship's deduction schedule
  Due,            \* Due[i]: the period of installment i
  Planned,        \* scheduled amount of each installment
  Adjusted,       \* Adjusted[i]: amounts installment i may be adjusted to
  Principal,      \* approved amount of the advance
  Slice,          \* value of its recurring deduction
  Payments,       \* early repayments
  Early,          \* amounts of early repayments
  Owed,           \* what the employee may owe: sets of "advance" and "ward"
  Faults, MaxFaults,
  None

(***************************************************************************)
(* "overlap"  a request acts on a run that changed since it was loaded.    *)
(* "lost"     a payment or reversal saves what it computed from an advance *)
(*            or from installments that have changed since.                *)
(* "second"   a run is generated beside a generated or paid one of its     *)
(*            period.                                                      *)
(* "capped"   more is withheld for the advance than is still owed.         *)
(* "changed"  a deducted installment is adjusted or deferred, or one of a  *)
(*            cancelled schedule is deferred.                              *)
(* "deleted"  a paid run is deleted.                                       *)
(***************************************************************************)
PayrollFaults == {"overlap", "lost", "second", "capped", "changed", "deleted"}

ASSUME FaultsAssumption == Faults \subseteq PayrollFaults
ASSUME FiniteAssumption ==
  IsFiniteSet(Runs) /\ IsFiniteSet(Installments) /\ IsFiniteSet(Payments)
ASSUME DueAssumption == Due \in [Installments -> Periods]
ASSUME AmountsAssumption ==
  /\ Planned \in Nat /\ Adjusted \in [Installments -> SUBSET Nat]
  /\ Owed \subseteq SUBSET {"advance", "ward"}
  /\ Principal \in Nat \ {0} /\ Slice \in Nat \ {0} /\ Early \subseteq Nat \ {0}

VARIABLES
  run,          \* run[r]: the PayrollRunRecord with its lines
  closed,       \* closed[p]: PayrollPeriod.is_closed
  posted,       \* runs with a POSTED batch and ACTIVE disbursement records
  advance,      \* the SalaryAdvance and whether its assignment is active
  payment,      \* payment[t]: an early repayment, asked for and credited
  installment,  \* installment[i]: the PayrollDeductionInstallment
  schedule,     \* the PayrollDeductionSchedule
  sponsorship,  \* the StaffWardSponsorship
  request,      \* what the slow request has read, or None
  suffered      \* history: the faults that have happened

ward == <<installment, schedule, sponsorship>>
loan == <<advance, payment>>
vars == <<run, closed, posted, loan, ward, request, suffered>>

RunStatuses == {"draft", "pending", "approved", "paid"}
\* due: PLANNED, ADJUSTED or DEFERRED, which no service treats differently.
InstallmentStatuses == {"absent", "due", "applied", "cancelled"}
\* open: PLANNED, PARTIALLY_APPLIED, DEFERRED or ADJUSTED.
ScheduleStatuses == {"open", "completed", "cancelled"}

\* Amounts withheld by the lines of a run; 0: there is no such line.
Lines == [advance : Nat, wards : [Installments -> Nat]]
NoLines == [advance |-> 0, wards |-> [i \in Installments |-> 0]]

ASSUME NoneAssumption == None \notin Lines

\* lines: the live rows, shot: paid_table_snapshot; None: there are none.
NoRun == [status |-> "absent", period |-> None, lines |-> None, shot |-> None]
GoneRun == [NoRun EXCEPT !.status = "deleted"]
Existing == {r \in Runs : run[r].status \in RunStatuses}
Paid == {r \in Runs : run[r].status = "paid"}

\* What a view of run r has read, before and after the balances are read.
Copy(r, a, is) == [run |-> r, status |-> run[r].status, shot |-> run[r].shot,
                   advance |-> a, installment |-> is]
Loaded(r) == Copy(r, None, None)
View(r) == Copy(r, advance, installment)

\* A view that is about to save balances; what it reads is not yet committed.
Saving == request # None /\ request.advance # None

\* The faults F happen in this step, if any.
Suffer(F) ==
  /\ F \subseteq Faults
  /\ suffered' = suffered \cup F
  /\ Cardinality(suffered') <= MaxFaults

Outdated(c) ==
  IF c.status = run[c.run].status /\ c.shot = run[c.run].shot
  THEN {} ELSE {"overlap"}

Smaller(m, n) == IF m < n THEN m ELSE n
AtLeast0(n) == IF n > 0 THEN n ELSE 0

-----------------------------------------------------------------------------
(* The sponsorship's deduction schedule                                    *)

Wards(lines) == {i \in Installments : lines.wards[i] > 0}

Deducted(is) ==
  SumFunctionOnSet([i \in Installments |-> is[i].actual],
                   {i \in Installments : is[i].status = "applied"})

\* Mutant: more may be deducted than the schedule's total.
RecomputedFully(is) ==
  LET all == {i \in Installments : is[i].status # "absent"}
      remaining == Planned * Cardinality(all) - Deducted(is)
  IN  [remaining |-> remaining, status |-> IF remaining > 0 THEN "open" ELSE "completed"]

\* _recompute_schedule_remaining_and_status, of a cancelled schedule as well
Recomputed(is) ==
  LET all == {i \in Installments : is[i].status # "absent"}
      remaining == AtLeast0(Planned * Cardinality(all) - Deducted(is))
  IN  [remaining |-> remaining, status |-> IF remaining > 0 THEN "open" ELSE "completed"]

Apply(is, lines) ==
  [i \in Installments |->
     IF i \in Wards(lines)
     THEN [scheduled |-> is[i].scheduled, actual |-> lines.wards[i], status |-> "applied"]
     ELSE is[i]]

Return(is, S) ==
  [i \in Installments |->
     IF i \in S THEN [scheduled |-> is[i].scheduled, actual |-> 0, status |-> "due"]
     ELSE is[i]]

\* apply_deduction_installments_for_run
ApplyInstallments(c, lines) ==
  /\ installment' = Apply(installment, lines)
  /\ schedule' = IF Wards(lines) = {} THEN schedule
                 ELSE Recomputed(Apply(c.installment, lines))

\* Mutant: the schedule is not recomputed.
ReturnOnly(c, lines) ==
  /\ installment' = Return(installment, Wards(lines))
  /\ schedule' = schedule

\* revert_deduction_installments_for_run
ReturnInstallments(c, lines) ==
  /\ installment' = Return(installment, Wards(lines))
  /\ schedule' = IF Wards(lines) = {} THEN schedule
                 ELSE Recomputed(Return(c.installment, Wards(lines)))

\* adjust_deduction_installment, auto_adjust_deduction_installment
Adjust(i, n) ==
  /\ installment[i].status # "absent"
  /\ installment' = [installment EXCEPT ![i].scheduled = n, ![i].status = "due"]
  /\ schedule' = Recomputed(installment')
  /\ Suffer(IF installment[i].status = "applied" THEN {"changed"} ELSE {})
  /\ UNCHANGED <<run, closed, posted, loan, sponsorship, request>>

\* defer_deduction_installment
Defer(i) ==
  /\ installment[i].status # "absent"
  /\ installment' = [installment EXCEPT ![i].status = "due"]
  /\ schedule' = [schedule EXCEPT !.status = "open"]
  /\ Suffer(IF installment[i].status = "applied" \/ schedule.status = "cancelled"
            THEN {"changed"} ELSE {})
  /\ UNCHANGED <<run, closed, posted, loan, sponsorship, request>>

Applied == {i \in Installments : installment[i].status = "applied"}

\* cancel_staff_ward_sponsorship; lines that have been generated stay.
CancelSponsorship ==
  /\ sponsorship = "active" /\ Applied = {}
  /\ sponsorship' = "cancelled"
  /\ installment' = [i \in Installments |-> [installment[i] EXCEPT !.status = "cancelled"]]
  /\ schedule' = [remaining |-> 0, status |-> "cancelled"]
  /\ UNCHANGED <<run, closed, posted, loan, request, suffered>>

-----------------------------------------------------------------------------
(* The salary advance                                                      *)

Balance(paid, remaining, active) ==
  advance' = [status |-> advance.status, paid |-> paid, remaining |-> remaining,
              active |-> active]

\* complete_salary_advance
Complete ==
  /\ advance.status = "approved"
  /\ advance' = [status |-> "completed", paid |-> advance.paid,
                 remaining |-> AtLeast0(Principal - advance.paid), active |-> TRUE]
  /\ UNCHANGED <<run, closed, posted, payment, ward, request, suffered>>

\* cancel_salary_advance
Cancel ==
  /\ advance.status = "completed" /\ advance.paid = 0
  /\ advance' = [status |-> "cancelled", paid |-> 0, remaining |-> 0, active |-> FALSE]
  /\ UNCHANGED <<run, closed, posted, payment, ward, request, suffered>>

\* request_salary_advance_early_repayment
Ask(t, n) ==
  /\ payment[t].asked = 0
  /\ advance.status = "completed" /\ n <= advance.remaining
  /\ payment' = [payment EXCEPT ![t].asked = n]
  /\ UNCHANGED <<run, closed, posted, advance, ward, request, suffered>>

\* Mutant: nothing asks whether the transaction has been credited.
CreditAgain(t) ==
  LET amount == Smaller(payment[t].asked, advance.remaining)
  IN  /\ advance.status = "completed" /\ amount > 0
      /\ payment' = [payment EXCEPT ![t].credited = amount]
      /\ Balance(advance.paid + amount, advance.remaining - amount,
                 advance.active /\ advance.remaining > amount)
      /\ UNCHANGED <<run, closed, posted, ward, request, suffered>>

\* apply_salary_advance_repayment_from_finance_transaction, after the cash
\* transaction has been completed; a later save of it tries again.
Credit(t) ==
  LET amount == Smaller(payment[t].asked, advance.remaining)
  IN  /\ payment[t].credited = 0
      /\ advance.status = "completed" /\ amount > 0
      /\ payment' = [payment EXCEPT ![t].credited = amount]
      /\ Balance(advance.paid + amount, advance.remaining - amount,
                 advance.active /\ advance.remaining > amount)
      /\ UNCHANGED <<run, closed, posted, ward, request, suffered>>

\* apply_salary_advance_repayments_for_run
Repay(c, lines) ==
  LET amount == Smaller(lines.advance, c.advance.remaining)
  IN  IF amount = 0 THEN UNCHANGED advance
      ELSE Balance(c.advance.paid + amount, c.advance.remaining - amount,
                   advance.active /\ c.advance.remaining > amount)

\* Mutant: more than the principal may be owed again.
UnpayAll(c, lines) ==
  LET remaining == c.advance.remaining + lines.advance
  IN  IF lines.advance = 0 THEN UNCHANGED advance
      ELSE Balance(AtLeast0(c.advance.paid - lines.advance), remaining,
                   advance.active \/ (c.advance.status = "completed" /\ remaining > 0))

\* Mutant: the recurring deduction stays inactive.
UnpayOnly(c, lines) ==
  IF lines.advance = 0 THEN UNCHANGED advance
  ELSE Balance(AtLeast0(c.advance.paid - lines.advance),
               Smaller(Principal, c.advance.remaining + lines.advance), advance.active)

\* revert_salary_advance_repayments_for_run
Unpay(c, lines) ==
  LET remaining == Smaller(Principal, c.advance.remaining + lines.advance)
  IN  IF lines.advance = 0 THEN UNCHANGED advance
      ELSE Balance(AtLeast0(c.advance.paid - lines.advance), remaining,
                   advance.active \/ (c.advance.status = "completed" /\ remaining > 0))

\* The lines of a run save balances that are not those read.
Lost(c, lines) ==
  IF \/ lines.advance > 0 /\ c.advance # advance
     \/ Wards(lines) # {} /\ c.installment # installment
  THEN {"lost"} ELSE {}

-----------------------------------------------------------------------------
(* The services of a run, on the copy c of it that the view has read       *)

Becomes(r, status, lines, shot) ==
  run' = [run EXCEPT ![r] = [status |-> status, period |-> run[r].period,
                             lines |-> lines, shot |-> shot]]

\* create_payroll_v2_run: nothing asks for a period without a run.
Create(r, p) ==
  /\ run[r] = NoRun
  /\ run' = [run EXCEPT ![r] = [status |-> "draft", period |-> p,
                                lines |-> None, shot |-> None]]
  /\ UNCHANGED <<closed, posted, loan, ward, request, suffered>>

\* Mutant: the installments of other periods are reset as well.
OrphansOfAll(p) ==
  {i \in Installments : schedule.status = "open" /\ installment[i].status = "applied"}

\* _reset_orphaned_applied_installments_for_period: after the purge, no
\* installment has a payroll_line.
Orphans(p) ==
  {i \in Installments :
     schedule.status = "open" /\ Due[i] = p /\ installment[i].status = "applied"}

\* _apply_salary_advance_recurring_deductions: the amount of the line.
AdvanceLine ==
  IF advance.active /\ advance.status = "completed"
  THEN Smaller(Slice, advance.remaining) ELSE 0

\* _installments_for_employee_in_period and _create_installment_deduction_lines
WardLines(is, s, p) ==
  [i \in Installments |->
     IF s.status = "open" /\ Due[i] = p /\ is[i].status = "due" THEN is[i].scheduled ELSE 0]

\* generate_payroll, of the only run of its period, or not.
Second(r) ==
  IF \E q \in Existing \ {r} :
       /\ run[q].period = run[r].period
       /\ run[q].lines # None \/ run[q].status = "paid"
  THEN {"second"} ELSE {}

Generate(c) ==
  LET r == c.run
      p == run[r].period
      orphans == Orphans(p)
  IN  /\ c.status = "draft"
      /\ installment' = Return(installment, orphans)
      /\ schedule' = IF orphans = {} THEN schedule ELSE Recomputed(installment')
      /\ Balance(advance.paid, advance.remaining,
                 advance.active /\ ~(advance.status = "completed" /\ advance.remaining = 0))
      /\ Becomes(r, "draft",
                 [advance |-> AdvanceLine,
                  wards |-> WardLines(installment', schedule', p)], run[r].shot)
      /\ Suffer(Outdated(c) \cup Second(r))
      /\ UNCHANGED <<closed, posted, payment, sponsorship>>

\* submit_payroll_for_approval
Submit(c) ==
  /\ c.status = "draft" /\ run[c.run].lines # None
  /\ Becomes(c.run, "pending", run[c.run].lines, run[c.run].shot)
  /\ Suffer(Outdated(c))
  /\ UNCHANGED <<closed, posted, loan, ward>>

\* approve_payroll
Approve(c) ==
  /\ c.status = "pending"
  /\ Becomes(c.run, "approved", run[c.run].lines, run[c.run].shot)
  /\ Suffer(Outdated(c))
  /\ UNCHANGED <<closed, posted, loan, ward>>

\* Two payments that close the same period come one after the other.
PeriodIsLocked(c) ==
  /\ Saving /\ c.run # request.run /\ request.status = "approved"
  /\ run[c.run].period = run[request.run].period
  /\ ~closed[run[c.run].period]

\* Mutant: the live rows are purged first.
SnapshotOfNothing(c) == IF c.shot # None THEN run[c.run].shot ELSE None

\* capture_payroll_paid_table_snapshot
Snapshot(c) == IF c.shot # None THEN run[c.run].shot ELSE run[c.run].lines

\* mark_payroll_paid; a batch that is POSTED is taken as it is.
Pay(c) ==
  LET r == c.run
      lines == IF run[r].lines = None THEN NoLines ELSE run[r].lines
  IN  /\ c.status = "approved" /\ c.advance # None
      /\ r \in posted \/ run[r].lines # None
      /\ ~PeriodIsLocked(c)
      /\ posted' = posted \cup {r}
      /\ closed' = [closed EXCEPT ![run[r].period] = TRUE]
      /\ ApplyInstallments(c, lines)
      /\ Repay(c, lines)
      /\ Becomes(r, "paid", None, Snapshot(c))
      /\ Suffer(Outdated(c) \cup Lost(c, lines) \cup
                IF lines.advance > c.advance.remaining THEN {"capped"} ELSE {})
      /\ UNCHANGED <<payment, sponsorship>>

\* Mutant: the period stays closed.
StayClosed(p) == UNCHANGED closed

\* The end of revert_payroll_to_draft: the period is open, whoever closed it.
Reopen(p) == closed' = [closed EXCEPT ![p] = FALSE]

\* Mutant: a paid run is reverted like any other.
WithdrawAny(c) ==
  /\ c.status \in {"pending", "approved", "paid"}
  /\ Becomes(c.run, "draft", run[c.run].lines, None)
  /\ Reopen(run[c.run].period)
  /\ Suffer(Outdated(c))
  /\ UNCHANGED <<posted, loan, ward>>

\* revert_payroll_to_draft of a run that was not paid
Withdraw(c) ==
  /\ c.status \in {"pending", "approved"}
  /\ Becomes(c.run, "draft", run[c.run].lines, None)
  /\ Reopen(run[c.run].period)
  /\ Suffer(Outdated(c))
  /\ UNCHANGED <<posted, loan, ward>>

\* revert_payroll_to_draft of a paid one; restore_payroll_live_rows_from_snapshot
\* finds live rows, or takes them from the snapshot that was read.
Reverse(c) ==
  LET r == c.run
      lines == IF run[r].lines = None THEN c.shot ELSE run[r].lines
  IN  /\ c.status = "paid" /\ c.advance # None
      /\ lines # None
      /\ posted' = posted \ {r}
      /\ ReturnInstallments(c, lines)
      /\ Unpay(c, lines)
      /\ Becomes(r, "draft", lines, None)
      /\ Reopen(run[r].period)
      /\ Suffer(Outdated(c) \cup Lost(c, lines))
      /\ UNCHANGED <<payment, sponsorship>>

\* The destroy that PayrollRunViewSet inherits, which asks for no status;
\* installments lose their line, nothing else.
Delete(r) ==
  /\ r \in Existing /\ ~(Saving /\ request.run = r)
  /\ run' = [run EXCEPT ![r] = GoneRun]
  /\ Suffer(IF r \in Paid THEN {"deleted"} ELSE {})
  /\ UNCHANGED <<closed, posted, loan, ward, request>>

-----------------------------------------------------------------------------
(* Requests                                                                *)

Operation(c) ==
  Generate(c) \/ Submit(c) \/ Approve(c) \/ Pay(c) \/ Withdraw(c) \/ Reverse(c)

\* The row of a run that is being paid or reversed is locked.
Serve(r) ==
  /\ r \in Existing /\ ~(Saving /\ request.run = r)
  /\ Operation(View(r))
  /\ UNCHANGED request

Load(r) ==
  /\ request = None /\ r \in Existing
  /\ request' = Loaded(r)
  /\ UNCHANGED <<run, closed, posted, loan, ward, suffered>>

Read ==
  /\ request # None /\ ~Saving
  /\ request.status \in {"approved", "paid"}
  /\ request' = [request EXCEPT !.advance = advance, !.installment = installment]
  /\ UNCHANGED <<run, closed, posted, loan, ward, suffered>>

Finish ==
  /\ request # None /\ request.run \in Existing
  /\ Operation(request)
  /\ request' = None

\* Refused, or rolled back.
Abort ==
  /\ request # None
  /\ request' = None
  /\ UNCHANGED <<run, closed, posted, loan, ward, suffered>>

-----------------------------------------------------------------------------
Init ==
  /\ run = [r \in Runs |-> NoRun]
  /\ closed = [p \in Periods |-> FALSE]
  /\ posted = {}
  /\ payment = [t \in Payments |-> [asked |-> 0, credited |-> 0]]
  /\ \E owed \in Owed :
       /\ advance = [status |-> IF "advance" \in owed THEN "approved" ELSE "rejected",
                     paid |-> 0, remaining |-> Principal, active |-> FALSE]
       /\ installment = [i \in Installments |->
            [scheduled |-> Planned, actual |-> 0,
             status |-> IF "ward" \in owed THEN "due" ELSE "absent"]]
       /\ sponsorship = IF "ward" \in owed THEN "active" ELSE "absent"
  /\ schedule = Recomputed(installment)
  /\ request = None
  /\ suffered = {}

Next ==
  \/ \E r \in Runs :
       Load(r) \/ Serve(r) \/ Delete(r) \/ \E p \in Periods : Create(r, p)
  \/ Read \/ Finish \/ Abort
  \/ Complete \/ Cancel
  \/ \E t \in Payments : Credit(t) \/ \E n \in Early : Ask(t, n)
  \/ \E i \in Installments : Defer(i) \/ \E n \in Adjusted[i] : Adjust(i, n)
  \/ CancelSponsorship

Spec == Init /\ [][Next]_vars

-----------------------------------------------------------------------------
Records == [status : RunStatuses \cup {"absent", "deleted"}, period : Periods \cup {None},
            lines : Lines \cup {None}, shot : Lines \cup {None}]
Advances == [status : {"rejected", "approved", "completed", "cancelled"}, paid : Nat,
             remaining : Nat, active : BOOLEAN]
Schedules == [Installments ->
                [scheduled : Nat, actual : Nat, status : InstallmentStatuses]]
Copies == [run : Runs, status : RunStatuses, shot : Lines \cup {None},
           advance : Advances \cup {None}, installment : Schedules \cup {None}]

TypeOK ==
  /\ run \in [Runs -> Records]
  /\ \A r \in Existing : run[r].period \in Periods
  /\ closed \in [Periods -> BOOLEAN]
  /\ posted \subseteq Runs
  /\ advance \in Advances
  /\ payment \in [Payments -> [asked : Nat, credited : Nat]]
  /\ installment \in Schedules
  /\ schedule \in [remaining : Nat, status : ScheduleStatuses]
  /\ sponsorship \in {"absent", "active", "cancelled"}
  /\ request = None \/ request \in Copies
  /\ suffered \subseteq Faults

Calm(F) == suffered \cap F = {}

(***************************************************************************)
(* What is repaid and what is owed of a disbursed advance make up its      *)
(* principal: through capped lines, reversals that give back more than was *)
(* taken, lost updates and requests on outdated runs.                      *)
(***************************************************************************)
AdvanceAddsUp ==
  advance.status = "completed" => advance.paid + advance.remaining = Principal

(***************************************************************************)
(* The employee is credited with what the paid runs have withheld for the  *)
(* advance and with the early repayments, each once, whatever is paid,     *)
(* reversed, generated again and repaid in between.                        *)
(***************************************************************************)
RepaidOnce ==
  Calm({"overlap", "lost", "capped", "deleted"}) =>
    advance.paid = SumFunctionOnSet([r \in Paid |-> run[r].shot.advance], Paid)
                   + SumFunctionOnSet([t \in Payments |-> payment[t].credited], Payments)

(***************************************************************************)
(* As long as something is owed of a disbursed advance its recurring       *)
(* deduction is active, and it is inactive as soon as nothing is.          *)
(***************************************************************************)
OwedIsDeducted ==
  Calm({"lost"}) =>
    (advance.active <=> advance.status = "completed" /\ advance.remaining > 0)

(***************************************************************************)
(* An installment counts as deducted exactly while a paid run withholds    *)
(* it, with the amount of that run's line, and no two paid runs do.        *)
(***************************************************************************)
DeductedByPaidRuns ==
  Calm({"overlap", "second", "changed", "deleted"}) =>
    \A i \in Installments :
      LET payers == {r \in Paid : run[r].shot.wards[i] > 0}
      IN  IF installment[i].status = "applied"
          THEN \E r \in payers : payers = {r} /\ installment[i].actual = run[r].shot.wards[i]
          ELSE payers = {}

(***************************************************************************)
(* What the schedule says remains is its total less what is deducted, or   *)
(* nothing when it is cancelled, and nothing is deducted then: through     *)
(* lines that were generated before the sponsorship was cancelled and are  *)
(* paid, and reversed, after it.                                           *)
(***************************************************************************)
RemainderIsRight ==
  Calm({"lost", "changed"}) =>
    IF schedule.status = "cancelled" THEN schedule.remaining = 0 /\ Applied = {}
    ELSE schedule.remaining = Recomputed(installment).remaining

(***************************************************************************)
(* The books and the disbursement records show a run as paid exactly while *)
(* it is.                                                                  *)
(***************************************************************************)
PostedWhilePaid ==
  Calm({"overlap", "deleted"}) => posted = Paid

(***************************************************************************)
(* A paid run keeps the lines it was paid with, from which its payslips    *)
(* are shown and without which it cannot be reverted.                      *)
(***************************************************************************)
PaidRunsKeepLines ==
  Calm({"overlap"}) => \A r \in Paid : run[r].shot # None

(***************************************************************************)
(* A period is closed exactly while a run of it is paid.                   *)
(***************************************************************************)
ClosedWhilePaid ==
  Calm({"overlap", "second", "deleted"}) =>
    \A p \in Periods : closed[p] <=> \E r \in Paid : run[r].period = p
=============================================================================
