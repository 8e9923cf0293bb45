-------------------------- MODULE PayrollRun_proofs --------------------------
(***************************************************************************)
(* What payroll runs leave behind, for any number of runs, periods,        *)
(* installments and early repayments, any amounts and any faults.          *)
(***************************************************************************)
EXTENDS PayrollRun, Sums

(* The types, but that the schedule's remainder is a number: a sum.        *)
Typed ==
  /\ run \in [Runs -> Records]
  /\ \A r \in Existing : run[r].period \in Periods
  /\ closed \in [Periods -> BOOLEAN]
  /\ posted \subseteq Runs
  /\ advance \in Advances
  /\ payment \in [Payments -> [asked : Nat, credited : Nat]]
  /\ installment \in Schedules
  /\ request = None \/ request \in Copies

(* A request is served with what it reads now, or with what it has read.   *)
Work(c) ==
  /\ c \in Copies /\ c.run \in Existing
  /\ Operation(c)
  /\ \/ /\ c = View(c.run) /\ ~(Saving /\ request.run = c.run)
        /\ UNCHANGED request
     \/ request # None /\ c = request /\ request' = None

-----------------------------------------------------------------------------
LEMMA ViewIsCopy ==
  ASSUME Typed, NEW r \in Existing
  PROVE  View(r) \in Copies /\ View(r).run = r
<1>1. r \in Runs /\ run[r] \in Records /\ run[r].status \in RunStatuses
  BY DEF Typed, Existing
<1>2. View(r) = [run |-> r, status |-> run[r].status, shot |-> run[r].shot,
                 advance |-> advance, installment |-> installment]
  BY DEF View, Copy
<1>3. run[r].shot \in Lines \cup {None}
  BY <1>1 DEF Records
<1>4. advance \in Advances \cup {None} /\ installment \in Schedules \cup {None}
  BY DEF Typed
<1>5. QED
  BY <1>1, <1>2, <1>3, <1>4 DEF Copies

LEMMA ServedIsWork ==
  ASSUME Typed, NEW r \in Runs, Serve(r)
  PROVE  \E c : Work(c)
<1>1. View(r) \in Copies /\ View(r).run = r
  BY ViewIsCopy DEF Serve
<1>2. /\ View(r) \in Copies /\ View(r).run \in Existing
      /\ Operation(View(r))
      /\ View(r) = View(View(r).run) /\ ~(Saving /\ request.run = View(r).run)
      /\ UNCHANGED request
  BY <1>1 DEF Serve
<1>3. Work(View(r))
  BY <1>2 DEF Work
<1>4. QED
  BY <1>3

LEMMA FinishedIsWork ==
  ASSUME Typed, Finish
  PROVE  \E c : Work(c)
<1>1. Work(request)
  BY DEF Typed, Finish, Work
<1>2. QED
  BY <1>1

(* The amounts of lines.                                                   *)
LEMMA NoLinesTyped == NoLines \in Lines
BY DEF NoLines, Lines

LEMMA GeneratedTyped ==
  ASSUME Typed, NEW is \in Schedules, NEW s, NEW p
  PROVE  [advance |-> AdvanceLine, wards |-> WardLines(is, s, p)] \in Lines
<1>1. AdvanceLine \in Nat
  BY AmountsAssumption DEF Typed, Advances, AdvanceLine, Smaller
<1>2. WardLines(is, s, p) \in [Installments -> Nat]
  BY DEF WardLines, Schedules
<1>3. QED
  BY <1>1, <1>2 DEF Lines

LEMMA ApplyTyped ==
  ASSUME NEW is \in Schedules, NEW lines \in Lines
  PROVE  Apply(is, lines) \in Schedules
<1>1. \A i \in Installments : lines.wards[i] \in Nat
  BY DEF Lines
<1>2. \A i \in Installments :
        is[i] \in [scheduled : Nat, actual : Nat, status : InstallmentStatuses]
  BY DEF Schedules
<1>3. QED
  BY <1>1, <1>2 DEF Apply, Schedules, InstallmentStatuses

LEMMA ReturnTyped ==
  ASSUME NEW is \in Schedules, NEW S
  PROVE  Return(is, S) \in Schedules
<1>1. \A i \in Installments :
        is[i] \in [scheduled : Nat, actual : Nat, status : InstallmentStatuses]
  BY DEF Schedules
<1>2. QED
  BY <1>1 DEF Return, Schedules, InstallmentStatuses

-----------------------------------------------------------------------------
(* What a service makes of its run.                                        *)
Became(r, status, lines, shot) ==
  /\ run' \in [Runs -> Records]
  /\ run'[r].status = status /\ run'[r].period = run[r].period
  /\ run'[r].lines = lines /\ run'[r].shot = shot
  /\ \A q \in Runs \ {r} : run'[q] = run[q]

LEMMA RecordChange ==
  ASSUME run \in [Runs -> Records], NEW r \in Runs, NEW status \in RunStatuses,
         NEW lines \in Lines \cup {None}, NEW shot \in Lines \cup {None},
         Becomes(r, status, lines, shot)
  PROVE  Became(r, status, lines, shot)
<1>1. run[r] \in Records /\ run[r].period \in Periods \cup {None}
  BY DEF Records
<1>2. [status |-> status, period |-> run[r].period, lines |-> lines, shot |-> shot]
        \in Records
  BY <1>1 DEF Records
<1>3. QED
  BY <1>2 DEF Became, Becomes

LEMMA LinesTyped ==
  ASSUME Typed, NEW r \in Runs
  PROVE  /\ run[r] \in Records
         /\ run[r].lines \in Lines \cup {None} /\ run[r].shot \in Lines \cup {None}
         /\ run[r].period \in Periods \cup {None}
BY DEF Typed, Records

LEMMA CopyTyped ==
  ASSUME NEW c \in Copies
  PROVE  /\ c.run \in Runs /\ c.status \in RunStatuses
         /\ c.shot \in Lines \cup {None}
         /\ c.advance \in Advances \cup {None}
         /\ c.installment \in Schedules \cup {None}
BY DEF Copies

LEMMA GenerateChanges ==
  ASSUME Typed, NEW c, Work(c), Generate(c)
  PROVE  /\ installment' \in Schedules
         /\ \E lines \in Lines :
              /\ lines = [advance |-> AdvanceLine,
                          wards |-> WardLines(installment', schedule', run[c.run].period)]
              /\ Became(c.run, "draft", lines, run[c.run].shot)
<1> DEFINE lines == [advance |-> AdvanceLine,
                     wards |-> WardLines(installment', schedule', run[c.run].period)]
<1>1. c.run \in Runs
  BY DEF Work, Existing
<1>2. installment' \in Schedules
  BY ReturnTyped DEF Generate, Typed
<1>3. lines \in Lines
  BY <1>2, GeneratedTyped
<1>4. Becomes(c.run, "draft", lines, run[c.run].shot)
  BY DEF Generate
<1>5. Became(c.run, "draft", lines, run[c.run].shot)
  BY <1>1, <1>3, <1>4, LinesTyped, RecordChange DEF RunStatuses, Typed
<1>6. QED
  BY <1>2, <1>3, <1>5

LEMMA PayChanges ==
  ASSUME Typed, NEW c, Work(c), Pay(c)
  PROVE  Became(c.run, "paid", None, Snapshot(c))
<1>1. c.run \in Runs
  BY DEF Work, Existing
<1>2. Snapshot(c) \in Lines \cup {None}
  BY <1>1, LinesTyped DEF Snapshot
<1>3. QED
  BY <1>1, <1>2, RecordChange DEF Pay, RunStatuses, Typed

LEMMA ReverseChanges ==
  ASSUME Typed, NEW c, Work(c), Reverse(c)
  PROVE  \E lines \in Lines :
           /\ lines = IF run[c.run].lines = None THEN c.shot ELSE run[c.run].lines
           /\ Became(c.run, "draft", lines, None)
<1> DEFINE lines == IF run[c.run].lines = None THEN c.shot ELSE run[c.run].lines
<1>1. c.run \in Runs /\ c \in Copies
  BY DEF Work, Existing
<1>2. lines \in Lines
  BY <1>1, LinesTyped, CopyTyped DEF Reverse
<1>3. Becomes(c.run, "draft", lines, None)
  BY DEF Reverse
<1>4. QED
  BY <1>1, <1>2, <1>3, RecordChange DEF RunStatuses, Typed

LEMMA OtherChanges ==
  ASSUME Typed, NEW c, Work(c)
  PROVE  /\ Submit(c) => Became(c.run, "pending", run[c.run].lines, run[c.run].shot)
         /\ Approve(c) => Became(c.run, "approved", run[c.run].lines, run[c.run].shot)
         /\ Withdraw(c) => Became(c.run, "draft", run[c.run].lines, None)
<1>1. c.run \in Runs
  BY DEF Work, Existing
<1>2. QED
  BY <1>1, LinesTyped, RecordChange DEF Submit, Approve, Withdraw, RunStatuses, Typed

-----------------------------------------------------------------------------
(* The advance.                                                            *)
LEMMA BalanceTyped ==
  ASSUME advance \in Advances, NEW paid \in Nat, NEW remaining \in Nat,
         NEW active \in BOOLEAN, Balance(paid, remaining, active)
  PROVE  advance' \in Advances
BY DEF Advances, Balance

LEMMA AdvanceTyped ==
  ASSUME NEW a \in Advances
  PROVE  /\ a.status \in {"rejected", "approved", "completed", "cancelled"}
         /\ a.paid \in Nat /\ a.remaining \in Nat /\ a.active \in BOOLEAN
BY DEF Advances

LEMMA LineAmountTyped ==
  ASSUME NEW lines \in Lines
  PROVE  lines.advance \in Nat /\ lines.wards \in [Installments -> Nat]
BY DEF Lines

LEMMA RepayTyped ==
  ASSUME advance \in Advances, NEW c, c.advance \in Advances, NEW lines \in Lines,
         Repay(c, lines)
  PROVE  advance' \in Advances
<1>1. /\ lines.advance \in Nat
      /\ c.advance.remaining \in Nat /\ c.advance.paid \in Nat
      /\ advance.active \in BOOLEAN
  BY AdvanceTyped, LineAmountTyped
<1> DEFINE amount == Smaller(lines.advance, c.advance.remaining)
<1>2. amount \in Nat /\ amount <= c.advance.remaining
  BY <1>1 DEF Smaller
<1>3. CASE amount = 0
  BY <1>3 DEF Repay
<1>4. CASE amount # 0
  <2>1. Balance(c.advance.paid + amount, c.advance.remaining - amount,
                advance.active /\ c.advance.remaining > amount)
    BY <1>4 DEF Repay
  <2>2. c.advance.paid + amount \in Nat /\ c.advance.remaining - amount \in Nat
    BY <1>1, <1>2
  <2>3. QED
    BY <2>1, <2>2, <1>1, BalanceTyped
<1>5. QED
  BY <1>3, <1>4

LEMMA UnpayTyped ==
  ASSUME advance \in Advances, NEW c, c.advance \in Advances, NEW lines \in Lines,
         Unpay(c, lines)
  PROVE  advance' \in Advances
<1>1. /\ lines.advance \in Nat
      /\ c.advance.remaining \in Nat /\ c.advance.paid \in Nat
      /\ advance.active \in BOOLEAN
  BY AdvanceTyped, LineAmountTyped
<1> DEFINE remaining == Smaller(Principal, c.advance.remaining + lines.advance)
           paid == AtLeast0(c.advance.paid - lines.advance)
<1>2. remaining \in Nat /\ paid \in Nat
  BY <1>1, AmountsAssumption DEF Smaller, AtLeast0
<1>3. CASE lines.advance = 0
  BY <1>3 DEF Unpay
<1>4. CASE lines.advance # 0
  <2>1. Balance(paid, remaining,
                advance.active \/ (c.advance.status = "completed" /\ remaining > 0))
    BY <1>4 DEF Unpay
  <2>2. QED
    BY <2>1, <1>2, <1>1, BalanceTyped
<1>5. QED
  BY <1>3, <1>4

(* The lines that a payment or a reversal works with.                      *)
PaidLines(c) == IF run[c.run].lines = None THEN NoLines ELSE run[c.run].lines
TakenLines(c) == IF run[c.run].lines = None THEN c.shot ELSE run[c.run].lines

LEMMA WorkLinesTyped ==
  ASSUME Typed, NEW c, Work(c)
  PROVE  /\ c.run \in Runs
         /\ Pay(c) => PaidLines(c) \in Lines /\ c.advance \in Advances
         /\ Reverse(c) => TakenLines(c) \in Lines /\ c.advance \in Advances
<1>1. c.run \in Runs /\ c \in Copies
  BY DEF Work, Existing
<1>2. QED
  BY <1>1, LinesTyped, CopyTyped, NoLinesTyped DEF PaidLines, TakenLines, Pay, Reverse

LEMMA WorkKeepsTypes ==
  ASSUME Typed, NEW c, Work(c)
  PROVE  Typed'
<1> DEFINE Half ==
      /\ run' \in [Runs -> Records]
      /\ run'[c.run].period = run[c.run].period
      /\ \A q \in Runs \ {c.run} : run'[q] = run[q]
      /\ closed' \in [Periods -> BOOLEAN]
      /\ posted' \subseteq Runs
      /\ advance' \in Advances
      /\ payment' = payment
      /\ installment' \in Schedules
<1>1. /\ c.run \in Runs /\ c.run \in Existing /\ Operation(c)
      /\ request' = None \/ request' = request
  BY DEF Work, Existing
<1>2. run[c.run].period \in Periods
  BY <1>1 DEF Typed
<1>3. CASE Generate(c)
  <2>1. Balance(advance.paid, advance.remaining,
           advance.active /\ ~(advance.status = "completed" /\ advance.remaining = 0))
    BY <1>3 DEF Generate
  <2>2. advance' \in Advances
    BY <2>1, AdvanceTyped, BalanceTyped DEF Typed
  <2>3. /\ closed' = closed /\ posted' = posted /\ payment' = payment
    BY <1>3 DEF Generate
  <2>4. Half
    BY <2>2, <2>3, <1>3, GenerateChanges DEF Typed, Became
  <2>5. QED
    BY <2>4, <1>1, <1>2 DEF Typed, Existing
<1>4. CASE Pay(c)
  <2>1. Repay(c, PaidLines(c)) /\ installment' = Apply(installment, PaidLines(c))
    BY <1>4 DEF Pay, ApplyInstallments, PaidLines
  <2>2. advance' \in Advances /\ installment' \in Schedules
    BY <2>1, <1>4, WorkLinesTyped, RepayTyped, ApplyTyped DEF Typed
  <2>3. /\ closed' = [closed EXCEPT ![run[c.run].period] = TRUE]
        /\ posted' = posted \cup {c.run} /\ payment' = payment
    BY <1>4 DEF Pay
  <2>4. Half
    BY <2>2, <2>3, <1>1, <1>2, <1>4, PayChanges DEF Typed, Became
  <2>5. QED
    BY <2>4, <1>1, <1>2 DEF Typed, Existing
<1>5. CASE Reverse(c)
  <2>1. /\ Unpay(c, TakenLines(c))
        /\ installment' = Return(installment, Wards(TakenLines(c)))
    BY <1>5 DEF Reverse, ReturnInstallments, TakenLines
  <2>2. advance' \in Advances /\ installment' \in Schedules
    BY <2>1, <1>5, WorkLinesTyped, UnpayTyped, ReturnTyped DEF Typed
  <2>3. /\ closed' = [closed EXCEPT ![run[c.run].period] = FALSE]
        /\ posted' = posted \ {c.run} /\ payment' = payment
    BY <1>5 DEF Reverse, Reopen
  <2>4. Half
    BY <2>2, <2>3, <1>1, <1>2, <1>5, ReverseChanges DEF Typed, Became
  <2>5. QED
    BY <2>4, <1>1, <1>2 DEF Typed, Existing
<1>6. CASE Submit(c) \/ Approve(c) \/ Withdraw(c)
  <2>1. /\ posted' = posted /\ loan' = loan /\ ward' = ward
        /\ closed' = closed \/ closed' = [closed EXCEPT ![run[c.run].period] = FALSE]
    BY <1>6 DEF Submit, Approve, Withdraw, Reopen
  <2>2. Half
    BY <2>1, <1>1, <1>2, <1>6, OtherChanges DEF Typed, Became, loan, ward
  <2>3. QED
    BY <2>2, <1>1, <1>2 DEF Typed, Existing
<1>7. QED
  BY <1>1, <1>3, <1>4, <1>5, <1>6 DEF Operation

-----------------------------------------------------------------------------
(* Actions that are not the work of a service on a run.                    *)
Other ==
  \/ \E r \in Runs : Load(r) \/ Delete(r) \/ \E p \in Periods : Create(r, p)
  \/ Read \/ Abort \/ Complete \/ Cancel
  \/ \E t \in Payments : Credit(t) \/ \E n \in Early : Ask(t, n)
  \/ \E i \in Installments : Defer(i) \/ \E n \in Adjusted[i] : Adjust(i, n)
  \/ CancelSponsorship

LEMMA StepCases ==
  ASSUME Typed, Next
  PROVE  Other \/ \E c : Work(c)
<1>1. CASE \E r \in Runs : Serve(r)
  BY <1>1, ServedIsWork
<1>2. CASE Finish
  BY <1>2, FinishedIsWork
<1>3. QED
  BY <1>1, <1>2 DEF Next, Other

(* What these actions make of the runs.                                    *)
LEMMA CreateChanges ==
  ASSUME Typed, NEW r \in Runs, NEW p \in Periods, Create(r, p)
  PROVE  /\ run' \in [Runs -> Records]
         /\ run[r] = NoRun
         /\ run'[r].status = "draft" /\ run'[r].period = p
         /\ run'[r].lines = None /\ run'[r].shot = None
         /\ \A q \in Runs \ {r} : run'[q] = run[q]
<1> DEFINE new == [status |-> "draft", period |-> p, lines |-> None, shot |-> None]
<1>1. new \in Records
  BY DEF Records, RunStatuses
<1>2. run' = [run EXCEPT ![r] = new]
  BY DEF Create
<1>3. QED
  BY <1>1, <1>2 DEF Create, Typed

LEMMA DeleteChanges ==
  ASSUME Typed, NEW r \in Runs, Delete(r)
  PROVE  /\ run' \in [Runs -> Records] /\ r \in Existing
         /\ run'[r].status = "deleted"
         /\ run'[r].lines = None /\ run'[r].shot = None
         /\ \A q \in Runs \ {r} : run'[q] = run[q]
<1>1. GoneRun = [status |-> "deleted", period |-> None, lines |-> None, shot |-> None]
  BY DEF GoneRun, NoRun
<1>2. GoneRun \in Records
  BY <1>1 DEF Records
<1>3. run' = [run EXCEPT ![r] = GoneRun]
  BY DEF Delete
<1>4. QED
  BY <1>1, <1>2, <1>3 DEF Delete, Typed

LEMMA LoadedIsCopy ==
  ASSUME Typed, NEW r \in Existing
  PROVE  Loaded(r) \in Copies
<1>1. r \in Runs /\ run[r].status \in RunStatuses
  BY DEF Existing
<1>2. run[r].shot \in Lines \cup {None}
  BY <1>1, LinesTyped
<1>3. QED
  BY <1>1, <1>2 DEF Loaded, Copy, Copies

LEMMA ReadRequest ==
  ASSUME Typed, Read
  PROVE  /\ request \in Copies
         /\ request' = [run |-> request.run, status |-> request.status,
                        shot |-> request.shot, advance |-> advance,
                        installment |-> installment]
         /\ request' \in Copies
<1>1. request \in Copies
  BY DEF Typed, Read
<1>2. request' = [run |-> request.run, status |-> request.status, shot |-> request.shot,
                  advance |-> advance, installment |-> installment]
  BY <1>1 DEF Read, Copies
<1>3. advance \in Advances /\ installment \in Schedules
  BY DEF Typed
<1>4. QED
  BY <1>1, <1>2, <1>3, CopyTyped DEF Copies

LEMMA CreditedTyped ==
  ASSUME Typed, NEW t \in Payments, Credit(t)
  PROVE  /\ advance' \in Advances
         /\ payment' \in [Payments -> [asked : Nat, credited : Nat]]
<1> DEFINE amount == Smaller(payment[t].asked, advance.remaining)
<1>1. payment[t].asked \in Nat /\ payment[t] \in [asked : Nat, credited : Nat]
  BY DEF Typed
<1>2. /\ advance.paid \in Nat /\ advance.remaining \in Nat /\ advance.active \in BOOLEAN
  BY AdvanceTyped DEF Typed
<1>3. amount \in Nat /\ amount <= advance.remaining
  BY <1>1, <1>2 DEF Smaller
<1>4. Balance(advance.paid + amount, advance.remaining - amount,
              advance.active /\ advance.remaining > amount)
  BY DEF Credit
<1>5. advance.paid + amount \in Nat /\ advance.remaining - amount \in Nat
  BY <1>2, <1>3
<1>6. advance' \in Advances
  BY <1>2, <1>4, <1>5, BalanceTyped DEF Typed
<1>7. payment' = [payment EXCEPT ![t].credited = amount]
  BY DEF Credit
<1>8. QED
  BY <1>1, <1>3, <1>6, <1>7 DEF Typed

LEMMA InitTyped == Init => Typed
<1> SUFFICES ASSUME Init PROVE Typed
  OBVIOUS
<1>1. NoRun \in Records
  BY DEF NoRun, Records
<1>2. advance \in Advances /\ installment \in Schedules
  BY AmountsAssumption DEF Init, Advances, Schedules, InstallmentStatuses
<1>3. QED
  BY <1>1, <1>2 DEF Init, Typed, Existing, NoRun, RunStatuses

LEMMA StepTyped ==
  ASSUME Typed, [Next]_vars
  PROVE  Typed'
<1>1. CASE UNCHANGED vars
  BY <1>1 DEF Typed, vars, loan, ward, Existing
<1>2. CASE \E c : Work(c)
  BY <1>2, WorkKeepsTypes
<1>3. CASE \E r \in Runs : Load(r)
  BY <1>3, LoadedIsCopy DEF Load, Typed, loan, ward, Existing
<1>4. CASE \E r \in Runs : Delete(r)
  <2>1. PICK r \in Runs : Delete(r)
    BY <1>4
  <2>2. UNCHANGED <<closed, posted, advance, payment, installment, request>>
    BY <2>1 DEF Delete, loan, ward
  <2>3. \A q \in Existing' : q \in Existing /\ run'[q] = run[q]
    BY <2>1, DeleteChanges DEF Existing, RunStatuses
  <2>4. QED
    BY <2>1, <2>2, <2>3, DeleteChanges DEF Typed
<1>5. CASE \E r \in Runs, p \in Periods : Create(r, p)
  <2>1. PICK r \in Runs, p \in Periods : Create(r, p)
    BY <1>5
  <2>2. UNCHANGED <<closed, posted, advance, payment, installment, request>>
    BY <2>1 DEF Create, loan, ward
  <2>3. /\ run'[r].period = p
        /\ \A q \in Runs \ {r} : run'[q] = run[q]
    BY <2>1, CreateChanges
  <2>4. ASSUME NEW q \in Existing' PROVE run'[q].period \in Periods
    <3>1. q \in Runs /\ run'[q].status \in RunStatuses
      BY <2>4 DEF Existing
    <3>2. CASE q # r
      BY <3>1, <3>2, <2>3 DEF Typed, Existing
    <3>3. QED
      BY <3>2, <2>3
  <2>5. QED
    BY <2>1, <2>2, <2>4, CreateChanges DEF Typed
<1>6. CASE Read
  BY <1>6, ReadRequest DEF Read, Typed, loan, ward, Existing
<1>7. CASE Abort
  BY <1>7 DEF Abort, Typed, loan, ward, Existing
<1>8. CASE Complete
  <2>1. advance' \in Advances
    BY <1>8, AdvanceTyped, AmountsAssumption DEF Complete, Advances, AtLeast0, Typed
  <2>2. QED
    BY <2>1, <1>8 DEF Complete, Typed, ward, Existing
<1>9. CASE Cancel
  <2>1. advance' \in Advances
    BY <1>9 DEF Cancel, Advances
  <2>2. QED
    BY <2>1, <1>9 DEF Cancel, Typed, ward, Existing
<1>10. CASE \E t \in Payments : Credit(t)
  <2>1. PICK t \in Payments : Credit(t)
    BY <1>10
  <2>2. QED
    BY <2>1, CreditedTyped DEF Credit, Typed, ward, Existing
<1>11. CASE \E t \in Payments, n \in Early : Ask(t, n)
  <2>1. PICK t \in Payments, n \in Early : Ask(t, n)
    BY <1>11
  <2>2. payment' \in [Payments -> [asked : Nat, credited : Nat]]
    BY <2>1, AmountsAssumption DEF Ask, Typed
  <2>3. QED
    BY <2>1, <2>2 DEF Ask, Typed, ward, Existing
<1>12. CASE \E i \in Installments : Defer(i)
  <2>1. PICK i \in Installments : Defer(i)
    BY <1>12
  <2>2. installment' \in Schedules
    BY <2>1 DEF Defer, Typed, Schedules, InstallmentStatuses
  <2>3. QED
    BY <2>1, <2>2 DEF Defer, Typed, loan, Existing
<1>13. CASE \E i \in Installments : \E n \in Adjusted[i] : Adjust(i, n)
  <2>1. PICK i \in Installments : \E n \in Adjusted[i] : Adjust(i, n)
    BY <1>13
  <2>2. PICK n \in Adjusted[i] : Adjust(i, n)
    BY <2>1
  <2>3. n \in Nat
    BY <2>2, AmountsAssumption
  <2>4. installment' \in Schedules
    BY <2>2, <2>3 DEF Adjust, Typed, Schedules, InstallmentStatuses
  <2>5. QED
    BY <2>2, <2>4 DEF Adjust, Typed, loan, Existing
<1>14. CASE CancelSponsorship
  <2>1. installment' \in Schedules
    BY <1>14 DEF CancelSponsorship, Typed, Schedules, InstallmentStatuses
  <2>2. QED
    BY <2>1, <1>14 DEF CancelSponsorship, Typed, loan, Existing
<1>15. QED
  BY <1>1, <1>2, <1>3, <1>4, <1>5, <1>6, <1>7, <1>8, <1>9, <1>10, <1>11, <1>12, <1>13, <1>14,
     StepCases DEF Other

-----------------------------------------------------------------------------
(* The schedule's remainder, a sum over its installments.                  *)
Counted ==
  /\ schedule \in [remaining : Nat, status : ScheduleStatuses]
  /\ sponsorship \in {"absent", "active", "cancelled"}

(* A request that is about to save has read the installments as well.      *)
Whole == Saving => request.installment \in Schedules

LEMMA DeductedTyped ==
  ASSUME NEW is \in Schedules
  PROVE  Deducted(is) \in Int
<1> DEFINE S == {i \in Installments : is[i].status = "applied"}
           f == [i \in Installments |-> is[i].actual]
<1>1. IsFiniteSet(S)
  BY FiniteAssumption, FS_Subset
<1>2. \A i \in S : f[i] \in Int
  BY DEF Schedules
<1>3. Deducted(is) = SumFunctionOnSet(f, S)
  BY DEF Deducted
<1> HIDE DEF S, f
<1>4. QED
  BY <1>1, <1>2, <1>3, SumInt

LEMMA RecomputedTyped ==
  ASSUME NEW is \in Schedules
  PROVE  Recomputed(is) \in [remaining : Nat, status : {"open", "completed"}]
<1> DEFINE all == {i \in Installments : is[i].status # "absent"}
           n == Planned * Cardinality(all) - Deducted(is)
<1>1. Cardinality(all) \in Nat
  BY FiniteAssumption, FS_Subset, FS_CardinalityType
<1>2. Deducted(is) \in Int
  BY DeductedTyped
<1> DEFINE m == Cardinality(all)
<1>3. n \in Int
  <2>1. m \in Nat /\ Planned \in Nat /\ n = Planned * m - Deducted(is)
    BY <1>1, AmountsAssumption
  <2> HIDE DEF m, n
  <2>2. QED BY <1>2, <2>1
<1>4. Recomputed(is) = [remaining |-> AtLeast0(n),
                        status |-> IF AtLeast0(n) > 0 THEN "open" ELSE "completed"]
  BY DEF Recomputed
<1> HIDE DEF n
<1>5. AtLeast0(n) \in Nat
  BY <1>3 DEF AtLeast0
<1>6. QED
  BY <1>4, <1>5

LEMMA WholeCopy ==
  ASSUME Typed, Whole, NEW c, Work(c), c.advance # None
  PROVE  c.installment \in Schedules
<1>1. c = View(c.run) => c.installment = installment
  BY DEF View, Copy
<1>2. QED
  BY <1>1 DEF Work, Whole, Saving, Typed

LEMMA WorkCounted ==
  ASSUME Typed, Typed', Counted, Whole, NEW c, Work(c)
  PROVE  Counted'
<1>1. Operation(c) /\ installment' \in Schedules
  BY DEF Work, Typed
<1>2. CASE Generate(c)
  BY <1>1, <1>2, RecomputedTyped DEF Generate, Counted, ScheduleStatuses
<1>3. CASE Pay(c)
  <2>1. /\ ApplyInstallments(c, PaidLines(c)) /\ PaidLines(c) \in Lines
        /\ c.installment \in Schedules
    BY <1>3, WholeCopy, WorkLinesTyped DEF Pay, PaidLines
  <2>2. Recomputed(Apply(c.installment, PaidLines(c))) \in [remaining : Nat, status : {"open", "completed"}]
    BY <2>1, ApplyTyped, RecomputedTyped
  <2>3. QED
    BY <2>1, <2>2, <1>3 DEF ApplyInstallments, Pay, Counted, ScheduleStatuses
<1>4. CASE Reverse(c)
  <2>1. /\ ReturnInstallments(c, TakenLines(c))
        /\ c.installment \in Schedules
    BY <1>4, WholeCopy DEF Reverse, TakenLines
  <2>2. Recomputed(Return(c.installment, Wards(TakenLines(c))))
          \in [remaining : Nat, status : {"open", "completed"}]
    BY <2>1, ReturnTyped, RecomputedTyped
  <2>3. QED
    BY <2>1, <2>2, <1>4 DEF ReturnInstallments, Reverse, Counted, ScheduleStatuses
<1>5. CASE Submit(c) \/ Approve(c) \/ Withdraw(c)
  BY <1>5 DEF Submit, Approve, Withdraw, ward, Counted
<1>6. QED
  BY <1>1, <1>2, <1>3, <1>4, <1>5 DEF Operation

LEMMA StepCounted ==
  ASSUME Typed, Typed', Counted, Whole, [Next]_vars
  PROVE  Counted'
<1>1. CASE \E c : Work(c)
  BY <1>1, WorkCounted
<1>2. CASE UNCHANGED ward
  BY <1>2 DEF ward, Counted
<1>3. CASE \E i \in Installments : Defer(i) \/ \E n \in Adjusted[i] : Adjust(i, n)
  <2>1. PICK i \in Installments : Defer(i) \/ \E n \in Adjusted[i] : Adjust(i, n)
    BY <1>3
  <2>2. /\ \/ schedule' = Recomputed(installment')
           \/ schedule' = [schedule EXCEPT !.status = "open"]
        /\ sponsorship' = sponsorship
    BY <2>1 DEF Defer, Adjust
  <2>3. Recomputed(installment') \in [remaining : Nat, status : {"open", "completed"}]
    BY RecomputedTyped DEF Typed
  <2>4. QED
    BY <2>2, <2>3 DEF Counted, ScheduleStatuses
<1>4. CASE CancelSponsorship
  BY <1>4 DEF CancelSponsorship, Counted, ScheduleStatuses
<1>5. Other => \/ UNCHANGED ward \/ CancelSponsorship
               \/ \E i \in Installments : Defer(i) \/ \E n \in Adjusted[i] : Adjust(i, n)
  BY DEF Other, Load, Delete, Create, Read, Abort, Complete, Cancel, Credit, Ask
<1>6. QED
  BY <1>1, <1>2, <1>3, <1>4, <1>5, StepCases DEF vars

LEMMA StepWhole ==
  ASSUME Typed, Whole, [Next]_vars
  PROVE  Whole'
<1>1. CASE UNCHANGED request \/ request' = None
  BY <1>1 DEF Whole, Saving
<1>2. CASE \E r \in Runs : Load(r)
  BY <1>2 DEF Load, Loaded, Copy, Whole, Saving
<1>3. CASE Read
  BY <1>3, ReadRequest DEF Typed, Whole
<1>4. Other => \/ UNCHANGED request \/ request' = None
               \/ Read \/ \E r \in Runs : Load(r)
  BY DEF Other, Delete, Create, Abort, Complete, Cancel, Credit, Ask, Defer, Adjust,
         CancelSponsorship
<1>5. (\E c : Work(c)) => UNCHANGED request \/ request' = None
  BY DEF Work
<1>6. QED
  BY <1>1, <1>2, <1>3, <1>4, <1>5, StepCases DEF vars

LEMMA StepFaults ==
  ASSUME Typed, suffered \subseteq Faults, [Next]_vars
  PROVE  suffered' \subseteq Faults
<1>1. \A c : Operation(c) => suffered' \subseteq Faults
  BY DEF Operation, Generate, Submit, Approve, Pay, Withdraw, Reverse, Suffer
<1>2. Other => suffered' \subseteq Faults
  BY DEF Other, Load, Delete, Create, Read, Abort, Complete, Cancel, Credit, Ask, Defer,
         Adjust, CancelSponsorship, Suffer
<1>3. QED
  BY <1>1, <1>2, StepCases DEF Work, vars

(* Every variable keeps its type, whatever faults happen: the runs, the    *)
(* advance and the requests through the services of payroll_v2, and the    *)
(* schedule's remainder, which they recompute from the installments that   *)
(* they have read.                                                         *)
THEOREM TypeCorrect == Spec => []TypeOK
<1> DEFINE All == Typed /\ Counted /\ Whole /\ suffered \subseteq Faults
<1>1. Init => All
  <2>1. Init => Typed
    BY InitTyped
  <2>2. Init => Counted
    BY <2>1, RecomputedTyped DEF Init, Counted, Typed, ScheduleStatuses
  <2>3. QED
    BY <2>1, <2>2 DEF Init, Whole, Saving
<1>2. All /\ [Next]_vars => All'
  BY StepTyped, StepCounted, StepWhole, StepFaults
<1>3. All => TypeOK
  BY DEF Typed, Counted, TypeOK
<1> HIDE DEF All
<1>4. QED
  BY <1>1, <1>2, <1>3, PTL DEF Spec

-----------------------------------------------------------------------------
(* Nothing is withheld, or will be restored, for an advance that has not   *)
(* been disbursed, and a request that is about to save the advance has     *)
(* read one that adds up.                                                  *)
Free(lines) == lines = None \/ lines.advance = 0
NotYet(a) == a.status \in {"approved", "rejected"}
AddsUp(a) == a.status = "completed" => a.paid + a.remaining = Principal

Kept(c) ==
  /\ AddsUp(c.advance)
  /\ NotYet(c.advance) => Free(run[c.run].lines) /\ Free(c.shot)
  /\ c.advance.status = "cancelled" => advance.status = "cancelled"

LoanInv ==
  /\ AddsUp(advance)
  /\ NotYet(advance) =>
       /\ advance.paid = 0 /\ ~advance.active
       /\ \A r \in Runs : Free(run[r].lines) /\ Free(run[r].shot)
       /\ request # None => Free(request.shot)
  /\ Saving => Kept(request)

LEMMA WorkKept ==
  ASSUME Typed, LoanInv, NEW c, Work(c)
  PROVE  /\ c.advance # None => Kept(c)
         /\ NotYet(advance) => Free(c.shot)
<1>1. c.run \in Runs /\ c \in Copies
  BY DEF Work, Existing
<1>2. CASE c = View(c.run)
  <2>1. c.advance = advance /\ c.shot = run[c.run].shot
    BY <1>2 DEF View, Copy
  <2>2. QED
    BY <2>1, <1>1 DEF LoanInv, Kept
<1>3. CASE request # None /\ c = request
  BY <1>3 DEF LoanInv, Saving
<1>4. QED
  BY <1>2, <1>3 DEF Work

(* The advance after lines have been applied or reverted.                  *)
LEMMA RepayAddsUp ==
  ASSUME advance \in Advances, NEW c, c.advance \in Advances, NEW lines \in Lines,
         Repay(c, lines), AddsUp(advance),
         lines.advance > 0 /\ advance.status = "completed" =>
           c.advance.paid + c.advance.remaining = Principal
  PROVE  /\ advance'.status = advance.status
         /\ AddsUp(advance')
         /\ lines.advance = 0 => advance' = advance
<1>1. /\ lines.advance \in Nat
      /\ c.advance.remaining \in Nat /\ c.advance.paid \in Nat
  BY AdvanceTyped, LineAmountTyped
<1> DEFINE amount == Smaller(lines.advance, c.advance.remaining)
<1>2. amount \in Nat /\ (lines.advance = 0 => amount = 0)
  BY <1>1 DEF Smaller
<1>3. CASE amount = 0
  BY <1>3 DEF Repay
<1>4. CASE amount # 0
  <2>1. Balance(c.advance.paid + amount, c.advance.remaining - amount,
                advance.active /\ c.advance.remaining > amount)
    BY <1>4 DEF Repay
  <2>2. lines.advance > 0
    BY <1>1, <1>2, <1>4
  <2>3. QED
    BY <2>1, <2>2, <1>1, <1>2, <1>4, AmountsAssumption DEF Balance, AddsUp
<1>5. QED
  BY <1>3, <1>4

LEMMA UnpayAddsUp ==
  ASSUME advance \in Advances, NEW c, c.advance \in Advances, NEW lines \in Lines,
         Unpay(c, lines), AddsUp(advance),
         lines.advance > 0 /\ advance.status = "completed" =>
           c.advance.paid + c.advance.remaining = Principal
  PROVE  /\ advance'.status = advance.status
         /\ AddsUp(advance')
         /\ lines.advance = 0 => advance' = advance
<1>1. /\ lines.advance \in Nat
      /\ c.advance.remaining \in Nat /\ c.advance.paid \in Nat
  BY AdvanceTyped, LineAmountTyped
<1> DEFINE remaining == Smaller(Principal, c.advance.remaining + lines.advance)
           paid == AtLeast0(c.advance.paid - lines.advance)
<1>2. CASE lines.advance = 0
  BY <1>2 DEF Unpay
<1>3. CASE lines.advance # 0
  <2>1. Balance(paid, remaining,
                advance.active \/ (c.advance.status = "completed" /\ remaining > 0))
    BY <1>3 DEF Unpay
  <2>2. /\ advance'.status = advance.status
        /\ advance'.paid = paid /\ advance'.remaining = remaining
    BY <2>1 DEF Balance
  <2>3. c.advance.paid + c.advance.remaining = Principal => paid + remaining = Principal
    BY <1>1, AmountsAssumption DEF Smaller, AtLeast0
  <2>4. lines.advance > 0
    BY <1>1, <1>3
  <2>5. QED
    BY <2>2, <2>3, <2>4, <1>3 DEF AddsUp
<1>4. QED
  BY <1>2, <1>3

LEMMA WorkLoan ==
  ASSUME Typed, LoanInv, NEW c, Work(c)
  PROVE  LoanInv'
<1> DEFINE Half ==
      /\ advance'.status = advance.status /\ AddsUp(advance')
      /\ NotYet(advance) =>
           /\ advance'.paid = 0 /\ ~advance'.active
           /\ Free(run'[c.run].lines) /\ Free(run'[c.run].shot)
      /\ \A q \in Runs \ {c.run} : run'[q] = run[q]
<1>1. c.run \in Runs /\ c \in Copies /\ Operation(c)
  BY DEF Work, Existing
<1>2. SUFFICES Half
  <2>1. CASE request' = None
    BY <2>1, <1>1, Half DEF LoanInv, NotYet, Saving
  <2>2. CASE request' = request /\ ~(Saving /\ request.run = c.run)
    <3>1. Saving => request.run \in Runs \ {c.run}
      BY <2>2, CopyTyped DEF Typed, Saving
    <3>2. (Saving => Kept(request))'
      BY <3>1, <2>2, Half DEF LoanInv, Saving, Kept
    <3>3. QED
      BY <3>2, <2>2, <1>1, Half DEF LoanInv, NotYet
  <2>3. QED
    BY <2>1, <2>2 DEF Work
<1>3. CASE Generate(c)
  <2>1. Balance(advance.paid, advance.remaining,
           advance.active /\ ~(advance.status = "completed" /\ advance.remaining = 0))
    BY <1>3 DEF Generate
  <2>2. /\ advance'.status = advance.status /\ advance'.paid = advance.paid
        /\ advance'.remaining = advance.remaining
        /\ ~advance.active => ~advance'.active
    BY <2>1 DEF Balance
  <2>3. PICK lines \in Lines :
          /\ lines.advance = AdvanceLine
          /\ Became(c.run, "draft", lines, run[c.run].shot)
    BY <1>3, GenerateChanges
  <2>4. NotYet(advance) => Free(lines)
    BY <2>3 DEF AdvanceLine, NotYet, Free
  <2>5. QED
    BY <2>2, <2>3, <2>4, <1>1 DEF Became, LoanInv, AddsUp
<1>4. CASE Pay(c)
  <2>1. Repay(c, PaidLines(c)) /\ Became(c.run, "paid", None, Snapshot(c))
    BY <1>4, PayChanges DEF Pay, PaidLines
  <2>2. PaidLines(c) \in Lines /\ c.advance \in Advances /\ Kept(c)
    BY <1>4, WorkLinesTyped, WorkKept DEF Pay
  <2>3. Free(run[c.run].lines) => PaidLines(c).advance = 0
    BY DEF Free, PaidLines, NoLines
  <2>4. PaidLines(c).advance > 0 /\ advance.status = "completed" =>
          c.advance.paid + c.advance.remaining = Principal
    BY <2>2, <2>3, AdvanceTyped DEF Kept, NotYet, AddsUp
  <2>5. /\ advance'.status = advance.status /\ AddsUp(advance')
        /\ PaidLines(c).advance = 0 => advance' = advance
    BY <2>1, <2>2, <2>4, RepayAddsUp DEF Typed, LoanInv
  <2>6. NotYet(advance) => /\ advance' = advance
                           /\ Free(run'[c.run].lines) /\ Free(run'[c.run].shot)
    BY <2>1, <2>3, <2>5, <1>1 DEF LoanInv, Became, Snapshot, Free
  <2>7. QED
    BY <2>1, <2>5, <2>6 DEF Became, LoanInv
<1>5. CASE Reverse(c)
  <2>1. Unpay(c, TakenLines(c))
    BY <1>5 DEF Reverse, TakenLines
  <2>2. Became(c.run, "draft", TakenLines(c), None)
    BY <1>5, ReverseChanges DEF TakenLines
  <2>3. TakenLines(c) \in Lines /\ c.advance \in Advances /\ Kept(c)
    BY <1>5, WorkLinesTyped, WorkKept DEF Reverse
  <2>4. Free(run[c.run].lines) /\ Free(c.shot) => TakenLines(c).advance = 0
    BY <2>3, NoneAssumption DEF Free, TakenLines
  <2>5. TakenLines(c).advance > 0 /\ advance.status = "completed" =>
          c.advance.paid + c.advance.remaining = Principal
    BY <2>3, <2>4, AdvanceTyped DEF Kept, NotYet, AddsUp
  <2>6. /\ advance'.status = advance.status /\ AddsUp(advance')
        /\ TakenLines(c).advance = 0 => advance' = advance
    BY <2>1, <2>3, <2>5, UnpayAddsUp DEF Typed, LoanInv
  <2>7. NotYet(advance) => /\ advance' = advance
                           /\ Free(run'[c.run].lines) /\ Free(run'[c.run].shot)
    BY <2>2, <2>4, <2>6, <1>1, WorkKept DEF LoanInv, Became, Free
  <2>8. QED
    BY <2>2, <2>6, <2>7 DEF Became, LoanInv
<1>6. CASE Submit(c) \/ Approve(c) \/ Withdraw(c)
  <2>1. advance' = advance
    BY <1>6 DEF Submit, Approve, Withdraw, loan
  <2>2. /\ run'[c.run].lines = run[c.run].lines
        /\ run'[c.run].shot \in {run[c.run].shot, None}
        /\ \A q \in Runs \ {c.run} : run'[q] = run[q]
    BY <1>6, OtherChanges DEF Became
  <2>3. QED
    BY <2>1, <2>2, <1>1 DEF LoanInv, Free
<1>7. QED
  BY <1>1, <1>3, <1>4, <1>5, <1>6 DEF Operation

LEMMA CreditAddsUp ==
  ASSUME advance \in Advances, NEW t \in Payments, Credit(t),
         payment[t].asked \in Nat, AddsUp(advance)
  PROVE  advance'.status = "completed" /\ AddsUp(advance')
<1> DEFINE amount == Smaller(payment[t].asked, advance.remaining)
<1>1. advance.paid \in Nat /\ advance.remaining \in Nat /\ amount \in Nat
  BY AdvanceTyped DEF Smaller
<1>2. /\ advance'.status = advance.status /\ advance.status = "completed"
      /\ advance'.paid = advance.paid + amount
      /\ advance'.remaining = advance.remaining - amount
  BY DEF Credit, Balance
<1>3. QED
  BY <1>1, <1>2, AmountsAssumption DEF AddsUp

LEMMA InitLoan == Init => LoanInv
BY DEF Init, LoanInv, AddsUp, NotYet, Free, NoRun, Saving

LEMMA StepLoan ==
  ASSUME Typed, LoanInv, [Next]_vars
  PROVE  LoanInv'
<1>1. CASE UNCHANGED vars
  BY <1>1 DEF LoanInv, Saving, Kept, vars, loan
<1>2. CASE \E c : Work(c)
  BY <1>2, WorkLoan
<1>3. CASE \E r \in Runs : Load(r)
  <2>1. PICK r \in Runs : Load(r)
    BY <1>3
  <2>2. /\ request'.advance = None /\ request'.shot = run[r].shot
        /\ run' = run /\ advance' = advance
    BY <2>1 DEF Load, Loaded, Copy, loan
  <2>3. QED
    BY <2>2 DEF LoanInv, Saving
<1>4. CASE \E r \in Runs : Delete(r)
  <2>1. PICK r \in Runs : Delete(r)
    BY <1>4
  <2>2. request' = request /\ advance' = advance
    BY <2>1 DEF Delete, loan
  <2>3. \A q \in Runs : \/ run'[q] = run[q]
                        \/ run'[q].lines = None /\ run'[q].shot = None
    BY <2>1, DeleteChanges
  <2>4. (Saving => Kept(request))'
    BY <2>2, <2>3, CopyTyped DEF LoanInv, Saving, Kept, Typed, Free
  <2>5. QED
    BY <2>2, <2>3, <2>4 DEF LoanInv, Free
<1>5. CASE \E r \in Runs, p \in Periods : Create(r, p)
  <2>1. PICK r \in Runs, p \in Periods : Create(r, p)
    BY <1>5
  <2>2. request' = request /\ advance' = advance
    BY <2>1 DEF Create, loan
  <2>3. \A q \in Runs : \/ run'[q] = run[q]
                        \/ run'[q].lines = None /\ run'[q].shot = None
    BY <2>1, CreateChanges
  <2>4. (Saving => Kept(request))'
    BY <2>2, <2>3, CopyTyped DEF LoanInv, Saving, Kept, Typed, Free
  <2>5. QED
    BY <2>2, <2>3, <2>4 DEF LoanInv, Free
<1>6. CASE Read
  <2>1. /\ request'.advance = advance /\ request'.shot = request.shot
        /\ request'.run = request.run /\ request'.run \in Runs
        /\ request # None
    BY <1>6, ReadRequest, CopyTyped DEF Read
  <2>2. run' = run /\ advance' = advance
    BY <1>6 DEF Read, loan
  <2>3. QED
    BY <2>1, <2>2 DEF LoanInv, Kept
<1>7. CASE Abort
  BY <1>7 DEF Abort, LoanInv, Saving, loan
<1>8. CASE Complete
  <2>1. /\ advance'.status = "completed"
        /\ advance'.paid = 0 /\ advance'.remaining = Principal
    BY <1>8, AmountsAssumption DEF Complete, LoanInv, NotYet, AtLeast0
  <2>2. run' = run /\ request' = request
    BY <1>8 DEF Complete
  <2>3. (Saving => Kept(request))'
    BY <1>8, <2>2 DEF LoanInv, Saving, Kept, Complete
  <2>4. QED
    BY <2>1, <2>2, <2>3, AmountsAssumption DEF LoanInv, AddsUp, NotYet
<1>9. CASE Cancel
  <2>1. advance'.status = "cancelled" /\ advance.status = "completed"
    BY <1>9 DEF Cancel
  <2>2. run' = run /\ request' = request
    BY <1>9 DEF Cancel
  <2>3. QED
    BY <2>1, <2>2 DEF LoanInv, AddsUp, NotYet, Saving, Kept
<1>10. CASE \E t \in Payments : Credit(t)
  <2>1. PICK t \in Payments : Credit(t)
    BY <1>10
  <2>2. payment[t].asked \in Nat /\ advance.status = "completed"
    BY <2>1 DEF Typed, Credit
  <2>3. advance'.status = "completed" /\ AddsUp(advance')
    BY <2>1, <2>2, CreditAddsUp DEF Typed, LoanInv
  <2>4. run' = run /\ request' = request
    BY <2>1 DEF Credit
  <2>5. QED
    BY <2>2, <2>3, <2>4 DEF LoanInv, NotYet, Saving, Kept
<1>11. CASE \E t \in Payments, n \in Early : Ask(t, n)
  BY <1>11 DEF Ask, LoanInv, Saving, Kept
<1>12. CASE \E i \in Installments : Defer(i) \/ \E n \in Adjusted[i] : Adjust(i, n)
  BY <1>12 DEF Defer, Adjust, LoanInv, Saving, Kept, loan
<1>13. CASE CancelSponsorship
  BY <1>13 DEF CancelSponsorship, LoanInv, Saving, Kept, loan
<1>14. QED
  BY <1>1, <1>2, <1>3, <1>4, <1>5, <1>6, <1>7, <1>8, <1>9, <1>10, <1>11, <1>12, <1>13,
     StepCases DEF Other

(* What is repaid and what is owed of a disbursed advance make up its      *)
(* principal: whatever lines are capped, lost, reversed twice or applied   *)
(* on outdated runs by the payments and reversals of payroll_v2.           *)
THEOREM AdvanceAlwaysAddsUp == Spec => []AdvanceAddsUp
<1>1. Typed /\ LoanInv /\ [Next]_vars => Typed' /\ LoanInv'
  BY StepTyped, StepLoan
<1>2. Init => Typed /\ LoanInv
  BY InitTyped, InitLoan
<1>3. LoanInv => AdvanceAddsUp
  BY DEF LoanInv, AddsUp, AdvanceAddsUp
<1>4. QED
  BY <1>1, <1>2, <1>3, PTL DEF Spec

-----------------------------------------------------------------------------
(* Faults are remembered, and a request that suffers none worked with the  *)
(* status and the snapshot of its run.                                     *)
LEMMA FaultsStay == [Next]_vars => suffered \subseteq suffered'
<1> SUFFICES ASSUME [Next]_vars PROVE suffered \subseteq suffered'
  OBVIOUS
<1>1. \A c : Operation(c) => suffered \subseteq suffered'
  BY DEF Operation, Generate, Submit, Approve, Pay, Withdraw, Reverse, Suffer
<1>2. CASE UNCHANGED vars
  BY <1>2 DEF vars
<1>3. CASE Next
  BY <1>1, <1>3 DEF Next, Load, Serve, Delete, Create, Read, Finish, Abort, Complete, Cancel,
     Credit, Ask, Defer, Adjust, CancelSponsorship, Suffer
<1>4. QED
  BY <1>2, <1>3

LEMMA UpToDate ==
  ASSUME NEW c, Work(c), "overlap" \notin suffered'
  PROVE  c.status = run[c.run].status /\ c.shot = run[c.run].shot
<1>1. Outdated(c) \subseteq suffered'
  BY DEF Work, Operation, Generate, Submit, Approve, Pay, Withdraw, Reverse, Suffer
<1>2. QED
  BY <1>1 DEF Outdated

-----------------------------------------------------------------------------
(* The recurring deduction of the advance.                                 *)
Active(a) == a.active <=> a.status = "completed" /\ a.remaining > 0
ActiveInv == "lost" \notin suffered => Active(advance)

LEMMA NotLost ==
  ASSUME NEW c, Work(c), "lost" \notin suffered'
  PROVE  /\ Pay(c) => (PaidLines(c).advance > 0 => c.advance = advance)
         /\ Pay(c) => (Wards(PaidLines(c)) # {} => c.installment = installment)
         /\ Reverse(c) => (TakenLines(c).advance > 0 => c.advance = advance)
         /\ Reverse(c) => (Wards(TakenLines(c)) # {} => c.installment = installment)
<1>1. Pay(c) => Lost(c, PaidLines(c)) \subseteq suffered'
  BY DEF Pay, PaidLines, Suffer
<1>2. Reverse(c) => Lost(c, TakenLines(c)) \subseteq suffered'
  BY DEF Reverse, TakenLines, Suffer
<1>3. QED
  BY <1>1, <1>2 DEF Lost

LEMMA RepayActive ==
  ASSUME advance \in Advances, NEW c, c.advance \in Advances, NEW lines \in Lines,
         Repay(c, lines), Active(advance), lines.advance > 0 => c.advance = advance
  PROVE  Active(advance')
<1>1. /\ lines.advance \in Nat /\ c.advance.remaining \in Nat
      /\ advance.remaining \in Nat /\ advance.active \in BOOLEAN
  BY AdvanceTyped, LineAmountTyped
<1> DEFINE amount == Smaller(lines.advance, c.advance.remaining)
<1>2. CASE amount = 0
  BY <1>2 DEF Repay
<1>3. CASE amount # 0
  <2>1. /\ c.advance = advance /\ amount \in Nat /\ amount > 0
        /\ amount <= advance.remaining
    BY <1>1, <1>3 DEF Smaller
  <2>2. Balance(advance.paid + amount, advance.remaining - amount,
                advance.active /\ advance.remaining > amount)
    BY <2>1, <1>3 DEF Repay
  <2>3. /\ advance'.status = advance.status
        /\ advance'.remaining = advance.remaining - amount
        /\ advance'.active <=> advance.active /\ advance.remaining > amount
    BY <2>2 DEF Balance
  <2>4. advance.remaining - amount > 0 <=> advance.remaining > amount
    BY <2>1, <1>1
  <2>5. advance.remaining > amount => advance.remaining > 0
    BY <2>1, <1>1
  <2>6. QED
    BY <2>3, <2>4, <2>5, Zenon DEF Active
<1>4. QED
  BY <1>2, <1>3

LEMMA UnpayActive ==
  ASSUME advance \in Advances, NEW c, c.advance \in Advances, NEW lines \in Lines,
         Unpay(c, lines), Active(advance), lines.advance > 0 => c.advance = advance
  PROVE  Active(advance')
<1>1. /\ lines.advance \in Nat /\ advance.remaining \in Nat /\ advance.active \in BOOLEAN
  BY AdvanceTyped, LineAmountTyped
<1> DEFINE remaining == Smaller(Principal, c.advance.remaining + lines.advance)
<1>2. CASE lines.advance = 0
  BY <1>2 DEF Unpay
<1>3. CASE lines.advance # 0
  <2>1. c.advance = advance
    BY <1>1, <1>3
  <2>2. Balance(AtLeast0(advance.paid - lines.advance), remaining,
                advance.active \/ (advance.status = "completed" /\ remaining > 0))
    BY <2>1, <1>3 DEF Unpay
  <2>3. /\ advance'.status = advance.status /\ advance'.remaining = remaining
        /\ advance'.active <=> advance.active \/ (advance.status = "completed" /\ remaining > 0)
    BY <2>2 DEF Balance
  <2>4. advance.remaining > 0 => remaining > 0
    BY <2>1, <1>1, AmountsAssumption DEF Smaller
  <2>5. QED
    BY <2>3, <2>4, Zenon DEF Active
<1>4. QED
  BY <1>2, <1>3

LEMMA WorkActive ==
  ASSUME Typed, ActiveInv, NEW c, Work(c), suffered \subseteq suffered'
  PROVE  ActiveInv'
<1> SUFFICES ASSUME "lost" \notin suffered' PROVE Active(advance')
  BY DEF ActiveInv, Active
<1>1. Active(advance) /\ advance \in Advances /\ Operation(c)
  BY DEF ActiveInv, Typed, Work
<1>2. CASE Generate(c)
  <2>1. /\ advance'.status = advance.status /\ advance'.remaining = advance.remaining
        /\ advance'.active <=>
             advance.active /\ ~(advance.status = "completed" /\ advance.remaining = 0)
    BY <1>2 DEF Generate, Balance
  <2>2. advance.remaining > 0 => advance.remaining # 0
    BY <1>1, AdvanceTyped
  <2>3. QED
    BY <2>1, <2>2, <1>1, Zenon DEF Active
<1>3. CASE Pay(c)
  <2>1. Repay(c, PaidLines(c))
    BY <1>3 DEF Pay, PaidLines
  <2>2. QED
    BY <2>1, <1>1, <1>3, NotLost, WorkLinesTyped, RepayActive
<1>4. CASE Reverse(c)
  <2>1. Unpay(c, TakenLines(c))
    BY <1>4 DEF Reverse, TakenLines
  <2>2. QED
    BY <2>1, <1>1, <1>4, NotLost, WorkLinesTyped, UnpayActive
<1>5. CASE Submit(c) \/ Approve(c) \/ Withdraw(c)
  BY <1>1, <1>5 DEF Submit, Approve, Withdraw, loan
<1>6. QED
  BY <1>1, <1>2, <1>3, <1>4, <1>5 DEF Operation

LEMMA CreditActive ==
  ASSUME Typed, NEW t \in Payments, Credit(t), Active(advance)
  PROVE  Active(advance')
<1> DEFINE amount == Smaller(payment[t].asked, advance.remaining)
<1>1. /\ advance.remaining \in Nat /\ advance.active \in BOOLEAN
      /\ payment[t].asked \in Nat
  BY AdvanceTyped DEF Typed
<1>2. amount \in Nat /\ amount > 0 /\ amount <= advance.remaining
  BY <1>1 DEF Credit, Smaller
<1>3. /\ advance'.status = advance.status
      /\ advance'.remaining = advance.remaining - amount
      /\ advance'.active <=> advance.active /\ advance.remaining > amount
  BY DEF Credit, Balance
<1>4. /\ advance.remaining - amount > 0 <=> advance.remaining > amount
      /\ advance.remaining > 0
  BY <1>1, <1>2
<1>5. QED
  BY <1>3, <1>4, Zenon DEF Active

LEMMA StepActive ==
  ASSUME Typed, LoanInv, ActiveInv, [Next]_vars
  PROVE  ActiveInv'
<1>1. suffered \subseteq suffered'
  BY FaultsStay
<1>2. CASE \E c : Work(c)
  BY <1>1, <1>2, WorkActive
<1>3. CASE UNCHANGED advance
  BY <1>1, <1>3 DEF ActiveInv
<1>4. CASE Complete
  BY <1>4, AmountsAssumption DEF Complete, LoanInv, NotYet, AtLeast0, ActiveInv, Active
<1>5. CASE Cancel
  BY <1>5 DEF Cancel, ActiveInv, Active
<1>6. CASE \E t \in Payments : Credit(t)
  <2>1. suffered' = suffered
    BY <1>6 DEF Credit
  <2>2. "lost" \notin suffered => Active(advance')
    BY <1>6, CreditActive DEF ActiveInv
  <2>3. QED
    BY <2>1, <2>2 DEF ActiveInv, Active
<1>7. Other => \/ UNCHANGED advance \/ Complete \/ Cancel
               \/ \E t \in Payments : Credit(t)
  BY DEF Other, Load, Delete, Create, Read, Abort, Ask, Defer, Adjust, CancelSponsorship, loan
<1>8. QED
  BY <1>2, <1>3, <1>4, <1>5, <1>6, <1>7, StepCases DEF vars, loan

(* While something is owed of a disbursed advance, and only then, is its   *)
(* recurring deduction active: payments, reversals and early repayments    *)
(* that are not lost never leave it behind the balance.                    *)
THEOREM DeductionFollowsDebt == Spec => []OwedIsDeducted
<1>1. Typed /\ LoanInv /\ ActiveInv /\ [Next]_vars => Typed' /\ LoanInv' /\ ActiveInv'
  BY StepTyped, StepLoan, StepActive
<1>2. Init => Typed /\ LoanInv /\ ActiveInv
  <2>1. Init => advance.status # "completed" /\ ~advance.active
    BY DEF Init
  <2>2. QED
    BY <2>1, InitTyped, InitLoan, Zenon DEF ActiveInv, Active
<1>3. ActiveInv => OwedIsDeducted
  BY DEF ActiveInv, Active, OwedIsDeducted, Calm
<1>4. QED
  BY <1>1, <1>2, <1>3, PTL DEF Spec

-----------------------------------------------------------------------------
(* The remainder of the schedule.                                          *)
LEMMA NothingApplied ==
  ASSUME NEW is \in Schedules, NEW lines, Wards(lines) = {}
  PROVE  Apply(is, lines) = is
BY DEF Schedules, Wards, Apply

LEMMA NothingReturned ==
  ASSUME NEW is \in Schedules
  PROVE  Return(is, {}) = is
BY DEF Schedules, Return

(* A cancelled schedule is never the result of a recomputation.            *)
LEMMA RecomputedStatus ==
  ASSUME NEW is
  PROVE  Recomputed(is).status # "cancelled"
BY DEF Recomputed

(* The remainder counts what is deducted, and which installments there are.*)
LEMMA RecomputedSame ==
  ASSUME NEW is, NEW js,
         \A i \in Installments :
           /\ js[i].actual = is[i].actual
           /\ js[i].status = "applied" <=> is[i].status = "applied"
           /\ js[i].status = "absent" <=> is[i].status = "absent"
  PROVE  Recomputed(js) = Recomputed(is)
<1>1. /\ [i \in Installments |-> js[i].actual] = [i \in Installments |-> is[i].actual]
      /\ {i \in Installments : js[i].status = "applied"}
           = {i \in Installments : is[i].status = "applied"}
      /\ {i \in Installments : js[i].status # "absent"}
           = {i \in Installments : is[i].status # "absent"}
  OBVIOUS
<1>2. Deducted(js) = Deducted(is)
  BY <1>1 DEF Deducted
<1>3. QED
  BY <1>1, <1>2 DEF Recomputed

Right ==
  IF schedule.status = "cancelled" THEN schedule.remaining = 0 /\ Applied = {}
  ELSE schedule.remaining = Recomputed(installment).remaining

RemainderInv == {"lost", "changed"} \cap suffered = {} => Right

LEMMA StepRemainder ==
  ASSUME Typed, Counted, RemainderInv, [Next]_vars
  PROVE  RemainderInv'
<1> SUFFICES ASSUME {"lost", "changed"} \cap suffered' = {}
             PROVE  Right'
  BY DEF RemainderInv
<1>1. Right /\ installment \in Schedules
  BY FaultsStay DEF RemainderInv, Typed
<1>2. CASE UNCHANGED ward
  BY <1>1, <1>2 DEF ward, Right, Applied
<1>3. CASE schedule' = Recomputed(installment')
  BY <1>3, RecomputedStatus DEF Right
<1>4. CASE schedule' = schedule /\ installment' = installment
  BY <1>1, <1>4 DEF Right, Applied
<1>5. ASSUME NEW c, Work(c), Generate(c) PROVE Right'
  BY <1>1, <1>3, <1>4, <1>5, NothingReturned DEF Generate
<1>6. ASSUME NEW c, Work(c), Pay(c) PROVE Right'
  <2>1. ApplyInstallments(c, PaidLines(c))
    BY <1>6 DEF Pay, PaidLines
  <2>2. QED
    BY <1>1, <1>3, <1>4, <1>6, <2>1, NothingApplied, NotLost DEF ApplyInstallments
<1>7. ASSUME NEW c, Work(c), Reverse(c) PROVE Right'
  <2>1. ReturnInstallments(c, TakenLines(c))
    BY <1>7 DEF Reverse, TakenLines
  <2>2. QED
    BY <1>1, <1>3, <1>4, <1>7, <2>1, NothingReturned, NotLost DEF ReturnInstallments
<1>8. ASSUME NEW c, Submit(c) \/ Approve(c) \/ Withdraw(c)
      PROVE  UNCHANGED ward
  BY <1>8 DEF Submit, Approve, Withdraw
<1>9. ASSUME NEW i \in Installments, Defer(i) PROVE Right'
  <2>1. /\ installment[i].status \notin {"absent", "applied"}
        /\ schedule.status # "cancelled"
    BY <1>9 DEF Defer, Suffer
  <2>2. installment' = [installment EXCEPT ![i].status = "due"]
    BY <1>9 DEF Defer
  <2>3. Recomputed(installment') = Recomputed(installment)
    <3>1. \A j \in Installments :
            /\ installment'[j].actual = installment[j].actual
            /\ installment'[j].status = "applied" <=> installment[j].status = "applied"
            /\ installment'[j].status = "absent" <=> installment[j].status = "absent"
      BY <1>1, <2>1, <2>2 DEF Schedules
    <3> DEFINE is == installment
               js == installment'
    <3> HIDE DEF is, js
    <3>2. Recomputed(js) = Recomputed(is)
      BY <3>1, RecomputedSame DEF is, js
    <3>3. QED
      BY <3>2 DEF is, js
  <2>4. schedule'.remaining = schedule.remaining /\ schedule'.status = "open"
    BY <1>9 DEF Defer, Counted
  <2>5. QED
    BY <1>1, <2>1, <2>3, <2>4 DEF Right
<1>10. ASSUME NEW i \in Installments, NEW n \in Adjusted[i], Adjust(i, n) PROVE Right'
  BY <1>3, <1>10 DEF Adjust
<1>11. CASE CancelSponsorship
  <2>1. Applied' = {}
    BY <1>1, <1>11 DEF CancelSponsorship, Applied, Schedules
  <2>2. QED
    BY <2>1, <1>11 DEF CancelSponsorship, Right
<1>12. Other => \/ UNCHANGED ward \/ CancelSponsorship
                \/ \E i \in Installments : Defer(i) \/ \E n \in Adjusted[i] : Adjust(i, n)
  BY DEF Other, Load, Delete, Create, Read, Abort, Complete, Cancel, Credit, Ask
<1>13. QED
  BY <1>2, <1>5, <1>6, <1>7, <1>8, <1>9, <1>10, <1>11, <1>12, StepCases
  DEF Work, Operation, vars

(* What the schedule says remains is its total less what is deducted, or   *)
(* nothing when the sponsorship's cancellation was the last to change it:  *)
(* no order of payments, reversals, deletions, generations and a           *)
(* cancellation forgets to recompute it, but for lost updates, changes of  *)
(* deducted installments and deferrals of cancelled ones.                  *)
THEOREM RemainderStaysRight == Spec => []RemainderIsRight
<1> DEFINE All == Typed /\ Counted /\ Whole /\ RemainderInv
<1>1. All /\ [Next]_vars => All'
  BY StepTyped, StepCounted, StepWhole, StepRemainder
<1>2. Init => All
  <2>1. Init => Typed /\ Whole
    BY InitTyped DEF Init, Whole, Saving
  <2>2. Init => Counted
    BY <2>1, RecomputedTyped DEF Init, Counted, Typed, ScheduleStatuses
  <2>3. Init => RemainderInv
    BY RecomputedStatus DEF Init, RemainderInv, Right
  <2>4. QED
    BY <2>1, <2>2, <2>3
<1>3. All => RemainderIsRight
  BY DEF RemainderInv, Right, RemainderIsRight, Calm
<1> HIDE DEF All
<1>4. QED
  BY <1>1, <1>2, <1>3, PTL DEF Spec

-----------------------------------------------------------------------------
(* Lines and snapshots of a run that is never served on an outdated copy.  *)
Regular(r) ==
  /\ run[r].status \in {"pending", "approved"} => run[r].lines # None
  /\ run[r].status = "paid" => run[r].lines = None /\ run[r].shot # None
  /\ run[r].status # "paid" => run[r].shot = None

Booked(r) == r \in posted <=> run[r].status = "paid"

RunsInv ==
  /\ "overlap" \notin suffered => \A r \in Runs : Regular(r)
  /\ {"overlap", "deleted"} \cap suffered = {} => \A r \in Runs : Booked(r)

(* What the work of a service does to the run it is for, and to no other.  *)
WorksOn(c) ==
  /\ Regular(c.run)' /\ (Booked(c.run) => Booked(c.run)')
  /\ \A r \in Runs \ {c.run} : run'[r] = run[r] /\ (r \in posted' <=> r \in posted)
  /\ run'[c.run].period = run[c.run].period
  /\ run'[c.run].status \in RunStatuses

LEMMA WorkRegular ==
  ASSUME Typed, RunsInv, NEW c, Work(c), suffered \subseteq suffered',
         "overlap" \notin suffered'
  PROVE  WorksOn(c)
<1>1. /\ c.run \in Runs /\ c.run \in Existing /\ Operation(c)
      /\ c.status = run[c.run].status /\ c.shot = run[c.run].shot
      /\ Regular(c.run)
  BY UpToDate DEF Work, Existing, RunsInv
<1>2. CASE Generate(c)
  <2>1. c.status = "draft" /\ posted' = posted
    BY <1>2 DEF Generate
  <2>2. PICK lines \in Lines : Became(c.run, "draft", lines, run[c.run].shot)
    BY <1>2, GenerateChanges
  <2>3. QED
    BY <2>1, <2>2, <1>1 DEF Became, WorksOn, Regular, Booked, RunStatuses
<1>3. CASE Pay(c)
  <2>1. c.status = "approved" /\ posted' = posted \cup {c.run}
    BY <1>3 DEF Pay
  <2>2. Became(c.run, "paid", None, Snapshot(c)) /\ Snapshot(c) # None
    BY <2>1, <1>1, <1>3, PayChanges DEF Snapshot, Regular
  <2>3. QED
    BY <2>1, <2>2, <1>1 DEF Became, WorksOn, Regular, Booked, RunStatuses
<1>4. CASE Reverse(c)
  <2>1. posted' = posted \ {c.run}
    BY <1>4 DEF Reverse
  <2>2. PICK lines \in Lines : Became(c.run, "draft", lines, None)
    BY <1>4, ReverseChanges
  <2>3. QED
    BY <2>1, <2>2, <1>1 DEF Became, WorksOn, Regular, Booked, RunStatuses
<1>5. CASE Submit(c)
  <2>1. c.status = "draft" /\ run[c.run].lines # None /\ posted' = posted
    BY <1>5 DEF Submit
  <2>2. QED
    BY <2>1, <1>1, <1>5, OtherChanges DEF Became, WorksOn, Regular, Booked, RunStatuses
<1>6. CASE Approve(c)
  <2>1. c.status = "pending" /\ posted' = posted
    BY <1>6 DEF Approve
  <2>2. QED
    BY <2>1, <1>1, <1>6, OtherChanges DEF Became, WorksOn, Regular, Booked, RunStatuses
<1>7. CASE Withdraw(c)
  <2>1. c.status \in {"pending", "approved"} /\ posted' = posted
    BY <1>7 DEF Withdraw
  <2>2. QED
    BY <2>1, <1>1, <1>7, OtherChanges DEF Became, WorksOn, Regular, Booked, RunStatuses
<1>8. QED
  BY <1>1, <1>2, <1>3, <1>4, <1>5, <1>6, <1>7 DEF Operation

LEMMA StepRuns ==
  ASSUME Typed, RunsInv, [Next]_vars
  PROVE  RunsInv'
<1>1. suffered \subseteq suffered'
  BY FaultsStay
<1>2. ASSUME NEW c, Work(c) PROVE RunsInv'
  <2>1. "overlap" \notin suffered' => WorksOn(c)
    BY <1>1, <1>2, WorkRegular
  <2>2. QED
    BY <1>1, <1>2, <2>1, WorkLinesTyped DEF WorksOn, RunsInv, Regular, Booked
<1>3. ASSUME NEW r \in Runs, NEW p \in Periods, Create(r, p) PROVE RunsInv'
  <2>1. posted' = posted /\ run[r].status = "absent"
    BY <1>3 DEF Create, NoRun
  <2>2. QED
    BY <1>1, <1>3, <2>1, CreateChanges DEF RunsInv, Regular, Booked
<1>4. ASSUME NEW r \in Runs, Delete(r) PROVE RunsInv'
  <2>1. posted' = posted /\ (run[r].status = "paid" => "deleted" \in suffered')
    BY <1>4 DEF Delete, Paid, Suffer
  <2>2. QED
    BY <1>1, <1>4, <2>1, DeleteChanges DEF RunsInv, Regular, Booked
<1>5. CASE UNCHANGED <<run, posted>>
  BY <1>1, <1>5 DEF RunsInv, Regular, Booked
<1>6. Other => \/ UNCHANGED <<run, posted>>
               \/ \E r \in Runs : Delete(r) \/ \E p \in Periods : Create(r, p)
  BY DEF Other, Load, Read, Abort, Complete, Cancel, Credit, Ask, Defer, Adjust,
         CancelSponsorship
<1>7. QED
  BY <1>2, <1>3, <1>4, <1>5, <1>6, StepCases DEF vars

LEMMA InitRuns == Init => RunsInv
BY DEF Init, RunsInv, Regular, Booked, NoRun

LEMMA RunsAlways == Spec => [](Typed /\ RunsInv)
<1>1. Typed /\ RunsInv /\ [Next]_vars => Typed' /\ RunsInv'
  BY StepTyped, StepRuns
<1>2. Init => Typed /\ RunsInv
  BY InitTyped, InitRuns
<1>3. QED
  BY <1>1, <1>2, PTL DEF Spec

(* A run that is never served on an outdated copy keeps the lines it was   *)
(* paid with for as long as it is paid.                                    *)
THEOREM PaidLinesAreKept == Spec => []PaidRunsKeepLines
<1>1. RunsInv => PaidRunsKeepLines
  BY DEF RunsInv, Regular, PaidRunsKeepLines, Calm, Paid
<1>2. QED
  BY <1>1, RunsAlways, PTL

(* A run that is never served on an outdated copy is posted, and its       *)
(* disbursements are recorded, exactly while it is paid, unless a paid run *)
(* is deleted.                                                             *)
THEOREM PaidRunsAreBooked == Spec => []PostedWhilePaid
<1>1. Typed /\ RunsInv => PostedWhilePaid
  BY DEF Typed, RunsInv, Booked, PostedWhilePaid, Calm, Paid
<1>2. QED
  BY <1>1, RunsAlways, PTL

-----------------------------------------------------------------------------
(* What has been repaid of the advance: a sum over the paid runs, and one  *)
(* over the early repayments.                                              *)
Held(S) == [r \in S |-> run[r].shot.advance]
Withheld == SumFunctionOnSet(Held(Paid), Paid)
Credits == [t \in Payments |-> payment[t].credited]
Credited == SumFunctionOnSet(Credits, Payments)

RepaidInv ==
  {"overlap", "lost", "capped", "deleted"} \cap suffered = {} =>
    advance.paid = Withheld + Credited

LEMMA HeldTyped ==
  ASSUME Typed, \A r \in Runs : Regular(r)
  PROVE  /\ IsFiniteSet(Paid) /\ Paid \in SUBSET Runs
         /\ \A r \in Paid : run[r].shot \in Lines /\ Held(Paid)[r] \in Nat
<1>1. IsFiniteSet(Paid) /\ Paid \in SUBSET Runs
  BY FiniteAssumption, FS_Subset DEF Paid
<1>2. ASSUME NEW r \in Paid PROVE run[r].shot \in Lines /\ Held(Paid)[r] \in Nat
  <2>1. run[r].shot \in Lines
    BY LinesTyped DEF Paid, Regular
  <2>2. QED
    BY <2>1, LineAmountTyped DEF Held
<1>3. QED
  BY <1>1, <1>2

LEMMA CreditsTyped ==
  ASSUME Typed
  PROVE  IsFiniteSet(Payments) /\ \A t \in Payments : Credits[t] \in Nat
BY FiniteAssumption DEF Typed, Credits

LEMMA SumsTyped ==
  ASSUME Typed, \A r \in Runs : Regular(r)
  PROVE  Withheld \in Nat /\ Credited \in Nat
<1>1. Withheld \in Nat
  BY HeldTyped, SumNat DEF Withheld
<1>2. Credited \in Nat
  BY CreditsTyped, SumNat DEF Credited
<1>3. QED
  BY <1>1, <1>2

LEMMA WithheldSame ==
  ASSUME Paid' = Paid, \A r \in Paid : run'[r].shot = run[r].shot
  PROVE  Withheld' = Withheld
<1>1. Held(Paid)' = Held(Paid)
  BY DEF Held
<1>2. QED
  BY <1>1 DEF Withheld

(* Another run is paid.                                                    *)
LEMMA WithheldGains ==
  ASSUME Typed, \A r \in Runs : Regular(r),
         NEW q \in Runs, q \notin Paid, Paid' = Paid \cup {q},
         run'[q].shot.advance \in Nat,
         \A r \in Paid : run'[r].shot = run[r].shot
  PROVE  Withheld' = run'[q].shot.advance + Withheld
<1> DEFINE f == Held(Paid)
           g == Held(Paid)'
           S == Paid
<1>1. IsFiniteSet(S) /\ \A r \in S : f[r] \in Nat
  BY HeldTyped
<1>2. \A r \in S : f[r] = g[r]
  BY DEF Held
<1>3. g[q] = run'[q].shot.advance
  BY DEF Held
<1>4. \A r \in S \cup {q} : g[r] \in Int
  <2> HIDE DEF f, g, S
  <2>1. QED BY <1>1, <1>2, <1>3
<1>5. Withheld = SumFunctionOnSet(f, S) /\ Withheld' = SumFunctionOnSet(g, S \cup {q})
  BY DEF Withheld
<1>6. q \notin S
  OBVIOUS
<1> HIDE DEF f, g, S
<1>7. SumFunctionOnSet(g, S \cup {q}) = g[q] + SumFunctionOnSet(g, S)
  BY <1>1, <1>4, <1>6, SumAdds
<1>8. SumFunctionOnSet(f, S) = SumFunctionOnSet(g, S)
  BY <1>1, <1>2, SumSame
<1>9. QED
  BY <1>3, <1>5, <1>7, <1>8

(* A paid run is reversed.                                                 *)
LEMMA WithheldLoses ==
  ASSUME Typed, \A r \in Runs : Regular(r),
         NEW q \in Paid, Paid' = Paid \ {q},
         \A r \in Paid' : run'[r].shot = run[r].shot
  PROVE  /\ Withheld = run[q].shot.advance + Withheld'
         /\ Withheld' \in Nat /\ run[q].shot.advance \in Nat
<1> DEFINE f == Held(Paid)
           g == Held(Paid)'
           S == Paid
<1>1. IsFiniteSet(S) /\ \A r \in S : f[r] \in Nat /\ f[r] \in Int
  BY HeldTyped
<1>2. \A r \in S \ {q} : f[r] = g[r]
  BY DEF Held
<1>3. f[q] = run[q].shot.advance
  BY DEF Held
<1>4. Withheld = SumFunctionOnSet(f, S) /\ Withheld' = SumFunctionOnSet(g, S \ {q})
  BY DEF Withheld
<1>5. q \in S
  OBVIOUS
<1> HIDE DEF f, g, S
<1>6. SumFunctionOnSet(f, S) = f[q] + SumFunctionOnSet(f, S \ {q})
  BY <1>1, <1>5, SumTakes
<1>7. IsFiniteSet(S \ {q})
  BY <1>1, FS_Subset
<1>8. SumFunctionOnSet(f, S \ {q}) = SumFunctionOnSet(g, S \ {q})
  BY <1>2, <1>7, SumSame
<1>9. SumFunctionOnSet(f, S \ {q}) \in Nat
  BY <1>1, <1>7, SumNat
<1>10. QED
  BY <1>1, <1>3, <1>4, <1>5, <1>6, <1>8, <1>9

LEMMA CreditedSame ==
  ASSUME \A t \in Payments : payment'[t].credited = payment[t].credited
  PROVE  Credited' = Credited
<1>1. Credits' = Credits
  BY DEF Credits
<1>2. QED
  BY <1>1 DEF Credited

LEMMA CreditedGains ==
  ASSUME Typed, NEW t \in Payments, NEW n \in Nat, payment[t].credited = 0,
         payment' = [payment EXCEPT ![t].credited = n]
  PROVE  Credited' = n + Credited
<1> DEFINE f == Credits
           g == Credits'
           S == Payments \ {t}
<1>1. \A s \in S : f[s] = g[s]
  BY DEF Credits, Typed
<1>2. f[t] = 0 /\ g[t] = n
  BY DEF Credits, Typed
<1>3. IsFiniteSet(Payments) /\ \A s \in Payments : f[s] \in Int /\ g[s] \in Int
  <2>1. IsFiniteSet(Payments) /\ \A s \in Payments : f[s] \in Nat
    BY CreditsTyped
  <2> HIDE DEF f, g
  <2>2. QED BY <1>1, <1>2, <2>1
<1>4. Credited = SumFunctionOnSet(f, Payments) /\ Credited' = SumFunctionOnSet(g, Payments)
  BY DEF Credited
<1>5. IsFiniteSet(S)
  BY <1>3, FS_Subset
<1> HIDE DEF f, g
<1>6. SumFunctionOnSet(f, Payments) = f[t] + SumFunctionOnSet(f, S)
  BY <1>3, SumTakes
<1>7. SumFunctionOnSet(g, Payments) = g[t] + SumFunctionOnSet(g, S)
  BY <1>3, SumTakes
<1> HIDE DEF S
<1>8. SumFunctionOnSet(f, S) = SumFunctionOnSet(g, S)
  BY <1>1, <1>5, SumSame
<1>9. SumFunctionOnSet(f, S) \in Int
  BY <1>3, <1>5, SumInt DEF S
<1>10. QED
  BY <1>2, <1>4, <1>6, <1>7, <1>8, <1>9

(* What a payment adds, unless it is capped or lost, and a reversal takes. *)
LEMMA RepayAdds ==
  ASSUME advance \in Advances, NEW c, c.advance \in Advances, NEW lines \in Lines,
         Repay(c, lines), lines.advance > 0 => c.advance = advance,
         ~(lines.advance > c.advance.remaining)
  PROVE  advance'.paid = advance.paid + lines.advance
<1>1. /\ lines.advance \in Nat /\ c.advance.remaining \in Nat /\ advance.paid \in Nat
  BY AdvanceTyped, LineAmountTyped
<1>2. Smaller(lines.advance, c.advance.remaining) = lines.advance
  BY <1>1 DEF Smaller
<1>3. CASE lines.advance = 0
  BY <1>1, <1>2, <1>3 DEF Repay
<1>4. CASE lines.advance # 0
  BY <1>1, <1>2, <1>4 DEF Repay, Balance
<1>5. QED
  BY <1>3, <1>4

LEMMA UnpayTakes ==
  ASSUME advance \in Advances, NEW c, c.advance \in Advances, NEW lines \in Lines,
         Unpay(c, lines), lines.advance > 0 => c.advance = advance,
         NEW rest \in Nat, advance.paid = lines.advance + rest
  PROVE  advance'.paid = rest
<1>1. /\ lines.advance \in Nat /\ advance.paid \in Nat
  BY AdvanceTyped, LineAmountTyped
<1>2. CASE lines.advance = 0
  BY <1>1, <1>2 DEF Unpay
<1>3. CASE lines.advance # 0
  <2>1. AtLeast0(advance.paid - lines.advance) = rest
    BY <1>1 DEF AtLeast0
  <2>2. QED
    BY <2>1, <1>1, <1>3 DEF Unpay, Balance
<1>4. QED
  BY <1>2, <1>3

LEMMA WorkRepaid ==
  ASSUME Typed, Typed', RunsInv, RunsInv', RepaidInv, NEW c, Work(c),
         suffered \subseteq suffered',
         {"overlap", "lost", "capped", "deleted"} \cap suffered' = {}
  PROVE  advance'.paid = Withheld' + Credited'
<1>1. /\ \A r \in Runs : Regular(r)
      /\ \A r \in Runs : Regular(r)'
      /\ advance.paid = Withheld + Credited
  BY DEF RunsInv, RepaidInv
<1>2. /\ c.run \in Runs /\ c.run \in Existing /\ Operation(c)
      /\ c.status = run[c.run].status /\ c.shot = run[c.run].shot
      /\ \A r \in Runs \ {c.run} : run'[r] = run[r]
  BY UpToDate, WorkRegular DEF Work, Existing, WorksOn
<1>3. advance \in Advances /\ Withheld \in Nat /\ Credited \in Nat
  BY <1>1, SumsTyped DEF Typed
<1>4. payment' = payment
  BY <1>2 DEF Operation, Generate, Submit, Approve, Pay, Withdraw, Reverse, loan
<1>5. Credited' = Credited
  BY <1>4, CreditedSame
<1>6. CASE Generate(c)
  <2>1. advance'.paid = advance.paid /\ c.status = "draft"
    BY <1>6 DEF Generate, Balance
  <2>2. run'[c.run].status = "draft"
    BY <1>6, GenerateChanges DEF Became
  <2>3. Paid' = Paid /\ \A r \in Paid : run'[r].shot = run[r].shot
    BY <2>1, <2>2, <1>2 DEF Paid
  <2>4. QED
    BY <2>1, <2>3, <1>1, <1>5, WithheldSame
<1>7. CASE Pay(c)
  <2> DEFINE lines == run[c.run].lines
  <2>1. run[c.run].status = "approved" /\ lines # None /\ c.shot = None
    BY <1>1, <1>2, <1>7 DEF Pay, Regular
  <2>2. run'[c.run].status = "paid" /\ run'[c.run].shot = lines
    BY <2>1, <1>7, PayChanges DEF Became, Snapshot
  <2>3. PaidLines(c) = lines /\ lines \in Lines /\ c.advance \in Advances
    BY <2>1, <1>7, WorkLinesTyped DEF PaidLines
  <2>4. /\ Repay(c, lines) /\ ~(lines.advance > c.advance.remaining)
        /\ lines.advance > 0 => c.advance = advance
    BY <2>1, <2>3, <1>7, NotLost DEF Pay, Suffer
  <2>5. advance'.paid = advance.paid + lines.advance
    BY <2>3, <2>4, <1>3, RepayAdds
  <2>6. c.run \notin Paid /\ Paid' = Paid \cup {c.run}
        /\ \A r \in Paid : run'[r].shot = run[r].shot
    BY <2>1, <2>2, <1>2 DEF Paid
  <2>7. lines.advance \in Nat
    BY <2>3, LineAmountTyped
  <2>8. Withheld' = lines.advance + Withheld
    BY <2>2, <2>6, <2>7, <1>1, <1>2, WithheldGains
  <2> HIDE DEF lines
  <2>9. QED
    BY <2>5, <2>7, <2>8, <1>1, <1>3, <1>5
<1>8. CASE Reverse(c)
  <2> DEFINE lines == run[c.run].shot
  <2>1. run[c.run].status = "paid" /\ run[c.run].lines = None /\ c.shot = lines
    BY <1>1, <1>2, <1>8 DEF Reverse, Regular
  <2>2. run'[c.run].status = "draft"
    BY <1>8, ReverseChanges DEF Became
  <2>3. TakenLines(c) = lines /\ lines \in Lines /\ c.advance \in Advances
    BY <2>1, <1>8, WorkLinesTyped DEF TakenLines
  <2>4. Unpay(c, lines) /\ (lines.advance > 0 => c.advance = advance)
    BY <2>1, <2>3, <1>8, NotLost DEF Reverse
  <2>5. c.run \in Paid /\ Paid' = Paid \ {c.run}
        /\ \A r \in Paid' : run'[r].shot = run[r].shot
    BY <2>1, <2>2, <1>2 DEF Paid
  <2>6. Withheld = lines.advance + Withheld' /\ Withheld' \in Nat /\ lines.advance \in Nat
    BY <2>5, <1>1, WithheldLoses
  <2> DEFINE rest == Withheld' + Credited
  <2> HIDE DEF lines
  <2>7. rest \in Nat /\ advance.paid = lines.advance + rest
    <3>1. \A x, y, z \in Nat : (x + y) + z = x + (y + z) /\ y + z \in Nat
      OBVIOUS
    <3>2. advance.paid = (lines.advance + Withheld') + Credited
      BY <2>6, <1>1
    <3>3. QED BY <3>1, <3>2, <2>6, <1>3
  <2> HIDE DEF rest
  <2>8. advance'.paid = rest
    BY <2>3, <2>4, <2>7, <1>3, UnpayTakes
  <2>9. QED
    BY <2>8, <1>5 DEF rest
<1>9. CASE Submit(c) \/ Approve(c) \/ Withdraw(c)
  <2>1. advance' = advance /\ run[c.run].status # "paid"
    BY <1>2, <1>9 DEF Submit, Approve, Withdraw, loan
  <2>2. run'[c.run].status # "paid"
    BY <1>9, OtherChanges DEF Became
  <2>3. Paid' = Paid /\ \A r \in Paid : run'[r].shot = run[r].shot
    BY <2>1, <2>2, <1>2 DEF Paid
  <2>4. QED
    BY <2>1, <2>3, <1>1, <1>5, WithheldSame
<1>10. QED
  BY <1>2, <1>6, <1>7, <1>8, <1>9 DEF Operation

LEMMA StepRepaid ==
  ASSUME Typed, Typed', RunsInv, RunsInv', RepaidInv, [Next]_vars
  PROVE  RepaidInv'
<1> SUFFICES ASSUME {"overlap", "lost", "capped", "deleted"} \cap suffered' = {}
             PROVE  advance'.paid = Withheld' + Credited'
  BY DEF RepaidInv
<1>1. suffered \subseteq suffered'
  BY FaultsStay
<1>2. advance.paid = Withheld + Credited /\ \A r \in Runs : Regular(r)
  BY <1>1 DEF RepaidInv, RunsInv
<1>3. ASSUME advance'.paid = advance.paid, Credited' = Credited,
             Paid' = Paid, \A r \in Paid : run'[r].shot = run[r].shot
      PROVE  advance'.paid = Withheld' + Credited'
  BY <1>2, <1>3, WithheldSame
<1>4. CASE UNCHANGED <<run, loan>>
  BY <1>3, <1>4, CreditedSame DEF loan, Paid
<1>5. ASSUME NEW r \in Runs, NEW p \in Periods, Create(r, p)
      PROVE  advance'.paid = Withheld' + Credited'
  <2>1. UNCHANGED loan /\ run[r].status = "absent"
    BY <1>5 DEF Create, NoRun
  <2>2. Paid' = Paid /\ \A q \in Paid : run'[q].shot = run[q].shot
    BY <2>1, <1>5, CreateChanges DEF Paid
  <2>3. QED
    BY <2>1, <2>2, <1>3, CreditedSame DEF loan
<1>6. ASSUME NEW r \in Runs, Delete(r)
      PROVE  advance'.paid = Withheld' + Credited'
  <2>1. UNCHANGED loan /\ r \notin Paid
    BY <1>6 DEF Delete, Suffer
  <2>2. Paid' = Paid /\ \A q \in Paid : run'[q].shot = run[q].shot
    BY <2>1, <1>6, DeleteChanges DEF Paid
  <2>3. QED
    BY <2>1, <2>2, <1>3, CreditedSame DEF loan
<1>7. CASE Complete \/ Cancel
  <2>1. advance'.paid = advance.paid /\ UNCHANGED <<run, payment>>
    BY <1>7 DEF Complete, Cancel
  <2>2. QED
    BY <2>1, <1>3, CreditedSame DEF Paid
<1>8. ASSUME NEW t \in Payments, NEW n \in Early, Ask(t, n)
      PROVE  advance'.paid = Withheld' + Credited'
  <2>1. /\ UNCHANGED <<run, advance>> /\ payment' = [payment EXCEPT ![t].asked = n]
    BY <1>8 DEF Ask
  <2>2. \A s \in Payments : payment'[s].credited = payment[s].credited
    BY <2>1 DEF Typed
  <2>3. QED
    BY <2>1, <2>2, <1>3, CreditedSame DEF Paid
<1>9. ASSUME NEW t \in Payments, Credit(t)
      PROVE  advance'.paid = Withheld' + Credited'
  <2> DEFINE amount == Smaller(payment[t].asked, advance.remaining)
  <2>1. /\ payment' = [payment EXCEPT ![t].credited = amount]
        /\ payment[t].credited = 0 /\ run' = run
        /\ advance'.paid = advance.paid + amount
    BY <1>9 DEF Credit, Balance
  <2>2. amount \in Nat
    BY AdvanceTyped DEF Typed, Smaller
  <2> HIDE DEF amount
  <2>3. Credited' = amount + Credited
    BY <2>1, <2>2, CreditedGains
  <2>4. Withheld' = Withheld
    BY <2>1, WithheldSame DEF Paid
  <2>5. Withheld \in Nat /\ Credited \in Nat
    BY <1>2, SumsTyped
  <2>6. QED
    BY <2>1, <2>2, <2>3, <2>4, <2>5, <1>2
<1>10. CASE \E c : Work(c)
  BY <1>1, <1>10, WorkRepaid
<1>11. Other => \/ UNCHANGED <<run, loan>> \/ Complete \/ Cancel
                \/ \E r \in Runs : Delete(r) \/ \E p \in Periods : Create(r, p)
                \/ \E t \in Payments : Credit(t) \/ \E n \in Early : Ask(t, n)
  BY DEF Other, Load, Read, Abort, Defer, Adjust, CancelSponsorship
<1>12. QED
  BY <1>4, <1>5, <1>6, <1>7, <1>8, <1>9, <1>10, <1>11, StepCases DEF vars

LEMMA InitRepaid == Init => RepaidInv
<1> SUFFICES ASSUME Init PROVE advance.paid = Withheld + Credited
  BY DEF RepaidInv
<1>1. Paid = {} /\ advance.paid = 0
  BY DEF Init, Paid, NoRun
<1>2. Withheld = 0
  BY <1>1, SumOfNone DEF Withheld
<1>3. Credited = 0
  <2>1. \A t \in Payments : Credits[t] = 0
    BY DEF Init, Credits
  <2>2. QED
    BY <2>1, FiniteAssumption, SumOfZeros DEF Credited
<1>4. QED
  BY <1>1, <1>2, <1>3

(* The employee is credited with what the paid runs have withheld for the  *)
(* advance and with the early repayments, each exactly once, through every *)
(* sequence of payments, reversals, new generations and early repayments   *)
(* (apply_ and revert_salary_advance_repayments_for_run,                   *)
(* apply_salary_advance_repayment_from_finance_transaction) in which no    *)
(* update is lost, no run is outdated, no line is capped and no paid run   *)
(* is deleted.                                                             *)
THEOREM RepaidExactlyOnce == Spec => []RepaidOnce
<1> DEFINE All == Typed /\ RunsInv /\ RepaidInv
<1>1. Init => All
  BY InitTyped, InitRuns, InitRepaid
<1>2. All /\ [Next]_vars => All'
  BY StepTyped, StepRuns, StepRepaid
<1>3. All => RepaidOnce
  BY DEF RepaidInv, RepaidOnce, Calm, Withheld, Held, Credited, Credits
<1> HIDE DEF All
<1>4. QED
  BY <1>1, <1>2, <1>3, PTL DEF Spec

-----------------------------------------------------------------------------
(* At most one run of a period has lines or is paid, unless a second one   *)
(* is generated.                                                           *)
Busy(r) == r \in Existing /\ (run[r].lines # None \/ run[r].status = "paid")

Exclusive ==
  \A q, r \in Runs : Busy(q) /\ Busy(r) /\ run[q].period = run[r].period => q = r
ClosedRight == \A p \in Periods : closed[p] <=> \E r \in Paid : run[r].period = p

PeriodsInv ==
  {"overlap", "second", "deleted"} \cap suffered = {} => Exclusive /\ ClosedRight

(* The run c.run becomes busy only if no other run of its period is.       *)
StaysExclusive(c) ==
  Busy(c.run)' => \/ Busy(c.run)
                  \/ \A q \in Runs \ {c.run} : Busy(q) => run[q].period # run[c.run].period

LEMMA AloneInPeriod ==
  ASSUME NEW c, Generate(c), "second" \notin suffered'
  PROVE  \A q \in Runs \ {c.run} : Busy(q) => run[q].period # run[c.run].period
<1>1. Second(c.run) \subseteq suffered'
  BY DEF Generate, Suffer
<1>2. QED
  BY <1>1 DEF Second, Busy

LEMMA WorkExclusive ==
  ASSUME Typed, RunsInv, PeriodsInv, NEW c, Work(c), suffered \subseteq suffered',
         {"overlap", "second", "deleted"} \cap suffered' = {}
  PROVE  StaysExclusive(c) /\ ClosedRight' /\ Exclusive /\ ClosedRight
<1>1. /\ c.run \in Runs /\ c.run \in Existing /\ Operation(c)
      /\ c.status = run[c.run].status /\ c.shot = run[c.run].shot
      /\ Regular(c.run)
      /\ WorksOn(c)
  BY UpToDate, WorkRegular DEF Work, Existing, RunsInv
<1>2. Exclusive /\ ClosedRight
  BY DEF PeriodsInv
<1>3. run[c.run].period \in Periods
  BY <1>1 DEF Typed
<1>4. CASE Generate(c)
  <2>1. c.status = "draft" /\ closed' = closed
    BY <1>4 DEF Generate
  <2>2. \A q \in Runs \ {c.run} : Busy(q) => run[q].period # run[c.run].period
    BY <1>4, AloneInPeriod
  <2>3. run'[c.run].status = "draft"
    BY <1>4, GenerateChanges DEF Became
  <2>4. ClosedRight'
    BY <2>1, <2>3, <1>1, <1>2 DEF ClosedRight, Paid, WorksOn
  <2>5. QED
    BY <2>2, <2>4, <1>2 DEF StaysExclusive
<1>5. CASE Pay(c)
  <2>1. /\ c.status = "approved"
        /\ closed' = [closed EXCEPT ![run[c.run].period] = TRUE]
    BY <1>5 DEF Pay
  <2>2. Busy(c.run)
    BY <2>1, <1>1 DEF Regular, Busy
  <2>3. run'[c.run].status = "paid"
    BY <1>5, PayChanges DEF Became
  <2>4. ClosedRight'
    BY <2>1, <2>3, <1>1, <1>2, <1>3 DEF ClosedRight, Paid, WorksOn, Typed
  <2>5. QED
    BY <2>2, <2>4, <1>2 DEF StaysExclusive
<1>6. CASE Reverse(c) \/ Withdraw(c)
  <2>1. /\ c.status \in {"paid", "pending", "approved"}
        /\ closed' = [closed EXCEPT ![run[c.run].period] = FALSE]
    BY <1>6 DEF Reverse, Withdraw, Reopen
  <2>2. Busy(c.run)
    BY <2>1, <1>1 DEF Regular, Busy
  <2>3. run'[c.run].status = "draft"
    BY <1>6, ReverseChanges, OtherChanges DEF Became
  <2>4. \A q \in Paid : q # c.run => run[q].period # run[c.run].period
    BY <2>2, <1>1, <1>2 DEF Exclusive, Busy, Paid, Existing, RunStatuses
  <2>5. ClosedRight'
    BY <2>1, <2>3, <2>4, <1>1, <1>2, <1>3 DEF ClosedRight, Paid, WorksOn, Typed
  <2>6. QED
    BY <2>2, <2>5, <1>2 DEF StaysExclusive
<1>7. CASE Submit(c) \/ Approve(c)
  <2>1. /\ c.status \in {"draft", "pending"} /\ closed' = closed
        /\ run'[c.run].lines = run[c.run].lines
        /\ run'[c.run].status \in {"pending", "approved"}
    BY <1>7, OtherChanges DEF Submit, Approve, Became
  <2>2. Busy(c.run)' => Busy(c.run)
    BY <2>1, <1>1 DEF Busy
  <2>3. ClosedRight'
    BY <2>1, <1>1, <1>2 DEF ClosedRight, Paid, WorksOn
  <2>4. QED
    BY <2>2, <2>3, <1>2 DEF StaysExclusive
<1>8. QED
  BY <1>1, <1>4, <1>5, <1>6, <1>7 DEF Operation

LEMMA WorkPeriods ==
  ASSUME Typed, RunsInv, PeriodsInv, NEW c, Work(c), suffered \subseteq suffered'
  PROVE  PeriodsInv'
<1> SUFFICES ASSUME {"overlap", "second", "deleted"} \cap suffered' = {}
             PROVE  Exclusive' /\ ClosedRight'
  BY DEF PeriodsInv
<1>1. /\ StaysExclusive(c) /\ ClosedRight' /\ Exclusive /\ WorksOn(c)
      /\ c.run \in Runs
  BY WorkExclusive, WorkRegular, WorkLinesTyped
<1>2. \A q \in Runs \ {c.run} : (Busy(q)' <=> Busy(q)) /\ run'[q].period = run[q].period
  BY <1>1 DEF WorksOn, Busy, Existing
<1>3. Exclusive'
  BY <1>1, <1>2 DEF Exclusive, StaysExclusive, WorksOn
<1>4. QED
  BY <1>1, <1>3

LEMMA StepPeriods ==
  ASSUME Typed, RunsInv, PeriodsInv, [Next]_vars
  PROVE  PeriodsInv'
<1>1. suffered \subseteq suffered'
  BY FaultsStay
<1>2. CASE \E c : Work(c)
  BY <1>1, <1>2, WorkPeriods
<1>3. ASSUME NEW r \in Runs, NEW p \in Periods, Create(r, p) PROVE PeriodsInv'
  <2>1. closed' = closed /\ run[r].status = "absent"
    BY <1>3 DEF Create, NoRun
  <2>2. /\ ~Busy(r)' /\ ~(r \in Paid) /\ ~(r \in Paid')
        /\ \A q \in Runs \ {r} : run'[q] = run[q]
    BY <1>3, <2>1, CreateChanges DEF Busy, Paid
  <2>3. QED
    BY <1>1, <2>1, <2>2 DEF PeriodsInv, Exclusive, ClosedRight, Busy, Paid, Existing
<1>4. ASSUME NEW r \in Runs, Delete(r) PROVE PeriodsInv'
  <2>1. closed' = closed /\ (r \in Paid => "deleted" \in suffered')
    BY <1>4 DEF Delete, Suffer
  <2>2. /\ ~Busy(r)' /\ ~(r \in Paid')
        /\ \A q \in Runs \ {r} : run'[q] = run[q]
    BY <1>4, DeleteChanges DEF Busy, Paid
  <2>3. QED
    BY <1>1, <2>1, <2>2 DEF PeriodsInv, Exclusive, ClosedRight, Busy, Paid, Existing
<1>5. CASE UNCHANGED <<run, closed>>
  BY <1>1, <1>5 DEF PeriodsInv, Exclusive, ClosedRight, Busy, Paid, Existing
<1>6. Other => \/ UNCHANGED <<run, closed>>
               \/ \E r \in Runs : Delete(r) \/ \E p \in Periods : Create(r, p)
  BY DEF Other, Load, Read, Abort, Complete, Cancel, Credit, Ask, Defer, Adjust,
         CancelSponsorship
<1>7. QED
  BY <1>2, <1>3, <1>4, <1>5, <1>6, StepCases DEF vars

LEMMA InitPeriods == Init => PeriodsInv
BY DEF Init, PeriodsInv, Exclusive, ClosedRight, Busy, Paid, NoRun

LEMMA PeriodsAlways == Spec => [](Typed /\ RunsInv /\ PeriodsInv)
<1>1. Typed /\ RunsInv /\ PeriodsInv /\ [Next]_vars => Typed' /\ RunsInv' /\ PeriodsInv'
  BY StepTyped, StepRuns, StepPeriods
<1>2. Init => Typed /\ RunsInv /\ PeriodsInv
  BY InitTyped, InitRuns, InitPeriods
<1>3. QED
  BY <1>1, <1>2, PTL DEF Spec

(* A period is closed exactly while a run of it is paid: as long as no     *)
(* second run of a period is generated, no reversal opens a period that    *)
(* another paid run had closed.                                            *)
THEOREM PeriodsFollowRuns == Spec => []ClosedWhilePaid
<1>1. PeriodsInv => ClosedWhilePaid
  BY DEF PeriodsInv, ClosedRight, ClosedWhilePaid, Calm
<1>2. QED
  BY <1>1, PeriodsAlways, PTL

-----------------------------------------------------------------------------
(* The installments of the sponsorship.  Lines and snapshots withhold what *)
(* is due in the period of their run; an installment is deducted by the    *)
(* paid run that withholds it, and by no other.                            *)
DueLines(r) ==
  \A i \in Installments :
    /\ run[r].lines # None /\ run[r].lines.wards[i] > 0 => Due[i] = run[r].period
    /\ run[r].shot # None /\ run[r].shot.wards[i] > 0 => Due[i] = run[r].period

Payer(r, i) == r \in Paid /\ run[r].shot.wards[i] > 0

Backed(i) ==
  IF installment[i].status = "applied"
  THEN \E r \in Runs : Payer(r, i) /\ installment[i].actual = run[r].shot.wards[i]
  ELSE \A r \in Runs : ~Payer(r, i)

WardsInv ==
  {"overlap", "second", "changed", "deleted"} \cap suffered = {} =>
    /\ \A r \in Runs : DueLines(r)
    /\ \A i \in Installments : Backed(i)

LEMMA PayerIsBusy ==
  ASSUME NEW r \in Runs, NEW i, Payer(r, i)
  PROVE  Busy(r)
BY DEF Payer, Paid, Busy, Existing, RunStatuses

(* No other run of the period withholds what this busy one does.           *)
LEMMA OnlyPayer ==
  ASSUME RunsInv, "overlap" \notin suffered, Exclusive, \A r \in Runs : DueLines(r),
         NEW r \in Runs, NEW i \in Installments, Busy(r), Due[i] = run[r].period,
         NEW q \in Runs, Payer(q, i)
  PROVE  q = r
<1>1. Busy(q) /\ run[q].shot # None
  BY PayerIsBusy DEF RunsInv, Regular, Payer, Paid
<1>2. run[q].period = Due[i]
  BY <1>1 DEF DueLines, Payer
<1>3. QED
  BY <1>1, <1>2 DEF Exclusive

(* The services under the assumption that none of these faults happens.    *)
Calmly(c) ==
  /\ Typed /\ RunsInv /\ PeriodsInv /\ WardsInv
  /\ Work(c) /\ suffered \subseteq suffered'
  /\ {"overlap", "second", "changed", "deleted"} \cap suffered' = {}

LEMMA CalmWork ==
  ASSUME NEW c, Calmly(c)
  PROVE  /\ c.run \in Runs /\ c.run \in Existing
         /\ c.status = run[c.run].status /\ c.shot = run[c.run].shot
         /\ Regular(c.run) /\ Regular(c.run)' /\ WorksOn(c) /\ Exclusive
         /\ \A r \in Runs : DueLines(r)
         /\ \A i \in Installments : Backed(i)
BY UpToDate, WorkRegular, WorkExclusive DEF Calmly, Work, Existing, RunsInv, WardsInv, WorksOn

LEMMA GenerateWards ==
  ASSUME NEW c, Calmly(c), Generate(c)
  PROVE  DueLines(c.run)' /\ \A i \in Installments : Backed(i)'
<1>1. PICK lines \in Lines :
        /\ lines.wards = WardLines(installment', schedule', run[c.run].period)
        /\ Became(c.run, "draft", lines, run[c.run].shot)
  BY GenerateChanges DEF Calmly
<1>2. c.status = "draft" /\ run[c.run].shot = None
  BY CalmWork DEF Regular, Generate
<1>3. DueLines(c.run)'
  BY <1>1, <1>2 DEF DueLines, WardLines, Became
<1>4. Orphans(run[c.run].period) = {}
  <2>1. SUFFICES ASSUME NEW i \in Installments, Due[i] = run[c.run].period,
                        installment[i].status = "applied"
                 PROVE  FALSE
    BY DEF Orphans
  <2>2. PICK q \in Runs : Payer(q, i)
    BY <2>1, CalmWork DEF Backed
  <2>3. Busy(q) /\ run[q].period = Due[i] /\ q # c.run
    <3>1. Busy(q) /\ q # c.run
      BY <1>2, <2>2, CalmWork, PayerIsBusy DEF Payer, Paid
    <3>2. run[q].shot # None
      BY <2>2 DEF Calmly, RunsInv, Regular, Payer, Paid
    <3>3. QED
      BY <3>1, <3>2, <2>2, CalmWork DEF DueLines, Payer
  <2>4. QED
    BY <2>1, <2>3, AloneInPeriod DEF Calmly
<1>5. installment' = installment
  BY <1>4, NothingReturned DEF Generate, Calmly, Typed
<1>6. \A r \in Runs : run'[r].status = "paid" <=> run[r].status = "paid"
  BY <1>1, <1>2, CalmWork DEF Became
<1>7. \A r \in Runs : run'[r].shot = run[r].shot
  BY <1>1 DEF Became
<1>8. QED
  BY <1>3, <1>5, <1>6, <1>7, CalmWork DEF Backed, Payer, Paid

LEMMA PayWards ==
  ASSUME NEW c, Calmly(c), Pay(c)
  PROVE  DueLines(c.run)' /\ \A i \in Installments : Backed(i)'
<1> DEFINE lines == run[c.run].lines
<1>1. /\ run[c.run].status = "approved" /\ lines # None /\ lines \in Lines
      /\ Became(c.run, "paid", None, lines)
      /\ installment' = Apply(installment, lines)
  <2>1. c.status = "approved"
    BY DEF Pay
  <2>2. lines # None /\ c.shot = None /\ c.run \in Runs
    BY <2>1, CalmWork DEF Regular
  <2>3. Became(c.run, "paid", None, Snapshot(c)) /\ Snapshot(c) = lines
    BY <2>2, PayChanges DEF Calmly, Snapshot
  <2>4. installment' = Apply(installment, lines)
    BY <2>2 DEF Pay, ApplyInstallments
  <2>5. QED
    BY <2>1, <2>2, <2>3, <2>4, CalmWork, LinesTyped DEF Calmly
<1>2. Busy(c.run) /\ DueLines(c.run)
  BY <1>1, CalmWork DEF Busy
<1>3. DueLines(c.run)'
  BY <1>1, <1>2 DEF DueLines, Became
<1>4. \A r \in Runs \ {c.run} : run'[r] = run[r]
  BY <1>1 DEF Became
<1>5. ASSUME NEW i \in Installments PROVE Backed(i)'
  <2>1. CASE lines.wards[i] > 0
    <3>1. installment'[i].status = "applied" /\ installment'[i].actual = lines.wards[i]
      BY <1>1, <2>1 DEF Apply, Wards
    <3>2. run'[c.run].shot = lines /\ c.run \in Paid'
      BY <1>1, CalmWork DEF Became, Paid
    <3>3. QED
      BY <3>1, <3>2, <2>1, CalmWork DEF Backed, Payer
  <2>2. CASE ~(lines.wards[i] > 0)
    <3>1. installment'[i] = installment[i]
      BY <1>1, <2>2 DEF Apply, Wards
    <3>2. ~Payer(c.run, i) /\ ~Payer(c.run, i)'
      BY <1>1, <2>2 DEF Payer, Paid, Became
    <3>3. QED
      BY <3>1, <3>2, <1>4, CalmWork DEF Backed, Payer, Paid
  <2>3. QED
    BY <2>1, <2>2
<1>6. QED
  BY <1>3, <1>5

LEMMA ReverseWards ==
  ASSUME NEW c, Calmly(c), Reverse(c)
  PROVE  DueLines(c.run)' /\ \A i \in Installments : Backed(i)'
<1> DEFINE lines == run[c.run].shot
<1>1. /\ c.run \in Paid /\ lines # None /\ lines \in Lines
      /\ Became(c.run, "draft", lines, None)
      /\ installment' = Return(installment, Wards(lines))
  <2>1. c.status = "paid"
    BY DEF Reverse
  <2>2. /\ run[c.run].lines = None /\ lines # None /\ c.shot = lines
        /\ c.run \in Paid /\ c.run \in Runs
    BY <2>1, CalmWork DEF Regular, Paid
  <2>3. Became(c.run, "draft", lines, None)
    BY <2>2, ReverseChanges DEF Calmly
  <2>4. installment' = Return(installment, Wards(lines))
    BY <2>2 DEF Reverse, ReturnInstallments
  <2>5. QED
    BY <2>2, <2>3, <2>4, LinesTyped DEF Calmly
<1>2. Busy(c.run) /\ DueLines(c.run)
  BY <1>1, CalmWork DEF Busy, Paid
<1>3. DueLines(c.run)'
  BY <1>1, <1>2 DEF DueLines, Became
<1>4. \A r \in Runs \ {c.run} : run'[r] = run[r]
  BY <1>1 DEF Became
<1>5. c.run \notin Paid'
  BY <1>1 DEF Became, Paid
<1>6. ASSUME NEW i \in Installments PROVE Backed(i)'
  <2>1. CASE lines.wards[i] > 0
    <3>1. installment'[i].status = "due"
      BY <1>1, <2>1 DEF Return, Wards
    <3>2. \A q \in Runs : Payer(q, i) => q = c.run
      BY <1>1, <1>2, <2>1, CalmWork, OnlyPayer DEF DueLines, Calmly
    <3>3. QED
      BY <3>1, <3>2, <1>4, <1>5 DEF Backed, Payer, Paid
  <2>2. CASE ~(lines.wards[i] > 0)
    <3>1. installment'[i] = installment[i]
      BY <1>1, <2>2 DEF Return, Wards
    <3>2. ~Payer(c.run, i) /\ ~Payer(c.run, i)'
      BY <1>5, <2>2 DEF Payer, Paid
    <3>3. QED
      BY <3>1, <3>2, <1>4, CalmWork DEF Backed, Payer, Paid
  <2>3. QED
    BY <2>1, <2>2
<1>7. QED
  BY <1>3, <1>6

LEMMA OtherWards ==
  ASSUME NEW c, Calmly(c), Submit(c) \/ Approve(c) \/ Withdraw(c)
  PROVE  DueLines(c.run)' /\ \A i \in Installments : Backed(i)'
<1>1. /\ installment' = installment
      /\ run[c.run].status # "paid" /\ run'[c.run].status # "paid"
      /\ run'[c.run].lines = run[c.run].lines /\ run[c.run].shot = None
      /\ run'[c.run].shot = None /\ run'[c.run].period = run[c.run].period
  BY CalmWork, OtherChanges DEF Submit, Approve, Withdraw, ward, Regular, Became, Calmly
<1>2. DueLines(c.run)'
  BY <1>1, CalmWork DEF DueLines
<1>3. \A r \in Runs \ {c.run} : run'[r] = run[r]
  BY CalmWork DEF WorksOn
<1>4. QED
  BY <1>1, <1>2, <1>3, CalmWork DEF Backed, Payer, Paid

LEMMA StepWards ==
  ASSUME Typed, RunsInv, PeriodsInv, WardsInv, [Next]_vars
  PROVE  WardsInv'
<1> SUFFICES ASSUME {"overlap", "second", "changed", "deleted"} \cap suffered' = {}
             PROVE  /\ \A r \in Runs : DueLines(r)'
                    /\ \A i \in Installments : Backed(i)'
  BY DEF WardsInv
<1>1. suffered \subseteq suffered'
  BY FaultsStay
<1>2. /\ \A r \in Runs : DueLines(r)
      /\ \A i \in Installments : Backed(i)
  BY <1>1 DEF WardsInv
<1>3. ASSUME NEW c, Work(c)
      PROVE  /\ \A r \in Runs : DueLines(r)'
             /\ \A i \in Installments : Backed(i)'
  <2>1. Calmly(c)
    BY <1>1, <1>3 DEF Calmly
  <2>2. DueLines(c.run)' /\ \A i \in Installments : Backed(i)'
    BY <1>3, <2>1, GenerateWards, PayWards, ReverseWards, OtherWards DEF Work, Operation
  <2>3. \A r \in Runs \ {c.run} : DueLines(r)'
    BY <1>2, <2>1, CalmWork DEF WorksOn, DueLines
  <2>4. QED
    BY <2>2, <2>3
<1>4. ASSUME NEW r \in Runs, NEW p \in Periods, Create(r, p)
      PROVE  /\ \A q \in Runs : DueLines(q)'
             /\ \A i \in Installments : Backed(i)'
  <2>1. installment' = installment /\ run[r].status = "absent"
    BY <1>4 DEF Create, NoRun, ward
  <2>2. QED
    BY <1>2, <1>4, <2>1, CreateChanges DEF DueLines, Backed, Payer, Paid
<1>5. ASSUME NEW r \in Runs, Delete(r)
      PROVE  /\ \A q \in Runs : DueLines(q)'
             /\ \A i \in Installments : Backed(i)'
  <2>1. installment' = installment /\ r \notin Paid
    BY <1>5 DEF Delete, Suffer, ward
  <2>2. QED
    BY <1>2, <1>5, <2>1, DeleteChanges DEF DueLines, Backed, Payer, Paid
<1>6. ASSUME NEW i \in Installments, Defer(i) \/ \E n \in Adjusted[i] : Adjust(i, n)
      PROVE  /\ \A q \in Runs : DueLines(q)'
             /\ \A j \in Installments : Backed(j)'
  <2>1. /\ run' = run /\ installment[i].status # "applied"
        /\ installment'[i].status = "due"
        /\ \A j \in Installments \ {i} : installment'[j] = installment[j]
    BY <1>6 DEF Defer, Adjust, Suffer, Typed, Schedules
  <2>2. QED
    BY <1>2, <2>1 DEF DueLines, Backed, Payer, Paid
<1>7. CASE UNCHANGED <<run, installment>>
  BY <1>2, <1>7 DEF DueLines, Backed, Payer, Paid
<1>8. CASE CancelSponsorship
  <2>1. /\ run' = run
        /\ \A i \in Installments : /\ installment[i].status # "applied"
                                 /\ installment'[i].status # "applied"
    BY <1>8 DEF CancelSponsorship, Applied, Typed, Schedules
  <2>2. QED
    BY <1>2, <2>1 DEF DueLines, Backed, Payer, Paid
<1>9. Other => \/ UNCHANGED <<run, installment>> \/ CancelSponsorship
               \/ \E r \in Runs : Delete(r) \/ \E p \in Periods : Create(r, p)
               \/ \E i \in Installments : Defer(i) \/ \E n \in Adjusted[i] : Adjust(i, n)
  BY DEF Other, Load, Read, Abort, Complete, Cancel, Credit, Ask, ward
<1>10. QED
  BY <1>3, <1>4, <1>5, <1>6, <1>7, <1>8, <1>9, StepCases DEF vars, ward

LEMMA InitWards == Init => WardsInv
BY DEF Init, WardsInv, DueLines, Backed, Payer, Paid, NoRun

(* Every installment of a sponsorship counts as deducted exactly while one *)
(* paid run withholds it, with that run's amount, through payments,        *)
(* reversals, new generations and deletions of runs that are not paid.     *)
THEOREM PaidRunsDeduct == Spec => []DeductedByPaidRuns
<1>1. /\ Typed /\ RunsInv /\ PeriodsInv /\ WardsInv /\ [Next]_vars => WardsInv'
  BY StepWards
<1>2. Init => WardsInv
  BY InitWards
<1>3. RunsInv /\ PeriodsInv /\ WardsInv => DeductedByPaidRuns
  <2>1. SUFFICES ASSUME RunsInv, PeriodsInv, WardsInv,
                        {"overlap", "second", "changed", "deleted"} \cap suffered = {},
                        NEW i \in Installments
                 PROVE  LET payers == {r \in Paid : run[r].shot.wards[i] > 0}
                        IN  IF installment[i].status = "applied"
                            THEN \E r \in payers : /\ payers = {r}
                                                   /\ installment[i].actual = run[r].shot.wards[i]
                            ELSE payers = {}
    BY DEF DeductedByPaidRuns, Calm
  <2>2. Backed(i) /\ Exclusive /\ \A r \in Runs : DueLines(r)
    BY <2>1 DEF WardsInv, PeriodsInv
  <2>3. \A q, r \in Runs : Payer(q, i) /\ Payer(r, i) => q = r
    <3>1. \A r \in Runs : Payer(r, i) => Busy(r) /\ Due[i] = run[r].period
      BY <2>1, <2>2, PayerIsBusy DEF RunsInv, Regular, DueLines, Payer, Paid
    <3>2. QED
      BY <2>2, <3>1 DEF Exclusive
  <2>4. QED
    BY <2>2, <2>3 DEF Backed, Payer, Paid
<1>4. QED
  BY <1>1, <1>2, <1>3, PeriodsAlways, PTL DEF Spec
=============================================================================
