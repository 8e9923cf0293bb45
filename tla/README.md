# Verification of the high-school backend

TLA+ models of the parts of this backend in which several processes act on shared state,
the TLC runs that check them on small instances, and TLAPS proofs of their main properties
for every size. Paths below are relative to the repository root.

The backend is a multi-tenant Django service: one PostgreSQL schema per school (tenant), a
web service, separate backup and restore workers, an hourly maintenance cron, background
tasks (Celery, daemon threads) and an object store. Its hard behaviour is not in any single
function but in what two of those processes do to one row.

## 1. Inventory

### Modelled

**Tenant backups** (`backups/services.py`, `process_tenant_backups`, `maintain_tenant_backups`).
*State*: `TenantBackup` rows (status, type, key, expiry), the artifact in storage, the
tenant's `next_run_at`. *Operations*: request (manual, scheduled, safety), claim and run,
verify and publish, delete, recover stale, queue scheduled, purge expired. *Actors*: any
number of always-on workers, API requests, the hourly command; they share rows only.
*Hard*: workers poll one queue; maintenance works through a list it evaluated earlier and
saves rows from memory; storage deletions raise after deleting; any process dies anywhere.
*Correct when*: a row is run once, a tenant has one backup in progress, nothing unverified
is offered, what a restore needs is kept, deleted rows stay deleted, nothing hangs.

**Tenant restore** (`backups/restore_services.py`, `process_tenant_restores`, the gate in
`api/middleware.py`). *State*: `TenantRestoreRequest` rows, the tenant's gate
(`restoration_in_progress`, `restoration_request_id`), the live schema and one rollback
schema per request, the advisory lock. *Operations*: request, refresh readiness, approve,
reject, execute, retry, delete; claim, prepare, lock, rename away, load, drop, unlock,
complete, with the two nested failure handlers; stale recovery. *Hard*: a schema swap that
is not a transaction, with compensation spread over handlers, recovered by another process
that cannot tell a slow worker from a dead one. *Correct when*: a whole copy of the data
always exists, users are let in only to whole data, only approved requests touch a schema,
COMPLETED is true, a restore ends and whole data comes back.

**Cash transactions** (`accounting/views/cash_transaction.py`, `services/posting.py`,
`services/payment_allocation.py`, `services/post_all.py`, `signals.py`). *State*: cash
transaction rows (status, account, amount, student, journal link), journal entries and
reversals, `current_balance` per bank account, `paid_amount` per bill. *Operations*: create,
approve / reject / complete / reopen, edit, delete, post all, recompute bills, recalculate
balance. *Hard*: a request decides from an unlocked copy of the row; two caches are refreshed
after the commit, by `on_commit` and by the view, in between other requests. *Correct when*:
a row is on the books exactly while COMPLETED, and both caches end up equal to what the
completed rows say.

**Year closing** (`students/services/enrollment_lifecycle*.py`, `year_end_wizard.py`,
`core/services/grading_bypass.py`, `process_grading_bypass_jobs`, the status endpoint in
`core/views.py`). *State*: the `Enrollment` rows of a year, `Student.status`, the
`GradingBypassOperation` rows. *Operations*: complete a year, graduate, transfer, promote mid-year,
undo, withdraw, reinstate, enroll, remove, edit either row, the wizard, some also in bulk; request a
bypass, claim, prepare, lock, commit, report, fail, give up. *Actors*: web requests, a daemon thread
per bypass, a worker command that polls. *Hard*: a bypass reports its data transaction in a later one;
a view may declare a living worker dead; bulk requests, withdrawals and reinstatements save enrollment
and student one after the other from rows read earlier. *Correct when*: an operation is executed once,
its status is true, it ends unless its worker died, a year is closed and its grading deleted once and
only with nobody left enrolled, and outcome, next grade and student agree.

**Payroll runs** (`payroll_v2/services.py`, `views.py`, `accounting_integration.py`,
`live_row_lifecycle.py`, `paid_table_snapshot.py`). *State*: `PayrollRunRecord` with its lines and
`paid_table_snapshot`, `PayrollPeriod.is_closed`, the posting batch with the disbursement records,
`SalaryAdvance` with its recurring deduction, a ward sponsorship with its installments and their
schedule. *Operations*: create, generate, submit, approve, pay, revert, delete a run; disburse,
cancel, repay an advance early; adjust and defer an installment, cancel a sponsorship. *Hard*: paying
purges the lines, reverting rebuilds them from the snapshot; applying and reverting must cancel out
through caps, early repayments and other runs; every service decides on a copy of the run that nobody
locked. *Correct when*: the employee is charged once for what is withheld, balances add up, and the
books, the snapshot and the period follow the status of the run.

### How they interact

A restore request queues a safety backup (`request_restore`) and keeps its source and safety
backup from deletion. `TenantBackups` contains these two facts (`source`, `open`);
`TenantRestore` contains their other side (`safety`, `intact`). The restore gate stops the
tenant's web requests (`WorkspaceOpen`). The bypass and the requests on enrollments meet in the
enrollment rows: `GradingBypass` extends `EnrollmentLifecycle` and is checked with it. An early
repayment of an advance is credited when its cash transaction is completed (a signal of
`payroll_v2`): `PayrollRun` contains that moment as `Credit`, and `CashTransactions` the completion.

### Not modelled

`PROJECT.json` lists every component with its reason. In short: the rollover to a new academic year,
SSO sessions, the authorization cache and report tasks are candidates; grading, students, HR,
notifications, onboarding, finance and the business layer are record keeping over single rows,
external I/O or long sequential jobs, in which no property relates two actors. The models cover the
parts of the code in which several processes meet, which is a small part of its lines: most of the
repository is serializers, views over single rows, reports, imports and tests.

## 2. Modules

| module | what it is |
| --- | --- |
| `TenantBackups` | the backups of one tenant with all of their actors |
| `TenantRestore` | the restore of one tenant's schema |
| `RestoredWorkspace` | what a restore promises: the data of a workspace is replaced in one step, unseen |
| `CashTransactions` | the cash transactions of one tenant |
| `EnrollmentLifecycle` | the enrollments of one academic year and the requests on them |
| `GradingBypass` | the exceptional closure of that year, composed with `EnrollmentLifecycle` |
| `PayrollRun` | the payroll runs of one schedule and what they withhold from one employee |
| `MC...` | symmetry sets and small values for TLC |
| `..._proofs`, `TenantRestore_refinement` | TLAPS proofs |
| `Sums` | lemmas about sums over finite sets, proved without the library's induction rules |

Conventions. One tenant each: rows of different tenants meet only in queues whose order no
property is about. Every database statement that another process can see is a step of its own;
statements inside one transaction under a row lock are one step. `Faults` is the set of things
the environment may do; each run chooses it and each theorem says what it assumes of it. An
operator whose comment says "Mutant" is a plausible wrong version of the action after it and is
used by nothing.

### TenantBackups

`status`, `scheduled`, `keyed`, `expired` are columns of the rows; `object` is the artifact
(`missing`, `corrupt`, `good`: whether it equals the dump); `due` is `next_run_at <= now`.
`stage[w]`, `job[w]` are a worker's place in `run_backup` and its row; `sweep` is the maintenance
command's phase, list and row at hand; `erasing` are the `delete_backup` calls past their commit.
Requests: `RequestManualBackup`, `RequestRestore`, `CloseRestore`, and `BeginReopen`, `FinishReopen` or
`AbortReopen` for `retry_restore`, which locks its own row only: it checks the two backups in one step
and reopens the request in another (`retrying` between them). `blind` is a history of the requests
reopened although one of the backups had gone meanwhile. The worker, in
the order of `run_backup`: `Claim`, `StartDump`, `FinishDump`, `Upload`, `RecordKey`, `Verify` or
`RejectUpload`, `Publish`, `MarkScheduledCompleted`; `FailBackup` is its `except`. Deletion:
`DeleteBackup`, `FinishDelete`, `DeleteRaises`. Maintenance: `BeginStaleRecovery` / `RecoverStale`,
`QueueScheduled`, `BeginRetention` / `SkipRequired` / `CheckCandidate` / `MarkDeleting` /
`FinishPurge` / `PurgeRaises`. Crashes: `CrashWorker`, `CrashDelete`, `CrashMaintenance`. Time:
`Expire`, which may never happen to a row (`retention_days` 0), and `ScheduleChanges`.

Saves are unconditional, as Django's are: an object loaded earlier writes its status over whatever
the row holds now. The two things that are conditional in the code, the claiming `UPDATE` and the
tenant row lock of `request_backup`, are the only guards on other actors' state.

### TenantRestore

A schema holds `"original"` data, the archive of a request, a part of one, or is missing.
`at[w]` names the place in `run_restore`; the places `undo1`, `redo1`, `undo2`, `redo2` are the
inner and the outer failure handler, which may both run. `sweep` is `recover_stale_restores`,
statement by statement (`Inspect`, `RecoveryDrops`, `RecoveryRenames`, `RecoveryReleases`,
`RecoveryFails`). `views` are rows a web view has loaded and is about to save or delete.
`pg_advisory_lock` is `AcquireLock`'s guard on the places in `Locked`.

### CashTransactions

`row[t]` is the row with its journal link; `books[t][a]` the net effect of all entries and
reversals of row `t` on the ledger of account `a`; `balance`, `paid` the two caches. `job[p]` is
what a process is doing: the row as it loaded it (`old`), as it wants it (`new`), then what it still
has to refresh (`keys`, `dirty`) and to post (`todo`). `Begin...` are the handlers up to their
`transaction.atomic()`, `Commit...` the transactions with the whole effect of
`post_cash_transaction_to_ledger`, `sync_...` and `reverse_...`; `LockBills` / `SaveBills` are
`recompute_student_year_payments` under its row locks, `Recalculate` is
`recalculate_bank_account_current_balance`. `PostNext` / `SkipNext` are one iteration of
`execute_post_all`.

What an edit recomputes is subtle and modelled as it is (`PayersOfEdit`): `post_save` fires for the
new student when the row is saved, and for the old one only because the reversal saves the row
before the serializer does. The code does the old student first; the model takes them in any order.

Abstractions: one currency; a journal entry is the account and signed amount it was posted with; a
process that dies after its commit is one that takes no further step, so no crash action is needed.

### RestoredWorkspace

Three variables: the data of the workspace, what its users see of it, the archives whose restore is
approved. `Replace` changes the data in one step while nobody looks. `TenantRestore` instantiates it
(`Workspace`) with a refinement mapping: the data is the rollback schema while there is one, else the
live schema (`Stored`); users see it when the gate is open (`Seen`). `Replace` is thus the step that
drops the rollback schema, by the worker or by the recovery, and renaming back is no step at all.

### EnrollmentLifecycle and GradingBypass

`seat[s]` is the enrollment of a student (status, year-end outcome, grade, next grade), `job[u]` what
a request loaded and is about to save: `SaveBoth` for the views on one student, `SaveSeat` and
`SaveStudent` for the bulk services, whose saves are transactions of their own. The year is the
current one. `WithdrawStudent` and `ReinstateStudent` run outside a transaction too: `SaveStatus`
saves the student, `FindSeat` then looks for the enrollment, `SaveSeat` saves it. `Enroll` inserts a
row with the status the request names; `EditSeat` and `EditStudent` are the PUTs that write status and
outcome from the request. `Placements` is `resolve_year_end_placement`, `Options` what the wizard
offers; `WizardClose` is the wizard on one enrollment: it chooses from a grade that was read before
the transaction, and its read and its save are two steps, since the transaction locks nothing. That
its transaction spans the students of a section is not modelled, and neither are the deletion of a
student, imports, and the command `repair_enrollment_year_end_status`. `op[o]` is the bypass operation
with its "Starting" stage, `at[w]` the place in `execute_bypass`, `held` the enrollments it has
locked, `done` a history of data transactions. The look of `create_bypass_job` and its insert are two
steps (`Look`, `Insert`): `select_for_update` locks nothing while there is no row. `GiveUp` and
`SaveGiveUp` are the status endpoint, which counts five minutes from the creation of the row, not from
its claim; time is not modelled, so that they may always have passed.

### PayrollRun

`run[r]` is a run with its live lines and its snapshot; a purge sets the lines, a revert takes them
back. `request` is the one slow request: a run it loaded (`Load`) and, for a payment or a reversal,
the advance and installments it read (`Read`) before it saves (`Finish`). All other requests are
served in one step (`Serve`). Both call the same services with a copy `c` of what they read:
`Generate`, `Submit`, `Approve`, `Pay`, `Withdraw` and `Reverse` (the two cases of
`revert_payroll_to_draft`). `CancelSponsorship` cancels the installments and the schedule, which
paying a run that was generated before it, or deferring an installment, opens again. Requests on the
advance, on an installment or on the sponsorship are never slow. `Suffer` records when something the
code does not guard against happens (`overlap`, `lost`, `second`, `capped`, `changed`, `deleted`,
described in the module), and each property says which of them it does not survive.

Abstractions: the reads of a payment are one step; two payments that close one period queue on its row
(`PeriodIsLocked`); a batch that is posted and disbursement records that are active are one set;
installments PLANNED, ADJUSTED and DEFERRED are `due`, since no service treats them differently. Left
out: earnings, taxes, totals, payroll settings and bank refusals, the approval of an advance, its own
installments (no run deducts them), the approval and the completion of a sponsorship and its tuition
transactions, `remove_payroll_catalog_item_from_employees` (`services.py:4534`), dates of assignments
(one that is re-activated keeps the `end_date` it got when the advance was repaid), generation without
`replace_existing`, `DELETE_PAID_LIVE_ROWS` switched off, and PATCH of a run, of `amount_paid` or
`remaining_balance` of a `SalaryAdvance` and of `is_active` of an `EmployeePayrollItem`.

## 3. Runs

| run | question | instance | result |
| --- | --- | --- | --- |
| `backups_faults` | with every fault at once, is a row run twice, or something unverified offered? | 2 rows, 2 workers, all faults | holds, 348,504 states |
| `backups_live` | are required backups kept, is the slot single, does everything end? | 2 rows, 1 worker, `crash`, `lost_ack`, `FairSpec` | holds, 80,698 states |
| `backups_overlap` | can retention delete a backup that was just promised to a restore? | `overlap` | it can (finding) |
| `restore_faults` | with every fault at once, is only approved data restored? | 1 request, 2 workers, all faults | holds, 1,614,181 states |
| `restore_live` | does the data survive and come back, is COMPLETED true, is a restore one replacement (`ReplacesAtomically`)? | 2 requests, 2 workers, `crash`, `backup_lost`, `FairSpec` | holds, 27,721 states |
| `restore_gate` | does the gate belong to a running restore? | 1 request, 1 worker, no fault | it need not (finding) |
| `restore_slow` | is data safe when recovery takes a live worker for dead? | 1 request, 1 worker, `slow` | it is not (finding) |
| `grading_year` | are a year's closing and its report once and true, and does every operation end? | 1 student, 3 grades, 1 request, 2 operations, 2 workers, all 9 faults, `FairSpec` | holds, 222,540 states |
| `payroll_runs` | is the employee charged once, and do the records follow the run? | 2 runs, 2 periods, 2 installments, 1 early repayment, 6 faults | holds, 1,891,517 states |
| `cash_caches` | do books, bills and balances follow the rows? | 2 rows, 2 accounts, 1 student, 2 processes | holds, 365,166 states |
| `cash_deleted` | is the balance right after a COMPLETED row is deleted? | `completed_gone` | it is not (finding) |
| `cash_double` | are the books right after two decisions on one row? | `overlap` | they are not (finding) |

Bounds, and why they suffice. Rows and requests are never reused, so the number of them bounds the
length of a behaviour and nothing else. Two backups are what each property relates (the one offered
and its predecessor, source and safety, two active rows); the second row is queued while the first is
run, failed, retained or purged. Two workers are the least that race for a claim; in the liveness run
one worker is the harder case, because nobody else takes over. `MaxScheduled = 1` makes the second
scheduled backup displace the first. One restore request with two workers and all faults still meets
itself: slow worker and recovery, retry, stale views. Two requests show the hand-over of the gate.
Two cash rows over two accounts show an edit that moves money between accounts while another request
refreshes them, and two payments of one student whose recomputations interleave. Amounts are a
payment of 2 and an expense of 1 against bills of 1 and 2: every partial, exact and excessive total
occurs, and one below zero.

`grading_year`: one student, because the requests on different students meet in nothing but the
bypass, whose lock and commit treat every student alike; three grades, so that a double promotion, a
promotion from the highest grade and a placement below exist; two operations and two workers, the
least that race. `Edits` and `StatusEdits` are the edits that contradict what the requests do: a
graduation written into any enrollment, an enrollment opened again, a student made active. One fault
per behaviour (`MaxFaults`), after which no request on the enrollments begins, and an edit or a fault
of the bypass only while none is at work (`Mixed`): all nine faults among requests were checked once
for the safety properties (1,956,927 states), which takes too long to repeat. `payroll_runs`: two runs
in one period or in two, one installment due in each period, an advance of two slices' worth in one
slice, so that a line is exact or capped by the early repayment of 1. The employee owes an advance or
a sponsorship: no property relates the two, which share the runs only. One fault per behaviour: each
property is then checked under every fault it does not exclude, and for each fault that a property
excludes TLC finds, when the exclusion is dropped, that it is false.

Deadlock is checked in `backups_faults` and `cash_caches`, where something is always possible, and
not where the system may rightly come to rest (all rows used up, nobody has to act).

### What the passing runs leave out

Each property that some environment refutes is stated under the environment in which it holds, and
the refuting ones are runs of their own or named here.
* `OneActiveBackup` needs that maintenance never fails a live worker's row (`slow`).
* `RequiredBackupsKept`, `DeletedNeverReturns` need that the API stays away from rows retention has in
  hand (`overlap`); the violation run is what happens otherwise. The first promises nothing to a
  request whose retry looked at its backups before a user deleted one and committed after it
  (`blind`): nothing in the code keeps the two apart, and the restore then finds its backup gone,
  which is `backup_lost` in `TenantRestore`.
* `DeletingResolves` promises nothing for a row that does not expire (`retention_days` 0) and whose
  deleter died: retention never takes it up again, so that it stays DELETING for ever.
* The data properties of the restore need that statements of live processes succeed. With `db_error`
  and two requests a rollback schema may be stuck behind a retried older request; with `overlap` (a
  retry while another request is active) the first restore to finish opens the gate under the second.
* In `grading_year`, `ClosedOnce` needs that no two requests insert an operation at once (`overlap`),
  that the status endpoint gives up on nobody who is alive (`hasty`) and that the save of COMPLETED
  works (`save`); the second half of `ReportedTruthfully` needs the last two.
  `PlacementFollowsOutcome` and `GraduatesLeave` need that no request saves over a row that changed
  (`stale`) and that no user edits a row (`edited`), the latter besides that no process dies between
  two saves (`half`) and that nobody is reinstated whose year ended in graduation (`reinstated`: a
  graduate may be transferred, and then the reinstatement finds no withdrawn enrollment to open);
  `ClosesEveryone` that no enrollment is inserted beside the locks (`late`). `Settles` names the
  operation whose worker died after "Starting" (`Abandoned`): it stays IN_PROGRESS for ever and is
  returned to every new request, and nothing in the code recovers it. An operation whose worker lives
  ends. `ExecutedOnce` needs nothing.
* In `payroll_runs` only `AdvanceAddsUp` survives everything. What breaks the others in ordinary use,
  one request after another: a second run of a period takes the installments that the first, paid and
  purged run deducted for orphans of deleted runs and deducts them again (`second`; the comment at
  `services.py:1940` calls it self-healing), and reverting one of the two opens the period of the
  other; a line larger than what is still owed withholds the whole but credits the rest (`capped`);
  deleting a paid run leaves its postings and installments (`deleted`); an installment of a paid run
  that is adjusted or deferred becomes due again, and deferring one of a cancelled schedule opens the
  schedule with nothing remaining (`changed`). What needs two requests at once: two payments of one
  run, of which the second replaces the snapshot by nothing, so that payslips are lost and the run
  cannot be reverted (`overlap`), and saves of balances read before another's (`lost`).
* In `cash_caches` two requests neither hold one row nor move one account's balance at the same time,
  and COMPLETED rows are not deleted. In a school these are likely but unguarded assumptions: no lock
  enforces them.

## 4. Fairness

Fairness is assumed only of processes that are restarted or scheduled forever, as
`docs/RAILWAY_PRODUCTION_BACKUP_SERVICES.md:7-11` describes them: workers "Always running",
maintenance on an hourly cron. A worker that can claim or go on eventually does (weak fairness); a
maintenance pass that is possible again and again eventually begins, and once begun goes on (strong
fairness for the beginnings in `TenantBackups`, because phases of the same cron start from idle and
disable each other). Nobody is assumed to request, approve, retry or delete anything, and storage or
`pg_dump` are not assumed to succeed, and no row is assumed to expire. A worker may still crash in
every attempt. In `GradingBypass` the worker command claims pending operations for ever (a loop
started by the Procfile) and a worker that is alive goes on; nobody has to request anything, and
nobody to ask for the status of an operation, which is what lets the endpoint give up. `PayrollRun`
has no liveness property: every step of it is a person's decision. `CashTransactions` has no liveness
property: a process that dies there is never replaced, so nothing would be justified.

## 5. Proofs

All theorems hold for any number of rows, requests, workers, accounts, students and processes; the
environment each one assumes is in its statement. With them every invariant and every action property
that a passing run checks is proved. The sets of cash transactions, of payroll runs, of installments
and of early repayments are assumed to be finite (`TxnsAssumption`, `FiniteAssumption`), as rows of a
database are: a sum over them would mean nothing otherwise.

| theorem | assumes | property |
| --- | --- | --- |
| `TenantBackups_proofs!TypeCorrect` | nothing | `TypeOK` |
| `ClaimIsExclusive` | nothing | `ClaimedOnce` |
| `OfferedIsVerified` | nothing | `OnlyVerifiedOffered` |
| `OneActive` | no `slow` | `OneActiveBackup` |
| `RequiredKept` | no `overlap` | `RequiredBackupsKept` |
| `DeletedStaysDeleted` | no `overlap` | `DeletedNeverReturns` (action property) |
| `TenantRestore_proofs!TypeCorrect` | nothing | `TypeOK` |
| `ApprovedOnly` | nothing | `OnlyApprovedRestored` |
| `DataIsNeverLost` | `Orderly` | `DataSurvives` |
| `OpenMeansWhole` | `Orderly` | `UsersSeeWholeData` |
| `CompletedMeansLive` | `Orderly` | `CompletedIsLive` (action property) |
| `CashTransactions_proofs!TypeCorrect` | nothing | `TypeOK` |
| `BooksMatchCash` | no `overlap` | `LedgerMatchesCash` |
| `BalancesMatchCash` | no `overlap`, no `completed_gone` | `BalanceFollowsCash` |
| `BillsMatchCash` | no `overlap`, no `completed_gone` | `BillsFollowCash` |
| `TenantRestore_refinement!RestoreIsAtomic` | `Orderly` | `ReplacesAtomically` (refinement) |
| `GradingBypass_proofs!OperationExecutedOnce` | nothing | `ExecutedOnce` |
| `StatusIsTruthful` | nothing | `ReportedTruthfully` |
| `YearClosedOnce` | nothing | `ClosedOnce` |
| `EnrollmentLifecycle_proofs!TypeCorrect` | nothing | `TypeOK` of `GradingBypass` |
| `PlacementIsRight` | nothing | `PlacementFollowsOutcome` |
| `GraduationsLeave` | nothing | `GraduatesLeave` |
| `DeletionClosesEveryone` | nothing | `ClosesEveryone` (action property) |
| `PayrollRun_proofs!TypeCorrect` | nothing | `TypeOK` |
| `AdvanceAlwaysAddsUp` | nothing | `AdvanceAddsUp` |
| `RepaidExactlyOnce` | nothing | `RepaidOnce` |
| `DeductionFollowsDebt` | nothing | `OwedIsDeducted` |
| `RemainderStaysRight` | nothing | `RemainderIsRight` |
| `PaidLinesAreKept` | nothing | `PaidRunsKeepLines` |
| `PaidRunsAreBooked` | nothing | `PostedWhilePaid` |
| `PeriodsFollowRuns` | nothing | `ClosedWhilePaid` |
| `PaidRunsDeduct` | nothing | `DeductedByPaidRuns` |

The properties of the last three modules name in themselves the faults after which they promise nothing.

`Orderly` is `Faults \subseteq {"crash", "cron_crash", "backup_lost"}`: processes die at any
statement, backups are lost, but no statement of a live process fails and no live worker is taken
for dead.

**Backups.** None of the invariants is inductive alone. `JobInv` (a busy worker has a row, and that
row will never be QUEUED again) makes `ClaimedOnce` inductive: the claim needs QUEUED. `PublishInv`
says that a row whose worker has not published it is in nobody else's hands, so that a corrupt object
can only be under a row that its worker will reject; this is what keeps a stale save from offering
it. `LiveInv` ties a row's status to its worker's place while nobody fails live workers: an active
row is queued or its worker's own last save. `HandsInv` says that a row that is deleted, or required by
a request that was not reopened blindly, is neither in the hands of retention nor of a deletion.

**Restore.** `WorkerInv`, `SweepInv` and `ApprovedInv` need no assumption: a request that has left
approval keeps `approved_at`, so no stale view can make an unapproved one reach a schema. The data
results rest on `SafeInv`: `AloneInv` (one active request; whoever works on a schema does it alone),
`DataInv` (a rollback schema exists only for the request being restored, behind its gate, and is
whole; without one the live data is whole), `PlaceInv` and `PhaseInv` (what a worker and the recovery
may rely on in each place). The invariant shows why the swap is safe: in each place either the
rollback schema exists and is whole, or the live schema is.

**Cash.** `HandInv` (no row is in two hands) and `JobInv` (what a request loaded is still true of
its row) make the stale copy harmless; `LinkInv` says that a row is linked to an entry exactly while
COMPLETED, and to the entry it would be posted with now. From these every transaction keeps
`LedgerMatchesCash`: it takes off exactly what is on the books. `cash_double` is the same step
without `HandInv`.

*The two caches.* `CacheInv` holds beside these when COMPLETED rows stay. For the balance nothing has
to be added: each transaction that changes what an account sums up leaves the account with the request
to recalculate, and recalculating reads what is there. For the bills, a request reads with `FOR
UPDATE` and writes later: `LockInv` says that two requests never have the bills of one student in
hand, `ReadInv` that what one has read is still true or that somebody else is to read again, and
`SavedInv` that bills nobody is to recompute show what the rows pay. So a recomputation that writes a
stale amount is always followed by another. What the bills show is the distribution of the code:
`OldestFirst` and `SharesTotal` say that it fills the oldest bill first and spends the whole sum as
far as the bills go, for any number of bills.

*Sums.* `Sums` proves the laws of a sum over a finite set that these and the payroll proofs need: it
is an integer, it grows by the value of an element that is added, two functions that agree on the set
have one sum. The library's induction rules cannot be used here, so each law is proved from a
minimal counterexample: the sets for which it fails have, by well-foundedness of the strict subset
order on finite sets, a smallest one (`MinimalSubset`), which is not empty, and taking its picked
element away gives a smaller set for which the law holds. The same argument for numbers
(`LeastNatural`) gives the laws of prefixes.

**Refinement.** `StoredInv`, which follows from `SafeInv`, says that there is at most one rollback
schema, so that the mapping is well defined; then each action of the restore is `Approve`, `Close`,
`Open`, `Replace` or a stutter. The gate being closed in every place in which a schema changes
(`PlaceInv`) is what makes `Replace` unseen.

**Year closing.** `TaskInv` and `FreshInv` (an operation that was not claimed is in nobody's hands and
has done nothing) make `ExecutedOnce` inductive; `StageInv` ties what has been committed to where the
workers are, `ReportInv` the status to both, and `AloneInv` says that only one operation is not
failed. For the rows, `Promised` says that what a request is about to save fits the row it loaded as
long as nobody changed that row, and `FitInv` carries it to the completed enrollments, to one inserted
as completed too, which has neither outcome nor next grade. `LeaveInv` is about the two saves of a
graduation: whoever saves a graduated enrollment is going to save that the student graduated
(`Meant`), a request between its two saves whose enrollment is still as it saved it knows whether it
graduated (`Sees`), and a graduated student who has not left has a request that waits to say so, or
that is about to look at the enrollment or to close it as withdrawn (`Waits`): a withdrawal or a
reinstatement saves the student first, and one that then looks and leaves a graduation behind is the
fault `reinstated`. Nothing else can save the student in between without being stale.

**Payroll.** A step is the work of a service on one run (`Work`), by a request served at once or a
slow one that finishes, or another action (`StepCases`): each proof treats the six services once.
`AdvanceAddsUp` rests on `LoanInv`: nothing is withheld, and nothing will be restored, for an advance
that was not disbursed, and what a slow request has read adds up too, because the status it read can
only be left for good; so even a lost update writes a pair that adds up. `RunsInv` (`Regular`: which
statuses have lines and which a snapshot) gives the snapshot and the postings. `PeriodsInv` adds that
at most one run of a period has lines or is paid (`Exclusive`), which is what lets a reversal open the
period; `WardsInv` that lines withhold only what is due in their run's period (`DueLines`), so that by
`Exclusive` no installment has two payers and a generation finds no orphan. `RepaidInv` relates the
amount an advance counts as repaid to two sums, over the snapshots of the paid runs and over the early
repayments: paying adds what the snapshot takes over from the lines, because no line is capped, and
reverting takes off what the snapshot still says, because nobody else has replaced it. That the
remainder of a schedule is a number (`Whole`) needs that a slow request carries a schedule it has read
whole. That it is the right one (`RemainderStaysRight`) needs that a service recomputes it from the
installments it has saved, that a recomputation sees only amounts and what is deducted
(`RecomputedSame`), so that a deferral may skip it, and that it never yields a cancelled schedule
(`RecomputedStatus`), which is therefore one whose installments nobody has deducted since.

**Only model-checked**: liveness (`QueuedSettles`, `DeletingResolves`, `RestoreSettles`,
`DataComesBack`, `Settles`), which is outside this prover, and that the stated assumptions are needed
(the violation runs).

## 6. Findings

* **A required backup can be purged** (`backups_overlap`): retention checks and saves without the
  row lock that `request_restore` takes.
* **The gate can stay closed with no restore running** (`restore_gate`): a restore that fails before
  `tenant_locked = True` leaves the gate that `execute_restore` closed.
* **Recovery and a slow worker can drop the last whole copy** (`restore_slow`): recovery takes no
  advisory lock and `updated_at` is never touched while RESTORING.
* **Deleting a COMPLETED transaction leaves the balance** (`cash_deleted`): `destroy` recalculates
  only for APPROVED rows, the one case in which the sum does not change.
* **Two decisions on one transaction break the books** (`cash_double`): the status check and the
  posting check read an unlocked copy.

Smaller things met while modelling, stated here without a run of their own: what a second run of a
period, a capped line, an overlapping payment and a deleted paid run do (section 3); a bypass with the
outcome WITHDRAWN or TRANSFERRED leaves the student active, unlike `close_enrollment_year`; an undo of
promotions (`enrollment_lifecycle_bulk.py:571`) moves an enrolled student down who was never promoted;
an early repayment that is credited for less than was paid keeps no record of the excess; deferring an
installment of a completed schedule opens the schedule again, and one of a cancelled schedule with
nothing remaining; paying a run that was generated before its sponsorship was cancelled deducts the
cancelled installment and opens the cancelled schedule (`services.py:2708-2717`), and reverting that
run makes the installment due; `retry_restore` locks its own row only, unlike `request_restore`
(`restore_services.py:63`, `165`), so that a user may delete a backup the retried restore needs; a
DELETING row that does not expire and whose deleter died stays for ever; a graduate who is transferred
and then reinstated is an active student with a graduated enrollment; a POST may insert an enrollment
that is completed and has no outcome, though a PUT refuses it (`students/views/enrollment.py:122`,
`232-241`); two payments validated at once may together exceed what a student owes
(`cash_transaction.py:808`), as payments made in sequence may while they are pending.

## 7. Plan

Done: backups, restore with its abstract specification, cash transactions, year closing, payroll
runs. Left, in order:

1. A composed module of backup and restore with the contents of dumps: scheduled backups are queued
   while a restore runs (`backups/services.py:236`), so that a dump may read a half restored schema.
2. `Recalculate` of `CashTransactions` split into read and save, with the copy of the balance a request
   has in memory: `recalculate_bank_account_current_balance` compares the new sum with that copy and
   saves nothing when they agree, though another request may have saved since; account transfers.
3. The tuition transactions of a ward sponsorship, composed with the bills of `CashTransactions`.
4. The rollover to a new academic year, composed with `EnrollmentLifecycle`; SSO session life cycle.

Left out for good: PDF generation, mail delivery, storage and PostgreSQL themselves (their outcomes
are inputs of the models), permissions and serialisation, seed data, and the transactions of single
rows that nothing else touches.
