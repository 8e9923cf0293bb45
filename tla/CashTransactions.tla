-------------------------- MODULE CashTransactions --------------------------
(***************************************************************************)
(* Cash transactions of ONE tenant (accounting): web requests and the      *)
(* "post all" background task create, edit, approve, complete, reject,     *)
(* reopen and delete rows; a completed row has a posted journal entry; two *)
(* caches follow the completed rows: the balance of every bank account and *)
(* the paid amount of every student bill.                                  *)
(*                                                                         *)
(* A request reads its row without a lock, later commits in one database   *)
(* transaction, and only after the commit refreshes the caches, so other   *)
(* requests run in between.  A process that dies after its commit is one   *)
(* that takes no further step: nothing resumes its work.                   *)
(*                                                                         *)
(* Amounts are signed (income positive, expense negative) and in one       *)
(* currency.  A journal entry is known by the account and amount it was    *)
(* posted with; a reversal takes the same effect off the books again.      *)
(* Transfers, uploads and the payroll's own postings are not modelled.     *)
(***************************************************************************)
EXTENDS Integers, Sequences, FiniteSets, FiniteSetsExt

CONSTANTS
  Txns,       \* rows that may exist at the same time (the bound)
  Accounts,   \* bank accounts
  Keys,       \* student and academic year of a payment
  Amounts,    \* amounts a row may have
  Nets,       \* Nets[i]: net amount of the i-th oldest bill, same for all keys
  Procs,      \* requests and background tasks that run at the same time
  Faults,     \* see CashFaults
  None

(***************************************************************************)
(* "overlap"         two requests on one row, or two that move the balance *)
(*                   of one bank account, run at the same time.            *)
(* "completed_gone"  a completed transaction is deleted.                   *)
(***************************************************************************)
CashFaults == {"overlap", "completed_gone"}

ASSUME FaultsAssumption == Faults \subseteq CashFaults
\* The entries of rows with this account and amount.
Postings == [account : Accounts, amount : Amounts]

ASSUME TxnsAssumption == IsFiniteSet(Txns)
ASSUME NoneAssumption == None \notin Txns \cup Accounts \cup Keys \cup Postings
ASSUME AmountsAssumption == Amounts \subseteq Int \ {0}
ASSUME NetsAssumption == Nets \in Seq(Nat)

VARIABLES
  row,      \* row[t]: the AccountingCashTransaction
  books,    \* books[t][a]: effect on account a of the journal entries of row t
  balance,  \* balance[a]: AccountingBankAccount.current_balance
  paid,     \* paid[k][i]: AccountingStudentBill.paid_amount
  job,      \* job[p]: what process p is doing, see NoJob
  seen      \* seen[p]: what p read the student of its job to have paid

caches == <<balance, paid, seen>>
vars == <<row, books, balance, paid, job, seen>>

Statuses == {"pending", "approved", "completed", "rejected"}
Payers   == Keys \cup {None}
Rows == [status : Statuses, account : Accounts, amount : Amounts,
         payer : Payers, link : Postings \cup {None}]
NoRow == [status |-> "absent", account |-> None, amount |-> 0,
          payer |-> None, link |-> None]

(***************************************************************************)
(* at     "idle", "loaded" (before its transaction), "committed" or        *)
(*        "billing" (holding the row locks of the bills of key)            *)
(* old    the row as the request loaded it, new: the row it asks for       *)
(* todo   rows that post_all has still to post                             *)
(* keys   whose bills are recomputed after the commit, one after another   *)
(* key    whose bills are being recomputed                                 *)
(* dirty  accounts whose balance is recalculated after the commit          *)
(***************************************************************************)
NoJob == [at |-> "idle", task |-> None, txn |-> None, old |-> NoRow,
          new |-> NoRow, todo |-> {}, keys |-> {}, key |-> None, dirty |-> {}]

Exists(t)    == row[t].status # "absent"
Completed(t) == row[t].status = "completed"
Posting(r)   == [account |-> r.account, amount |-> r.amount]

AmountsIn(r) == [t \in Txns |-> r[t].amount]

\* compute_bank_account_balance, of the rows r
BalanceIn(r, a) ==
  SumFunctionOnSet(AmountsIn(r),
                   {t \in Txns : r[t].status = "completed" /\ r[t].account = a})

BalanceOf(a) == BalanceIn(row, a)

\* get_total_paid_for_student_year
PaidBy(k) ==
  SumFunctionOnSet(AmountsIn(row), {t \in Txns : Completed(t) /\ row[t].payer = k})

Least(x, y) == IF x < y THEN x ELSE y
SumOfNets(I) == SumFunctionOnSet(Nets, I)

\* recompute_student_year_payments: oldest bill first, each up to its net.
Distribute(total) ==
  [i \in DOMAIN Nets |->
     LET left == total - SumOfNets(1..(i - 1))
     IN  IF left > 0 THEN Least(Nets[i], left) ELSE 0]

Init ==
  /\ row = [t \in Txns |-> NoRow]
  /\ books = [t \in Txns |-> [a \in Accounts |-> 0]]
  /\ balance = [a \in Accounts |-> 0]
  /\ paid = [k \in Keys |-> Distribute(0)]
  /\ job = [p \in Procs |-> NoJob]
  /\ seen = [p \in Procs |-> 0]

-----------------------------------------------------------------------------
(* A request begins: it loads its row and is validated                     *)

InHand(t) == {p \in Procs : job[p].txn = t \/ t \in job[p].todo}
Changing(t) == {p \in InHand(t) : job[p].task \in {"create", "edit", "delete"}}

\* Accounts whose balance a job may yet move.
Moves(j) ==
  j.dirty \cup {row[t].account : t \in j.todo} \cup
  (IF j.at = "loaded"
   THEN {r.account : r \in {s \in {j.old, j.new} :
                              s.status = "completed" \/ s.link # None}}
   ELSE {})

Start(p, j) ==
  /\ job[p].at = "idle"
  /\ "overlap" \in Faults \/
       \A q \in Procs \ {p} : Moves(j) \cap Moves(job[q]) = {}
  /\ job' = [job EXCEPT ![p] = j]
  /\ UNCHANGED <<row, books, caches>>

Request(task, t, new) ==
  [at |-> "loaded", task |-> task, txn |-> t, old |-> row[t], new |-> new,
   todo |-> {}, keys |-> {}, key |-> None, dirty |-> {}]

\* _validate_student_income_payment; expenses other than refunds are not
\* limited, and refunds appear as one of them.
Payable(amount, k) ==
  k = None \/ amount < 0 \/ amount <= SumOfNets(DOMAIN Nets) - PaidBy(k)

BeginCreate(p, t) ==
  /\ ~Exists(t)
  /\ InHand(t) = {}
  /\ \E s \in Statuses, a \in Accounts, x \in Amounts, k \in Payers :
       /\ Payable(x, k)
       /\ Start(p, Request("create", t,
                     [status |-> s, account |-> a, amount |-> x, payer |-> k,
                      link |-> None]))

\* transition_map; COMPLETED only through the complete and post actions.
Allowed(s) ==
  CASE s = "pending"   -> {"pending", "approved", "rejected"}
    [] s = "approved"  -> {"pending", "approved", "completed", "rejected"}
    [] s = "rejected"  -> {"pending", "approved", "rejected"}
    [] s = "completed" -> {"pending", "rejected"}

BeginStatus(p, t) ==
  /\ Exists(t)
  /\ Changing(t) = {}
  /\ "overlap" \in Faults \/ InHand(t) = {}
  /\ \E s \in Allowed(row[t].status) :
       Start(p, Request("status", t, [row[t] EXCEPT !.status = s]))

BeginEdit(p, t) ==
  /\ Exists(t)
  /\ InHand(t) = {}
  /\ \E a \in Accounts, x \in Amounts, k \in Payers :
       /\ Payable(x, k)
       /\ Start(p, Request("edit", t,
                     [row[t] EXCEPT !.account = a, !.amount = x, !.payer = k]))

BeginDelete(p, t) ==
  /\ Exists(t)
  /\ InHand(t) = {}
  /\ Completed(t) => "completed_gone" \in Faults
  /\ Start(p, Request("delete", t, row[t]))

\* get_eligible_post_all_queryset, with any filter.
BeginPostAll(p) ==
  /\ \E T \in SUBSET {t \in Txns : row[t].status = "approved" /\ row[t].link = None} :
       /\ T # {}
       /\ \A t \in T : Changing(t) = {} /\ ("overlap" \in Faults \/ InHand(t) = {})
       /\ Start(p, [NoJob EXCEPT !.at = "committed", !.task = "post_all", !.todo = T])

\* A limit of the bank account or an error rolls everything back.
Refuse(p) ==
  /\ job[p].at = "loaded"
  /\ job' = [job EXCEPT ![p] = NoJob]
  /\ UNCHANGED <<row, books, caches>>

-----------------------------------------------------------------------------
(* The database transaction of a request                                   *)

\* p goes on with job j, or is done.
GoOn(p, j) ==
  job' = [job EXCEPT ![p] =
            IF j.todo = {} /\ j.keys = {} /\ j.dirty = {} THEN NoJob ELSE j]

Settle(p, payers, accounts) ==
  GoOn(p, [NoJob EXCEPT !.at = "committed", !.keys = payers \ {None},
                        !.dirty = accounts])

Effect(entry, a) == IF entry # None /\ entry.account = a THEN entry.amount ELSE 0

\* The books lose the effect of one entry of t and gain that of another.
Book(t, gone, come) ==
  books' = [books EXCEPT ![t] =
              [a \in Accounts |-> @[a] - Effect(gone, a) + Effect(come, a)]]

Loaded(p, task) == job[p].at = "loaded" /\ job[p].task = task

CommitCreate(p) ==
  LET t == job[p].txn
      r == job[p].new
      entry == IF r.status = "completed" THEN Posting(r) ELSE None
  IN  /\ Loaded(p, "create")
      /\ row' = [row EXCEPT ![t] = [r EXCEPT !.link = entry]]
      /\ Book(t, None, entry)
      /\ balance' = IF entry = None THEN balance
                    ELSE [balance EXCEPT ![r.account] = BalanceIn(row', r.account)]
      /\ Settle(p, {r.payer}, {})
      /\ UNCHANGED <<paid, seen>>

\* Mutant: _update_status reopens a transaction and keeps its entry.
ReopenKeepsEntry(p) ==
  LET t == job[p].txn
      r == job[p].old
      s == job[p].new.status
  IN  /\ Loaded(p, "status")
      /\ s # "completed"
      /\ row' = [row EXCEPT ![t].status = s]
      /\ Settle(p, {r.payer},
                IF s # r.status /\ r.status = "completed" THEN {r.account} ELSE {})
      /\ UNCHANGED <<books, caches>>

\* _update_status to any status but COMPLETED: the entry that was linked when
\* the row was loaded is reversed and unlinked.
CommitReopen(p) ==
  LET t == job[p].txn
      r == job[p].old
      s == job[p].new.status
      gone == IF s # r.status /\ r.status \in {"approved", "completed"}
              THEN r.link ELSE None
  IN  /\ Loaded(p, "status")
      /\ s # "completed"
      /\ row' = [row EXCEPT ![t].status = s,
                            ![t].link = IF gone = None THEN @ ELSE None]
      /\ Book(t, gone, None)
      /\ Settle(p, {r.payer},
                IF s # r.status /\ (r.status = "completed" \/ (r.link # None /\ gone = None))
                THEN {r.account} ELSE {})
      /\ UNCHANGED caches

\* Mutant: a status that the model field does not know.
CompleteMisnamed(p) ==
  LET t == job[p].txn
      r == job[p].old
  IN  /\ Loaded(p, "status")
      /\ job[p].new.status = "completed"
      /\ row' = [row EXCEPT ![t].status = "posted",
                            ![t].link = IF r.link = None THEN Posting(r) ELSE @]
      /\ Book(t, r.link, Posting(r))
      /\ Settle(p, {r.payer}, {r.account})
      /\ UNCHANGED caches

\* _update_status to COMPLETED: an entry is posted, or the linked one synced.
CommitComplete(p) ==
  LET t == job[p].txn
      r == job[p].old
  IN  /\ Loaded(p, "status")
      /\ job[p].new.status = "completed"
      /\ row' = [row EXCEPT ![t].status = "completed",
                            ![t].link = IF r.link = None THEN Posting(r) ELSE @]
      /\ Book(t, r.link, Posting(r))
      /\ Settle(p, {r.payer}, {r.account})
      /\ UNCHANGED caches

\* post_save for the new student, and for the old one if an entry is reversed.
PayersOfEdit(p) ==
  {job[p].new.payer} \cup (IF job[p].old.link = None THEN {} ELSE {job[p].old.payer})

\* Mutant: only the account that the transaction is now on is recalculated.
EditForgetsAccount(p) ==
  LET t == job[p].txn
      r == job[p].old
  IN  /\ Loaded(p, "edit")
      /\ row' = [row EXCEPT ![t] =
                   [job[p].new EXCEPT !.status = "pending", !.link = None]]
      /\ Book(t, r.link, None)
      /\ Settle(p, PayersOfEdit(p),
                IF r.status = "completed" THEN {job[p].new.account} ELSE {})
      /\ UNCHANGED caches

\* perform_update: any edit reverses the entry and goes back to PENDING.
CommitEdit(p) ==
  LET t == job[p].txn
      r == job[p].old
  IN  /\ Loaded(p, "edit")
      /\ row' = [row EXCEPT ![t] =
                   [job[p].new EXCEPT !.status = "pending", !.link = None]]
      /\ Book(t, r.link, None)
      /\ Settle(p, PayersOfEdit(p),
                IF r.status = "completed" \/ r.link # None
                THEN {r.account, job[p].new.account} ELSE {})
      /\ UNCHANGED caches

\* destroy: the entry goes with the row.  The balance is recalculated for an
\* APPROVED row, and no bill is: there is no post_delete receiver.
CommitDelete(p) ==
  LET t == job[p].txn
      r == job[p].old
  IN  /\ Loaded(p, "delete")
      /\ row' = [row EXCEPT ![t] = NoRow]
      /\ Book(t, r.link, None)
      /\ balance' = IF r.status # "approved" THEN balance
                    ELSE [balance EXCEPT ![r.account] = BalanceIn(row', r.account)]
      /\ Settle(p, {}, {})
      /\ UNCHANGED <<paid, seen>>

-----------------------------------------------------------------------------
(* execute_post_all: one transaction per row, from the rows as listed      *)

Committed(p) == job[p].at = "committed" /\ job[p].keys = {}

PostNext(p, t) ==
  /\ Committed(p)
  /\ t \in job[p].todo
  /\ row' = [row EXCEPT ![t].status = "completed", ![t].link = Posting(row[t])]
  /\ Book(t, None, Posting(row[t]))
  /\ GoOn(p, [job[p] EXCEPT !.todo = @ \ {t}, !.keys = {row[t].payer} \ {None},
                            !.dirty = @ \cup {row[t].account}])
  /\ UNCHANGED caches

\* Its transaction is rolled back; a cancelled task skips all that is left.
SkipNext(p, t) ==
  /\ Committed(p)
  /\ t \in job[p].todo
  /\ GoOn(p, [job[p] EXCEPT !.todo = @ \ {t}])
  /\ UNCHANGED <<row, books, caches>>

-----------------------------------------------------------------------------
(* After the commit: on_commit recomputes the bills, then the view or the  *)
(* task recalculates the balances                                          *)

\* Mutant: the bills are read without select_for_update.
ReadBills(p, k) ==
  /\ job[p].at = "committed"
  /\ k \in job[p].keys
  /\ job' = [job EXCEPT ![p].at = "billing", ![p].key = k]
  /\ seen' = [seen EXCEPT ![p] = PaidBy(k)]
  /\ UNCHANGED <<row, books, balance, paid>>

LockBills(p, k) ==
  /\ job[p].at = "committed"
  /\ k \in job[p].keys
  /\ \A q \in Procs : job[q].key # k
  /\ job' = [job EXCEPT ![p].at = "billing", ![p].key = k]
  /\ seen' = [seen EXCEPT ![p] = PaidBy(k)]
  /\ UNCHANGED <<row, books, balance, paid>>

SaveBills(p) ==
  LET k == job[p].key
  IN  /\ job[p].at = "billing"
      /\ paid' = [paid EXCEPT ![k] = Distribute(seen[p])]
      /\ seen' = [seen EXCEPT ![p] = 0]
      /\ GoOn(p, [job[p] EXCEPT !.at = "committed", !.key = None, !.keys = @ \ {k}])
      /\ UNCHANGED <<row, books, balance>>

\* recalculate_bank_account_current_balance, one step because jobs that move
\* the balance of one account do not overlap.
Recalculate(p, a) ==
  /\ Committed(p)
  /\ job[p].todo = {}
  /\ a \in job[p].dirty
  /\ balance' = [balance EXCEPT ![a] = BalanceOf(a)]
  /\ GoOn(p, [job[p] EXCEPT !.dirty = @ \ {a}])
  /\ UNCHANGED <<row, books, paid, seen>>

-----------------------------------------------------------------------------
Next ==
  \E p \in Procs :
    \/ \E t \in Txns :
         \/ BeginCreate(p, t) \/ BeginStatus(p, t) \/ BeginEdit(p, t)
         \/ BeginDelete(p, t)
         \/ PostNext(p, t) \/ SkipNext(p, t)
    \/ BeginPostAll(p)
    \/ Refuse(p)
    \/ CommitCreate(p) \/ CommitReopen(p) \/ CommitComplete(p) \/ CommitEdit(p)
    \/ CommitDelete(p)
    \/ \E k \in Keys : LockBills(p, k)
    \/ SaveBills(p)
    \/ \E a \in Accounts : Recalculate(p, a)

Spec == Init /\ [][Next]_vars

-----------------------------------------------------------------------------
Tasks == {"create", "status", "edit", "delete", "post_all"}
Jobs == [at : {"idle", "loaded", "committed", "billing"},
         task : Tasks \cup {None}, txn : Txns \cup {None},
         old : Rows \cup {NoRow}, new : Rows \cup {NoRow}, todo : SUBSET Txns,
         keys : SUBSET Keys, key : Payers, dirty : SUBSET Accounts]

RowTypes ==
  /\ row \in [Txns -> Rows \cup {NoRow}]
  /\ books \in [Txns -> [Accounts -> Int]]
  /\ job \in [Procs -> Jobs]

TypeOK ==
  /\ RowTypes
  /\ balance \in [Accounts -> Int]
  /\ paid \in [Keys -> [DOMAIN Nets -> Nat]]
  /\ seen \in [Procs -> Int]

\* "Transaction is already completed.": a transaction is on the books exactly
\* once while it is COMPLETED, on its account and with its amount, and not at
\* all otherwise, whatever was edited, reopened, reposted or deleted.
LedgerMatchesCash ==
  \A t \in Txns, a \in Accounts :
    books[t][a] = IF Completed(t) /\ row[t].account = a THEN row[t].amount ELSE 0

\* The bills of k show the payments of k: all of them, none below zero or
\* beyond a bill, and no bill before the older ones are paid.
Shows(k) ==
  LET due == SumOfNets(DOMAIN Nets)
      got == PaidBy(k)
  IN  /\ SumFunctionOnSet(paid[k], DOMAIN Nets) =
            IF got < 0 THEN 0 ELSE Least(got, due)
      /\ \A i \in DOMAIN Nets : paid[k][i] \in 0..Nets[i]
      /\ \A i, j \in DOMAIN Nets : i < j /\ paid[k][j] > 0 => paid[k][i] = Nets[i]

\* refresh_student_bill_paid_amount, "in sync with the cash ledger": unless
\* a recomputation for the student is still to come, the bills show what the
\* student's completed transactions pay, although the recomputations of
\* several requests read and write them in any order.
BillsFollowCash ==
  \A k \in Keys : (\A p \in Procs : k \notin job[p].keys) => Shows(k)

\* "Recalculate and persist bank account balance from completed cash
\* transactions": unless a recalculation of the account is still to come, its
\* balance is the sum of its completed transactions.
BalanceFollowsCash ==
  \A a \in Accounts :
    (\A p \in Procs : a \notin job[p].dirty) => balance[a] = BalanceOf(a)
=============================================================================
