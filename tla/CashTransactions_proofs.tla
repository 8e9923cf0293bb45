----------------------- MODULE CashTransactions_proofs -----------------------
(***************************************************************************)
(* The invariants of CashTransactions, for any number of rows, accounts,   *)
(* students, bills, amounts and processes.  The types are right whatever   *)
(* overlaps; the books are right when no two requests hold one row at the  *)
(* same time, the balances and the bills when moreover no completed row is *)
(* deleted.                                                                *)
(***************************************************************************)
EXTENDS CashTransactions, Sums

Serial == "overlap" \notin Faults

Holds(p, t) == job[p].txn = t \/ t \in job[p].todo

-----------------------------------------------------------------------------
(* Types, with any faults                                                  *)

\* A request that no other may share its row with.
Alone(j, t) == j.txn = t /\ j.task \in {"create", "edit", "delete"}

\* What a job may rely on although others change its rows.
Sound(j) ==
  /\ j.at = "loaded" =>
       /\ j.txn \in Txns
       /\ j.todo = {}
       /\ j.task \in {"create", "edit"} => j.new \in Rows
       /\ j.task = "status" => /\ row[j.txn] \in Rows /\ j.old \in Rows
                              /\ j.new.status \in Statuses
  /\ j.at # "loaded" => j.txn = None
  /\ \A t \in j.todo : row[t] \in Rows

SoundInv == \A p \in Procs : Sound(job[p])
AloneInv ==
  \A p, q \in Procs, t \in Txns : Alone(job[p], t) /\ Holds(q, t) => p = q

Typed == RowTypes /\ SoundInv /\ AloneInv

LEMMA NoJobType == NoJob \in Jobs /\ NoJob.todo = {} /\ NoJob.txn = None
                   /\ NoJob.at = "idle"
  BY DEF NoJob, Jobs, Payers, Tasks

LEMMA NoneIsNoTxn == None \notin Txns
  BY NoneAssumption

LEMMA RowKinds ==
  ASSUME RowTypes, NEW t \in Txns
  PROVE  /\ Exists(t) => row[t] \in Rows
         /\ ~Exists(t) => row[t] = NoRow
  BY DEF RowTypes, Exists, Rows, Statuses, NoRow

LEMMA AllowedType ==
  ASSUME NEW s \in Statuses
  PROVE  Allowed(s) \subseteq Statuses
  BY DEF Allowed, Statuses

LEMMA PostingType ==
  ASSUME NEW r \in Rows
  PROVE  Posting(r) \in Postings
  BY DEF Posting, Postings, Rows

LEMMA LinkType ==
  ASSUME NEW r \in Rows \cup {NoRow}
  PROVE  r.link \in Postings \cup {None}
  BY DEF Rows, NoRow

LEMMA EffectType ==
  ASSUME NEW e \in Postings \cup {None}, NEW a \in Accounts
  PROVE  Effect(e, a) \in Int
<1>1. CASE e = None
  BY <1>1 DEF Effect
<1>2. CASE e \in Postings
  <2>1. e.amount \in Int
    BY <1>2, AmountsAssumption DEF Postings
  <2> QED BY <2>1 DEF Effect
<1> QED BY <1>1, <1>2

LEMMA BooksType ==
  ASSUME books \in [Txns -> [Accounts -> Int]], NEW t \in Txns,
         NEW gone \in Postings \cup {None}, NEW come \in Postings \cup {None},
         Book(t, gone, come)
  PROVE  books' \in [Txns -> [Accounts -> Int]]
<1>1. \A a \in Accounts : books[t][a] - Effect(gone, a) + Effect(come, a) \in Int
  <2> TAKE a \in Accounts
  <2>1. Effect(gone, a) \in Int /\ Effect(come, a) \in Int /\ books[t][a] \in Int
    BY EffectType
  <2> QED BY <2>1
<1> DEFINE f == [a \in Accounts |-> books[t][a] - Effect(gone, a) + Effect(come, a)]
<1>2. f \in [Accounts -> Int]
  BY <1>1
<1>3. books' = [books EXCEPT ![t] = f]
  BY DEF Book
<1> HIDE DEF f
<1> QED BY <1>2, <1>3

\* What becomes of the job of p when it goes on with j.
LEMMA GoOnJob ==
  ASSUME NEW p \in Procs, NEW j \in Jobs, GoOn(p, j), j.at # "loaded", j.txn = None
  PROVE  \E k \in Jobs :
           /\ job' = [job EXCEPT ![p] = k]
           /\ k.at \in {"idle", j.at} /\ k.txn = None
           /\ k.todo = j.todo /\ k.keys = j.keys /\ k.dirty = j.dirty
           /\ k = j \/ k = NoJob
<1> DEFINE k == IF j.todo = {} /\ j.keys = {} /\ j.dirty = {} THEN NoJob ELSE j
<1>1. k \in Jobs /\ k.at \in {"idle", j.at} /\ k.txn = None
  BY NoJobType
<1>2. k.todo = j.todo /\ k.keys = j.keys /\ k.dirty = j.dirty
  BY DEF NoJob
<1>3. job' = [job EXCEPT ![p] = k] /\ (k = j \/ k = NoJob)
  BY DEF GoOn
<1> HIDE DEF k
<1> QED BY <1>1, <1>2, <1>3

\* A step that changes the job of p only.
LEMMA TypedJobStep ==
  ASSUME Typed, UNCHANGED <<row, books>>,
         NEW p \in Procs, NEW j \in Jobs, Sound(j),
         job' = [job EXCEPT ![p] = j],
         \A t \in Txns, q \in Procs \ {p} :
            /\ Alone(j, t) => ~Holds(q, t)
            /\ Alone(job[q], t) => j.txn # t /\ t \notin j.todo
  PROVE  Typed'
<1>1. RowTypes'
  BY DEF Typed, RowTypes
<1>2. SoundInv'
  BY DEF Typed, RowTypes, SoundInv, Sound
<1>3. AloneInv'
  BY DEF Typed, RowTypes, AloneInv, Alone, Holds
<1> QED BY <1>1, <1>2, <1>3 DEF Typed

\* A transaction of the database on row t, which p holds.
LEMMA TypedRowStep ==
  ASSUME Typed, NEW p \in Procs, NEW t \in Txns, Holds(p, t),
         NEW r \in Rows \cup {NoRow}, r \notin Rows => Alone(job[p], t),
         row' = [row EXCEPT ![t] = r],
         NEW gone \in Postings \cup {None}, NEW come \in Postings \cup {None},
         Book(t, gone, come),
         NEW j \in Jobs, GoOn(p, j),
         j.at # "loaded", j.txn = None, j.todo \subseteq job[p].todo \ {t}
  PROVE  Typed'
<1>1. PICK k \in Jobs : job' = [job EXCEPT ![p] = k] /\ k.at # "loaded" /\ k.txn = None
                        /\ k.todo \subseteq job[p].todo \ {t}
  BY GoOnJob
<1>2. RowTypes'
  BY <1>1, BooksType DEF Typed, RowTypes
<1>3. SoundInv'
  <2> SUFFICES ASSUME NEW q \in Procs PROVE Sound(job[q])'
    BY DEF SoundInv
  <2>1. CASE q = p
    <3>1. job'[q] = k /\ \A s \in k.todo : s # t /\ s \in Txns /\ row[s] \in Rows
      BY <1>1, <2>1 DEF Typed, RowTypes, SoundInv, Sound, Jobs
    <3> QED BY <1>1, <3>1 DEF Sound, Typed, RowTypes
  <2>2. CASE q # p
    <3>1. job'[q] = job[q] /\ Sound(job[q]) /\ job[q].todo \subseteq Txns
      BY <1>1, <2>2 DEF Typed, RowTypes, SoundInv, Jobs
    <3>2. r \notin Rows => ~Holds(q, t)
      BY <2>2 DEF Typed, AloneInv
    <3>3. \A s \in Txns : Holds(q, s) /\ row[s] \in Rows => row'[s] \in Rows
      BY <3>2 DEF Typed, RowTypes
    <3> QED BY <3>1, <3>3 DEF Sound, Holds
  <2> QED BY <2>1, <2>2
<1>4. AloneInv'
  BY <1>1, NoneIsNoTxn DEF Typed, RowTypes, AloneInv, Alone, Holds, Jobs
<1> QED BY <1>2, <1>3, <1>4 DEF Typed

-----------------------------------------------------------------------------
LEMMA TypedBegin ==
  ASSUME Typed, NEW p \in Procs, NEW t \in Txns, NEW task \in Tasks \ {"post_all"},
         NEW new \in Rows \cup {NoRow},
         Changing(t) = {},
         task # "status" => InHand(t) = {},
         task \in {"create", "edit"} => new \in Rows,
         task = "status" => row[t] \in Rows /\ new.status \in Statuses,
         Start(p, Request(task, t, new))
  PROVE  Typed'
<1> DEFINE j == Request(task, t, new)
<1>1. j = [at |-> "loaded", task |-> task, txn |-> t, old |-> row[t],
           new |-> new, todo |-> {}, keys |-> {}, key |-> None, dirty |-> {}]
  BY DEF Request
<1>2. j \in Jobs /\ Sound(j)
  BY <1>1 DEF Jobs, Payers, Typed, RowTypes, Sound
<1>3. \A q \in Procs : ~Alone(job[q], t)
  BY DEF Changing, InHand, Alone
<1>4. task # "status" => \A q \in Procs : ~Holds(q, t)
  BY DEF InHand, Holds
<1>5. \A s \in Txns, q \in Procs \ {p} :
         /\ Alone(j, s) => ~Holds(q, s)
         /\ Alone(job[q], s) => j.txn # s /\ s \notin j.todo
  BY <1>1, <1>3, <1>4 DEF Alone
<1>6. UNCHANGED <<row, books>> /\ job' = [job EXCEPT ![p] = j]
  BY DEF Start
<1> HIDE DEF j
<1> QED BY <1>2, <1>5, <1>6, TypedJobStep

LEMMA BeginTyped ==
  ASSUME Typed, NEW p \in Procs, NEW t \in Txns,
         BeginCreate(p, t) \/ BeginStatus(p, t) \/ BeginEdit(p, t) \/ BeginDelete(p, t)
  PROVE  Typed'
<1>1. RowTypes
  BY DEF Typed
<1>2. InHand(t) = {} => Changing(t) = {}
  BY DEF Changing
<1>3. CASE BeginCreate(p, t)
  <2>1. PICK s \in Statuses, a \in Accounts, x \in Amounts, k \in Payers :
          Start(p, Request("create", t,
                     [status |-> s, account |-> a, amount |-> x, payer |-> k,
                      link |-> None]))
    BY <1>3 DEF BeginCreate
  <2>2. [status |-> s, account |-> a, amount |-> x, payer |-> k, link |-> None] \in Rows
    BY DEF Rows
  <2>3. "create" \in Tasks \ {"post_all"} /\ InHand(t) = {}
    BY <1>3 DEF Tasks, BeginCreate
  <2> QED BY <1>2, <2>1, <2>2, <2>3, TypedBegin
<1>4. CASE BeginStatus(p, t)
  <2>1. row[t] \in Rows /\ Changing(t) = {}
    BY <1>1, <1>4, RowKinds DEF BeginStatus
  <2>2. PICK s \in Allowed(row[t].status) :
          Start(p, Request("status", t, [row[t] EXCEPT !.status = s]))
    BY <1>4 DEF BeginStatus
  <2>3. s \in Statuses
    BY <2>1, AllowedType DEF Rows
  <2>4. [row[t] EXCEPT !.status = s] \in Rows /\ [row[t] EXCEPT !.status = s].status \in Statuses
    BY <2>1, <2>3 DEF Rows
  <2>5. "status" \in Tasks \ {"post_all"}
    BY DEF Tasks
  <2> QED BY <2>1, <2>2, <2>4, <2>5, TypedBegin
<1>5. CASE BeginEdit(p, t)
  <2>1. row[t] \in Rows /\ InHand(t) = {}
    BY <1>1, <1>5, RowKinds DEF BeginEdit
  <2>2. PICK a \in Accounts, x \in Amounts, k \in Payers :
          Start(p, Request("edit", t,
                     [row[t] EXCEPT !.account = a, !.amount = x, !.payer = k]))
    BY <1>5 DEF BeginEdit
  <2>3. [row[t] EXCEPT !.account = a, !.amount = x, !.payer = k] \in Rows
    BY <2>1 DEF Rows
  <2>4. "edit" \in Tasks \ {"post_all"}
    BY DEF Tasks
  <2> QED BY <1>2, <2>1, <2>2, <2>3, <2>4, TypedBegin
<1>6. CASE BeginDelete(p, t)
  <2>1. row[t] \in Rows /\ InHand(t) = {} /\ Start(p, Request("delete", t, row[t]))
    BY <1>1, <1>6, RowKinds DEF BeginDelete
  <2>2. "delete" \in Tasks \ {"post_all"}
    BY DEF Tasks
  <2> QED BY <1>2, <2>1, <2>2, TypedBegin
<1> QED BY <1>3, <1>4, <1>5, <1>6

LEMMA BeginPostAllTyped ==
  ASSUME Typed, NEW p \in Procs, BeginPostAll(p)
  PROVE  Typed'
<1>1. PICK T \in SUBSET {t \in Txns : row[t].status = "approved" /\ row[t].link = None} :
        /\ \A t \in T : Changing(t) = {}
        /\ Start(p, [NoJob EXCEPT !.at = "committed", !.task = "post_all", !.todo = T])
  BY DEF BeginPostAll
<1> DEFINE j == [NoJob EXCEPT !.at = "committed", !.task = "post_all", !.todo = T]
<1>2. j \in Jobs /\ j.at # "loaded" /\ j.txn = None /\ j.todo = T
  BY DEF NoJob, Jobs, Payers, Tasks
<1>3. UNCHANGED <<row, books>> /\ job' = [job EXCEPT ![p] = j]
  BY <1>1 DEF Start
<1> HIDE DEF j
<1>4. \A t \in T : row[t] \in Rows
  BY RowKinds DEF Typed, Exists
<1>5. Sound(j)
  BY <1>2, <1>4 DEF Sound
<1>6. \A t \in T, q \in Procs : ~Alone(job[q], t)
  BY <1>1 DEF Changing, InHand, Alone
<1>7. \A t \in Txns, q \in Procs \ {p} :
         /\ Alone(j, t) => ~Holds(q, t)
         /\ Alone(job[q], t) => j.txn # t /\ t \notin j.todo
  BY <1>2, <1>6, NoneIsNoTxn DEF Alone
<1> QED BY <1>2, <1>3, <1>5, <1>7, TypedJobStep

\* A job that holds no more rows than it did, and loads none.
LEMMA TypedGoOn ==
  ASSUME Typed, UNCHANGED <<row, books>>,
         NEW p \in Procs, NEW j \in Jobs, job' = [job EXCEPT ![p] = j],
         j.at # "loaded", j.txn = None, j.todo \subseteq job[p].todo
  PROVE  Typed'
<1>1. Sound(j)
  BY DEF Typed, SoundInv, Sound
<1>2. \A t \in Txns, q \in Procs \ {p} :
         /\ Alone(j, t) => ~Holds(q, t)
         /\ Alone(job[q], t) => j.txn # t /\ t \notin j.todo
  BY NoneIsNoTxn DEF Typed, AloneInv, Alone, Holds
<1> QED BY <1>1, <1>2, TypedJobStep

\* What a request about to commit may rely on.
LEMMA LoadedSound ==
  ASSUME Typed, NEW p \in Procs, job[p].at = "loaded"
  PROVE  /\ job[p].txn \in Txns /\ Holds(p, job[p].txn)
         /\ row[job[p].txn] \in Rows \cup {NoRow}
         /\ job[p].old \in Rows \cup {NoRow}
         /\ job[p].task \in {"create", "edit"} => job[p].new \in Rows
         /\ job[p].task = "status" => /\ row[job[p].txn] \in Rows /\ job[p].old \in Rows
                                      /\ job[p].new.status \in Statuses
<1>1. Sound(job[p]) /\ job[p] \in Jobs
  BY DEF Typed, SoundInv, RowTypes
<1> QED BY <1>1 DEF Sound, Typed, RowTypes, Jobs, Holds

\* The job that a commit leaves, with the caches of K and A to refresh.
Settled(K, A) == [NoJob EXCEPT !.at = "committed", !.keys = K \ {None}, !.dirty = A]

LEMMA SettledJob ==
  ASSUME NEW K \in SUBSET Payers, NEW A \in SUBSET Accounts
  PROVE  /\ Settled(K, A) \in Jobs /\ Settled(K, A).at # "loaded"
         /\ Settled(K, A).txn = None /\ Settled(K, A).todo = {}
  BY DEF Settled, NoJob, Jobs, Payers, Tasks

LEMMA SettledCaches ==
  ASSUME NEW K, NEW A
  PROVE  /\ Settled(K, A).at = "committed" /\ Settled(K, A).key = None
         /\ Settled(K, A).keys = K \ {None} /\ Settled(K, A).dirty = A
  BY DEF Settled, NoJob

\* A request that commits row t as r and has the caches of K and A refreshed.
LEMMA TypedSettle ==
  ASSUME Typed, NEW p \in Procs, NEW t \in Txns, Holds(p, t),
         NEW r \in Rows \cup {NoRow}, r \notin Rows => Alone(job[p], t),
         row' = [row EXCEPT ![t] = r],
         NEW gone \in Postings \cup {None}, NEW come \in Postings \cup {None},
         Book(t, gone, come),
         NEW K \in SUBSET Payers, NEW A \in SUBSET Accounts, Settle(p, K, A)
  PROVE  Typed'
<1>1. GoOn(p, Settled(K, A))
  BY DEF Settle, Settled
<1>2. /\ Settled(K, A) \in Jobs /\ Settled(K, A).at # "loaded"
      /\ Settled(K, A).txn = None /\ Settled(K, A).todo = {}
  BY SettledJob
<1>3. Settled(K, A).todo \subseteq job[p].todo \ {t}
  BY <1>2
<1> QED BY <1>1, <1>2, <1>3, TypedRowStep

LEMMA CommitCreateTyped ==
  ASSUME Typed, NEW p \in Procs, CommitCreate(p)
  PROVE  Typed'
<1> DEFINE t == job[p].txn
           r == job[p].new
           entry == IF r.status = "completed" THEN Posting(r) ELSE None
           rr == [r EXCEPT !.link = entry]
<1>1. t \in Txns /\ Holds(p, t) /\ r \in Rows
  BY LoadedSound DEF CommitCreate, Loaded
<1>2. entry \in Postings \cup {None} /\ None \in Postings \cup {None}
  BY <1>1, PostingType
<1>3. rr \in Rows
  BY <1>1, <1>2 DEF Rows
<1>4. row' = [row EXCEPT ![t] = rr] /\ Book(t, None, entry)
  BY DEF CommitCreate
<1>5. Settle(p, {r.payer}, {}) /\ {r.payer} \in SUBSET Payers /\ {} \in SUBSET Accounts
  BY <1>1 DEF CommitCreate, Rows
<1> HIDE DEF t, r, rr, entry
<1> QED BY <1>1, <1>2, <1>3, <1>4, <1>5, TypedSettle

LEMMA CommitReopenTyped ==
  ASSUME Typed, NEW p \in Procs, CommitReopen(p)
  PROVE  Typed'
<1> DEFINE t == job[p].txn
           r == job[p].old
           s == job[p].new.status
           gone == IF s # r.status /\ r.status \in {"approved", "completed"}
                   THEN r.link ELSE None
           rr == [row[t] EXCEPT !.status = s, !.link = IF gone = None THEN @ ELSE None]
           A == IF s # r.status /\ (r.status = "completed" \/ (r.link # None /\ gone = None))
                THEN {r.account} ELSE {}
<1>1. t \in Txns /\ Holds(p, t) /\ row[t] \in Rows /\ r \in Rows /\ s \in Statuses
  BY LoadedSound DEF CommitReopen, Loaded
<1>2. gone \in Postings \cup {None} /\ None \in Postings \cup {None}
  BY <1>1, LinkType
<1>3. rr \in Rows
  BY <1>1 DEF Rows
<1>4. row' = [row EXCEPT ![t] = rr]
  <2>1. row' = [row EXCEPT ![t].status = s, ![t].link = IF gone = None THEN @ ELSE None]
    BY DEF CommitReopen
  <2>2. row \in [Txns -> Rows \cup {NoRow}]
    BY DEF Typed, RowTypes
  <2> QED BY <1>1, <2>1, <2>2 DEF Rows
<1>5. Book(t, gone, None)
  BY DEF CommitReopen
<1>6. Settle(p, {r.payer}, A) /\ {r.payer} \in SUBSET Payers /\ A \in SUBSET Accounts
  BY <1>1 DEF CommitReopen, Rows
<1> HIDE DEF t, r, s, gone, rr, A
<1> QED BY <1>1, <1>2, <1>3, <1>4, <1>5, <1>6, TypedSettle

LEMMA CommitCompleteTyped ==
  ASSUME Typed, NEW p \in Procs, CommitComplete(p)
  PROVE  Typed'
<1> DEFINE t == job[p].txn
           r == job[p].old
           rr == [row[t] EXCEPT !.status = "completed",
                                !.link = IF r.link = None THEN Posting(r) ELSE @]
<1>1. t \in Txns /\ Holds(p, t) /\ row[t] \in Rows /\ r \in Rows
  BY LoadedSound DEF CommitComplete, Loaded
<1>2. Posting(r) \in Postings \cup {None} /\ r.link \in Postings \cup {None}
  BY <1>1, PostingType, LinkType
<1>3. rr \in Rows
  BY <1>1, <1>2 DEF Rows, Statuses
<1>4. row' = [row EXCEPT ![t] = rr]
  <2>1. row' = [row EXCEPT ![t].status = "completed",
                           ![t].link = IF r.link = None THEN Posting(r) ELSE @]
    BY DEF CommitComplete
  <2>2. row \in [Txns -> Rows \cup {NoRow}]
    BY DEF Typed, RowTypes
  <2> QED BY <1>1, <2>1, <2>2 DEF Rows
<1>5. Book(t, r.link, Posting(r))
  BY DEF CommitComplete
<1>6. Settle(p, {r.payer}, {r.account}) /\ {r.payer} \in SUBSET Payers /\ {r.account} \in SUBSET Accounts
  BY <1>1 DEF CommitComplete, Rows
<1> HIDE DEF t, r, rr
<1> QED BY <1>1, <1>2, <1>3, <1>4, <1>5, <1>6, TypedSettle

LEMMA CommitEditTyped ==
  ASSUME Typed, NEW p \in Procs, CommitEdit(p)
  PROVE  Typed'
<1> DEFINE t == job[p].txn
           r == job[p].old
           n == job[p].new
           rr == [n EXCEPT !.status = "pending", !.link = None]
           A == IF r.status = "completed" \/ r.link # None
                THEN {r.account, n.account} ELSE {}
<1>1. t \in Txns /\ Holds(p, t) /\ n \in Rows /\ r \in Rows \cup {NoRow}
  BY LoadedSound DEF CommitEdit, Loaded
<1>2. r.link \in Postings \cup {None} /\ None \in Postings \cup {None}
  BY <1>1, LinkType
<1>3. rr \in Rows
  BY <1>1 DEF Rows, Statuses
<1>4. row' = [row EXCEPT ![t] = rr] /\ Book(t, r.link, None)
  BY DEF CommitEdit
<1>5. A \in SUBSET Accounts /\ PayersOfEdit(p) \in SUBSET Payers
  <2>1. CASE r = NoRow
    BY <1>1, <2>1 DEF NoRow, PayersOfEdit, Rows
  <2>2. CASE r \in Rows
    BY <1>1, <2>2 DEF Rows, PayersOfEdit
  <2> QED BY <1>1, <2>1, <2>2
<1>6. Settle(p, PayersOfEdit(p), A)
  BY DEF CommitEdit
<1> HIDE DEF t, r, n, rr, A
<1> QED BY <1>1, <1>2, <1>3, <1>4, <1>5, <1>6, TypedSettle

LEMMA CommitDeleteTyped ==
  ASSUME Typed, NEW p \in Procs, CommitDelete(p)
  PROVE  Typed'
<1> DEFINE t == job[p].txn
           r == job[p].old
<1>1. t \in Txns /\ Holds(p, t) /\ r \in Rows \cup {NoRow} /\ Alone(job[p], t)
  BY LoadedSound DEF CommitDelete, Loaded, Alone
<1>2. r.link \in Postings \cup {None} /\ None \in Postings \cup {None}
  BY <1>1, LinkType
<1>3. row' = [row EXCEPT ![t] = NoRow] /\ Book(t, r.link, None) /\ Settle(p, {}, {})
  BY DEF CommitDelete
<1>4. {} \in SUBSET Payers /\ {} \in SUBSET Accounts /\ NoRow \in Rows \cup {NoRow}
  OBVIOUS
<1> HIDE DEF t, r
<1> QED BY <1>1, <1>2, <1>3, <1>4, TypedSettle

LEMMA PostNextTyped ==
  ASSUME Typed, NEW p \in Procs, NEW t \in Txns, PostNext(p, t)
  PROVE  Typed'
<1> DEFINE r == row[t]
           rr == [r EXCEPT !.status = "completed", !.link = Posting(r)]
           j == [job[p] EXCEPT !.todo = @ \ {t}, !.keys = {r.payer} \ {None},
                               !.dirty = @ \cup {r.account}]
<1>1. /\ Sound(job[p]) /\ job[p] \in Jobs /\ job[p].at = "committed"
      /\ t \in job[p].todo /\ Holds(p, t)
  BY DEF Typed, SoundInv, RowTypes, PostNext, Committed, Holds
<1>2. r \in Rows /\ job[p].txn = None
  BY <1>1 DEF Sound
<1>3. Posting(r) \in Postings \cup {None} /\ None \in Postings \cup {None}
  BY <1>2, PostingType
<1>4. rr \in Rows
  BY <1>2, <1>3 DEF Rows, Statuses
<1>5. row' = [row EXCEPT ![t] = rr]
  <2>1. row' = [row EXCEPT ![t].status = "completed", ![t].link = Posting(row[t])]
    BY DEF PostNext
  <2>2. row \in [Txns -> Rows \cup {NoRow}]
    BY DEF Typed, RowTypes
  <2> QED BY <1>2, <2>1, <2>2 DEF Rows
<1>6. Book(t, None, Posting(r)) /\ GoOn(p, j)
  BY DEF PostNext
<1>7. j \in Jobs /\ j.at # "loaded" /\ j.txn = None /\ j.todo \subseteq job[p].todo \ {t}
  BY <1>1, <1>2 DEF Jobs, Rows, Payers
<1> HIDE DEF r, rr, j
<1> QED BY <1>1, <1>3, <1>4, <1>5, <1>6, <1>7, TypedRowStep

\* The steps of a job that leave its rows alone.
CacheStep(p) ==
  \/ \E t \in Txns : SkipNext(p, t)
  \/ \E k \in Keys : LockBills(p, k)
  \/ SaveBills(p)
  \/ \E a \in Accounts : Recalculate(p, a)

\* The job that such a step leaves.
LEMMA CacheStepJob ==
  ASSUME RowTypes, NEW p \in Procs, job[p].txn = None, CacheStep(p)
  PROVE  /\ UNCHANGED <<row, books>>
         /\ \E k \in Jobs : /\ job' = [job EXCEPT ![p] = k]
                           /\ k.at # "loaded" /\ k.txn = None
                           /\ k.todo \subseteq job[p].todo
<1>1. job[p] \in Jobs
  BY DEF RowTypes
<1>2. CASE \E t \in Txns : SkipNext(p, t)
  <2>1. PICK t \in Txns : SkipNext(p, t)
    BY <1>2
  <2> DEFINE j == [job[p] EXCEPT !.todo = @ \ {t}]
  <2>2. j \in Jobs /\ j.at # "loaded" /\ j.txn = None /\ j.todo \subseteq job[p].todo
    BY <1>1, <2>1 DEF Jobs, SkipNext, Committed
  <2>3. GoOn(p, j) /\ UNCHANGED <<row, books>>
    BY <2>1 DEF SkipNext
  <2> HIDE DEF j
  <2>4. PICK k \in Jobs : /\ job' = [job EXCEPT ![p] = k] /\ k.at \in {"idle", j.at}
                         /\ k.txn = None /\ k.todo = j.todo
    BY <2>2, <2>3, GoOnJob
  <2> QED BY <2>2, <2>3, <2>4
<1>3. CASE \E k \in Keys : LockBills(p, k)
  <2>1. PICK k \in Keys : LockBills(p, k)
    BY <1>3
  <2> DEFINE j == [job[p] EXCEPT !.at = "billing", !.key = k]
  <2>2. j \in Jobs /\ j.at # "loaded" /\ j.txn = None /\ j.todo = job[p].todo
    BY <1>1 DEF Jobs, Payers
  <2>3. job' = [job EXCEPT ![p] = j] /\ UNCHANGED <<row, books>>
    BY <2>1 DEF LockBills
  <2> QED BY <2>2, <2>3
<1>4. CASE SaveBills(p)
  <2> DEFINE j == [job[p] EXCEPT !.at = "committed", !.key = None,
                                 !.keys = @ \ {job[p].key}]
  <2>1. j \in Jobs /\ j.at # "loaded" /\ j.txn = None /\ j.todo = job[p].todo
    BY <1>1 DEF Jobs, Payers
  <2>2. GoOn(p, j) /\ UNCHANGED <<row, books>>
    BY <1>4 DEF SaveBills
  <2> HIDE DEF j
  <2>3. PICK k \in Jobs : /\ job' = [job EXCEPT ![p] = k] /\ k.at \in {"idle", j.at}
                         /\ k.txn = None /\ k.todo = j.todo
    BY <2>1, <2>2, GoOnJob
  <2> QED BY <2>1, <2>2, <2>3
<1>5. CASE \E a \in Accounts : Recalculate(p, a)
  <2>1. PICK a \in Accounts : Recalculate(p, a)
    BY <1>5
  <2> DEFINE j == [job[p] EXCEPT !.dirty = @ \ {a}]
  <2>2. j \in Jobs /\ j.at # "loaded" /\ j.txn = None /\ j.todo \subseteq job[p].todo
    BY <1>1, <2>1 DEF Jobs, Recalculate, Committed
  <2>3. GoOn(p, j) /\ UNCHANGED <<row, books>>
    BY <2>1 DEF Recalculate
  <2> HIDE DEF j
  <2>4. PICK k \in Jobs : /\ job' = [job EXCEPT ![p] = k] /\ k.at \in {"idle", j.at}
                         /\ k.txn = None /\ k.todo = j.todo
    BY <2>2, <2>3, GoOnJob
  <2> QED BY <2>2, <2>3, <2>4
<1> QED BY <1>2, <1>3, <1>4, <1>5 DEF CacheStep

LEMMA CacheStepTyped ==
  ASSUME Typed, NEW p \in Procs, CacheStep(p)
  PROVE  Typed'
<1>1. job[p].at # "loaded"
  BY DEF CacheStep, SkipNext, LockBills, SaveBills, Recalculate, Committed
<1>2. RowTypes /\ job[p].txn = None
  BY <1>1 DEF Typed, SoundInv, Sound
<1>3. UNCHANGED <<row, books>>
  BY <1>2, CacheStepJob
<1>4. PICK k \in Jobs : /\ job' = [job EXCEPT ![p] = k] /\ k.at # "loaded"
                       /\ k.txn = None /\ k.todo \subseteq job[p].todo
  BY <1>2, CacheStepJob
<1> QED BY <1>3, <1>4, TypedGoOn

\* What a step is.
StepOf(p) ==
  \/ \E t \in Txns : \/ BeginCreate(p, t) \/ BeginStatus(p, t) \/ BeginEdit(p, t)
                     \/ BeginDelete(p, t)
  \/ BeginPostAll(p) \/ Refuse(p)
  \/ CommitCreate(p) \/ CommitReopen(p) \/ CommitComplete(p) \/ CommitEdit(p)
  \/ CommitDelete(p)
  \/ \E t \in Txns : PostNext(p, t)
  \/ CacheStep(p)

LEMMA StepCases == Next => \E p \in Procs : StepOf(p)
  BY DEF Next, StepOf, CacheStep

LEMMA InitTyped == Init => Typed
  BY NoJobType, NoneIsNoTxn
  DEF Init, Typed, RowTypes, SoundInv, Sound, AloneInv, Alone, Holds, NoJob

LEMMA StepTyped ==
  ASSUME Typed, [Next]_vars
  PROVE  Typed'
<1>1. CASE Next
  <2>1. PICK p \in Procs : StepOf(p)
    BY <1>1, StepCases
  <2>2. CASE \E t \in Txns : BeginCreate(p, t) \/ BeginStatus(p, t)
                             \/ BeginEdit(p, t) \/ BeginDelete(p, t)
    BY <2>2, BeginTyped
  <2>3. CASE BeginPostAll(p)
    BY <2>3, BeginPostAllTyped
  <2>4. CASE Refuse(p)
    <3>1. UNCHANGED <<row, books>> /\ job' = [job EXCEPT ![p] = NoJob]
      BY <2>4 DEF Refuse
    <3> QED BY <3>1, NoJobType, TypedGoOn
  <2>5. CASE CommitCreate(p)
    BY <2>5, CommitCreateTyped
  <2>6. CASE CommitReopen(p)
    BY <2>6, CommitReopenTyped
  <2>7. CASE CommitComplete(p)
    BY <2>7, CommitCompleteTyped
  <2>8. CASE CommitEdit(p)
    BY <2>8, CommitEditTyped
  <2>9. CASE CommitDelete(p)
    BY <2>9, CommitDeleteTyped
  <2>10. CASE \E t \in Txns : PostNext(p, t)
    BY <2>10, PostNextTyped
  <2>11. CASE CacheStep(p)
    BY <2>11, CacheStepTyped
  <2> QED BY <2>1, <2>2, <2>3, <2>4, <2>5, <2>6, <2>7, <2>8, <2>9, <2>10, <2>11 DEF StepOf
<1>2. CASE UNCHANGED vars
  <2>1. UNCHANGED <<row, books, job>>
    BY <1>2 DEF vars
  <2> QED BY <2>1 DEF Typed, RowTypes, SoundInv, Sound, AloneInv, Alone, Holds
<1> QED BY <1>1, <1>2

-----------------------------------------------------------------------------
(* Sums over the rows and the bills                                        *)

LEMMA AmountsType ==
  ASSUME NEW r \in [Txns -> Rows \cup {NoRow}], NEW T \in SUBSET Txns
  PROVE  IsFiniteSet(T) /\ \A t \in T : AmountsIn(r)[t] \in Int
<1>1. IsFiniteSet(T)
  BY TxnsAssumption, FS_Subset
<1>2. ASSUME NEW t \in T PROVE AmountsIn(r)[t] \in Int
  <2>1. AmountsIn(r)[t] = r[t].amount /\ r[t] \in Rows \cup {NoRow}
    BY DEF AmountsIn
  <2>2. CASE r[t] = NoRow
    BY <2>1, <2>2 DEF NoRow
  <2>3. CASE r[t] \in Rows
    BY <2>1, <2>3, AmountsAssumption DEF Rows
  <2> QED BY <2>1, <2>2, <2>3
<1> QED BY <1>1, <1>2

LEMMA BalanceType ==
  ASSUME NEW r \in [Txns -> Rows \cup {NoRow}], NEW a
  PROVE  BalanceIn(r, a) \in Int
<1> DEFINE T == {t \in Txns : r[t].status = "completed" /\ r[t].account = a}
<1>1. IsFiniteSet(T) /\ \A t \in T : AmountsIn(r)[t] \in Int
  BY AmountsType
<1>2. BalanceIn(r, a) = SumFunctionOnSet(AmountsIn(r), T)
  BY DEF BalanceIn
<1> HIDE DEF T
<1> QED BY <1>1, <1>2, SumInt

LEMMA PaidType ==
  ASSUME RowTypes, NEW k
  PROVE  PaidBy(k) \in Int
<1> DEFINE T == {t \in Txns : Completed(t) /\ row[t].payer = k}
<1>1. IsFiniteSet(T) /\ \A t \in T : AmountsIn(row)[t] \in Int
  BY AmountsType DEF RowTypes
<1>2. PaidBy(k) = SumFunctionOnSet(AmountsIn(row), T)
  BY DEF PaidBy
<1> HIDE DEF T
<1> QED BY <1>1, <1>2, SumInt

LEMMA NetsType == /\ Len(Nets) \in Nat /\ DOMAIN Nets = 1..Len(Nets)
                  /\ \A i \in 1..Len(Nets) : Nets[i] \in Nat
  BY NetsAssumption

\* What the first n bills come to.
LEMMA PrefixType ==
  ASSUME NEW n \in 0..Len(Nets)
  PROVE  SumOfNets(1..n) \in Nat
<1>1. IsFiniteSet(1..n)
  BY NetsType, FS_Interval
<1>2. \A i \in 1..n : Nets[i] \in Nat
  BY NetsType
<1> QED BY <1>1, <1>2, SumNat DEF SumOfNets

LEMMA DistributeType ==
  ASSUME NEW total \in Int
  PROVE  Distribute(total) \in [DOMAIN Nets -> Nat]
<1>1. ASSUME NEW i \in DOMAIN Nets
      PROVE  LET left == total - SumOfNets(1..(i - 1))
             IN  (IF left > 0 THEN Least(Nets[i], left) ELSE 0) \in Nat
  <2>1. i - 1 \in 0..Len(Nets) /\ Nets[i] \in Nat
    BY NetsType
  <2>2. SumOfNets(1..(i - 1)) \in Nat
    BY <2>1, PrefixType
  <2>3. \A x \in Nat, y \in Int : (IF y > 0 THEN Least(x, y) ELSE 0) \in Nat
    BY DEF Least
  <2>4. total - SumOfNets(1..(i - 1)) \in Int
    BY <2>2
  <2> QED BY <2>1, <2>3, <2>4
<1> QED BY <1>1 DEF Distribute

Numbers ==
  /\ balance \in [Accounts -> Int]
  /\ paid \in [Keys -> [DOMAIN Nets -> Nat]]
  /\ seen \in [Procs -> Int]

LEMMA InitNumbers == Init => Numbers
<1>1. Distribute(0) \in [DOMAIN Nets -> Nat]
  BY DistributeType
<1> QED BY <1>1 DEF Init, Numbers

LEMMA StepNumbers ==
  ASSUME Typed, Typed', Numbers, [Next]_vars
  PROVE  Numbers'
<1>0. \A a : BalanceIn(row', a) \in Int
  BY BalanceType DEF Typed, RowTypes
<1>1. CASE Next
  <2>1. PICK p \in Procs : StepOf(p)
    BY <1>1, StepCases
  <2>2. CASE \/ \E t \in Txns : BeginCreate(p, t) \/ BeginStatus(p, t)
                               \/ BeginEdit(p, t) \/ BeginDelete(p, t) \/ PostNext(p, t)
             \/ BeginPostAll(p) \/ Refuse(p)
             \/ CommitReopen(p) \/ CommitComplete(p) \/ CommitEdit(p)
    <3>1. UNCHANGED caches
      BY <2>2 DEF BeginCreate, BeginStatus, BeginEdit, BeginDelete, PostNext, BeginPostAll,
                  Start, Refuse, CommitReopen, CommitComplete, CommitEdit
    <3> QED BY <3>1 DEF caches, Numbers
  <2>3. CASE CommitCreate(p) \/ CommitDelete(p)
    <3>1. /\ \/ balance' = balance
             \/ \E a : balance' = [balance EXCEPT ![a] = BalanceIn(row', a)]
          /\ UNCHANGED <<paid, seen>>
      <4>1. CASE CommitCreate(p)
        BY <4>1 DEF CommitCreate
      <4>2. CASE CommitDelete(p)
        BY <4>2 DEF CommitDelete
      <4> QED BY <2>3, <4>1, <4>2
    <3> QED BY <1>0, <3>1 DEF Numbers
  <2>4. CASE CacheStep(p)
    <3>1. CASE \E t \in Txns : SkipNext(p, t)
      BY <3>1 DEF SkipNext, caches, Numbers
    <3>2. CASE \E k \in Keys : LockBills(p, k)
      <4>1. PICK k \in Keys : seen' = [seen EXCEPT ![p] = PaidBy(k)] /\ UNCHANGED <<balance, paid>>
        BY <3>2 DEF LockBills
      <4>2. PaidBy(k) \in Int
        BY PaidType DEF Typed
      <4> QED BY <4>1, <4>2 DEF Numbers
    <3>3. CASE SaveBills(p)
      <4>1. /\ paid' = [paid EXCEPT ![job[p].key] = Distribute(seen[p])]
            /\ seen' = [seen EXCEPT ![p] = 0] /\ UNCHANGED balance
        BY <3>3 DEF SaveBills
      <4> DEFINE D == Distribute(seen[p])
                 S == [DOMAIN Nets -> Nat]
                 k == job[p].key
      <4>2. D \in S
        BY DistributeType DEF Numbers
      <4>3. paid \in [Keys -> S] /\ paid' = [paid EXCEPT ![k] = D]
        BY <4>1 DEF Numbers
      <4>4. seen' \in [Procs -> Int] /\ balance' \in [Accounts -> Int]
        BY <4>1 DEF Numbers
      <4> HIDE DEF D, S, k
      <4>5. paid' \in [Keys -> S]
        BY <4>2, <4>3
      <4> QED BY <4>4, <4>5 DEF Numbers, S
    <3>4. CASE \E a \in Accounts : Recalculate(p, a)
      <4>1. PICK a \in Accounts : /\ balance' = [balance EXCEPT ![a] = BalanceOf(a)]
                                 /\ UNCHANGED <<paid, seen>>
        BY <3>4 DEF Recalculate
      <4>2. BalanceOf(a) \in Int
        BY BalanceType DEF BalanceOf, Typed, RowTypes
      <4> QED BY <4>1, <4>2 DEF Numbers
    <3> QED BY <2>4, <3>1, <3>2, <3>3, <3>4 DEF CacheStep
  <2> QED BY <2>1, <2>2, <2>3, <2>4 DEF StepOf
<1>2. CASE UNCHANGED vars
  BY <1>2 DEF vars, caches, Numbers
<1> QED BY <1>1, <1>2

\* Every variable keeps its type, whatever overlaps or is deleted: rows, jobs
\* and entries through the handlers of cash_transaction.py and posting.py, and
\* the balances and paid amounts, which are sums over the rows and the bills.
THEOREM TypeCorrect == Spec => []TypeOK
<1>1. Init => Typed /\ Numbers
  BY InitTyped, InitNumbers
<1>2. Typed /\ Numbers /\ [Next]_vars => (Typed /\ Numbers)'
  BY StepTyped, StepNumbers
<1>3. Typed /\ Numbers => TypeOK
  BY DEF Typed, Numbers, TypeOK
<1> QED BY <1>1, <1>2, <1>3, PTL DEF Spec

-----------------------------------------------------------------------------
(* The books, when requests do not overlap                                 *)

\* What the request of job j knows of its row is still true of the row.
Current(j) ==
  /\ j.at = "loaded" =>
       /\ j.txn \in Txns
       /\ j.todo = {}
       /\ j.old = row[j.txn]
       /\ j.task = "create" => j.old = NoRow /\ j.new \in Rows
       /\ j.task = "edit" => j.new \in Rows
       /\ j.task = "status" => j.old \in Rows /\ j.new.status \in Statuses
  /\ j.at # "loaded" => j.txn = None
  /\ \A t \in j.todo : row[t].status = "approved"

\* The entry a row should be linked to.
Due(r) == IF r.status = "completed" THEN Posting(r) ELSE None

LinkInv == \A t \in Txns : row[t].link = Due(row[t])
JobInv  == \A p \in Procs : Current(job[p])
HandInv == \A p, q \in Procs, t \in Txns : Holds(p, t) /\ Holds(q, t) => p = q

IInv == RowTypes /\ LinkInv /\ JobInv /\ HandInv /\ LedgerMatchesCash

\* A step that changes the job of p only.
LEMMA JobStep ==
  ASSUME IInv, UNCHANGED <<row, books>>,
         NEW p \in Procs, NEW j \in Jobs, Current(j),
         job' = [job EXCEPT ![p] = j],
         \A t \in Txns, q \in Procs \ {p} :
            (j.txn = t \/ t \in j.todo) => ~Holds(q, t)
  PROVE  IInv'
<1>1. RowTypes'
  BY DEF IInv, RowTypes
<1>2. LinkInv' /\ LedgerMatchesCash'
  BY DEF IInv, LinkInv, Due, Posting, LedgerMatchesCash, Completed
<1>3. JobInv'
  BY DEF IInv, RowTypes, JobInv, Current
<1>4. HandInv'
  BY DEF IInv, RowTypes, HandInv, Holds
<1> QED BY <1>1, <1>2, <1>3, <1>4 DEF IInv

LEMMA DuesEffect ==
  ASSUME NEW r \in Rows \cup {NoRow}, NEW a \in Accounts, r.link = Due(r)
  PROVE  Effect(r.link, a) = IF r.status = "completed" /\ r.account = a
                             THEN r.amount ELSE 0
<1>1. CASE r.status = "completed"
  <2>1. r.link = Posting(r) /\ Posting(r) \in Postings
    BY <1>1 DEF Due, Posting, Postings, Rows, NoRow
  <2>2. r.link # None
    BY <2>1, NoneAssumption
  <2> QED BY <1>1, <2>1, <2>2 DEF Effect, Posting
<1>2. CASE r.status # "completed"
  BY <1>2 DEF Due, Effect
<1> QED BY <1>1, <1>2

\* A transaction of the database, by the process that holds row t.
LEMMA RowStep ==
  ASSUME IInv, NEW p \in Procs, NEW t \in Txns, Holds(p, t),
         NEW r \in Rows \cup {NoRow}, r.link = Due(r),
         row' = [row EXCEPT ![t] = r],
         Book(t, row[t].link, r.link),
         NEW j \in Jobs, job' = [job EXCEPT ![p] = j],
         j.at # "loaded", j.txn = None, j.todo \subseteq job[p].todo \ {t}
  PROVE  IInv'
<1>1. RowTypes'
  <2>1. row' \in [Txns -> Rows \cup {NoRow}] /\ job' \in [Procs -> Jobs]
    BY DEF IInv, RowTypes
  <2>2. r.link \in Postings \cup {None} /\ row[t].link \in Postings \cup {None}
    BY DEF IInv, RowTypes, Rows, NoRow
  <2>3. books' \in [Txns -> [Accounts -> Int]]
    <3>1. \A a \in Accounts :
            books[t][a] - Effect(row[t].link, a) + Effect(r.link, a) \in Int
      <4> TAKE a \in Accounts
      <4>1. Effect(row[t].link, a) \in Int /\ Effect(r.link, a) \in Int
        BY <2>2, EffectType
      <4>2. books[t][a] \in Int
        BY DEF IInv, RowTypes
      <4> QED BY <4>1, <4>2
    <3> DEFINE f == [a \in Accounts |->
                       books[t][a] - Effect(row[t].link, a) + Effect(r.link, a)]
    <3>2. f \in [Accounts -> Int]
      BY <3>1
    <3>3. books' = [books EXCEPT ![t] = f]
      BY DEF Book
    <3> HIDE DEF f
    <3> QED BY <3>2, <3>3 DEF IInv, RowTypes
  <2> QED BY <2>1, <2>3 DEF RowTypes
<1>2. LinkInv'
  BY DEF IInv, RowTypes, LinkInv, Due, Posting
<1>3. JobInv'
  <2> SUFFICES ASSUME NEW q \in Procs PROVE Current(job[q])'
    BY DEF JobInv
  <2>1. CASE q = p
    <3>1. job'[q] = j
      BY <2>1 DEF IInv, RowTypes
    <3>2. \A s \in j.todo : s # t /\ s \in Txns /\ row[s].status = "approved"
      BY DEF IInv, JobInv, Current, Jobs, RowTypes
    <3> QED BY <3>1, <3>2 DEF Current, IInv, RowTypes
  <2>2. CASE q # p
    <3>1. job'[q] = job[q] /\ ~Holds(q, t)
      BY <2>2 DEF IInv, RowTypes, HandInv
    <3>2. Current(job[q])
      BY DEF IInv, JobInv
    <3> QED BY <3>1, <3>2 DEF Current, IInv, RowTypes, Holds, Jobs
  <2> QED BY <2>1, <2>2
<1>4. HandInv'
  BY NoneIsNoTxn DEF IInv, RowTypes, HandInv, Holds, Jobs
<1>5. LedgerMatchesCash'
  <2> SUFFICES ASSUME NEW s \in Txns, NEW a \in Accounts
               PROVE  books'[s][a] = IF row'[s].status = "completed" /\ row'[s].account = a
                                     THEN row'[s].amount ELSE 0
    BY DEF LedgerMatchesCash, Completed
  <2>1. CASE s # t
    BY <2>1 DEF IInv, RowTypes, LedgerMatchesCash, Completed, Book
  <2>2. CASE s = t
    <3>1. books'[s][a] = books[t][a] - Effect(row[t].link, a) + Effect(r.link, a)
      BY <2>2 DEF IInv, RowTypes, Book
    <3>2. books[t][a] = Effect(row[t].link, a)
      BY DuesEffect DEF IInv, RowTypes, LedgerMatchesCash, LinkInv, Completed
    <3>3. row'[s] = r
      BY <2>2 DEF IInv, RowTypes
    <3>4. Effect(r.link, a) = IF r.status = "completed" /\ r.account = a
                              THEN r.amount ELSE 0
      BY DuesEffect
    <3>5. Effect(row[t].link, a) \in Int /\ Effect(r.link, a) \in Int
      <4>1. r.link \in Postings \cup {None} /\ row[t].link \in Postings \cup {None}
        BY DEF IInv, RowTypes, Rows, NoRow
      <4> QED BY <4>1, EffectType
    <3> QED BY <3>1, <3>2, <3>3, <3>4, <3>5
  <2> QED BY <2>1, <2>2
<1> QED BY <1>1, <1>2, <1>3, <1>4, <1>5 DEF IInv

-----------------------------------------------------------------------------
\* A request that begins with a row that nobody holds.
LEMMA BeginStep ==
  ASSUME IInv, NEW p \in Procs, NEW t \in Txns, NEW task \in Tasks \ {"post_all"},
         NEW new \in Rows \cup {NoRow},
         InHand(t) = {},
         task = "create" => row[t] = NoRow /\ new \in Rows,
         task = "edit" => new \in Rows,
         task = "status" => row[t] \in Rows /\ new.status \in Statuses,
         Start(p, Request(task, t, new))
  PROVE  IInv'
<1> DEFINE j == Request(task, t, new)
<1>1. j = [at |-> "loaded", task |-> task, txn |-> t, old |-> row[t],
           new |-> new, todo |-> {}, keys |-> {}, key |-> None, dirty |-> {}]
  BY DEF Request
<1>2. j \in Jobs
  BY <1>1 DEF Jobs, Payers, IInv, RowTypes
<1>3. Current(j)
  BY <1>1 DEF Current
<1>4. \A s \in Txns, q \in Procs \ {p} : (j.txn = s \/ s \in j.todo) => ~Holds(q, s)
  <2>1. \A q \in Procs : ~Holds(q, t)
    BY DEF InHand, Holds
  <2>2. \A s : (j.txn = s \/ s \in j.todo) => s = t
    BY <1>1
  <2> HIDE DEF j
  <2> QED BY <2>1, <2>2
<1>5. UNCHANGED <<row, books>> /\ job' = [job EXCEPT ![p] = j]
  BY DEF Start
<1> HIDE DEF j
<1> QED BY <1>2, <1>3, <1>4, <1>5, JobStep

\* A commit that leaves row t as r and goes on with j.
LEMMA CommitStep ==
  ASSUME IInv, NEW p \in Procs, NEW t \in Txns, Holds(p, t),
         NEW r \in Rows \cup {NoRow}, r.link = Due(r),
         row' = [row EXCEPT ![t] = r],
         Book(t, row[t].link, r.link),
         NEW j \in Jobs, GoOn(p, j),
         j.at # "loaded", j.txn = None, j.todo \subseteq job[p].todo \ {t}
  PROVE  IInv'
<1> DEFINE k == IF j.todo = {} /\ j.keys = {} /\ j.dirty = {} THEN NoJob ELSE j
<1>1. k \in Jobs /\ k.at # "loaded" /\ k.txn = None /\ k.todo \subseteq job[p].todo \ {t}
  BY NoJobType
<1>2. job' = [job EXCEPT ![p] = k]
  BY DEF GoOn
<1> HIDE DEF k
<1> QED BY <1>1, <1>2, RowStep

\* A request that commits row t as r and has the caches of K and A refreshed.
LEMMA SettleStep ==
  ASSUME IInv, NEW p \in Procs, NEW t \in Txns, Holds(p, t),
         NEW r \in Rows \cup {NoRow}, r.link = Due(r),
         row' = [row EXCEPT ![t] = r],
         Book(t, row[t].link, r.link),
         NEW K \in SUBSET Payers, NEW A \in SUBSET Accounts, Settle(p, K, A)
  PROVE  IInv'
<1>1. GoOn(p, Settled(K, A))
  BY DEF Settle, Settled
<1>2. /\ Settled(K, A) \in Jobs /\ Settled(K, A).at # "loaded"
      /\ Settled(K, A).txn = None /\ Settled(K, A).todo = {}
  BY SettledJob
<1>3. Settled(K, A).todo \subseteq job[p].todo \ {t}
  BY <1>2
<1> QED BY <1>1, <1>2, <1>3, CommitStep

-----------------------------------------------------------------------------
LEMMA BeginInv ==
  ASSUME Serial, IInv, NEW p \in Procs, NEW t \in Txns,
         BeginCreate(p, t) \/ BeginStatus(p, t) \/ BeginEdit(p, t) \/ BeginDelete(p, t)
  PROVE  IInv'
<1>1. RowTypes
  BY DEF IInv
<1>2. CASE BeginCreate(p, t)
  <2>1. row[t] = NoRow /\ InHand(t) = {}
    BY <1>1, <1>2, RowKinds DEF BeginCreate
  <2>2. PICK s \in Statuses, a \in Accounts, x \in Amounts, k \in Payers :
          Start(p, Request("create", t,
                     [status |-> s, account |-> a, amount |-> x, payer |-> k,
                      link |-> None]))
    BY <1>2 DEF BeginCreate
  <2>3. [status |-> s, account |-> a, amount |-> x, payer |-> k, link |-> None] \in Rows
    BY DEF Rows
  <2>4. "create" \in Tasks \ {"post_all"}
    BY DEF Tasks
  <2> QED BY <2>1, <2>2, <2>3, <2>4, BeginStep
<1>3. CASE BeginStatus(p, t)
  <2>1. row[t] \in Rows /\ InHand(t) = {}
    BY <1>1, <1>3, RowKinds DEF BeginStatus, Serial
  <2>2. PICK s \in Allowed(row[t].status) :
          Start(p, Request("status", t, [row[t] EXCEPT !.status = s]))
    BY <1>3 DEF BeginStatus
  <2>3. s \in Statuses
    BY <2>1, AllowedType DEF Rows
  <2>4. [row[t] EXCEPT !.status = s] \in Rows /\ [row[t] EXCEPT !.status = s].status \in Statuses
    BY <2>1, <2>3 DEF Rows
  <2>5. "status" \in Tasks \ {"post_all"}
    BY DEF Tasks
  <2> QED BY <2>1, <2>2, <2>4, <2>5, BeginStep
<1>4. CASE BeginEdit(p, t)
  <2>1. row[t] \in Rows /\ InHand(t) = {}
    BY <1>1, <1>4, RowKinds DEF BeginEdit
  <2>2. PICK a \in Accounts, x \in Amounts, k \in Payers :
          Start(p, Request("edit", t,
                     [row[t] EXCEPT !.account = a, !.amount = x, !.payer = k]))
    BY <1>4 DEF BeginEdit
  <2>3. [row[t] EXCEPT !.account = a, !.amount = x, !.payer = k] \in Rows
    BY <2>1 DEF Rows
  <2>4. "edit" \in Tasks \ {"post_all"}
    BY DEF Tasks
  <2> QED BY <2>1, <2>2, <2>3, <2>4, BeginStep
<1>5. CASE BeginDelete(p, t)
  <2>1. row[t] \in Rows /\ InHand(t) = {} /\ Start(p, Request("delete", t, row[t]))
    BY <1>1, <1>5, RowKinds DEF BeginDelete
  <2>2. "delete" \in Tasks \ {"post_all"}
    BY DEF Tasks
  <2> QED BY <2>1, <2>2, BeginStep
<1> QED BY <1>2, <1>3, <1>4, <1>5

LEMMA BeginPostAllInv ==
  ASSUME Serial, IInv, NEW p \in Procs, BeginPostAll(p)
  PROVE  IInv'
<1>1. PICK T \in SUBSET {t \in Txns : row[t].status = "approved" /\ row[t].link = None} :
        /\ \A t \in T : InHand(t) = {}
        /\ Start(p, [NoJob EXCEPT !.at = "committed", !.task = "post_all", !.todo = T])
  BY DEF BeginPostAll, Serial
<1> DEFINE j == [NoJob EXCEPT !.at = "committed", !.task = "post_all", !.todo = T]
<1>2. j \in Jobs /\ j.at # "loaded" /\ j.txn = None /\ j.todo = T
  BY DEF NoJob, Jobs, Payers, Tasks
<1>3. UNCHANGED <<row, books>> /\ job' = [job EXCEPT ![p] = j]
  BY <1>1 DEF Start
<1> HIDE DEF j
<1>4. Current(j)
  BY <1>2 DEF Current
<1>5. \A t \in Txns, q \in Procs \ {p} : (j.txn = t \/ t \in j.todo) => ~Holds(q, t)
  BY <1>1, <1>2, NoneIsNoTxn DEF InHand, Holds
<1> QED BY <1>2, <1>3, <1>4, <1>5, JobStep

LEMMA RefuseInv ==
  ASSUME IInv, NEW p \in Procs, Refuse(p)
  PROVE  IInv'
<1>1. Current(NoJob)
  BY NoJobType DEF Current
<1> QED BY <1>1, NoJobType, NoneIsNoTxn, JobStep DEF Refuse

-----------------------------------------------------------------------------
\* What a request that is about to commit knows.
LEMMA LoadedFacts ==
  ASSUME IInv, NEW p \in Procs, job[p].at = "loaded"
  PROVE  /\ job[p].txn \in Txns
         /\ Holds(p, job[p].txn)
         /\ job[p].old = row[job[p].txn]
         /\ job[p].old \in Rows \cup {NoRow}
         /\ job[p].old.link = Due(job[p].old)
         /\ job[p].task = "create" => job[p].old = NoRow /\ job[p].new \in Rows
         /\ job[p].task = "edit" => job[p].new \in Rows
         /\ job[p].task = "status" => job[p].old \in Rows /\ job[p].new.status \in Statuses
<1>1. Current(job[p])
  BY DEF IInv, JobInv
<1> QED BY <1>1 DEF Current, IInv, RowTypes, LinkInv, Holds

LEMMA DueOfNoRow == NoRow.link = None /\ Due(NoRow) = None
  BY DEF NoRow, Due

LEMMA CommitCreateInv ==
  ASSUME IInv, NEW p \in Procs, CommitCreate(p)
  PROVE  IInv'
<1> DEFINE t == job[p].txn
           r == job[p].new
           entry == IF r.status = "completed" THEN Posting(r) ELSE None
           rr == [r EXCEPT !.link = entry]
<1>1. t \in Txns /\ Holds(p, t) /\ row[t].link = None /\ r \in Rows
  BY LoadedFacts, DueOfNoRow DEF CommitCreate, Loaded
<1>2. entry \in Postings \cup {None}
  BY <1>1, PostingType
<1>3. rr \in Rows /\ rr.link = entry /\ rr.link = Due(rr)
  BY <1>1, <1>2 DEF Rows, Due, Posting
<1>4. row' = [row EXCEPT ![t] = rr] /\ Book(t, row[t].link, rr.link)
  BY <1>1, <1>3 DEF CommitCreate
<1>5. Settle(p, {r.payer}, {}) /\ {r.payer} \in SUBSET Payers /\ {} \in SUBSET Accounts
  BY <1>1 DEF CommitCreate, Rows
<1> HIDE DEF t, r, rr, entry
<1> QED BY <1>1, <1>3, <1>4, <1>5, SettleStep

\* What a request that reopens, approves or rejects does to its row.
LEMMA ReopenRow ==
  ASSUME IInv, NEW p \in Procs, CommitReopen(p)
  PROVE  LET t == job[p].txn
             r == job[p].old
             s == job[p].new.status
         IN  /\ t \in Txns /\ Holds(p, t) /\ row[t] = r /\ r \in Rows /\ r.link = Due(r)
             /\ s \in Statuses /\ s # "completed"
             /\ row' = [row EXCEPT ![t] = [r EXCEPT !.status = s, !.link = None]]
<1> DEFINE t == job[p].txn
           r == job[p].old
           s == job[p].new.status
           gone == IF s # r.status /\ r.status \in {"approved", "completed"}
                   THEN r.link ELSE None
<1>1. t \in Txns /\ Holds(p, t) /\ row[t] = r /\ r \in Rows /\ s \in Statuses
      /\ s # "completed" /\ r.link = Due(r)
  BY LoadedFacts DEF CommitReopen, Loaded
<1>2. gone = r.link
  BY <1>1 DEF Due
<1>3. row' = [row EXCEPT ![t].status = s,
                         ![t].link = IF gone = None THEN @ ELSE None]
  BY DEF CommitReopen
<1>4. row \in [Txns -> Rows \cup {NoRow}]
  BY DEF IInv, RowTypes
<1>5. row' = [row EXCEPT ![t] = [r EXCEPT !.status = s,
                            !.link = IF gone = None THEN r.link ELSE None]]
  BY <1>1, <1>3, <1>4 DEF Rows
<1>6. row' = [row EXCEPT ![t] = [r EXCEPT !.status = s, !.link = None]]
  BY <1>1, <1>2, <1>5
<1> QED BY <1>1, <1>6

LEMMA CommitReopenInv ==
  ASSUME IInv, NEW p \in Procs, CommitReopen(p)
  PROVE  IInv'
<1> DEFINE t == job[p].txn
           r == job[p].old
           s == job[p].new.status
           gone == IF s # r.status /\ r.status \in {"approved", "completed"}
                   THEN r.link ELSE None
           rr == [r EXCEPT !.status = s, !.link = None]
           A == IF s # r.status /\ (r.status = "completed" \/ (r.link # None /\ gone = None))
                THEN {r.account} ELSE {}
<1>1. t \in Txns /\ Holds(p, t) /\ row[t] = r /\ r \in Rows /\ s \in Statuses
      /\ s # "completed" /\ r.link = Due(r) /\ row' = [row EXCEPT ![t] = rr]
  BY ReopenRow
<1>2. gone = r.link
  BY <1>1 DEF Due
<1>3. rr \in Rows /\ rr.link = None /\ rr.link = Due(rr)
  BY <1>1 DEF Rows, Due
<1>4. Book(t, row[t].link, rr.link)
  BY <1>1, <1>2, <1>3 DEF CommitReopen
<1>5. Settle(p, {r.payer}, A) /\ {r.payer} \in SUBSET Payers /\ A \in SUBSET Accounts
  BY <1>1 DEF CommitReopen, Rows
<1> HIDE DEF t, r, s, rr, gone, A
<1> QED BY <1>1, <1>3, <1>4, <1>5, SettleStep

\* What a request that completes a transaction does to its row.
LEMMA CompleteRow ==
  ASSUME IInv, NEW p \in Procs, CommitComplete(p)
  PROVE  LET t == job[p].txn
             r == job[p].old
         IN  /\ t \in Txns /\ Holds(p, t) /\ row[t] = r /\ r \in Rows /\ r.link = Due(r)
             /\ row' = [row EXCEPT ![t] = [r EXCEPT !.status = "completed",
                                                   !.link = Posting(r)]]
<1> DEFINE t == job[p].txn
           r == job[p].old
<1>1. t \in Txns /\ Holds(p, t) /\ row[t] = r /\ r \in Rows /\ r.link = Due(r)
  BY LoadedFacts DEF CommitComplete, Loaded
<1>2. row' = [row EXCEPT ![t].status = "completed",
                         ![t].link = IF r.link = None THEN Posting(r) ELSE @]
  BY DEF CommitComplete
<1>3. row \in [Txns -> Rows \cup {NoRow}]
  BY DEF IInv, RowTypes
<1>4. row' = [row EXCEPT ![t] = [r EXCEPT !.status = "completed",
                !.link = IF r.link = None THEN Posting(r) ELSE r.link]]
  BY <1>1, <1>2, <1>3 DEF Rows
<1>5. (IF r.link = None THEN Posting(r) ELSE r.link) = Posting(r)
  BY <1>1 DEF Due
<1> QED BY <1>1, <1>4, <1>5

LEMMA CommitCompleteInv ==
  ASSUME IInv, NEW p \in Procs, CommitComplete(p)
  PROVE  IInv'
<1> DEFINE t == job[p].txn
           r == job[p].old
           rr == [r EXCEPT !.status = "completed", !.link = Posting(r)]
<1>1. t \in Txns /\ Holds(p, t) /\ row[t] = r /\ r \in Rows /\ r.link = Due(r)
      /\ row' = [row EXCEPT ![t] = rr]
  BY CompleteRow
<1>2. Posting(r) \in Postings
  BY <1>1, PostingType
<1>3. rr \in Rows /\ rr.link = Posting(r) /\ rr.link = Due(rr)
  BY <1>1, <1>2 DEF Rows, Due, Posting, Statuses
<1>4. Book(t, row[t].link, rr.link)
  BY <1>1, <1>3 DEF CommitComplete
<1>5. Settle(p, {r.payer}, {r.account}) /\ {r.payer} \in SUBSET Payers /\ {r.account} \in SUBSET Accounts
  BY <1>1 DEF CommitComplete, Rows
<1> HIDE DEF t, r, rr
<1> QED BY <1>1, <1>3, <1>4, <1>5, SettleStep

LEMMA CommitEditInv ==
  ASSUME IInv, NEW p \in Procs, CommitEdit(p)
  PROVE  IInv'
<1> DEFINE t == job[p].txn
           r == job[p].old
           n == job[p].new
           rr == [n EXCEPT !.status = "pending", !.link = None]
           A == IF r.status = "completed" \/ r.link # None
                THEN {r.account, n.account} ELSE {}
<1>1. t \in Txns /\ Holds(p, t) /\ row[t] = r /\ n \in Rows /\ r.link = Due(r)
      /\ r \in Rows \cup {NoRow}
  BY LoadedFacts DEF CommitEdit, Loaded
<1>2. rr \in Rows /\ rr.link = None /\ rr.link = Due(rr)
  BY <1>1 DEF Rows, Due, Statuses
<1>3. row' = [row EXCEPT ![t] = rr] /\ Book(t, row[t].link, rr.link)
  BY <1>1, <1>2 DEF CommitEdit
<1>4. A \in SUBSET Accounts
  <2>1. CASE r = NoRow
    BY <2>1 DEF NoRow
  <2>2. CASE r \in Rows
    BY <1>1, <2>2 DEF Rows
  <2> QED BY <1>1, <2>1, <2>2
<1>5. Settle(p, PayersOfEdit(p), A)
  BY DEF CommitEdit
<1>6. PayersOfEdit(p) \in SUBSET Payers
  <2>1. r.link # None => r \in Rows
    BY <1>1, DueOfNoRow
  <2> QED BY <1>1, <2>1 DEF PayersOfEdit, Rows
<1> HIDE DEF t, r, n, rr, A
<1> QED BY <1>1, <1>2, <1>3, <1>4, <1>5, <1>6, SettleStep

LEMMA CommitDeleteInv ==
  ASSUME IInv, NEW p \in Procs, CommitDelete(p)
  PROVE  IInv'
<1> DEFINE t == job[p].txn
<1>1. t \in Txns /\ Holds(p, t) /\ row[t] = job[p].old
  BY LoadedFacts DEF CommitDelete, Loaded
<1>2. row' = [row EXCEPT ![t] = NoRow] /\ Book(t, row[t].link, NoRow.link)
  BY <1>1, DueOfNoRow DEF CommitDelete
<1>3. Settle(p, {}, {})
  BY DEF CommitDelete
<1> HIDE DEF t
<1> QED BY <1>1, <1>2, <1>3, DueOfNoRow, SettleStep

\* What a job knows between its transactions.
LEMMA CommittedFacts ==
  ASSUME IInv, NEW p \in Procs, job[p].at # "loaded"
  PROVE  /\ job[p] \in Jobs /\ job[p].txn = None
         /\ \A t \in job[p].todo : t \in Txns /\ Holds(p, t)
              /\ row[t] \in Rows /\ row[t].status = "approved" /\ row[t].link = None
<1>1. Current(job[p]) /\ job[p] \in Jobs
  BY DEF IInv, JobInv, RowTypes
<1>2. job[p].txn = None
  BY <1>1 DEF Current
<1>3. ASSUME NEW t \in job[p].todo
      PROVE  t \in Txns /\ Holds(p, t) /\ row[t] \in Rows
             /\ row[t].status = "approved" /\ row[t].link = None
  <2>1. t \in Txns /\ row[t].status = "approved" /\ Holds(p, t)
    BY <1>1 DEF Current, Jobs, Holds
  <2>2. row[t] \in Rows
    BY <2>1 DEF IInv, RowTypes, NoRow
  <2>3. row[t].link = None
    BY <2>1 DEF IInv, LinkInv, Due
  <2> QED BY <2>1, <2>2, <2>3
<1> QED BY <1>1, <1>2, <1>3

\* What post_all does to the row that it posts.
LEMMA PostNextRow ==
  ASSUME IInv, NEW p \in Procs, NEW t \in Txns, PostNext(p, t)
  PROVE  /\ job[p] \in Jobs /\ job[p].txn = None /\ job[p].at = "committed"
         /\ Holds(p, t) /\ row[t] \in Rows /\ row[t].status # "completed"
         /\ row[t].link = None
         /\ row' = [row EXCEPT ![t] = [row[t] EXCEPT !.status = "completed",
                                                    !.link = Posting(row[t])]]
<1>1. job[p] \in Jobs /\ job[p].txn = None /\ job[p].at = "committed"
      /\ Holds(p, t) /\ row[t] \in Rows /\ row[t].status # "completed" /\ row[t].link = None
  BY CommittedFacts DEF PostNext, Committed
<1>2. row' = [row EXCEPT ![t].status = "completed", ![t].link = Posting(row[t])]
  BY DEF PostNext
<1>3. row \in [Txns -> Rows \cup {NoRow}]
  BY DEF IInv, RowTypes
<1> QED BY <1>1, <1>2, <1>3 DEF Rows

LEMMA PostNextInv ==
  ASSUME IInv, NEW p \in Procs, NEW t \in Txns, PostNext(p, t)
  PROVE  IInv'
<1> DEFINE r == row[t]
           rr == [r EXCEPT !.status = "completed", !.link = Posting(r)]
           j == [job[p] EXCEPT !.todo = @ \ {t}, !.keys = {r.payer} \ {None},
                               !.dirty = @ \cup {r.account}]
<1>1. job[p] \in Jobs /\ job[p].txn = None /\ job[p].at = "committed"
      /\ Holds(p, t) /\ r \in Rows /\ r.link = None /\ row' = [row EXCEPT ![t] = rr]
  BY PostNextRow
<1>2. Posting(r) \in Postings
  BY <1>1, PostingType
<1>3. rr \in Rows /\ rr.link = Posting(r) /\ rr.link = Due(rr)
  BY <1>1, <1>2 DEF Rows, Due, Posting, Statuses
<1>4. Book(t, row[t].link, rr.link)
  BY <1>1, <1>3 DEF PostNext
<1>5. j \in Jobs /\ j.at # "loaded" /\ j.txn = None /\ j.todo \subseteq job[p].todo \ {t}
  BY <1>1 DEF Jobs, Rows, Payers
<1>6. GoOn(p, j)
  BY DEF PostNext
<1> HIDE DEF r, rr, j
<1> QED BY <1>1, <1>3, <1>4, <1>5, <1>6, CommitStep

LEMMA CacheStepInv ==
  ASSUME IInv, NEW p \in Procs, CacheStep(p)
  PROVE  IInv'
<1>1. job[p].at # "loaded"
  BY DEF CacheStep, SkipNext, LockBills, SaveBills, Recalculate, Committed
<1>2. RowTypes /\ job[p].txn = None
  BY <1>1, CommittedFacts DEF IInv
<1>3. UNCHANGED <<row, books>>
  BY <1>2, CacheStepJob
<1>4. PICK k \in Jobs : /\ job' = [job EXCEPT ![p] = k] /\ k.at # "loaded"
                       /\ k.txn = None /\ k.todo \subseteq job[p].todo
  BY <1>2, CacheStepJob
<1>5. Current(k)
  BY <1>4 DEF IInv, JobInv, Current
<1>6. \A t \in Txns, q \in Procs \ {p} : (k.txn = t \/ t \in k.todo) => ~Holds(q, t)
  BY <1>4, NoneIsNoTxn DEF IInv, HandInv, Holds
<1> QED BY <1>3, <1>4, <1>5, <1>6, JobStep

-----------------------------------------------------------------------------
LEMMA InitInv == Init => IInv
<1> SUFFICES ASSUME Init PROVE IInv
  OBVIOUS
<1>1. RowTypes
  BY NoJobType DEF Init, RowTypes
<1>2. LinkInv
  BY DueOfNoRow DEF Init, LinkInv
<1>3. JobInv
  BY NoJobType DEF Init, JobInv, Current
<1>4. HandInv
  BY NoJobType, NoneIsNoTxn DEF Init, HandInv, Holds
<1>5. LedgerMatchesCash
  BY DEF Init, LedgerMatchesCash, Completed, NoRow
<1> QED BY <1>1, <1>2, <1>3, <1>4, <1>5 DEF IInv

LEMMA StepInv ==
  ASSUME Serial, IInv, [Next]_vars
  PROVE  IInv'
<1>1. CASE Next
  <2>1. PICK p \in Procs : StepOf(p)
    BY <1>1, StepCases
  <2>2. CASE \E t \in Txns : BeginCreate(p, t) \/ BeginStatus(p, t)
                             \/ BeginEdit(p, t) \/ BeginDelete(p, t)
    BY <2>2, BeginInv
  <2>3. CASE BeginPostAll(p)
    BY <2>3, BeginPostAllInv
  <2>4. CASE Refuse(p)
    BY <2>4, RefuseInv
  <2>5. CASE CommitCreate(p)
    BY <2>5, CommitCreateInv
  <2>6. CASE CommitReopen(p)
    BY <2>6, CommitReopenInv
  <2>7. CASE CommitComplete(p)
    BY <2>7, CommitCompleteInv
  <2>8. CASE CommitEdit(p)
    BY <2>8, CommitEditInv
  <2>9. CASE CommitDelete(p)
    BY <2>9, CommitDeleteInv
  <2>10. CASE \E t \in Txns : PostNext(p, t)
    BY <2>10, PostNextInv
  <2>11. CASE CacheStep(p)
    BY <2>11, CacheStepInv
  <2> QED BY <2>1, <2>2, <2>3, <2>4, <2>5, <2>6, <2>7, <2>8, <2>9, <2>10, <2>11 DEF StepOf
<1>2. CASE UNCHANGED vars
  <2>1. UNCHANGED <<row, books, job>>
    BY <1>2 DEF vars
  <2> QED BY <2>1 DEF IInv, RowTypes, LinkInv, JobInv, Current, HandInv, Holds,
                      LedgerMatchesCash, Completed
<1> QED BY <1>1, <1>2

\* A transaction is on the books exactly once while it is COMPLETED and not
\* at all otherwise, through every sequence of creations, edits, completions,
\* reopenings, bulk postings and deletions (_update_status, perform_update,
\* destroy, execute_post_all) in which no two requests hold the same row.
THEOREM BooksMatchCash == Serial => (Spec => []LedgerMatchesCash)
<1> SUFFICES ASSUME Serial PROVE Spec => []LedgerMatchesCash
  OBVIOUS
<1>1. Init => IInv
  BY InitInv
<1>2. IInv /\ [Next]_vars => IInv'
  BY StepInv
<1>3. IInv => LedgerMatchesCash
  BY DEF IInv
<1> QED BY <1>1, <1>2, <1>3, PTL DEF Spec
-----------------------------------------------------------------------------
(* The caches, when no completed transaction is deleted                    *)

Kept == "completed_gone" \notin Faults

\* What student k has paid, by the rows r.
PaidIn(r, k) ==
  SumFunctionOnSet(AmountsIn(r),
                   {t \in Txns : r[t].status = "completed" /\ r[t].payer = k})

LEMMA PaidInRow == \A k : PaidBy(k) = PaidIn(row, k)
  BY DEF PaidBy, PaidIn, Completed

\* What is still to be refreshed is known only between a commit and its end.
Orderly(j) ==
  /\ j.at \in {"idle", "loaded"} => j.keys = {} /\ j.dirty = {}
  /\ j.at # "billing" => j.key = None
  /\ j.at = "billing" => j.key \in j.keys
  /\ j.at = "loaded" /\ j.task = "delete" => j.old.status # "completed"

OrderInv == \A p \in Procs : Orderly(job[p])
\* No two processes hold the locks of the same bills.
LockInv == \A p, q \in Procs : job[p].key # None /\ job[p].key = job[q].key => p = q
\* What was read is still true, or somebody else is to read it again.
ReadInv ==
  \A p \in Procs : job[p].key # None =>
     \/ seen[p] = PaidIn(row, job[p].key)
     \/ \E q \in Procs \ {p} : job[p].key \in job[q].keys
SavedInv ==
  \A k \in Keys : (\A p \in Procs : k \notin job[p].keys) =>
     paid[k] = Distribute(PaidIn(row, k))

CacheInv == OrderInv /\ LockInv /\ ReadInv /\ SavedInv /\ BalanceFollowsCash

\* r counts towards the balance of account a.
OnAccount(r, a) == r.status = "completed" /\ r.account = a
\* r counts towards what student k has paid.
PaysFor(r, k) == r.status = "completed" /\ r.payer = k

LEMMA BalanceSame ==
  ASSUME RowTypes, NEW t \in Txns, NEW r, row' = [row EXCEPT ![t] = r],
         NEW a, ~OnAccount(row[t], a), ~OnAccount(r, a)
  PROVE  BalanceIn(row', a) = BalanceIn(row, a)
<1> DEFINE T == {s \in Txns : row[s].status = "completed" /\ row[s].account = a}
           U == {s \in Txns : row'[s].status = "completed" /\ row'[s].account = a}
           F == AmountsIn(row)
           G == AmountsIn(row')
<1>1. \A s \in Txns \ {t} : row'[s] = row[s]
  BY DEF RowTypes
<1>2. t \notin T /\ t \notin U
  BY DEF RowTypes, OnAccount
<1>3. T = U
  BY <1>1, <1>2
<1>4. \A s \in T : F[s] = G[s]
  BY <1>1, <1>2 DEF AmountsIn
<1>5. IsFiniteSet(T)
  BY TxnsAssumption, FS_Subset
<1>6. BalanceIn(row, a) = SumFunctionOnSet(F, T) /\ BalanceIn(row', a) = SumFunctionOnSet(G, U)
  BY DEF BalanceIn
<1> HIDE DEF T, U, F, G
<1>7. SumFunctionOnSet(F, T) = SumFunctionOnSet(G, T)
  BY <1>4, <1>5, SumSame
<1> QED BY <1>3, <1>6, <1>7

LEMMA PaidSame ==
  ASSUME RowTypes, NEW t \in Txns, NEW r, row' = [row EXCEPT ![t] = r],
         NEW k, ~PaysFor(row[t], k), ~PaysFor(r, k)
  PROVE  PaidIn(row', k) = PaidIn(row, k)
<1> DEFINE T == {s \in Txns : row[s].status = "completed" /\ row[s].payer = k}
           U == {s \in Txns : row'[s].status = "completed" /\ row'[s].payer = k}
           F == AmountsIn(row)
           G == AmountsIn(row')
<1>1. \A s \in Txns \ {t} : row'[s] = row[s]
  BY DEF RowTypes
<1>2. t \notin T /\ t \notin U
  BY DEF RowTypes, PaysFor
<1>3. T = U
  BY <1>1, <1>2
<1>4. \A s \in T : F[s] = G[s]
  BY <1>1, <1>2 DEF AmountsIn
<1>5. IsFiniteSet(T)
  BY TxnsAssumption, FS_Subset
<1>6. PaidIn(row, k) = SumFunctionOnSet(F, T) /\ PaidIn(row', k) = SumFunctionOnSet(G, U)
  BY DEF PaidIn
<1> HIDE DEF T, U, F, G
<1>7. SumFunctionOnSet(F, T) = SumFunctionOnSet(G, T)
  BY <1>4, <1>5, SumSame
<1> QED BY <1>3, <1>6, <1>7

LEMMA NoneIsNoKey == None \notin Keys
  BY NoneAssumption

\* A step of p that owes the same caches as before.
LEMMA CacheKept ==
  ASSUME RowTypes, CacheInv, UNCHANGED <<row, caches>>,
         NEW p \in Procs, NEW j, job' = [job EXCEPT ![p] = j],
         Orderly(j), j.keys = job[p].keys, j.dirty = job[p].dirty, j.key = job[p].key
  PROVE  CacheInv'
<1>1. \A q \in Procs : /\ job'[q].keys = job[q].keys /\ job'[q].dirty = job[q].dirty
                       /\ job'[q].key = job[q].key
                       /\ job'[q] = job[q] \/ job'[q] = j
  BY DEF RowTypes
<1>2. OrderInv'
  BY <1>1 DEF CacheInv, OrderInv, Orderly
<1>3. LockInv'
  BY <1>1 DEF CacheInv, LockInv
<1>4. ReadInv' /\ SavedInv'
  <2> QED BY <1>1 DEF CacheInv, ReadInv, SavedInv, caches
<1>5. BalanceFollowsCash'
  BY <1>1 DEF CacheInv, BalanceFollowsCash, BalanceOf, caches
<1> QED BY <1>2, <1>3, <1>4, <1>5 DEF CacheInv

\* The balances of the accounts B are recalculated in the transaction.
Recounts(B) ==
  balance' = [a \in Accounts |-> IF a \in B THEN BalanceIn(row', a) ELSE balance[a]]

LEMMA RecountsNone ==
  ASSUME Numbers, UNCHANGED balance
  PROVE  Recounts({})
  BY DEF Numbers, Recounts

LEMMA RecountsOne ==
  ASSUME Numbers, NEW b, balance' = [balance EXCEPT ![b] = BalanceIn(row', b)]
  PROVE  Recounts({b})
  BY DEF Numbers, Recounts

\* A transaction of the database by p, which owes nothing to any bill, and
\* afterwards owes the bills and the balances that its row counts towards.
LEMMA CacheRow ==
  ASSUME RowTypes, CacheInv, NEW p \in Procs, NEW t \in Txns,
         NEW r \in Rows \cup {NoRow}, row' = [row EXCEPT ![t] = r],
         NEW j \in Jobs, job' = [job EXCEPT ![p] = j], Orderly(j),
         job[p].keys = {}, j.key = None, job[p].dirty \subseteq j.dirty,
         UNCHANGED <<paid, seen>>,
         \A k \in Keys : PaysFor(row[t], k) \/ PaysFor(r, k) => k \in j.keys,
         NEW B \in SUBSET Accounts,
         Recounts(B),
         \A a \in Accounts : OnAccount(row[t], a) \/ OnAccount(r, a) => a \in j.dirty \cup B
  PROVE  CacheInv'
<1>1. \A q \in Procs : IF q = p THEN job'[q] = j ELSE job'[q] = job[q]
  BY DEF RowTypes
<1>2. OrderInv'
  BY <1>1 DEF CacheInv, OrderInv, Orderly
<1>3. LockInv'
  BY <1>1 DEF CacheInv, LockInv
<1>4. \A k \in Keys : k \notin j.keys => PaidIn(row', k) = PaidIn(row, k)
  BY PaidSame
<1>5. ReadInv'
  <2> SUFFICES ASSUME NEW q \in Procs, job'[q].key # None
               PROVE  \/ seen'[q] = PaidIn(row', job'[q].key)
                      \/ \E u \in Procs \ {q} : job'[q].key \in job'[u].keys
    BY DEF ReadInv
  <2>1. q # p /\ job'[q] = job[q] /\ job[q].key \in Keys /\ seen'[q] = seen[q]
    BY <1>1 DEF RowTypes, Jobs, Payers
  <2>2. CASE job[q].key \in j.keys
    <3>1. job'[q].key \in job'[p].keys
      BY <1>1, <2>1, <2>2
    <3> QED BY <2>1, <3>1
  <2>3. CASE job[q].key \notin j.keys
    <3>1. PaidIn(row', job[q].key) = PaidIn(row, job[q].key)
      BY <1>4, <2>1, <2>3
    <3>2. CASE seen[q] = PaidIn(row, job[q].key)
      BY <2>1, <3>1, <3>2
    <3>3. ASSUME NEW u \in Procs \ {q}, job[q].key \in job[u].keys
          PROVE  job'[q].key \in job'[u].keys
      BY <1>1, <2>1, <3>3
    <3> QED BY <2>1, <3>2, <3>3 DEF CacheInv, ReadInv
  <2> QED BY <2>2, <2>3
<1>6. SavedInv'
  <2> SUFFICES ASSUME NEW k \in Keys, \A q \in Procs : k \notin job'[q].keys
               PROVE  paid'[k] = Distribute(PaidIn(row', k))
    BY DEF SavedInv, Distribute, PaidIn
  <2>1. k \notin j.keys /\ \A q \in Procs : k \notin job[q].keys
    BY <1>1
  <2> QED BY <1>4, <2>1 DEF CacheInv, SavedInv
<1>7. BalanceFollowsCash'
  <2> SUFFICES ASSUME NEW a \in Accounts, \A q \in Procs : a \notin job'[q].dirty
               PROVE  balance'[a] = BalanceIn(row', a)
    BY DEF BalanceFollowsCash, BalanceOf
  <2>1. a \notin j.dirty /\ \A q \in Procs : a \notin job[q].dirty
    BY <1>1
  <2>2. CASE a \notin B
    <3>1. BalanceIn(row', a) = BalanceIn(row, a)
      BY <2>1, <2>2, BalanceSame
    <3> QED BY <2>1, <2>2, <3>1 DEF CacheInv, BalanceFollowsCash, BalanceOf, Recounts
  <2> QED BY <2>2 DEF Recounts
<1> QED BY <1>2, <1>3, <1>5, <1>6, <1>7 DEF CacheInv
\* A request that commits row t as r and has the caches of K and A refreshed.
LEMMA CacheSettle ==
  ASSUME RowTypes, CacheInv, NEW p \in Procs, job[p].at = "loaded", NEW t \in Txns,
         NEW r \in Rows \cup {NoRow}, row' = [row EXCEPT ![t] = r],
         NEW K \in SUBSET Payers, NEW A \in SUBSET Accounts, Settle(p, K, A),
         UNCHANGED <<paid, seen>>,
         \A k \in Keys : PaysFor(row[t], k) \/ PaysFor(r, k) => k \in K,
         NEW B \in SUBSET Accounts, Recounts(B),
         \A a \in Accounts : OnAccount(row[t], a) \/ OnAccount(r, a) => a \in A \cup B
  PROVE  CacheInv'
<1>1. /\ Settled(K, A).at = "committed" /\ Settled(K, A).key = None
      /\ Settled(K, A).keys = K \ {None} /\ Settled(K, A).dirty = A
  BY SettledCaches
<1>2. Settled(K, A) \in Jobs /\ Settled(K, A).txn = None
  BY SettledJob
<1>3. GoOn(p, Settled(K, A))
  BY DEF Settle, Settled
<1>4. PICK j \in Jobs : /\ job' = [job EXCEPT ![p] = j]
                        /\ j.keys = K \ {None} /\ j.dirty = A
                        /\ j = Settled(K, A) \/ j = NoJob
  BY <1>1, <1>2, <1>3, GoOnJob
<1>5. Orderly(j) /\ j.key = None
  BY <1>1, <1>4 DEF Orderly, NoJob
<1>6. job[p].keys = {} /\ job[p].dirty = {}
  BY DEF CacheInv, OrderInv, Orderly
<1>7. \A k \in Keys : PaysFor(row[t], k) \/ PaysFor(r, k) => k \in j.keys
  BY <1>4, NoneIsNoKey
<1>8. \A a \in Accounts : OnAccount(row[t], a) \/ OnAccount(r, a) => a \in j.dirty \cup B
  BY <1>4
<1>9. job[p].dirty \subseteq j.dirty
  BY <1>6
<1> QED BY <1>4, <1>5, <1>6, <1>7, <1>8, <1>9, CacheRow

-----------------------------------------------------------------------------
LEMMA CacheBegin ==
  ASSUME Kept, RowTypes, CacheInv, NEW p \in Procs, NEW t \in Txns,
         BeginCreate(p, t) \/ BeginStatus(p, t) \/ BeginEdit(p, t) \/ BeginDelete(p, t)
  PROVE  CacheInv'
<1>1. \E task, new : /\ Start(p, Request(task, t, new))
                     /\ task = "delete" => row[t].status # "completed"
  <2>1. CASE BeginCreate(p, t)
    BY <2>1 DEF BeginCreate
  <2>2. CASE BeginStatus(p, t)
    BY <2>2 DEF BeginStatus
  <2>3. CASE BeginEdit(p, t)
    <3>1. PICK a \in Accounts, x \in Amounts, k \in Payers :
            Start(p, Request("edit", t,
                       [row[t] EXCEPT !.account = a, !.amount = x, !.payer = k]))
      BY <2>3 DEF BeginEdit
    <3> DEFINE n == [row[t] EXCEPT !.account = a, !.amount = x, !.payer = k]
    <3>2. Start(p, Request("edit", t, n)) /\ "edit" # "delete"
      BY <3>1
    <3> HIDE DEF n
    <3> QED BY <3>2
  <2>4. CASE BeginDelete(p, t)
    BY <2>4 DEF BeginDelete, Kept, Completed
  <2> QED BY <2>1, <2>2, <2>3, <2>4
<1>2. PICK task, new : /\ Start(p, Request(task, t, new))
                       /\ task = "delete" => row[t].status # "completed"
  BY <1>1
<1> DEFINE j == Request(task, t, new)
<1>3. Orderly(j) /\ j.keys = {} /\ j.dirty = {} /\ j.key = None
  BY <1>2 DEF Request, Orderly
<1>4. job[p].keys = {} /\ job[p].dirty = {} /\ job[p].key = None
  BY <1>2 DEF Start, CacheInv, OrderInv, Orderly
<1>5. UNCHANGED <<row, caches>> /\ job' = [job EXCEPT ![p] = j]
  BY <1>2 DEF Start
<1> HIDE DEF j
<1> QED BY <1>3, <1>4, <1>5, CacheKept

LEMMA CacheBeginPostAll ==
  ASSUME RowTypes, CacheInv, NEW p \in Procs, BeginPostAll(p)
  PROVE  CacheInv'
<1>1. PICK T : Start(p, [NoJob EXCEPT !.at = "committed", !.task = "post_all", !.todo = T])
  BY DEF BeginPostAll
<1> DEFINE j == [NoJob EXCEPT !.at = "committed", !.task = "post_all", !.todo = T]
<1>2. Orderly(j) /\ j.keys = {} /\ j.dirty = {} /\ j.key = None
  BY DEF NoJob, Orderly
<1>3. job[p].keys = {} /\ job[p].dirty = {} /\ job[p].key = None
  BY <1>1 DEF Start, CacheInv, OrderInv, Orderly
<1>4. UNCHANGED <<row, caches>> /\ job' = [job EXCEPT ![p] = j]
  BY <1>1 DEF Start
<1> HIDE DEF j
<1> QED BY <1>2, <1>3, <1>4, CacheKept

LEMMA CacheRefuse ==
  ASSUME RowTypes, CacheInv, NEW p \in Procs, Refuse(p)
  PROVE  CacheInv'
<1>1. Orderly(NoJob) /\ NoJob.keys = {} /\ NoJob.dirty = {} /\ NoJob.key = None
  BY DEF NoJob, Orderly
<1>2. job[p].keys = {} /\ job[p].dirty = {} /\ job[p].key = None
  BY DEF Refuse, CacheInv, OrderInv, Orderly
<1>3. UNCHANGED <<row, caches>> /\ job' = [job EXCEPT ![p] = NoJob]
  BY DEF Refuse
<1> QED BY <1>1, <1>2, <1>3, CacheKept

LEMMA CacheCreate ==
  ASSUME IInv, Numbers, CacheInv, NEW p \in Procs, CommitCreate(p)
  PROVE  CacheInv'
<1> DEFINE t == job[p].txn
           r == job[p].new
           entry == IF r.status = "completed" THEN Posting(r) ELSE None
           rr == [r EXCEPT !.link = entry]
           B == IF entry = None THEN {} ELSE {r.account}
           K == {r.payer}
<1>1. t \in Txns /\ row[t] = NoRow /\ r \in Rows /\ RowTypes /\ job[p].at = "loaded"
  BY LoadedFacts DEF CommitCreate, Loaded, IInv
<1>2. entry \in Postings \cup {None} /\ (entry = None => r.status # "completed")
  BY <1>1, PostingType, NoneAssumption
<1>3. rr \in Rows /\ rr.status = r.status /\ rr.account = r.account /\ rr.payer = r.payer
      /\ r.account \in Accounts
  BY <1>1, <1>2 DEF Rows
<1>4. row' = [row EXCEPT ![t] = rr] /\ UNCHANGED <<paid, seen>>
  BY DEF CommitCreate
<1>5. Settle(p, K, {}) /\ K \in SUBSET Payers /\ {} \in SUBSET Accounts
  BY <1>1 DEF CommitCreate, Rows
<1>6. Recounts(B) /\ B \in SUBSET Accounts
  <2>1. CASE entry = None
    BY <2>1, RecountsNone DEF CommitCreate
  <2>2. CASE entry # None
    BY <1>3, <2>2, RecountsOne DEF CommitCreate
  <2> QED BY <2>1, <2>2
<1>7. \A k \in Keys : PaysFor(row[t], k) \/ PaysFor(rr, k) => k \in K
  BY <1>1, <1>3 DEF PaysFor, NoRow
<1>8. \A a \in Accounts : OnAccount(row[t], a) \/ OnAccount(rr, a) => a \in {} \cup B
  BY <1>1, <1>2, <1>3 DEF OnAccount, NoRow
<1> HIDE DEF t, r, rr, entry, B, K
<1> QED BY <1>1, <1>3, <1>4, <1>5, <1>6, <1>7, <1>8, CacheSettle

LEMMA CacheReopen ==
  ASSUME IInv, Numbers, CacheInv, NEW p \in Procs, CommitReopen(p)
  PROVE  CacheInv'
<1> DEFINE t == job[p].txn
           r == job[p].old
           s == job[p].new.status
           gone == IF s # r.status /\ r.status \in {"approved", "completed"}
                   THEN r.link ELSE None
           rr == [r EXCEPT !.status = s, !.link = None]
           A == IF s # r.status /\ (r.status = "completed" \/ (r.link # None /\ gone = None))
                THEN {r.account} ELSE {}
<1>1. t \in Txns /\ row[t] = r /\ r \in Rows /\ s \in Statuses /\ s # "completed"
      /\ row' = [row EXCEPT ![t] = rr]
  BY ReopenRow
<1>2. rr \in Rows /\ rr.status # "completed"
  BY <1>1 DEF Rows
<1>3. Settle(p, {r.payer}, A) /\ {r.payer} \in SUBSET Payers /\ A \in SUBSET Accounts
  BY <1>1 DEF CommitReopen, Rows
<1>4. RowTypes /\ job[p].at = "loaded" /\ UNCHANGED <<paid, seen>>
  BY DEF CommitReopen, Loaded, IInv, caches
<1>5. Recounts({}) /\ {} \in SUBSET Accounts
  BY RecountsNone DEF CommitReopen, caches
<1>6. \A k \in Keys : PaysFor(row[t], k) \/ PaysFor(rr, k) => k \in {r.payer}
  BY <1>1, <1>2 DEF PaysFor
<1>7. \A a \in Accounts : OnAccount(row[t], a) \/ OnAccount(rr, a) => a \in A \cup {}
  BY <1>1, <1>2 DEF OnAccount
<1> HIDE DEF t, r, s, rr, gone, A
<1> QED BY <1>1, <1>2, <1>3, <1>4, <1>5, <1>6, <1>7, CacheSettle

LEMMA CacheComplete ==
  ASSUME IInv, Numbers, CacheInv, NEW p \in Procs, CommitComplete(p)
  PROVE  CacheInv'
<1> DEFINE t == job[p].txn
           r == job[p].old
           rr == [r EXCEPT !.status = "completed", !.link = Posting(r)]
           K == {r.payer}
           A == {r.account}
<1>1. t \in Txns /\ row[t] = r /\ r \in Rows /\ row' = [row EXCEPT ![t] = rr]
  BY CompleteRow
<1>2. rr \in Rows /\ rr.account = r.account /\ rr.payer = r.payer
  BY <1>1, PostingType DEF Rows, Statuses
<1>3. Settle(p, K, A) /\ K \in SUBSET Payers /\ A \in SUBSET Accounts
  BY <1>1 DEF CommitComplete, Rows
<1>4. RowTypes /\ job[p].at = "loaded" /\ UNCHANGED <<paid, seen>>
  BY DEF CommitComplete, Loaded, IInv, caches
<1>5. Recounts({}) /\ {} \in SUBSET Accounts
  BY RecountsNone DEF CommitComplete, caches
<1>6. \A k \in Keys : PaysFor(row[t], k) \/ PaysFor(rr, k) => k \in K
  BY <1>1, <1>2 DEF PaysFor
<1>7. \A a \in Accounts : OnAccount(row[t], a) \/ OnAccount(rr, a) => a \in A \cup {}
  BY <1>1, <1>2 DEF OnAccount
<1> HIDE DEF t, r, rr, K, A
<1> QED BY <1>1, <1>2, <1>3, <1>4, <1>5, <1>6, <1>7, CacheSettle

LEMMA CacheEdit ==
  ASSUME IInv, Numbers, CacheInv, NEW p \in Procs, CommitEdit(p)
  PROVE  CacheInv'
<1> DEFINE t == job[p].txn
           r == job[p].old
           n == job[p].new
           rr == [n EXCEPT !.status = "pending", !.link = None]
           K == PayersOfEdit(p)
           A == IF r.status = "completed" \/ r.link # None
                THEN {r.account, n.account} ELSE {}
<1>1. t \in Txns /\ row[t] = r /\ n \in Rows /\ r.link = Due(r) /\ r \in Rows \cup {NoRow}
  BY LoadedFacts DEF CommitEdit, Loaded
<1>2. rr \in Rows /\ rr.status # "completed" /\ row' = [row EXCEPT ![t] = rr]
  BY <1>1 DEF Rows, Statuses, CommitEdit
<1>3. r.link # None \/ r.status = "completed" => r \in Rows
  BY <1>1, DueOfNoRow DEF NoRow
<1>4. Settle(p, K, A) /\ K \in SUBSET Payers /\ A \in SUBSET Accounts
  BY <1>1, <1>3 DEF CommitEdit, PayersOfEdit, Rows
<1>5. RowTypes /\ job[p].at = "loaded" /\ UNCHANGED <<paid, seen>>
  BY DEF CommitEdit, Loaded, IInv, caches
<1>6. Recounts({}) /\ {} \in SUBSET Accounts
  BY RecountsNone DEF CommitEdit, caches
<1>7. \A k \in Keys : PaysFor(row[t], k) \/ PaysFor(rr, k) => k \in K
  <2>1. r.status = "completed" => r.link # None
    BY <1>1, <1>3, PostingType, NoneAssumption DEF Due
  <2> QED BY <1>1, <1>2, <2>1 DEF PaysFor, PayersOfEdit
<1>8. \A a \in Accounts : OnAccount(row[t], a) \/ OnAccount(rr, a) => a \in A \cup {}
  BY <1>1, <1>2 DEF OnAccount
<1> HIDE DEF t, r, n, rr, K, A
<1> QED BY <1>1, <1>2, <1>4, <1>5, <1>6, <1>7, <1>8, CacheSettle

LEMMA CacheDelete ==
  ASSUME IInv, Numbers, CacheInv, NEW p \in Procs, CommitDelete(p)
  PROVE  CacheInv'
<1> DEFINE t == job[p].txn
           r == job[p].old
           B == IF r.status # "approved" THEN {} ELSE {r.account}
<1>1. t \in Txns /\ row[t] = r /\ r \in Rows \cup {NoRow}
  BY LoadedFacts DEF CommitDelete, Loaded
<1>2. RowTypes /\ job[p].at = "loaded" /\ UNCHANGED <<paid, seen>>
  BY DEF CommitDelete, Loaded, IInv
<1>3. r.status # "completed"
  BY DEF CommitDelete, Loaded, CacheInv, OrderInv, Orderly
<1>4. row' = [row EXCEPT ![t] = NoRow] /\ NoRow \in Rows \cup {NoRow}
  BY DEF CommitDelete
<1>5. Settle(p, {}, {}) /\ {} \in SUBSET Payers /\ {} \in SUBSET Accounts
  BY DEF CommitDelete
<1>6. Recounts(B) /\ B \in SUBSET Accounts
  <2>1. CASE r.status # "approved"
    BY <2>1, RecountsNone DEF CommitDelete
  <2>2. CASE r.status = "approved"
    <3>1. r.account \in Accounts
      BY <1>1, <2>2 DEF Rows, NoRow
    <3> QED BY <2>2, <3>1, RecountsOne DEF CommitDelete
  <2> QED BY <2>1, <2>2
<1>7. \A k \in Keys : ~PaysFor(row[t], k) /\ ~PaysFor(NoRow, k)
  BY <1>1, <1>3 DEF PaysFor, NoRow
<1>8. \A a \in Accounts : ~OnAccount(row[t], a) /\ ~OnAccount(NoRow, a)
  BY <1>1, <1>3 DEF OnAccount, NoRow
<1> HIDE DEF t, r, B
<1> QED BY <1>1, <1>2, <1>4, <1>5, <1>6, <1>7, <1>8, CacheSettle

LEMMA CachePostNext ==
  ASSUME IInv, Numbers, CacheInv, NEW p \in Procs, NEW t \in Txns, PostNext(p, t)
  PROVE  CacheInv'
<1> DEFINE r == row[t]
           rr == [r EXCEPT !.status = "completed", !.link = Posting(r)]
           j == [job[p] EXCEPT !.todo = @ \ {t}, !.keys = {r.payer} \ {None},
                               !.dirty = @ \cup {r.account}]
<1>1. /\ job[p] \in Jobs /\ job[p].at = "committed" /\ job[p].txn = None
      /\ r \in Rows /\ r.status # "completed" /\ row' = [row EXCEPT ![t] = rr]
  BY PostNextRow
<1>2. rr \in Rows /\ rr.account = r.account /\ rr.payer = r.payer
  BY <1>1, PostingType DEF Rows, Statuses
<1>3. /\ j \in Jobs /\ j.at = "committed" /\ j.txn = None /\ j.key = job[p].key
      /\ j.keys = {r.payer} \ {None} /\ j.dirty = job[p].dirty \cup {r.account}
  BY <1>1 DEF Jobs, Rows, Payers
<1>4. job[p].keys = {} /\ job[p].key = None
  BY DEF PostNext, Committed, CacheInv, OrderInv, Orderly
<1>5. GoOn(p, j) /\ RowTypes /\ UNCHANGED <<paid, seen>>
  BY DEF PostNext, IInv, caches
<1>6. Recounts({}) /\ {} \in SUBSET Accounts
  BY RecountsNone DEF PostNext, caches
<1>7. \A k \in Keys : PaysFor(r, k) \/ PaysFor(rr, k) => k \in j.keys
  BY <1>2, <1>3, NoneIsNoKey DEF PaysFor
<1>8. \A a \in Accounts : OnAccount(r, a) \/ OnAccount(rr, a) => a \in j.dirty
  BY <1>2, <1>3 DEF OnAccount
<1> HIDE DEF rr, j
<1>9. PICK k \in Jobs : /\ job' = [job EXCEPT ![p] = k]
                        /\ k.keys = j.keys /\ k.dirty = j.dirty /\ (k = j \/ k = NoJob)
  BY <1>3, <1>5, GoOnJob
<1>10. Orderly(k) /\ k.key = None
  BY <1>3, <1>4, <1>9 DEF Orderly, NoJob
<1>11. job[p].dirty \subseteq k.dirty
  BY <1>3, <1>9
<1>12. /\ \A x \in Keys : PaysFor(row[t], x) \/ PaysFor(rr, x) => x \in k.keys
       /\ \A a \in Accounts : OnAccount(row[t], a) \/ OnAccount(rr, a) => a \in k.dirty \cup {}
  BY <1>7, <1>8, <1>9
<1> QED BY <1>1, <1>2, <1>4, <1>5, <1>6, <1>9, <1>10, <1>11, <1>12, CacheRow

-----------------------------------------------------------------------------
LEMMA CacheSkip ==
  ASSUME RowTypes, CacheInv, NEW p \in Procs, NEW t \in Txns, SkipNext(p, t)
  PROVE  CacheInv'
<1> DEFINE j == [job[p] EXCEPT !.todo = @ \ {t}]
           k == IF j.todo = {} /\ j.keys = {} /\ j.dirty = {} THEN NoJob ELSE j
<1>1. job[p] \in Jobs /\ job[p].at = "committed" /\ job[p].key = None
  BY DEF SkipNext, Committed, RowTypes, CacheInv, OrderInv, Orderly
<1>2. /\ j.at = "committed" /\ j.key = None
      /\ j.keys = job[p].keys /\ j.dirty = job[p].dirty
  BY <1>1 DEF Jobs
<1>3. UNCHANGED <<row, caches>> /\ job' = [job EXCEPT ![p] = k]
  BY DEF SkipNext, GoOn
<1> HIDE DEF j
<1>4. /\ Orderly(k) /\ k.key = job[p].key
      /\ k.keys = job[p].keys /\ k.dirty = job[p].dirty
  BY <1>1, <1>2 DEF Orderly, NoJob
<1> HIDE DEF k
<1> QED BY <1>3, <1>4, CacheKept

LEMMA CacheLock ==
  ASSUME Numbers, RowTypes, CacheInv, NEW p \in Procs, NEW k \in Keys, LockBills(p, k)
  PROVE  CacheInv'
<1> DEFINE j == [job[p] EXCEPT !.at = "billing", !.key = k]
<1>1. job[p] \in Jobs /\ job[p].at = "committed" /\ k \in job[p].keys
      /\ \A q \in Procs : job[q].key # k
  BY DEF LockBills, RowTypes
<1>2. j.at = "billing" /\ j.key = k /\ j.keys = job[p].keys /\ j.dirty = job[p].dirty
  BY <1>1 DEF Jobs
<1>3. job' = [job EXCEPT ![p] = j] /\ UNCHANGED <<row, balance, paid>>
  BY DEF LockBills
<1>4. seen' = [seen EXCEPT ![p] = PaidIn(row, k)]
  BY PaidInRow DEF LockBills
<1> HIDE DEF j
<1>5. \A q \in Procs : IF q = p THEN job'[q] = j /\ seen'[q] = PaidIn(row, k)
                        ELSE job'[q] = job[q] /\ seen'[q] = seen[q]
  BY <1>3, <1>4 DEF RowTypes, Numbers
<1>6. OrderInv'
  BY <1>1, <1>2, <1>5 DEF CacheInv, OrderInv, Orderly
<1>7. LockInv'
  BY <1>1, <1>2, <1>5 DEF CacheInv, LockInv
<1>8. \A q \in Procs : job'[q].keys = job[q].keys /\ job'[q].dirty = job[q].dirty
  BY <1>2, <1>5
<1>9. ReadInv'
  BY <1>2, <1>3, <1>5, <1>8 DEF CacheInv, ReadInv
<1>10. SavedInv' /\ BalanceFollowsCash'
  BY <1>3, <1>8 DEF CacheInv, SavedInv, BalanceFollowsCash, BalanceOf
<1> QED BY <1>6, <1>7, <1>9, <1>10 DEF CacheInv

LEMMA CacheSave ==
  ASSUME Numbers, RowTypes, CacheInv, NEW p \in Procs, SaveBills(p)
  PROVE  CacheInv'
<1> DEFINE x == job[p].key
           j == [job[p] EXCEPT !.at = "committed", !.key = None, !.keys = @ \ {x}]
           k == IF j.todo = {} /\ j.keys = {} /\ j.dirty = {} THEN NoJob ELSE j
<1>1. job[p] \in Jobs /\ job[p].at = "billing" /\ x \in job[p].keys /\ x \in Keys
  BY DEF SaveBills, RowTypes, CacheInv, OrderInv, Orderly, Jobs
<1>2. j.at = "committed" /\ j.key = None /\ j.keys = job[p].keys \ {x}
      /\ j.dirty = job[p].dirty
  BY <1>1 DEF Jobs
<1>3. job' = [job EXCEPT ![p] = k] /\ UNCHANGED <<row, balance>>
      /\ paid' = [paid EXCEPT ![x] = Distribute(seen[p])]
      /\ seen' = [seen EXCEPT ![p] = 0]
  BY DEF SaveBills, GoOn
<1> HIDE DEF j
<1>4. Orderly(k) /\ k.key = None /\ k.keys = job[p].keys \ {x} /\ k.dirty = job[p].dirty
  BY <1>2 DEF Orderly, NoJob
<1> HIDE DEF k, x
<1>5. \A q \in Procs : IF q = p THEN job'[q] = k ELSE job'[q] = job[q] /\ seen'[q] = seen[q]
  BY <1>3 DEF RowTypes, Numbers
<1>6. x = job[p].key
  BY DEF x
<1>7. \A q \in Procs \ {p} : job[q].key # x
  BY <1>1, <1>6, NoneIsNoKey DEF CacheInv, LockInv
<1>8. OrderInv'
  BY <1>4, <1>5 DEF CacheInv, OrderInv
<1>9. LockInv'
  BY <1>4, <1>5 DEF CacheInv, LockInv
<1>10. ReadInv'
  <2> SUFFICES ASSUME NEW q \in Procs, job'[q].key # None
               PROVE  \/ seen'[q] = PaidIn(row', job'[q].key)
                      \/ \E u \in Procs \ {q} : job'[q].key \in job'[u].keys
    BY DEF ReadInv
  <2>1. q # p /\ job'[q] = job[q] /\ seen'[q] = seen[q] /\ job[q].key # x
    BY <1>4, <1>5, <1>7
  <2>2. \A u \in Procs : job[q].key \in job[u].keys => job[q].key \in job'[u].keys
    BY <1>4, <1>5, <2>1
  <2> QED BY <1>3, <2>1, <2>2 DEF CacheInv, ReadInv
<1>11. SavedInv'
  <2> SUFFICES ASSUME NEW y \in Keys, \A q \in Procs : y \notin job'[q].keys
               PROVE  paid'[y] = Distribute(PaidIn(row', y))
    BY DEF SavedInv, Distribute, PaidIn
  <2>1. CASE y = x
    <3>1. \A q \in Procs \ {p} : x \notin job[q].keys
      BY <1>5, <2>1
    <3>2. seen[p] = PaidIn(row, x)
      BY <1>1, <1>6, <3>1, NoneIsNoKey DEF CacheInv, ReadInv
    <3>3. paid'[x] = Distribute(seen[p])
      BY <1>1, <1>3 DEF Numbers
    <3> QED BY <1>3, <2>1, <3>2, <3>3
  <2>2. CASE y # x
    <3>1. \A q \in Procs : y \notin job[q].keys
      BY <1>4, <1>5, <2>2
    <3>2. paid'[y] = paid[y]
      BY <1>3, <2>2 DEF Numbers
    <3> QED BY <1>3, <3>1, <3>2 DEF CacheInv, SavedInv
  <2> QED BY <2>1, <2>2
<1>12. BalanceFollowsCash'
  BY <1>3, <1>4, <1>5 DEF CacheInv, BalanceFollowsCash, BalanceOf
<1> QED BY <1>8, <1>9, <1>10, <1>11, <1>12 DEF CacheInv

LEMMA CacheRecalculate ==
  ASSUME Numbers, RowTypes, CacheInv, NEW p \in Procs, NEW a \in Accounts, Recalculate(p, a)
  PROVE  CacheInv'
<1> DEFINE j == [job[p] EXCEPT !.dirty = @ \ {a}]
           k == IF j.todo = {} /\ j.keys = {} /\ j.dirty = {} THEN NoJob ELSE j
<1>1. job[p] \in Jobs /\ job[p].at = "committed" /\ job[p].key = None
  BY DEF Recalculate, Committed, RowTypes, CacheInv, OrderInv, Orderly
<1>2. j.at = "committed" /\ j.key = None /\ j.keys = job[p].keys
      /\ j.dirty = job[p].dirty \ {a}
  BY <1>1 DEF Jobs
<1>3. job' = [job EXCEPT ![p] = k] /\ UNCHANGED <<row, paid, seen>>
      /\ balance' = [balance EXCEPT ![a] = BalanceIn(row, a)]
  BY DEF Recalculate, GoOn, BalanceOf
<1> HIDE DEF j
<1>4. Orderly(k) /\ k.key = None /\ k.keys = job[p].keys /\ k.dirty = job[p].dirty \ {a}
  BY <1>2 DEF Orderly, NoJob
<1> HIDE DEF k
<1>5. \A q \in Procs : IF q = p THEN job'[q] = k ELSE job'[q] = job[q]
  BY <1>3 DEF RowTypes
<1>6. OrderInv'
  BY <1>4, <1>5 DEF CacheInv, OrderInv
<1>7. LockInv' /\ ReadInv' /\ SavedInv'
  <2>1. \A q \in Procs : job'[q].key = job[q].key /\ job'[q].keys = job[q].keys
    BY <1>1, <1>4, <1>5
  <2> QED BY <1>3, <2>1 DEF CacheInv, LockInv, ReadInv, SavedInv
<1>8. BalanceFollowsCash'
  <2> SUFFICES ASSUME NEW b \in Accounts, \A q \in Procs : b \notin job'[q].dirty
               PROVE  balance'[b] = BalanceIn(row', b)
    BY DEF BalanceFollowsCash, BalanceOf
  <2>1. CASE b = a
    BY <1>3, <2>1 DEF Numbers
  <2>2. CASE b # a
    <3>1. \A q \in Procs : b \notin job[q].dirty
      BY <1>4, <1>5, <2>2
    <3>2. balance'[b] = balance[b]
      BY <1>3, <2>2 DEF Numbers
    <3> QED BY <1>3, <3>1, <3>2 DEF CacheInv, BalanceFollowsCash, BalanceOf
  <2> QED BY <2>1, <2>2
<1> QED BY <1>6, <1>7, <1>8 DEF CacheInv

LEMMA InitCaches == Init => CacheInv
<1> SUFFICES ASSUME Init PROVE CacheInv
  OBVIOUS
<1>1. OrderInv /\ LockInv /\ ReadInv
  BY DEF Init, OrderInv, Orderly, LockInv, ReadInv, NoJob
<1>2. \A t \in Txns : row[t].status # "completed"
  BY DEF Init, NoRow
<1>3. \A k : PaidIn(row, k) = 0
  <2> TAKE k
  <2>1. {t \in Txns : row[t].status = "completed" /\ row[t].payer = k} = {}
    BY <1>2
  <2> QED BY <2>1, SumOfNone DEF PaidIn
<1>4. \A a : BalanceIn(row, a) = 0
  <2> TAKE a
  <2>1. {t \in Txns : row[t].status = "completed" /\ row[t].account = a} = {}
    BY <1>2
  <2> QED BY <2>1, SumOfNone DEF BalanceIn
<1>5. SavedInv
  BY <1>3 DEF Init, SavedInv
<1>6. BalanceFollowsCash
  BY <1>4 DEF Init, BalanceFollowsCash, BalanceOf
<1> QED BY <1>1, <1>5, <1>6 DEF CacheInv

LEMMA StepCaches ==
  ASSUME Kept, IInv, Numbers, CacheInv, [Next]_vars
  PROVE  CacheInv'
<1>0. RowTypes
  BY DEF IInv
<1>1. CASE Next
  <2>1. PICK p \in Procs : StepOf(p)
    BY <1>1, StepCases
  <2>2. CASE \E t \in Txns : BeginCreate(p, t) \/ BeginStatus(p, t)
                             \/ BeginEdit(p, t) \/ BeginDelete(p, t)
    BY <1>0, <2>2, CacheBegin
  <2>3. CASE BeginPostAll(p)
    BY <1>0, <2>3, CacheBeginPostAll
  <2>4. CASE Refuse(p)
    BY <1>0, <2>4, CacheRefuse
  <2>5. CASE CommitCreate(p)
    BY <2>5, CacheCreate
  <2>6. CASE CommitReopen(p)
    BY <2>6, CacheReopen
  <2>7. CASE CommitComplete(p)
    BY <2>7, CacheComplete
  <2>8. CASE CommitEdit(p)
    BY <2>8, CacheEdit
  <2>9. CASE CommitDelete(p)
    BY <2>9, CacheDelete
  <2>10. CASE \E t \in Txns : PostNext(p, t)
    BY <2>10, CachePostNext
  <2>11. CASE CacheStep(p)
    BY <1>0, <2>11, CacheSkip, CacheLock, CacheSave, CacheRecalculate DEF CacheStep
  <2> QED BY <2>1, <2>2, <2>3, <2>4, <2>5, <2>6, <2>7, <2>8, <2>9, <2>10, <2>11 DEF StepOf
<1>2. CASE UNCHANGED vars
  BY <1>2 DEF vars, caches, CacheInv, OrderInv, LockInv, ReadInv, SavedInv,
              BalanceFollowsCash, BalanceOf
<1> QED BY <1>1, <1>2

\* Everything above together is inductive.
LEMMA CachesAlways ==
  ASSUME Serial, Kept
  PROVE  Spec => [](IInv /\ Numbers /\ CacheInv)
<1> DEFINE All == Typed /\ Numbers /\ IInv /\ CacheInv
<1>1. Init => All
  BY InitTyped, InitNumbers, InitInv, InitCaches
<1>2. All /\ [Next]_vars => All'
  BY StepTyped, StepNumbers, StepInv, StepCaches
<1>3. All => IInv /\ Numbers /\ CacheInv
  OBVIOUS
<1> HIDE DEF All
<1> QED BY <1>1, <1>2, <1>3, PTL DEF Spec

\* "Recalculate and persist bank account balance from completed cash
\* transactions": the stored balance of a bank account is the sum of its
\* completed transactions, in whatever order requests commit and refresh it,
\* unless one of them still has the account to recalculate
\* (recalculate_bank_account_current_balance).
THEOREM BalancesMatchCash == Serial /\ Kept => (Spec => []BalanceFollowsCash)
<1> SUFFICES ASSUME Serial, Kept PROVE Spec => []BalanceFollowsCash
  OBVIOUS
<1>1. Spec => [](IInv /\ Numbers /\ CacheInv)
  BY CachesAlways
<1>2. IInv /\ Numbers /\ CacheInv => BalanceFollowsCash
  BY DEF CacheInv
<1> QED BY <1>1, <1>2, PTL

-----------------------------------------------------------------------------
(* What the distribution over the bills shows                              *)

LEMMA PrefixStep ==
  ASSUME NEW i \in 1..Len(Nets)
  PROVE  SumOfNets(1..i) = Nets[i] + SumOfNets(1..(i - 1))
<1>1. i \in Nat \ {0} /\ \A j \in 1..i : Nets[j] \in Int
  BY NetsType
<1> QED BY <1>1, SumPrefix DEF SumOfNets

LEMMA PrefixGrows ==
  ASSUME NEW m \in 0..Len(Nets), NEW n \in 0..Len(Nets), m <= n
  PROVE  SumOfNets(1..m) <= SumOfNets(1..n)
<1>1. IsFiniteSet(1..n) /\ 1..m \subseteq 1..n
  BY NetsType, FS_Interval
<1>2. \A i \in 1..n : Nets[i] \in Nat
  BY NetsType
<1> DEFINE R == 1..m
           S == 1..n
<1>3. IsFiniteSet(S) /\ R \in SUBSET S /\ \A i \in S : Nets[i] \in Nat
  BY <1>1, <1>2
<1> HIDE DEF R, S
<1>4. SumFunctionOnSet(Nets, R) <= SumFunctionOnSet(Nets, S)
  BY <1>3, SumGrows
<1> QED BY <1>4 DEF SumOfNets, R, S

\* A bill gets what the older ones leave, and no more than its net.
LEMMA Share ==
  ASSUME NEW total \in Int, NEW i \in 1..Len(Nets)
  PROVE  LET left == total - SumOfNets(1..(i - 1))
         IN  /\ Distribute(total)[i] = IF left > 0 THEN Least(Nets[i], left) ELSE 0
             /\ Distribute(total)[i] \in 0..Nets[i]
             /\ left \in Int
<1> DEFINE left == total - SumOfNets(1..(i - 1))
<1>1. i - 1 \in 0..Len(Nets) /\ Nets[i] \in Nat /\ i \in DOMAIN Nets
  BY NetsType
<1>2. left \in Int
  BY <1>1, PrefixType
<1>3. Distribute(total)[i] = IF left > 0 THEN Least(Nets[i], left) ELSE 0
  BY <1>1 DEF Distribute
<1> HIDE DEF left
<1>4. Distribute(total)[i] \in 0..Nets[i]
  BY <1>1, <1>2, <1>3 DEF Least
<1> QED BY <1>2, <1>3, <1>4 DEF left

LEMMA OldestFirst ==
  ASSUME NEW total \in Int, NEW i \in 1..Len(Nets), NEW j \in 1..Len(Nets),
         i < j, Distribute(total)[j] > 0
  PROVE  Distribute(total)[i] = Nets[i]
<1> DEFINE A == SumOfNets(1..(i - 1))
           B == SumOfNets(1..i)
           C == SumOfNets(1..(j - 1))
<1>1. i - 1 \in 0..Len(Nets) /\ i \in 0..Len(Nets) /\ j - 1 \in 0..Len(Nets) /\ i <= j - 1
      /\ Nets[i] \in Nat
  BY NetsType
<1>2. A \in Nat /\ B \in Nat /\ C \in Nat
  BY <1>1, PrefixType
<1>3. B = Nets[i] + A /\ B <= C
  BY <1>1, PrefixStep, PrefixGrows
<1>4. total - C > 0
  <2>1. Distribute(total)[j] = IF total - C > 0 THEN Least(Nets[j], total - C) ELSE 0
    BY Share
  <2> QED BY <2>1
<1>5. Distribute(total)[i] = IF total - A > 0 THEN Least(Nets[i], total - A) ELSE 0
  BY Share
<1> HIDE DEF A, B, C
<1> QED BY <1>1, <1>2, <1>3, <1>4, <1>5 DEF Least

\* Together the bills get the total, from nothing up to their nets.
LEMMA SharesTotal ==
  ASSUME NEW total \in Int, NEW n \in 0..Len(Nets)
  PROVE  SumFunctionOnSet(Distribute(total), 1..n) =
           IF total < 0 THEN 0 ELSE Least(total, SumOfNets(1..n))
<1> DEFINE D == Distribute(total)
           Right(m) == SumFunctionOnSet(D, 1..m) =
                         IF total < 0 THEN 0 ELSE Least(total, SumOfNets(1..m))
           C == {m \in 0..Len(Nets) : ~Right(m)}
<1> SUFFICES ASSUME C # {} PROVE FALSE
  OBVIOUS
<1>1. C \in SUBSET Nat
  BY NetsType
<1> HIDE DEF C
<1>2. PICK m \in C : \A k \in C : m <= k
  BY <1>1, LeastNatural
<1>3. m \in 0..Len(Nets) /\ ~Right(m)
  BY <1>2 DEF C
<1>4. CASE m = 0
  <2>1. 1..m = {}
    BY <1>4
  <2>2. SumFunctionOnSet(D, 1..m) = 0 /\ SumOfNets(1..m) = 0
    BY <2>1, SumOfNone DEF SumOfNets
  <2> QED BY <1>3, <2>2 DEF Least
<1>5. CASE m # 0
  <2>1. m \in 1..Len(Nets) /\ m - 1 \in 0..Len(Nets) /\ m \in Nat \ {0} /\ Nets[m] \in Nat
    BY <1>3, <1>5, NetsType
  <2>2. Right(m - 1)
    BY <1>2, <2>1 DEF C
  <2> DEFINE P == SumOfNets(1..(m - 1))
             Q == SumOfNets(1..m)
             X == SumFunctionOnSet(D, 1..(m - 1))
             Y == SumFunctionOnSet(D, 1..m)
  <2>3. P \in Nat /\ Q = Nets[m] + P
    BY <2>1, PrefixType, PrefixStep
  <2>4. D[m] = IF total - P > 0 THEN Least(Nets[m], total - P) ELSE 0
    BY <2>1, Share
  <2>5. \A i \in 1..m : D[i] \in Int
    <3>1. D \in [1..Len(Nets) -> Nat]
      BY DistributeType, NetsType
    <3> HIDE DEF D
    <3> QED BY <2>1, <3>1
  <2>6. Y = D[m] + X
    BY <2>1, <2>5, SumPrefix
  <2>7. X = IF total < 0 THEN 0 ELSE Least(total, P)
    BY <2>2
  <2>8. ~(Y = IF total < 0 THEN 0 ELSE Least(total, Q))
    BY <1>3
  <2> HIDE DEF D, P, Q, X, Y
  <2> QED BY <2>1, <2>3, <2>4, <2>6, <2>7, <2>8 DEF Least
<1> QED BY <1>4, <1>5

LEMMA DistributeShows ==
  ASSUME RowTypes, NEW k \in Keys, paid[k] = Distribute(PaidBy(k))
  PROVE  Shows(k)
<1> DEFINE T == PaidBy(k)
<1>1. T \in Int
  BY PaidType
<1>2. DOMAIN Nets = 1..Len(Nets) /\ Len(Nets) \in 0..Len(Nets)
  BY NetsType
<1> HIDE DEF T
<1>3. SumFunctionOnSet(Distribute(T), 1..Len(Nets)) =
        IF T < 0 THEN 0 ELSE Least(T, SumOfNets(1..Len(Nets)))
  BY <1>1, <1>2, SharesTotal
<1>4. \A i \in 1..Len(Nets) : Distribute(T)[i] \in 0..Nets[i]
  BY <1>1, Share
<1>5. \A i, j \in 1..Len(Nets) :
        i < j /\ Distribute(T)[j] > 0 => Distribute(T)[i] = Nets[i]
  BY <1>1, OldestFirst
<1>6. paid[k] = Distribute(T) /\ PaidBy(k) = T
  BY DEF T
<1> QED BY <1>2, <1>3, <1>4, <1>5, <1>6 DEF Shows

\* refresh_student_bill_paid_amount, "in sync with the cash ledger": the
\* bills of a student show exactly what the student's completed transactions
\* pay, the oldest bill first and none beyond its net, in whatever order the
\* recomputations of several requests read and write them, unless one of them
\* is still to come (recompute_student_year_payments).
THEOREM BillsMatchCash == Serial /\ Kept => (Spec => []BillsFollowCash)
<1> SUFFICES ASSUME Serial, Kept PROVE Spec => []BillsFollowCash
  OBVIOUS
<1>1. Spec => [](IInv /\ Numbers /\ CacheInv)
  BY CachesAlways
<1>2. IInv /\ Numbers /\ CacheInv => BillsFollowCash
  BY DistributeShows, PaidInRow DEF IInv, CacheInv, SavedInv, BillsFollowCash
<1> QED BY <1>1, <1>2, PTL
=============================================================================
