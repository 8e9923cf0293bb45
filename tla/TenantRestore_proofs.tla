----------------------- MODULE TenantRestore_proofs -----------------------
(***************************************************************************)
(* Proofs about TenantRestore, for any number of requests and workers.     *)
(*                                                                         *)
(* Two results need nothing of the environment: type correctness, and that *)
(* only approved requests are restored.  The results about the data assume *)
(* Orderly: processes may die at any statement and backups may be lost,    *)
(* but every statement of a live process succeeds, no live worker is taken *)
(* for dead and requests do not overlap.  TLC finds counterexamples        *)
(* without each part of it.                                                *)
(***************************************************************************)
EXTENDS TenantRestore, TLAPS

(* A worker has a request exactly while it is busy, and so has the sweep in *)
(* the phases that handle one.                                             *)
WorkerInv ==
  /\ \A w \in Workers : req[w] = None <=> ~Busy(w)
  /\ already \subseteq {w \in Workers : Busy(w)}

SweepInv ==
  /\ sweep.row = None <=> sweep.phase \in {"idle", "next"}
  /\ sweep.phase = "idle" => sweep.todo = {}
  /\ sweep.row \notin sweep.todo

(* Only approved requests come near a schema.                              *)
ApprovedInv ==
  /\ OnlyApprovedRestored
  /\ \A r \in Requests :
       /\ request[r] \in {"approved", "execution_pending", "restoring"} => r \in approved
       /\ \A q \in Requests : rollback[r] = q => q \in approved

-----------------------------------------------------------------------------
(* The environment of the results about the data.                          *)
Orderly == Faults \subseteq {"crash", "cron_crash", "backup_lost"}

(* One request at a time: whoever works on a schema, a worker or the sweep, *)
(* does so for the only active request and does it alone.                  *)
AloneInv ==
  /\ views = {}
  /\ \A q, r \in Requests : Active(q) /\ Active(r) => q = r
  /\ \A w \in Workers : Busy(w) => request[req[w]] = "restoring"
  /\ \A w, v \in Workers : Busy(w) /\ Busy(v) => w = v
  /\ \A r \in sweep.todo \cup {sweep.row} : r # None =>
       /\ request[r] \in {"execution_pending", "restoring"}
       /\ \A w \in Workers : req[w] # r

(* A rollback schema exists only for the request that is being restored,   *)
(* behind its gate, and holds whole data; without one the live data is     *)
(* whole.                                                                  *)
DataInv ==
  /\ \A r \in Requests : rollback[r] # "missing" =>
       rollback[r] \in Whole /\ request[r] = "restoring" /\ gate = r
  /\ (\A r \in Requests : rollback[r] = "missing") => live \in Whole

(* What a worker may rely on in each place.                                *)
PlaceInv ==
  \A w \in Workers :
    /\ at[w] \notin {"undo2", "redo2", "unheld", "quitting"}
    /\ at[w] \in {"claimed", "prepared", "waiting", "holding", "dropped",
                  "unlocked", "undone", "failing"} => rollback[req[w]] = "missing"
    /\ at[w] \in {"moved", "loading", "loaded", "undo1", "redo1"} =>
         rollback[req[w]] # "missing"
    /\ at[w] \in {"moved", "redo1"} => live = "missing"
    /\ at[w] = "loading" => live = "partial"
    /\ at[w] \in {"loaded", "dropped", "unlocked"} => live = req[w]
    /\ at[w] \in {"waiting", "holding"} \/ (w \in already /\ at[w] = "claimed")
         \/ (w \in already /\ at[w] = "prepared") => gate = req[w]

(* And the recovery in each phase.                                         *)
PhaseInv ==
  /\ sweep.phase \in {"drop", "rename"} => rollback[sweep.row] # "missing"
  /\ sweep.phase \in {"release", "fail"} => rollback[sweep.row] = "missing"
  /\ sweep.phase = "rename" => live = "missing"

-----------------------------------------------------------------------------
(* The initial state has a type, an idle sweep and idle workers. *)
LEMMA BasicInit == Init => TypeOK /\ WorkerInv /\ SweepInv /\ ApprovedInv
<1> SUFFICES ASSUME Init PROVE TypeOK /\ WorkerInv /\ SweepInv /\ ApprovedInv
  OBVIOUS
<1>1. TypeOK
  BY DEF Init, TypeOK, RequestStatuses, SafetyStatuses, Content, Whole, Places,
         Sweep, Idle, SweepPhases
<1>2. WorkerInv /\ SweepInv
  BY NoneAssumption DEF Init, WorkerInv, SweepInv, Busy, Sweep, Idle
<1>3. ApprovedInv
  BY ContentAssumption DEF Init, ApprovedInv, OnlyApprovedRestored, Busy
<1> QED
  BY <1>1, <1>2, <1>3

(* Steps keep the types: the schema statements act on the request at hand. *)
LEMMA TypeStep == TypeOK /\ WorkerInv /\ SweepInv /\ [Next]_vars => TypeOK'
<1> SUFFICES ASSUME TypeOK, WorkerInv, SweepInv, [Next]_vars PROVE TypeOK'
  OBVIOUS
<1> USE NoneAssumption DEF TypeOK
<1>1. ASSUME NEW r \in Requests, RequestRestore(r) PROVE TypeOK'
  BY <1>1
     DEF RequestRestore, SaveStatus, WorkspaceOpen, Active, schemaVars, workerVars,
         ActiveRestores, RequestStatuses, Terminal, SafetyStatuses
<1>2. ASSUME NEW r \in Requests, Refresh(r) PROVE TypeOK'
  BY <1>2
     DEF Refresh, SaveStatus, peopleVars, schemaVars, workerVars, RequestStatuses,
         ActiveRestores, Terminal
<1>3. ASSUME NEW r \in Requests, LoadForRefresh(r) PROVE TypeOK'
  BY <1>3 DEF LoadForRefresh, peopleVars, schemaVars, workerVars
<1>4. ASSUME NEW r \in Requests, SaveLoaded(r) PROVE TypeOK'
  BY <1>4
     DEF SaveLoaded, SaveStatus, peopleVars, schemaVars, workerVars, RequestStatuses,
         ActiveRestores, Terminal
<1>5. ASSUME NEW r \in Requests, Approve(r) PROVE TypeOK'
  BY <1>5
     DEF Approve, SaveStatus, Prerequisites, schemaVars, workerVars, RequestStatuses,
         ActiveRestores, Terminal
<1>6. ASSUME NEW r \in Requests, Reject(r) PROVE TypeOK'
  BY <1>6
     DEF Reject, SaveStatus, peopleVars, schemaVars, workerVars, RequestStatuses,
         ActiveRestores, Terminal
<1>7. ASSUME NEW r \in Requests, Execute(r) PROVE TypeOK'
  BY <1>7
     DEF Execute, SaveStatus, WorkspaceOpen, Prerequisites, CloseGate, peopleVars,
         schemaVars, workerVars, RequestStatuses, ActiveRestores, Terminal
<1>8. ASSUME NEW r \in Requests, Retry(r) PROVE TypeOK'
  BY <1>8
     DEF Retry, SaveStatus, Active, Prerequisites, CloseGate, peopleVars, schemaVars,
         workerVars, ActiveRestores, RequestStatuses, Terminal
<1>9. ASSUME NEW r \in Requests, DeleteRestore(r) PROVE TypeOK'
  BY <1>9
     DEF DeleteRestore, SaveStatus, Terminal, peopleVars, schemaVars, workerVars,
         RequestStatuses, ActiveRestores
<1>10. ASSUME NEW r \in Requests, LoadForDelete(r) PROVE TypeOK'
  BY <1>10 DEF LoadForDelete, Terminal, peopleVars, schemaVars, workerVars
<1>11. ASSUME NEW r \in Requests, DeleteLoaded(r) PROVE TypeOK'
  BY <1>11
     DEF DeleteLoaded, SaveStatus, peopleVars, schemaVars, workerVars, RequestStatuses,
         ActiveRestores, Terminal
<1>12. ASSUME NEW r \in Requests, SafetyFinishes(r) PROVE TypeOK'
  BY <1>12 DEF SafetyFinishes, schemaVars, workerVars, SafetyStatuses
<1>13. ASSUME NEW r \in Requests, BackupLost(r) PROVE TypeOK'
  BY <1>13
     DEF BackupLost, Active, schemaVars, workerVars, ActiveRestores, SafetyStatuses
<1>14. ASSUME NEW r \in Requests, Inspect(r) PROVE TypeOK'
  BY <1>14 DEF Inspect, Sweep, At, peopleVars, schemaVars, workerVars, SweepPhases
<1>15. ASSUME NEW w \in Workers, NEW r \in Requests, Claim(w, r) PROVE TypeOK'
  BY <1>15
     DEF Claim, SaveStatus, peopleVars, schemaVars, RequestStatuses, ActiveRestores,
         Terminal, Places, Locked
<1>16. ASSUME NEW w \in Workers, Prepare(w) PROVE TypeOK'
  BY <1>16 DEF Prepare, Prerequisites, Go, Mine, peopleVars, schemaVars, Places, Locked
<1>17. ASSUME NEW w \in Workers, FailEarly(w) PROVE TypeOK'
  <2>1. /\ at' \in [Workers -> Places]
        /\ req' \in [Workers -> Requests \cup {None}]
        /\ already' \in SUBSET Workers
    BY <1>17 DEF FailEarly, Go, Places, Locked
  <2>2. request' \in [Requests -> RequestStatuses]
    BY <1>17 DEF FailEarly, SaveStatus, RequestStatuses, ActiveRestores, Terminal
  <2> QED
    BY <1>17, <2>1, <2>2 DEF FailEarly, peopleVars, schemaVars
<1>18. ASSUME NEW w \in Workers, LockTenant(w) PROVE TypeOK'
  BY <1>18 DEF LockTenant, CloseGate, Go, Mine, peopleVars, schemaVars, Places, Locked
<1>19. ASSUME NEW w \in Workers, AcquireLock(w) PROVE TypeOK'
  BY <1>19 DEF AcquireLock, Go, peopleVars, schemaVars, Locked, Places
<1>20. ASSUME NEW w \in Workers, AcquireLockRaises(w) PROVE TypeOK'
  BY <1>20 DEF AcquireLockRaises, Go, peopleVars, schemaVars, Places, Locked
<1>21. ASSUME NEW w \in Workers, RenameAway(w) PROVE TypeOK'
  BY <1>21
     DEF RenameAway, Go, Mine, RenamePossible, peopleVars, Places, Locked, Content,
         Whole
<1>22. ASSUME NEW w \in Workers, RenameAwayRaises(w) PROVE TypeOK'
  BY <1>22
     DEF RenameAwayRaises, Go, RenamePossible, peopleVars, schemaVars, Mine, Places,
         Locked
<1>23. ASSUME NEW w \in Workers, StartLoad(w) PROVE TypeOK'
  BY <1>23 DEF StartLoad, Go, peopleVars, Places, Locked, Content, Whole
<1>24. ASSUME NEW w \in Workers, FinishLoad(w) PROVE TypeOK'
  BY <1>24
     DEF FinishLoad, Go, Mine, peopleVars, Places, Locked, Content, Whole, WorkerInv,
         Busy
<1>25. ASSUME NEW w \in Workers, LoadFails(w) PROVE TypeOK'
  BY <1>25 DEF LoadFails, Go, peopleVars, schemaVars, Places, Locked
<1>26. ASSUME NEW w \in Workers, DropRollback(w) PROVE TypeOK'
  BY <1>26 DEF DropRollback, Go, Mine, peopleVars, Places, Locked, Content, Whole
<1>27. ASSUME NEW w \in Workers, UnlockTenant(w) PROVE TypeOK'
  BY <1>27 DEF UnlockTenant, Go, OpenGate, peopleVars, schemaVars, Places, Locked
<1>28. ASSUME NEW w \in Workers, Complete(w) PROVE TypeOK'
  BY <1>28
     DEF Complete, SaveStatus, Go, Mine, peopleVars, schemaVars, RequestStatuses,
         ActiveRestores, Terminal, Places, Locked
<1>29. ASSUME NEW w \in Workers, DropLive(w) PROVE TypeOK'
  BY <1>29 DEF DropLive, Go, peopleVars, Places, Locked, Content, Whole
<1>30. ASSUME NEW w \in Workers, RenameBack(w) PROVE TypeOK'
  BY <1>30
     DEF RenameBack, Go, Mine, CanReinstate, Reinstate, peopleVars, schemaVars, Places,
         Locked, Content, Whole, WorkerInv, Busy
<1>31. ASSUME NEW w \in Workers, UnlockAfterFailure(w) PROVE TypeOK'
  BY <1>31 DEF UnlockAfterFailure, Go, OpenGate, peopleVars, schemaVars, Places, Locked
<1>32. ASSUME NEW w \in Workers, FailRestore(w) PROVE TypeOK'
  <2>1. /\ at' \in [Workers -> Places]
        /\ req' \in [Workers -> Requests \cup {None}]
        /\ already' \in SUBSET Workers
    BY <1>32 DEF FailRestore, Go, Places, Locked
  <2>2. request' \in [Requests -> RequestStatuses]
    BY <1>32 DEF FailRestore, SaveStatus, RequestStatuses, ActiveRestores, Terminal
  <2> QED
    BY <1>32, <2>1, <2>2 DEF FailRestore, peopleVars, schemaVars
<1>33. ASSUME NEW w \in Workers, CrashWorker(w) PROVE TypeOK'
  BY <1>33 DEF CrashWorker, Go, Busy, peopleVars, schemaVars, Places, Locked
<1>34. ASSUME BeginRecovery PROVE TypeOK'
  BY <1>34
     DEF BeginRecovery, Stale, Sweep, peopleVars, schemaVars, workerVars, SweepPhases
<1>35. ASSUME RecoveryDrops PROVE TypeOK'
  BY <1>35
     DEF RecoveryDrops, At, GoTo, peopleVars, workerVars, SweepPhases, Content, Whole
<1>36. ASSUME RecoveryRenames PROVE TypeOK'
  BY <1>36
     DEF RecoveryRenames, CanReinstate, Reinstate, At, Row, GoTo, peopleVars,
         workerVars, SweepPhases, Content, Whole, SweepInv
<1>37. ASSUME RecoveryReleases PROVE TypeOK'
  BY <1>37
     DEF RecoveryReleases, OpenGate, At, GoTo, peopleVars, schemaVars, workerVars,
         SweepPhases
<1>38. ASSUME RecoveryFails PROVE TypeOK'
  BY <1>38
     DEF RecoveryFails, SaveStatus, At, Row, NextRow, peopleVars, schemaVars,
         workerVars, Sweep, Idle, RequestStatuses, ActiveRestores, Terminal, SweepPhases
<1>39. ASSUME RecoveryRaises PROVE TypeOK'
  BY <1>39
     DEF RecoveryRaises, SaveStatus, CanReinstate, At, Row, NextRow, peopleVars,
         schemaVars, workerVars, Whole, Sweep, Idle, RequestStatuses, ActiveRestores,
         Terminal, SweepPhases
<1>40. ASSUME CrashMaintenance PROVE TypeOK'
  BY <1>40
     DEF CrashMaintenance, Idle, At, peopleVars, schemaVars, workerVars, Sweep,
         SweepPhases
<1>41. ASSUME UNCHANGED vars PROVE TypeOK'
  BY <1>41 DEF vars
<1> QED
  BY <1>1, <1>2, <1>3, <1>4, <1>5, <1>6, <1>7, <1>8, <1>9, <1>10, <1>11, <1>12, <1>13,
     <1>14, <1>15, <1>16, <1>17, <1>18, <1>19, <1>20, <1>21, <1>22, <1>23, <1>24, <1>25,
     <1>26, <1>27, <1>28, <1>29, <1>30, <1>31, <1>32, <1>33, <1>34, <1>35, <1>36, <1>37,
     <1>38, <1>39, <1>40, <1>41
     DEF Next, PeopleStep, BackupStep, WorkerStep, RecoveryStep

(* Taking up and putting down a request. *)
LEMMA HandsStep ==
  TypeOK /\ WorkerInv /\ SweepInv /\ [Next]_vars => (WorkerInv /\ SweepInv)'
<1> SUFFICES ASSUME TypeOK, WorkerInv, SweepInv, [Next]_vars
             PROVE  (WorkerInv /\ SweepInv)'
  OBVIOUS
<1> USE NoneAssumption DEF TypeOK, WorkerInv, SweepInv, Busy
<1>1. ASSUME NEW r \in Requests, RequestRestore(r) PROVE (WorkerInv /\ SweepInv)'
  BY <1>1
     DEF RequestRestore, SaveStatus, WorkspaceOpen, Active, schemaVars, workerVars,
         ActiveRestores
<1>2. ASSUME NEW r \in Requests, Refresh(r) PROVE (WorkerInv /\ SweepInv)'
  BY <1>2 DEF Refresh, SaveStatus, peopleVars, schemaVars, workerVars
<1>3. ASSUME NEW r \in Requests, LoadForRefresh(r) PROVE (WorkerInv /\ SweepInv)'
  BY <1>3 DEF LoadForRefresh, peopleVars, schemaVars, workerVars
<1>4. ASSUME NEW r \in Requests, SaveLoaded(r) PROVE (WorkerInv /\ SweepInv)'
  BY <1>4 DEF SaveLoaded, SaveStatus, peopleVars, schemaVars, workerVars
<1>5. ASSUME NEW r \in Requests, Approve(r) PROVE (WorkerInv /\ SweepInv)'
  BY <1>5 DEF Approve, SaveStatus, Prerequisites, schemaVars, workerVars
<1>6. ASSUME NEW r \in Requests, Reject(r) PROVE (WorkerInv /\ SweepInv)'
  BY <1>6 DEF Reject, SaveStatus, peopleVars, schemaVars, workerVars
<1>7. ASSUME NEW r \in Requests, Execute(r) PROVE (WorkerInv /\ SweepInv)'
  BY <1>7
     DEF Execute, SaveStatus, WorkspaceOpen, Prerequisites, CloseGate, peopleVars,
         schemaVars, workerVars
<1>8. ASSUME NEW r \in Requests, Retry(r) PROVE (WorkerInv /\ SweepInv)'
  BY <1>8
     DEF Retry, SaveStatus, Active, Prerequisites, CloseGate, peopleVars, schemaVars,
         workerVars, ActiveRestores
<1>9. ASSUME NEW r \in Requests, DeleteRestore(r) PROVE (WorkerInv /\ SweepInv)'
  BY <1>9 DEF DeleteRestore, SaveStatus, Terminal, peopleVars, schemaVars, workerVars
<1>10. ASSUME NEW r \in Requests, LoadForDelete(r) PROVE (WorkerInv /\ SweepInv)'
  BY <1>10 DEF LoadForDelete, Terminal, peopleVars, schemaVars, workerVars
<1>11. ASSUME NEW r \in Requests, DeleteLoaded(r) PROVE (WorkerInv /\ SweepInv)'
  BY <1>11 DEF DeleteLoaded, SaveStatus, peopleVars, schemaVars, workerVars
<1>12. ASSUME NEW r \in Requests, SafetyFinishes(r) PROVE (WorkerInv /\ SweepInv)'
  BY <1>12 DEF SafetyFinishes, schemaVars, workerVars
<1>13. ASSUME NEW r \in Requests, BackupLost(r) PROVE (WorkerInv /\ SweepInv)'
  BY <1>13 DEF BackupLost, Active, schemaVars, workerVars, ActiveRestores
<1>14. ASSUME NEW r \in Requests, Inspect(r) PROVE (WorkerInv /\ SweepInv)'
  BY <1>14 DEF Inspect, Sweep, At, peopleVars, schemaVars, workerVars
<1>15. ASSUME NEW w \in Workers, NEW r \in Requests, Claim(w, r) PROVE (WorkerInv /\ SweepInv)'
  BY <1>15 DEF Claim, SaveStatus, peopleVars, schemaVars
<1>16. ASSUME NEW w \in Workers, Prepare(w) PROVE (WorkerInv /\ SweepInv)'
  BY <1>16 DEF Prepare, Prerequisites, Go, Mine, peopleVars, schemaVars
<1>17. ASSUME NEW w \in Workers, FailEarly(w) PROVE (WorkerInv /\ SweepInv)'
  BY <1>17 DEF FailEarly, SaveStatus, Go, Mine, peopleVars, schemaVars
<1>18. ASSUME NEW w \in Workers, LockTenant(w) PROVE (WorkerInv /\ SweepInv)'
  BY <1>18 DEF LockTenant, CloseGate, Go, Mine, peopleVars, schemaVars
<1>19. ASSUME NEW w \in Workers, AcquireLock(w) PROVE (WorkerInv /\ SweepInv)'
  BY <1>19 DEF AcquireLock, Go, peopleVars, schemaVars, Locked
<1>20. ASSUME NEW w \in Workers, AcquireLockRaises(w) PROVE (WorkerInv /\ SweepInv)'
  BY <1>20 DEF AcquireLockRaises, Go, peopleVars, schemaVars
<1>21. ASSUME NEW w \in Workers, RenameAway(w) PROVE (WorkerInv /\ SweepInv)'
  BY <1>21 DEF RenameAway, Go, Mine, RenamePossible, peopleVars
<1>22. ASSUME NEW w \in Workers, RenameAwayRaises(w) PROVE (WorkerInv /\ SweepInv)'
  BY <1>22 DEF RenameAwayRaises, Go, RenamePossible, peopleVars, schemaVars, Mine
<1>23. ASSUME NEW w \in Workers, StartLoad(w) PROVE (WorkerInv /\ SweepInv)'
  BY <1>23 DEF StartLoad, Go, peopleVars
<1>24. ASSUME NEW w \in Workers, FinishLoad(w) PROVE (WorkerInv /\ SweepInv)'
  BY <1>24 DEF FinishLoad, Go, Mine, peopleVars
<1>25. ASSUME NEW w \in Workers, LoadFails(w) PROVE (WorkerInv /\ SweepInv)'
  BY <1>25 DEF LoadFails, Go, peopleVars, schemaVars
<1>26. ASSUME NEW w \in Workers, DropRollback(w) PROVE (WorkerInv /\ SweepInv)'
  BY <1>26 DEF DropRollback, Go, Mine, peopleVars
<1>27. ASSUME NEW w \in Workers, UnlockTenant(w) PROVE (WorkerInv /\ SweepInv)'
  BY <1>27 DEF UnlockTenant, Go, OpenGate, peopleVars, schemaVars
<1>28. ASSUME NEW w \in Workers, Complete(w) PROVE (WorkerInv /\ SweepInv)'
  BY <1>28 DEF Complete, SaveStatus, Go, Mine, peopleVars, schemaVars
<1>29. ASSUME NEW w \in Workers, DropLive(w) PROVE (WorkerInv /\ SweepInv)'
  BY <1>29 DEF DropLive, Go, peopleVars
<1>30. ASSUME NEW w \in Workers, RenameBack(w) PROVE (WorkerInv /\ SweepInv)'
  BY <1>30 DEF RenameBack, Go, Mine, CanReinstate, Reinstate, peopleVars, schemaVars
<1>31. ASSUME NEW w \in Workers, UnlockAfterFailure(w) PROVE (WorkerInv /\ SweepInv)'
  BY <1>31 DEF UnlockAfterFailure, Go, OpenGate, peopleVars, schemaVars
<1>32. ASSUME NEW w \in Workers, FailRestore(w) PROVE (WorkerInv /\ SweepInv)'
  BY <1>32 DEF FailRestore, SaveStatus, Go, Mine, peopleVars, schemaVars
<1>33. ASSUME NEW w \in Workers, CrashWorker(w) PROVE (WorkerInv /\ SweepInv)'
  BY <1>33 DEF CrashWorker, Go, Busy, peopleVars, schemaVars
<1>34. ASSUME BeginRecovery PROVE (WorkerInv /\ SweepInv)'
  BY <1>34 DEF BeginRecovery, Stale, Sweep, peopleVars, schemaVars, workerVars
<1>35. ASSUME RecoveryDrops PROVE (WorkerInv /\ SweepInv)'
  BY <1>35 DEF RecoveryDrops, At, GoTo, peopleVars, workerVars
<1>36. ASSUME RecoveryRenames PROVE (WorkerInv /\ SweepInv)'
  BY <1>36
     DEF RecoveryRenames, CanReinstate, Reinstate, At, Row, GoTo, peopleVars, workerVars
<1>37. ASSUME RecoveryReleases PROVE (WorkerInv /\ SweepInv)'
  BY <1>37 DEF RecoveryReleases, OpenGate, At, GoTo, peopleVars, schemaVars, workerVars
<1>38. ASSUME RecoveryFails PROVE (WorkerInv /\ SweepInv)'
  BY <1>38
     DEF RecoveryFails, SaveStatus, At, Row, NextRow, peopleVars, schemaVars,
         workerVars, Sweep, Idle
<1>39. ASSUME RecoveryRaises PROVE (WorkerInv /\ SweepInv)'
  BY <1>39
     DEF RecoveryRaises, SaveStatus, CanReinstate, At, Row, NextRow, peopleVars,
         schemaVars, workerVars, Whole, Sweep, Idle
<1>40. ASSUME CrashMaintenance PROVE (WorkerInv /\ SweepInv)'
  BY <1>40 DEF CrashMaintenance, Idle, At, peopleVars, schemaVars, workerVars, Sweep
<1>41. ASSUME UNCHANGED vars PROVE (WorkerInv /\ SweepInv)'
  BY <1>41 DEF vars
<1> QED
  BY <1>1, <1>2, <1>3, <1>4, <1>5, <1>6, <1>7, <1>8, <1>9, <1>10, <1>11, <1>12, <1>13,
     <1>14, <1>15, <1>16, <1>17, <1>18, <1>19, <1>20, <1>21, <1>22, <1>23, <1>24, <1>25,
     <1>26, <1>27, <1>28, <1>29, <1>30, <1>31, <1>32, <1>33, <1>34, <1>35, <1>36, <1>37,
     <1>38, <1>39, <1>40, <1>41
     DEF Next, PeopleStep, BackupStep, WorkerStep, RecoveryStep

(* The archive of a request reaches a schema only through the worker that
   claimed it, and a claim needs the approval. *)
LEMMA ApprovedStep ==
  TypeOK /\ WorkerInv /\ SweepInv /\ ApprovedInv /\ [Next]_vars => ApprovedInv'
<1> SUFFICES ASSUME TypeOK, WorkerInv, SweepInv, ApprovedInv, [Next]_vars
             PROVE  ApprovedInv'
  OBVIOUS
<1> USE NoneAssumption, ContentAssumption
    DEF TypeOK, WorkerInv, SweepInv, ApprovedInv, OnlyApprovedRestored, Busy
<1>1. ASSUME NEW r \in Requests, RequestRestore(r) PROVE ApprovedInv'
  BY <1>1
     DEF RequestRestore, SaveStatus, WorkspaceOpen, Active, schemaVars, workerVars,
         ActiveRestores
<1>2. ASSUME NEW r \in Requests, Refresh(r) PROVE ApprovedInv'
  BY <1>2 DEF Refresh, SaveStatus, peopleVars, schemaVars, workerVars
<1>3. ASSUME NEW r \in Requests, LoadForRefresh(r) PROVE ApprovedInv'
  BY <1>3 DEF LoadForRefresh, peopleVars, schemaVars, workerVars
<1>4. ASSUME NEW r \in Requests, SaveLoaded(r) PROVE ApprovedInv'
  BY <1>4 DEF SaveLoaded, SaveStatus, peopleVars, schemaVars, workerVars
<1>5. ASSUME NEW r \in Requests, Approve(r) PROVE ApprovedInv'
  BY <1>5 DEF Approve, SaveStatus, Prerequisites, schemaVars, workerVars
<1>6. ASSUME NEW r \in Requests, Reject(r) PROVE ApprovedInv'
  BY <1>6 DEF Reject, SaveStatus, peopleVars, schemaVars, workerVars
<1>7. ASSUME NEW r \in Requests, Execute(r) PROVE ApprovedInv'
  BY <1>7
     DEF Execute, SaveStatus, WorkspaceOpen, Prerequisites, CloseGate, peopleVars,
         schemaVars, workerVars
<1>8. ASSUME NEW r \in Requests, Retry(r) PROVE ApprovedInv'
  BY <1>8
     DEF Retry, SaveStatus, Active, Prerequisites, CloseGate, peopleVars, schemaVars,
         workerVars, ActiveRestores
<1>9. ASSUME NEW r \in Requests, DeleteRestore(r) PROVE ApprovedInv'
  BY <1>9 DEF DeleteRestore, SaveStatus, Terminal, peopleVars, schemaVars, workerVars
<1>10. ASSUME NEW r \in Requests, LoadForDelete(r) PROVE ApprovedInv'
  BY <1>10 DEF LoadForDelete, Terminal, peopleVars, schemaVars, workerVars
<1>11. ASSUME NEW r \in Requests, DeleteLoaded(r) PROVE ApprovedInv'
  BY <1>11 DEF DeleteLoaded, SaveStatus, peopleVars, schemaVars, workerVars
<1>12. ASSUME NEW r \in Requests, SafetyFinishes(r) PROVE ApprovedInv'
  BY <1>12 DEF SafetyFinishes, schemaVars, workerVars
<1>13. ASSUME NEW r \in Requests, BackupLost(r) PROVE ApprovedInv'
  BY <1>13 DEF BackupLost, Active, schemaVars, workerVars, ActiveRestores
<1>14. ASSUME NEW r \in Requests, Inspect(r) PROVE ApprovedInv'
  BY <1>14 DEF Inspect, Sweep, At, peopleVars, schemaVars, workerVars
<1>15. ASSUME NEW w \in Workers, NEW r \in Requests, Claim(w, r) PROVE ApprovedInv'
  BY <1>15 DEF Claim, SaveStatus, peopleVars, schemaVars
<1>16. ASSUME NEW w \in Workers, Prepare(w) PROVE ApprovedInv'
  BY <1>16 DEF Prepare, Prerequisites, Go, Mine, peopleVars, schemaVars
<1>17. ASSUME NEW w \in Workers, FailEarly(w) PROVE ApprovedInv'
  BY <1>17 DEF FailEarly, SaveStatus, Go, Mine, peopleVars, schemaVars
<1>18. ASSUME NEW w \in Workers, LockTenant(w) PROVE ApprovedInv'
  BY <1>18 DEF LockTenant, CloseGate, Go, Mine, peopleVars, schemaVars
<1>19. ASSUME NEW w \in Workers, AcquireLock(w) PROVE ApprovedInv'
  BY <1>19 DEF AcquireLock, Go, peopleVars, schemaVars, Locked
<1>20. ASSUME NEW w \in Workers, AcquireLockRaises(w) PROVE ApprovedInv'
  BY <1>20 DEF AcquireLockRaises, Go, peopleVars, schemaVars
<1>21. ASSUME NEW w \in Workers, RenameAway(w) PROVE ApprovedInv'
  BY <1>21 DEF RenameAway, Go, Mine, RenamePossible, peopleVars
<1>22. ASSUME NEW w \in Workers, RenameAwayRaises(w) PROVE ApprovedInv'
  BY <1>22 DEF RenameAwayRaises, Go, RenamePossible, peopleVars, schemaVars, Mine
<1>23. ASSUME NEW w \in Workers, StartLoad(w) PROVE ApprovedInv'
  BY <1>23 DEF StartLoad, Go, peopleVars
<1>24. ASSUME NEW w \in Workers, FinishLoad(w) PROVE ApprovedInv'
  BY <1>24 DEF FinishLoad, Go, Mine, peopleVars
<1>25. ASSUME NEW w \in Workers, LoadFails(w) PROVE ApprovedInv'
  BY <1>25 DEF LoadFails, Go, peopleVars, schemaVars
<1>26. ASSUME NEW w \in Workers, DropRollback(w) PROVE ApprovedInv'
  BY <1>26 DEF DropRollback, Go, Mine, peopleVars
<1>27. ASSUME NEW w \in Workers, UnlockTenant(w) PROVE ApprovedInv'
  BY <1>27 DEF UnlockTenant, Go, OpenGate, peopleVars, schemaVars
<1>28. ASSUME NEW w \in Workers, Complete(w) PROVE ApprovedInv'
  BY <1>28 DEF Complete, SaveStatus, Go, Mine, peopleVars, schemaVars
<1>29. ASSUME NEW w \in Workers, DropLive(w) PROVE ApprovedInv'
  BY <1>29 DEF DropLive, Go, peopleVars
<1>30. ASSUME NEW w \in Workers, RenameBack(w) PROVE ApprovedInv'
  BY <1>30 DEF RenameBack, Go, Mine, CanReinstate, Reinstate, peopleVars, schemaVars
<1>31. ASSUME NEW w \in Workers, UnlockAfterFailure(w) PROVE ApprovedInv'
  BY <1>31 DEF UnlockAfterFailure, Go, OpenGate, peopleVars, schemaVars
<1>32. ASSUME NEW w \in Workers, FailRestore(w) PROVE ApprovedInv'
  BY <1>32 DEF FailRestore, SaveStatus, Go, Mine, peopleVars, schemaVars
<1>33. ASSUME NEW w \in Workers, CrashWorker(w) PROVE ApprovedInv'
  BY <1>33 DEF CrashWorker, Go, Busy, peopleVars, schemaVars
<1>34. ASSUME BeginRecovery PROVE ApprovedInv'
  BY <1>34 DEF BeginRecovery, Stale, Sweep, peopleVars, schemaVars, workerVars
<1>35. ASSUME RecoveryDrops PROVE ApprovedInv'
  BY <1>35 DEF RecoveryDrops, At, GoTo, peopleVars, workerVars
<1>36. ASSUME RecoveryRenames PROVE ApprovedInv'
  BY <1>36
     DEF RecoveryRenames, CanReinstate, Reinstate, At, Row, GoTo, peopleVars, workerVars
<1>37. ASSUME RecoveryReleases PROVE ApprovedInv'
  BY <1>37 DEF RecoveryReleases, OpenGate, At, GoTo, peopleVars, schemaVars, workerVars
<1>38. ASSUME RecoveryFails PROVE ApprovedInv'
  BY <1>38
     DEF RecoveryFails, SaveStatus, At, Row, NextRow, peopleVars, schemaVars,
         workerVars, Sweep, Idle
<1>39. ASSUME RecoveryRaises PROVE ApprovedInv'
  BY <1>39
     DEF RecoveryRaises, SaveStatus, CanReinstate, At, Row, NextRow, peopleVars,
         schemaVars, workerVars, Whole, Sweep, Idle
<1>40. ASSUME CrashMaintenance PROVE ApprovedInv'
  BY <1>40 DEF CrashMaintenance, Idle, At, peopleVars, schemaVars, workerVars, Sweep
<1>41. ASSUME UNCHANGED vars PROVE ApprovedInv'
  BY <1>41 DEF vars
<1> QED
  BY <1>1, <1>2, <1>3, <1>4, <1>5, <1>6, <1>7, <1>8, <1>9, <1>10, <1>11, <1>12, <1>13,
     <1>14, <1>15, <1>16, <1>17, <1>18, <1>19, <1>20, <1>21, <1>22, <1>23, <1>24, <1>25,
     <1>26, <1>27, <1>28, <1>29, <1>30, <1>31, <1>32, <1>33, <1>34, <1>35, <1>36, <1>37,
     <1>38, <1>39, <1>40, <1>41
     DEF Next, PeopleStep, BackupStep, WorkerStep, RecoveryStep

-----------------------------------------------------------------------------
(* Every variable keeps its type, under every fault. *)
THEOREM TypeCorrect == Spec => []TypeOK
<1> DEFINE Inv == TypeOK /\ WorkerInv /\ SweepInv
<1>1. Init => Inv
  BY BasicInit
<1>2. Inv /\ [Next]_vars => Inv'
  BY TypeStep, HandsStep
<1>3. Inv => TypeOK
  OBVIOUS
<1> HIDE DEF Inv
<1> QED
  BY <1>1, <1>2, <1>3, PTL DEF Spec

(* Whatever stale views, retries, recoveries and overlapping requests do to
   the rows: data that was restored, or is being restored, comes from a
   request that a platform administrator approved. *)
THEOREM ApprovedOnly == Spec => []OnlyApprovedRestored
<1> DEFINE Inv == TypeOK /\ WorkerInv /\ SweepInv /\ ApprovedInv
<1>1. Init => Inv
  BY BasicInit
<1>2. Inv /\ [Next]_vars => Inv'
  BY TypeStep, HandsStep, ApprovedStep
<1>3. Inv => OnlyApprovedRestored
  BY DEF ApprovedInv
<1> HIDE DEF Inv
<1> QED
  BY <1>1, <1>2, <1>3, PTL DEF Spec

-----------------------------------------------------------------------------
SafeInv == /\ TypeOK /\ WorkerInv /\ SweepInv
           /\ AloneInv /\ DataInv /\ PlaceInv /\ PhaseInv

(* Nothing has happened yet. *)
LEMMA SafeInit == Init => SafeInv
<1> SUFFICES ASSUME Init PROVE SafeInv
  OBVIOUS
<1>1. TypeOK /\ WorkerInv /\ SweepInv
  BY BasicInit
<1>2. AloneInv /\ DataInv /\ PlaceInv /\ PhaseInv
  BY NoneAssumption
     DEF Init, AloneInv, DataInv, PlaceInv, PhaseInv, Active, ActiveRestores, Busy,
         Whole, Sweep, Idle
<1> QED
  BY <1>1, <1>2 DEF SafeInv

(* Without overlap a request becomes active only when no other is; without
   "slow" the sweep and the workers never hold the same one. *)
LEMMA AloneStep == ASSUME Orderly PROVE SafeInv /\ [Next]_vars => AloneInv'
<1> SUFFICES ASSUME SafeInv, [Next]_vars PROVE AloneInv'
  OBVIOUS
<1> USE NoneAssumption
    DEF Orderly, SafeInv, TypeOK, WorkerInv, SweepInv, AloneInv, Busy, Active,
        ActiveRestores
<1>1. ASSUME NEW r \in Requests, RequestRestore(r) PROVE AloneInv'
  BY <1>1
     DEF RequestRestore, SaveStatus, WorkspaceOpen, Active, schemaVars, workerVars,
         ActiveRestores
<1>2. ASSUME NEW r \in Requests, Refresh(r) PROVE AloneInv'
  BY <1>2 DEF Refresh, SaveStatus, peopleVars, schemaVars, workerVars
<1>3. ASSUME NEW r \in Requests, LoadForRefresh(r) PROVE AloneInv'
  BY <1>3 DEF LoadForRefresh, peopleVars, schemaVars, workerVars
<1>4. ASSUME NEW r \in Requests, SaveLoaded(r) PROVE AloneInv'
  BY <1>4 DEF SaveLoaded, SaveStatus, peopleVars, schemaVars, workerVars
<1>5. ASSUME NEW r \in Requests, Approve(r) PROVE AloneInv'
  BY <1>5 DEF Approve, SaveStatus, Prerequisites, schemaVars, workerVars
<1>6. ASSUME NEW r \in Requests, Reject(r) PROVE AloneInv'
  BY <1>6 DEF Reject, SaveStatus, peopleVars, schemaVars, workerVars
<1>7. ASSUME NEW r \in Requests, Execute(r) PROVE AloneInv'
  BY <1>7
     DEF Execute, SaveStatus, WorkspaceOpen, Prerequisites, CloseGate, peopleVars,
         schemaVars, workerVars
<1>8. ASSUME NEW r \in Requests, Retry(r) PROVE AloneInv'
  BY <1>8
     DEF Retry, SaveStatus, Active, Prerequisites, CloseGate, peopleVars, schemaVars,
         workerVars, ActiveRestores
<1>9. ASSUME NEW r \in Requests, DeleteRestore(r) PROVE AloneInv'
  BY <1>9 DEF DeleteRestore, SaveStatus, Terminal, peopleVars, schemaVars, workerVars
<1>10. ASSUME NEW r \in Requests, LoadForDelete(r) PROVE AloneInv'
  BY <1>10 DEF LoadForDelete, Terminal, peopleVars, schemaVars, workerVars
<1>11. ASSUME NEW r \in Requests, DeleteLoaded(r) PROVE AloneInv'
  BY <1>11 DEF DeleteLoaded, SaveStatus, peopleVars, schemaVars, workerVars
<1>12. ASSUME NEW r \in Requests, SafetyFinishes(r) PROVE AloneInv'
  BY <1>12 DEF SafetyFinishes, schemaVars, workerVars
<1>13. ASSUME NEW r \in Requests, BackupLost(r) PROVE AloneInv'
  BY <1>13 DEF BackupLost, Active, schemaVars, workerVars, ActiveRestores
<1>14. ASSUME NEW r \in Requests, Inspect(r) PROVE AloneInv'
  BY <1>14 DEF Inspect, Sweep, At, peopleVars, schemaVars, workerVars
<1>15. ASSUME NEW w \in Workers, NEW r \in Requests, Claim(w, r) PROVE AloneInv'
  BY <1>15 DEF Claim, SaveStatus, peopleVars, schemaVars
<1>16. ASSUME NEW w \in Workers, Prepare(w) PROVE AloneInv'
  BY <1>16 DEF Prepare, Prerequisites, Go, Mine, peopleVars, schemaVars
<1>17. ASSUME NEW w \in Workers, FailEarly(w) PROVE AloneInv'
  BY <1>17 DEF FailEarly, SaveStatus, Go, Mine, peopleVars, schemaVars
<1>18. ASSUME NEW w \in Workers, LockTenant(w) PROVE AloneInv'
  BY <1>18 DEF LockTenant, CloseGate, Go, Mine, peopleVars, schemaVars
<1>19. ASSUME NEW w \in Workers, AcquireLock(w) PROVE AloneInv'
  BY <1>19 DEF AcquireLock, Go, peopleVars, schemaVars, Locked
<1>20. ASSUME NEW w \in Workers, AcquireLockRaises(w) PROVE AloneInv'
  BY <1>20 DEF AcquireLockRaises, Go, peopleVars, schemaVars
<1>21. ASSUME NEW w \in Workers, RenameAway(w) PROVE AloneInv'
  BY <1>21 DEF RenameAway, Go, Mine, RenamePossible, peopleVars
<1>22. ASSUME NEW w \in Workers, RenameAwayRaises(w) PROVE AloneInv'
  BY <1>22 DEF RenameAwayRaises, Go, RenamePossible, peopleVars, schemaVars, Mine
<1>23. ASSUME NEW w \in Workers, StartLoad(w) PROVE AloneInv'
  BY <1>23 DEF StartLoad, Go, peopleVars
<1>24. ASSUME NEW w \in Workers, FinishLoad(w) PROVE AloneInv'
  BY <1>24 DEF FinishLoad, Go, Mine, peopleVars
<1>25. ASSUME NEW w \in Workers, LoadFails(w) PROVE AloneInv'
  BY <1>25 DEF LoadFails, Go, peopleVars, schemaVars
<1>26. ASSUME NEW w \in Workers, DropRollback(w) PROVE AloneInv'
  BY <1>26 DEF DropRollback, Go, Mine, peopleVars
<1>27. ASSUME NEW w \in Workers, UnlockTenant(w) PROVE AloneInv'
  BY <1>27 DEF UnlockTenant, Go, OpenGate, peopleVars, schemaVars
<1>28. ASSUME NEW w \in Workers, Complete(w) PROVE AloneInv'
  BY <1>28 DEF Complete, SaveStatus, Go, Mine, peopleVars, schemaVars
<1>29. ASSUME NEW w \in Workers, DropLive(w) PROVE AloneInv'
  BY <1>29 DEF DropLive, Go, peopleVars
<1>30. ASSUME NEW w \in Workers, RenameBack(w) PROVE AloneInv'
  BY <1>30 DEF RenameBack, Go, Mine, CanReinstate, Reinstate, peopleVars, schemaVars
<1>31. ASSUME NEW w \in Workers, UnlockAfterFailure(w) PROVE AloneInv'
  BY <1>31 DEF UnlockAfterFailure, Go, OpenGate, peopleVars, schemaVars
<1>32. ASSUME NEW w \in Workers, FailRestore(w) PROVE AloneInv'
  BY <1>32 DEF FailRestore, SaveStatus, Go, Mine, peopleVars, schemaVars
<1>33. ASSUME NEW w \in Workers, CrashWorker(w) PROVE AloneInv'
  BY <1>33 DEF CrashWorker, Go, Busy, peopleVars, schemaVars
<1>34. ASSUME BeginRecovery PROVE AloneInv'
  BY <1>34 DEF BeginRecovery, Stale, Sweep, peopleVars, schemaVars, workerVars
<1>35. ASSUME RecoveryDrops PROVE AloneInv'
  BY <1>35 DEF RecoveryDrops, At, GoTo, peopleVars, workerVars
<1>36. ASSUME RecoveryRenames PROVE AloneInv'
  BY <1>36
     DEF RecoveryRenames, CanReinstate, Reinstate, At, Row, GoTo, peopleVars, workerVars
<1>37. ASSUME RecoveryReleases PROVE AloneInv'
  BY <1>37 DEF RecoveryReleases, OpenGate, At, GoTo, peopleVars, schemaVars, workerVars
<1>38. ASSUME RecoveryFails PROVE AloneInv'
  BY <1>38
     DEF RecoveryFails, SaveStatus, At, Row, NextRow, peopleVars, schemaVars,
         workerVars, Sweep, Idle
<1>39. ASSUME RecoveryRaises PROVE AloneInv'
  BY <1>39
     DEF RecoveryRaises, SaveStatus, CanReinstate, At, Row, NextRow, peopleVars,
         schemaVars, workerVars, Whole, Sweep, Idle
<1>40. ASSUME CrashMaintenance PROVE AloneInv'
  BY <1>40 DEF CrashMaintenance, Idle, At, peopleVars, schemaVars, workerVars, Sweep
<1>41. ASSUME UNCHANGED vars PROVE AloneInv'
  BY <1>41 DEF vars
<1> QED
  BY <1>1, <1>2, <1>3, <1>4, <1>5, <1>6, <1>7, <1>8, <1>9, <1>10, <1>11, <1>12, <1>13,
     <1>14, <1>15, <1>16, <1>17, <1>18, <1>19, <1>20, <1>21, <1>22, <1>23, <1>24, <1>25,
     <1>26, <1>27, <1>28, <1>29, <1>30, <1>31, <1>32, <1>33, <1>34, <1>35, <1>36, <1>37,
     <1>38, <1>39, <1>40, <1>41
     DEF Next, PeopleStep, BackupStep, WorkerStep, RecoveryStep

(* The rename, the load and the drop of a restore, and the two renames back,
   each leave one whole copy. *)
LEMMA DataStep == ASSUME Orderly PROVE SafeInv /\ [Next]_vars => DataInv'
<1> SUFFICES ASSUME SafeInv, [Next]_vars PROVE DataInv'
  OBVIOUS
<1> USE NoneAssumption, ContentAssumption
    DEF Orderly, SafeInv, TypeOK, WorkerInv, SweepInv, AloneInv, DataInv, PlaceInv,
        PhaseInv, Busy, Active, ActiveRestores, Whole
<1>1. ASSUME NEW r \in Requests, RequestRestore(r) PROVE DataInv'
  BY <1>1
     DEF RequestRestore, SaveStatus, WorkspaceOpen, Active, schemaVars, workerVars,
         ActiveRestores
<1>2. ASSUME NEW r \in Requests, Refresh(r) PROVE DataInv'
  BY <1>2 DEF Refresh, SaveStatus, peopleVars, schemaVars, workerVars
<1>3. ASSUME NEW r \in Requests, LoadForRefresh(r) PROVE DataInv'
  BY <1>3 DEF LoadForRefresh, peopleVars, schemaVars, workerVars
<1>4. ASSUME NEW r \in Requests, SaveLoaded(r) PROVE DataInv'
  BY <1>4 DEF SaveLoaded, SaveStatus, peopleVars, schemaVars, workerVars
<1>5. ASSUME NEW r \in Requests, Approve(r) PROVE DataInv'
  BY <1>5 DEF Approve, SaveStatus, Prerequisites, schemaVars, workerVars
<1>6. ASSUME NEW r \in Requests, Reject(r) PROVE DataInv'
  BY <1>6 DEF Reject, SaveStatus, peopleVars, schemaVars, workerVars
<1>7. ASSUME NEW r \in Requests, Execute(r) PROVE DataInv'
  BY <1>7
     DEF Execute, SaveStatus, WorkspaceOpen, Prerequisites, CloseGate, peopleVars,
         schemaVars, workerVars
<1>8. ASSUME NEW r \in Requests, Retry(r) PROVE DataInv'
  BY <1>8
     DEF Retry, SaveStatus, Active, Prerequisites, CloseGate, peopleVars, schemaVars,
         workerVars, ActiveRestores
<1>9. ASSUME NEW r \in Requests, DeleteRestore(r) PROVE DataInv'
  BY <1>9 DEF DeleteRestore, SaveStatus, Terminal, peopleVars, schemaVars, workerVars
<1>10. ASSUME NEW r \in Requests, LoadForDelete(r) PROVE DataInv'
  BY <1>10 DEF LoadForDelete, Terminal, peopleVars, schemaVars, workerVars
<1>11. ASSUME NEW r \in Requests, DeleteLoaded(r) PROVE DataInv'
  BY <1>11 DEF DeleteLoaded, SaveStatus, peopleVars, schemaVars, workerVars
<1>12. ASSUME NEW r \in Requests, SafetyFinishes(r) PROVE DataInv'
  BY <1>12 DEF SafetyFinishes, schemaVars, workerVars
<1>13. ASSUME NEW r \in Requests, BackupLost(r) PROVE DataInv'
  BY <1>13 DEF BackupLost, Active, schemaVars, workerVars, ActiveRestores
<1>14. ASSUME NEW r \in Requests, Inspect(r) PROVE DataInv'
  BY <1>14 DEF Inspect, Sweep, At, peopleVars, schemaVars, workerVars
<1>15. ASSUME NEW w \in Workers, NEW r \in Requests, Claim(w, r) PROVE DataInv'
  BY <1>15 DEF Claim, SaveStatus, peopleVars, schemaVars
<1>16. ASSUME NEW w \in Workers, Prepare(w) PROVE DataInv'
  BY <1>16 DEF Prepare, Prerequisites, Go, Mine, peopleVars, schemaVars
<1>17. ASSUME NEW w \in Workers, FailEarly(w) PROVE DataInv'
  BY <1>17 DEF FailEarly, SaveStatus, Go, Mine, peopleVars, schemaVars
<1>18. ASSUME NEW w \in Workers, LockTenant(w) PROVE DataInv'
  BY <1>18 DEF LockTenant, CloseGate, Go, Mine, peopleVars, schemaVars
<1>19. ASSUME NEW w \in Workers, AcquireLock(w) PROVE DataInv'
  BY <1>19 DEF AcquireLock, Go, peopleVars, schemaVars, Locked
<1>20. ASSUME NEW w \in Workers, AcquireLockRaises(w) PROVE DataInv'
  BY <1>20 DEF AcquireLockRaises, Go, peopleVars, schemaVars
<1>21. ASSUME NEW w \in Workers, RenameAway(w) PROVE DataInv'
  BY <1>21 DEF RenameAway, Go, Mine, RenamePossible, peopleVars
<1>22. ASSUME NEW w \in Workers, RenameAwayRaises(w) PROVE DataInv'
  BY <1>22 DEF RenameAwayRaises, Go, RenamePossible, peopleVars, schemaVars, Mine
<1>23. ASSUME NEW w \in Workers, StartLoad(w) PROVE DataInv'
  BY <1>23 DEF StartLoad, Go, peopleVars
<1>24. ASSUME NEW w \in Workers, FinishLoad(w) PROVE DataInv'
  BY <1>24 DEF FinishLoad, Go, Mine, peopleVars
<1>25. ASSUME NEW w \in Workers, LoadFails(w) PROVE DataInv'
  BY <1>25 DEF LoadFails, Go, peopleVars, schemaVars
<1>26. ASSUME NEW w \in Workers, DropRollback(w) PROVE DataInv'
  BY <1>26 DEF DropRollback, Go, Mine, peopleVars
<1>27. ASSUME NEW w \in Workers, UnlockTenant(w) PROVE DataInv'
  BY <1>27 DEF UnlockTenant, Go, OpenGate, peopleVars, schemaVars
<1>28. ASSUME NEW w \in Workers, Complete(w) PROVE DataInv'
  BY <1>28 DEF Complete, SaveStatus, Go, Mine, peopleVars, schemaVars
<1>29. ASSUME NEW w \in Workers, DropLive(w) PROVE DataInv'
  BY <1>29 DEF DropLive, Go, peopleVars
<1>30. ASSUME NEW w \in Workers, RenameBack(w) PROVE DataInv'
  BY <1>30 DEF RenameBack, Go, Mine, CanReinstate, Reinstate, peopleVars, schemaVars
<1>31. ASSUME NEW w \in Workers, UnlockAfterFailure(w) PROVE DataInv'
  BY <1>31 DEF UnlockAfterFailure, Go, OpenGate, peopleVars, schemaVars
<1>32. ASSUME NEW w \in Workers, FailRestore(w) PROVE DataInv'
  BY <1>32 DEF FailRestore, SaveStatus, Go, Mine, peopleVars, schemaVars
<1>33. ASSUME NEW w \in Workers, CrashWorker(w) PROVE DataInv'
  BY <1>33 DEF CrashWorker, Go, Busy, peopleVars, schemaVars
<1>34. ASSUME BeginRecovery PROVE DataInv'
  BY <1>34 DEF BeginRecovery, Stale, Sweep, peopleVars, schemaVars, workerVars
<1>35. ASSUME RecoveryDrops PROVE DataInv'
  BY <1>35 DEF RecoveryDrops, At, GoTo, peopleVars, workerVars
<1>36. ASSUME RecoveryRenames PROVE DataInv'
  BY <1>36
     DEF RecoveryRenames, CanReinstate, Reinstate, At, Row, GoTo, peopleVars, workerVars
<1>37. ASSUME RecoveryReleases PROVE DataInv'
  BY <1>37 DEF RecoveryReleases, OpenGate, At, GoTo, peopleVars, schemaVars, workerVars
<1>38. ASSUME RecoveryFails PROVE DataInv'
  BY <1>38
     DEF RecoveryFails, SaveStatus, At, Row, NextRow, peopleVars, schemaVars,
         workerVars, Sweep, Idle
<1>39. ASSUME RecoveryRaises PROVE DataInv'
  BY <1>39
     DEF RecoveryRaises, SaveStatus, CanReinstate, At, Row, NextRow, peopleVars,
         schemaVars, workerVars, Whole, Sweep, Idle
<1>40. ASSUME CrashMaintenance PROVE DataInv'
  BY <1>40 DEF CrashMaintenance, Idle, At, peopleVars, schemaVars, workerVars, Sweep
<1>41. ASSUME UNCHANGED vars PROVE DataInv'
  BY <1>41 DEF vars
<1> QED
  BY <1>1, <1>2, <1>3, <1>4, <1>5, <1>6, <1>7, <1>8, <1>9, <1>10, <1>11, <1>12, <1>13,
     <1>14, <1>15, <1>16, <1>17, <1>18, <1>19, <1>20, <1>21, <1>22, <1>23, <1>24, <1>25,
     <1>26, <1>27, <1>28, <1>29, <1>30, <1>31, <1>32, <1>33, <1>34, <1>35, <1>36, <1>37,
     <1>38, <1>39, <1>40, <1>41
     DEF Next, PeopleStep, BackupStep, WorkerStep, RecoveryStep

(* Nobody moves a schema under a busy worker. *)
LEMMA PlaceStep == ASSUME Orderly PROVE SafeInv /\ [Next]_vars => PlaceInv'
<1> SUFFICES ASSUME SafeInv, [Next]_vars PROVE PlaceInv'
  OBVIOUS
<1> USE NoneAssumption, ContentAssumption
    DEF Orderly, SafeInv, TypeOK, WorkerInv, SweepInv, AloneInv, DataInv, PlaceInv,
        Busy, Active, ActiveRestores, Whole
<1>1. ASSUME NEW r \in Requests, RequestRestore(r) PROVE PlaceInv'
  BY <1>1
     DEF RequestRestore, SaveStatus, WorkspaceOpen, Active, schemaVars, workerVars,
         ActiveRestores
<1>2. ASSUME NEW r \in Requests, Refresh(r) PROVE PlaceInv'
  BY <1>2 DEF Refresh, SaveStatus, peopleVars, schemaVars, workerVars
<1>3. ASSUME NEW r \in Requests, LoadForRefresh(r) PROVE PlaceInv'
  BY <1>3 DEF LoadForRefresh, peopleVars, schemaVars, workerVars
<1>4. ASSUME NEW r \in Requests, SaveLoaded(r) PROVE PlaceInv'
  BY <1>4 DEF SaveLoaded, SaveStatus, peopleVars, schemaVars, workerVars
<1>5. ASSUME NEW r \in Requests, Approve(r) PROVE PlaceInv'
  BY <1>5 DEF Approve, SaveStatus, Prerequisites, schemaVars, workerVars
<1>6. ASSUME NEW r \in Requests, Reject(r) PROVE PlaceInv'
  BY <1>6 DEF Reject, SaveStatus, peopleVars, schemaVars, workerVars
<1>7. ASSUME NEW r \in Requests, Execute(r) PROVE PlaceInv'
  BY <1>7
     DEF Execute, SaveStatus, WorkspaceOpen, Prerequisites, CloseGate, peopleVars,
         schemaVars, workerVars
<1>8. ASSUME NEW r \in Requests, Retry(r) PROVE PlaceInv'
  BY <1>8
     DEF Retry, SaveStatus, Active, Prerequisites, CloseGate, peopleVars, schemaVars,
         workerVars, ActiveRestores
<1>9. ASSUME NEW r \in Requests, DeleteRestore(r) PROVE PlaceInv'
  BY <1>9 DEF DeleteRestore, SaveStatus, Terminal, peopleVars, schemaVars, workerVars
<1>10. ASSUME NEW r \in Requests, LoadForDelete(r) PROVE PlaceInv'
  BY <1>10 DEF LoadForDelete, Terminal, peopleVars, schemaVars, workerVars
<1>11. ASSUME NEW r \in Requests, DeleteLoaded(r) PROVE PlaceInv'
  BY <1>11 DEF DeleteLoaded, SaveStatus, peopleVars, schemaVars, workerVars
<1>12. ASSUME NEW r \in Requests, SafetyFinishes(r) PROVE PlaceInv'
  BY <1>12 DEF SafetyFinishes, schemaVars, workerVars
<1>13. ASSUME NEW r \in Requests, BackupLost(r) PROVE PlaceInv'
  BY <1>13 DEF BackupLost, Active, schemaVars, workerVars, ActiveRestores
<1>14. ASSUME NEW r \in Requests, Inspect(r) PROVE PlaceInv'
  BY <1>14 DEF Inspect, Sweep, At, peopleVars, schemaVars, workerVars
<1>15. ASSUME NEW w \in Workers, NEW r \in Requests, Claim(w, r) PROVE PlaceInv'
  BY <1>15 DEF Claim, SaveStatus, peopleVars, schemaVars
<1>16. ASSUME NEW w \in Workers, Prepare(w) PROVE PlaceInv'
  BY <1>16 DEF Prepare, Prerequisites, Go, Mine, peopleVars, schemaVars
<1>17. ASSUME NEW w \in Workers, FailEarly(w) PROVE PlaceInv'
  BY <1>17 DEF FailEarly, SaveStatus, Go, Mine, peopleVars, schemaVars
<1>18. ASSUME NEW w \in Workers, LockTenant(w) PROVE PlaceInv'
  BY <1>18 DEF LockTenant, CloseGate, Go, Mine, peopleVars, schemaVars
<1>19. ASSUME NEW w \in Workers, AcquireLock(w) PROVE PlaceInv'
  BY <1>19 DEF AcquireLock, Go, peopleVars, schemaVars, Locked
<1>20. ASSUME NEW w \in Workers, AcquireLockRaises(w) PROVE PlaceInv'
  BY <1>20 DEF AcquireLockRaises, Go, peopleVars, schemaVars
<1>21. ASSUME NEW w \in Workers, RenameAway(w) PROVE PlaceInv'
  BY <1>21 DEF RenameAway, Go, Mine, RenamePossible, peopleVars
<1>22. ASSUME NEW w \in Workers, RenameAwayRaises(w) PROVE PlaceInv'
  BY <1>22 DEF RenameAwayRaises, Go, RenamePossible, peopleVars, schemaVars, Mine
<1>23. ASSUME NEW w \in Workers, StartLoad(w) PROVE PlaceInv'
  BY <1>23 DEF StartLoad, Go, peopleVars
<1>24. ASSUME NEW w \in Workers, FinishLoad(w) PROVE PlaceInv'
  BY <1>24 DEF FinishLoad, Go, Mine, peopleVars
<1>25. ASSUME NEW w \in Workers, LoadFails(w) PROVE PlaceInv'
  BY <1>25 DEF LoadFails, Go, peopleVars, schemaVars
<1>26. ASSUME NEW w \in Workers, DropRollback(w) PROVE PlaceInv'
  BY <1>26 DEF DropRollback, Go, Mine, peopleVars
<1>27. ASSUME NEW w \in Workers, UnlockTenant(w) PROVE PlaceInv'
  BY <1>27 DEF UnlockTenant, Go, OpenGate, peopleVars, schemaVars
<1>28. ASSUME NEW w \in Workers, Complete(w) PROVE PlaceInv'
  BY <1>28 DEF Complete, SaveStatus, Go, Mine, peopleVars, schemaVars
<1>29. ASSUME NEW w \in Workers, DropLive(w) PROVE PlaceInv'
  BY <1>29 DEF DropLive, Go, peopleVars
<1>30. ASSUME NEW w \in Workers, RenameBack(w) PROVE PlaceInv'
  BY <1>30 DEF RenameBack, Go, Mine, CanReinstate, Reinstate, peopleVars, schemaVars
<1>31. ASSUME NEW w \in Workers, UnlockAfterFailure(w) PROVE PlaceInv'
  BY <1>31 DEF UnlockAfterFailure, Go, OpenGate, peopleVars, schemaVars
<1>32. ASSUME NEW w \in Workers, FailRestore(w) PROVE PlaceInv'
  BY <1>32 DEF FailRestore, SaveStatus, Go, Mine, peopleVars, schemaVars
<1>33. ASSUME NEW w \in Workers, CrashWorker(w) PROVE PlaceInv'
  BY <1>33 DEF CrashWorker, Go, Busy, peopleVars, schemaVars
<1>34. ASSUME BeginRecovery PROVE PlaceInv'
  BY <1>34 DEF BeginRecovery, Stale, Sweep, peopleVars, schemaVars, workerVars
<1>35. ASSUME RecoveryDrops PROVE PlaceInv'
  BY <1>35 DEF RecoveryDrops, At, GoTo, peopleVars, workerVars
<1>36. ASSUME RecoveryRenames PROVE PlaceInv'
  BY <1>36
     DEF RecoveryRenames, CanReinstate, Reinstate, At, Row, GoTo, peopleVars, workerVars
<1>37. ASSUME RecoveryReleases PROVE PlaceInv'
  BY <1>37 DEF RecoveryReleases, OpenGate, At, GoTo, peopleVars, schemaVars, workerVars
<1>38. ASSUME RecoveryFails PROVE PlaceInv'
  BY <1>38
     DEF RecoveryFails, SaveStatus, At, Row, NextRow, peopleVars, schemaVars,
         workerVars, Sweep, Idle
<1>39. ASSUME RecoveryRaises PROVE PlaceInv'
  BY <1>39
     DEF RecoveryRaises, SaveStatus, CanReinstate, At, Row, NextRow, peopleVars,
         schemaVars, workerVars, Whole, Sweep, Idle
<1>40. ASSUME CrashMaintenance PROVE PlaceInv'
  BY <1>40 DEF CrashMaintenance, Idle, At, peopleVars, schemaVars, workerVars, Sweep
<1>41. ASSUME UNCHANGED vars PROVE PlaceInv'
  BY <1>41 DEF vars
<1> QED
  BY <1>1, <1>2, <1>3, <1>4, <1>5, <1>6, <1>7, <1>8, <1>9, <1>10, <1>11, <1>12, <1>13,
     <1>14, <1>15, <1>16, <1>17, <1>18, <1>19, <1>20, <1>21, <1>22, <1>23, <1>24, <1>25,
     <1>26, <1>27, <1>28, <1>29, <1>30, <1>31, <1>32, <1>33, <1>34, <1>35, <1>36, <1>37,
     <1>38, <1>39, <1>40, <1>41
     DEF Next, PeopleStep, BackupStep, WorkerStep, RecoveryStep

(* Nor under the recovery. *)
LEMMA PhaseStep == ASSUME Orderly PROVE SafeInv /\ [Next]_vars => PhaseInv'
<1> SUFFICES ASSUME SafeInv, [Next]_vars PROVE PhaseInv'
  OBVIOUS
<1> USE NoneAssumption, ContentAssumption
    DEF Orderly, SafeInv, TypeOK, WorkerInv, SweepInv, AloneInv, DataInv, PhaseInv,
        Busy, Active, ActiveRestores, Whole
<1>1. ASSUME NEW r \in Requests, RequestRestore(r) PROVE PhaseInv'
  BY <1>1
     DEF RequestRestore, SaveStatus, WorkspaceOpen, Active, schemaVars, workerVars,
         ActiveRestores
<1>2. ASSUME NEW r \in Requests, Refresh(r) PROVE PhaseInv'
  BY <1>2 DEF Refresh, SaveStatus, peopleVars, schemaVars, workerVars
<1>3. ASSUME NEW r \in Requests, LoadForRefresh(r) PROVE PhaseInv'
  BY <1>3 DEF LoadForRefresh, peopleVars, schemaVars, workerVars
<1>4. ASSUME NEW r \in Requests, SaveLoaded(r) PROVE PhaseInv'
  BY <1>4 DEF SaveLoaded, SaveStatus, peopleVars, schemaVars, workerVars
<1>5. ASSUME NEW r \in Requests, Approve(r) PROVE PhaseInv'
  BY <1>5 DEF Approve, SaveStatus, Prerequisites, schemaVars, workerVars
<1>6. ASSUME NEW r \in Requests, Reject(r) PROVE PhaseInv'
  BY <1>6 DEF Reject, SaveStatus, peopleVars, schemaVars, workerVars
<1>7. ASSUME NEW r \in Requests, Execute(r) PROVE PhaseInv'
  BY <1>7
     DEF Execute, SaveStatus, WorkspaceOpen, Prerequisites, CloseGate, peopleVars,
         schemaVars, workerVars
<1>8. ASSUME NEW r \in Requests, Retry(r) PROVE PhaseInv'
  BY <1>8
     DEF Retry, SaveStatus, Active, Prerequisites, CloseGate, peopleVars, schemaVars,
         workerVars, ActiveRestores
<1>9. ASSUME NEW r \in Requests, DeleteRestore(r) PROVE PhaseInv'
  BY <1>9 DEF DeleteRestore, SaveStatus, Terminal, peopleVars, schemaVars, workerVars
<1>10. ASSUME NEW r \in Requests, LoadForDelete(r) PROVE PhaseInv'
  BY <1>10 DEF LoadForDelete, Terminal, peopleVars, schemaVars, workerVars
<1>11. ASSUME NEW r \in Requests, DeleteLoaded(r) PROVE PhaseInv'
  BY <1>11 DEF DeleteLoaded, SaveStatus, peopleVars, schemaVars, workerVars
<1>12. ASSUME NEW r \in Requests, SafetyFinishes(r) PROVE PhaseInv'
  BY <1>12 DEF SafetyFinishes, schemaVars, workerVars
<1>13. ASSUME NEW r \in Requests, BackupLost(r) PROVE PhaseInv'
  BY <1>13 DEF BackupLost, Active, schemaVars, workerVars, ActiveRestores
<1>14. ASSUME NEW r \in Requests, Inspect(r) PROVE PhaseInv'
  BY <1>14 DEF Inspect, Sweep, At, peopleVars, schemaVars, workerVars
<1>15. ASSUME NEW w \in Workers, NEW r \in Requests, Claim(w, r) PROVE PhaseInv'
  BY <1>15 DEF Claim, SaveStatus, peopleVars, schemaVars
<1>16. ASSUME NEW w \in Workers, Prepare(w) PROVE PhaseInv'
  BY <1>16 DEF Prepare, Prerequisites, Go, Mine, peopleVars, schemaVars
<1>17. ASSUME NEW w \in Workers, FailEarly(w) PROVE PhaseInv'
  BY <1>17 DEF FailEarly, SaveStatus, Go, Mine, peopleVars, schemaVars
<1>18. ASSUME NEW w \in Workers, LockTenant(w) PROVE PhaseInv'
  BY <1>18 DEF LockTenant, CloseGate, Go, Mine, peopleVars, schemaVars
<1>19. ASSUME NEW w \in Workers, AcquireLock(w) PROVE PhaseInv'
  BY <1>19 DEF AcquireLock, Go, peopleVars, schemaVars, Locked
<1>20. ASSUME NEW w \in Workers, AcquireLockRaises(w) PROVE PhaseInv'
  BY <1>20 DEF AcquireLockRaises, Go, peopleVars, schemaVars
<1>21. ASSUME NEW w \in Workers, RenameAway(w) PROVE PhaseInv'
  BY <1>21 DEF RenameAway, Go, Mine, RenamePossible, peopleVars
<1>22. ASSUME NEW w \in Workers, RenameAwayRaises(w) PROVE PhaseInv'
  BY <1>22 DEF RenameAwayRaises, Go, RenamePossible, peopleVars, schemaVars, Mine
<1>23. ASSUME NEW w \in Workers, StartLoad(w) PROVE PhaseInv'
  BY <1>23 DEF StartLoad, Go, peopleVars
<1>24. ASSUME NEW w \in Workers, FinishLoad(w) PROVE PhaseInv'
  BY <1>24 DEF FinishLoad, Go, Mine, peopleVars
<1>25. ASSUME NEW w \in Workers, LoadFails(w) PROVE PhaseInv'
  BY <1>25 DEF LoadFails, Go, peopleVars, schemaVars
<1>26. ASSUME NEW w \in Workers, DropRollback(w) PROVE PhaseInv'
  BY <1>26 DEF DropRollback, Go, Mine, peopleVars
<1>27. ASSUME NEW w \in Workers, UnlockTenant(w) PROVE PhaseInv'
  BY <1>27 DEF UnlockTenant, Go, OpenGate, peopleVars, schemaVars
<1>28. ASSUME NEW w \in Workers, Complete(w) PROVE PhaseInv'
  BY <1>28 DEF Complete, SaveStatus, Go, Mine, peopleVars, schemaVars
<1>29. ASSUME NEW w \in Workers, DropLive(w) PROVE PhaseInv'
  BY <1>29 DEF DropLive, Go, peopleVars
<1>30. ASSUME NEW w \in Workers, RenameBack(w) PROVE PhaseInv'
  BY <1>30 DEF RenameBack, Go, Mine, CanReinstate, Reinstate, peopleVars, schemaVars
<1>31. ASSUME NEW w \in Workers, UnlockAfterFailure(w) PROVE PhaseInv'
  BY <1>31 DEF UnlockAfterFailure, Go, OpenGate, peopleVars, schemaVars
<1>32. ASSUME NEW w \in Workers, FailRestore(w) PROVE PhaseInv'
  BY <1>32 DEF FailRestore, SaveStatus, Go, Mine, peopleVars, schemaVars
<1>33. ASSUME NEW w \in Workers, CrashWorker(w) PROVE PhaseInv'
  BY <1>33 DEF CrashWorker, Go, Busy, peopleVars, schemaVars
<1>34. ASSUME BeginRecovery PROVE PhaseInv'
  BY <1>34 DEF BeginRecovery, Stale, Sweep, peopleVars, schemaVars, workerVars
<1>35. ASSUME RecoveryDrops PROVE PhaseInv'
  BY <1>35 DEF RecoveryDrops, At, GoTo, peopleVars, workerVars
<1>36. ASSUME RecoveryRenames PROVE PhaseInv'
  BY <1>36
     DEF RecoveryRenames, CanReinstate, Reinstate, At, Row, GoTo, peopleVars, workerVars
<1>37. ASSUME RecoveryReleases PROVE PhaseInv'
  BY <1>37 DEF RecoveryReleases, OpenGate, At, GoTo, peopleVars, schemaVars, workerVars
<1>38. ASSUME RecoveryFails PROVE PhaseInv'
  BY <1>38
     DEF RecoveryFails, SaveStatus, At, Row, NextRow, peopleVars, schemaVars,
         workerVars, Sweep, Idle
<1>39. ASSUME RecoveryRaises PROVE PhaseInv'
  BY <1>39
     DEF RecoveryRaises, SaveStatus, CanReinstate, At, Row, NextRow, peopleVars,
         schemaVars, workerVars, Whole, Sweep, Idle
<1>40. ASSUME CrashMaintenance PROVE PhaseInv'
  BY <1>40 DEF CrashMaintenance, Idle, At, peopleVars, schemaVars, workerVars, Sweep
<1>41. ASSUME UNCHANGED vars PROVE PhaseInv'
  BY <1>41 DEF vars
<1> QED
  BY <1>1, <1>2, <1>3, <1>4, <1>5, <1>6, <1>7, <1>8, <1>9, <1>10, <1>11, <1>12, <1>13,
     <1>14, <1>15, <1>16, <1>17, <1>18, <1>19, <1>20, <1>21, <1>22, <1>23, <1>24, <1>25,
     <1>26, <1>27, <1>28, <1>29, <1>30, <1>31, <1>32, <1>33, <1>34, <1>35, <1>36, <1>37,
     <1>38, <1>39, <1>40, <1>41
     DEF Next, PeopleStep, BackupStep, WorkerStep, RecoveryStep

(* The parts together. *)
LEMMA SafeCorrect == ASSUME Orderly PROVE Spec => []SafeInv
<1>1. SafeInv /\ [Next]_vars => SafeInv'
  BY TypeStep, HandsStep, AloneStep, DataStep, PlaceStep, PhaseStep DEF SafeInv
<1> QED
  BY <1>1, SafeInit, PTL DEF Spec

(* Between any two statements of a restore that succeeds, fails or dies, in
   any worker, and of the recovery that follows, some schema holds a whole
   copy of the tenant's data. *)
THEOREM DataIsNeverLost == ASSUME Orderly PROVE Spec => []DataSurvives
<1>1. SafeInv => DataSurvives
  BY DEF SafeInv, DataInv, DataSurvives
<1> QED
  BY <1>1, SafeCorrect, PTL

(* While the gate is open, the live schema is whole: run_restore closes it
   before the first rename and opens it after the last, and so does the
   recovery. *)
THEOREM OpenMeansWhole == ASSUME Orderly PROVE Spec => []UsersSeeWholeData
<1>1. SafeInv => UsersSeeWholeData
  BY NoneAssumption DEF SafeInv, DataInv, UsersSeeWholeData, WorkspaceOpen
<1> QED
  BY <1>1, SafeCorrect, PTL

(* Only a worker that loaded the archive completes the request. *)
LEMMA CompletedStep ==
  ASSUME Orderly
  PROVE  SafeInv /\ [Next]_vars =>
           \A q \in Requests :
             request[q] # "completed" /\ request'[q] = "completed" => live = q
<1> DEFINE Goal == \A q \in Requests :
             request[q] # "completed" /\ request'[q] = "completed" => live = q
<1> SUFFICES ASSUME SafeInv, [Next]_vars PROVE Goal
  OBVIOUS
<1> USE NoneAssumption
    DEF Orderly, SafeInv, TypeOK, WorkerInv, SweepInv, AloneInv, PlaceInv, Busy
<1>1. ASSUME NEW r \in Requests, RequestRestore(r) PROVE Goal
  BY <1>1
     DEF RequestRestore, SaveStatus, WorkspaceOpen, Active, schemaVars, workerVars,
         ActiveRestores
<1>2. ASSUME NEW r \in Requests, Refresh(r) PROVE Goal
  BY <1>2 DEF Refresh, SaveStatus, peopleVars, schemaVars, workerVars
<1>3. ASSUME NEW r \in Requests, LoadForRefresh(r) PROVE Goal
  BY <1>3 DEF LoadForRefresh, peopleVars, schemaVars, workerVars
<1>4. ASSUME NEW r \in Requests, SaveLoaded(r) PROVE Goal
  BY <1>4 DEF SaveLoaded, SaveStatus, peopleVars, schemaVars, workerVars
<1>5. ASSUME NEW r \in Requests, Approve(r) PROVE Goal
  BY <1>5 DEF Approve, SaveStatus, Prerequisites, schemaVars, workerVars
<1>6. ASSUME NEW r \in Requests, Reject(r) PROVE Goal
  BY <1>6 DEF Reject, SaveStatus, peopleVars, schemaVars, workerVars
<1>7. ASSUME NEW r \in Requests, Execute(r) PROVE Goal
  BY <1>7
     DEF Execute, SaveStatus, WorkspaceOpen, Prerequisites, CloseGate, peopleVars,
         schemaVars, workerVars
<1>8. ASSUME NEW r \in Requests, Retry(r) PROVE Goal
  BY <1>8
     DEF Retry, SaveStatus, Active, Prerequisites, CloseGate, peopleVars, schemaVars,
         workerVars, ActiveRestores
<1>9. ASSUME NEW r \in Requests, DeleteRestore(r) PROVE Goal
  BY <1>9 DEF DeleteRestore, SaveStatus, Terminal, peopleVars, schemaVars, workerVars
<1>10. ASSUME NEW r \in Requests, LoadForDelete(r) PROVE Goal
  BY <1>10 DEF LoadForDelete, Terminal, peopleVars, schemaVars, workerVars
<1>11. ASSUME NEW r \in Requests, DeleteLoaded(r) PROVE Goal
  BY <1>11 DEF DeleteLoaded, SaveStatus, peopleVars, schemaVars, workerVars
<1>12. ASSUME NEW r \in Requests, SafetyFinishes(r) PROVE Goal
  BY <1>12 DEF SafetyFinishes, schemaVars, workerVars
<1>13. ASSUME NEW r \in Requests, BackupLost(r) PROVE Goal
  BY <1>13 DEF BackupLost, Active, schemaVars, workerVars, ActiveRestores
<1>14. ASSUME NEW r \in Requests, Inspect(r) PROVE Goal
  BY <1>14 DEF Inspect, Sweep, At, peopleVars, schemaVars, workerVars
<1>15. ASSUME NEW w \in Workers, NEW r \in Requests, Claim(w, r) PROVE Goal
  BY <1>15 DEF Claim, SaveStatus, peopleVars, schemaVars
<1>16. ASSUME NEW w \in Workers, Prepare(w) PROVE Goal
  BY <1>16 DEF Prepare, Prerequisites, Go, Mine, peopleVars, schemaVars
<1>17. ASSUME NEW w \in Workers, FailEarly(w) PROVE Goal
  BY <1>17 DEF FailEarly, SaveStatus, Go, Mine, peopleVars, schemaVars
<1>18. ASSUME NEW w \in Workers, LockTenant(w) PROVE Goal
  BY <1>18 DEF LockTenant, CloseGate, Go, Mine, peopleVars, schemaVars
<1>19. ASSUME NEW w \in Workers, AcquireLock(w) PROVE Goal
  BY <1>19 DEF AcquireLock, Go, peopleVars, schemaVars, Locked
<1>20. ASSUME NEW w \in Workers, AcquireLockRaises(w) PROVE Goal
  BY <1>20 DEF AcquireLockRaises, Go, peopleVars, schemaVars
<1>21. ASSUME NEW w \in Workers, RenameAway(w) PROVE Goal
  BY <1>21 DEF RenameAway, Go, Mine, RenamePossible, peopleVars
<1>22. ASSUME NEW w \in Workers, RenameAwayRaises(w) PROVE Goal
  BY <1>22 DEF RenameAwayRaises, Go, RenamePossible, peopleVars, schemaVars, Mine
<1>23. ASSUME NEW w \in Workers, StartLoad(w) PROVE Goal
  BY <1>23 DEF StartLoad, Go, peopleVars
<1>24. ASSUME NEW w \in Workers, FinishLoad(w) PROVE Goal
  BY <1>24 DEF FinishLoad, Go, Mine, peopleVars
<1>25. ASSUME NEW w \in Workers, LoadFails(w) PROVE Goal
  BY <1>25 DEF LoadFails, Go, peopleVars, schemaVars
<1>26. ASSUME NEW w \in Workers, DropRollback(w) PROVE Goal
  BY <1>26 DEF DropRollback, Go, Mine, peopleVars
<1>27. ASSUME NEW w \in Workers, UnlockTenant(w) PROVE Goal
  BY <1>27 DEF UnlockTenant, Go, OpenGate, peopleVars, schemaVars
<1>28. ASSUME NEW w \in Workers, Complete(w) PROVE Goal
  BY <1>28 DEF Complete, SaveStatus, Go, Mine, peopleVars, schemaVars
<1>29. ASSUME NEW w \in Workers, DropLive(w) PROVE Goal
  BY <1>29 DEF DropLive, Go, peopleVars
<1>30. ASSUME NEW w \in Workers, RenameBack(w) PROVE Goal
  BY <1>30 DEF RenameBack, Go, Mine, CanReinstate, Reinstate, peopleVars, schemaVars
<1>31. ASSUME NEW w \in Workers, UnlockAfterFailure(w) PROVE Goal
  BY <1>31 DEF UnlockAfterFailure, Go, OpenGate, peopleVars, schemaVars
<1>32. ASSUME NEW w \in Workers, FailRestore(w) PROVE Goal
  BY <1>32 DEF FailRestore, SaveStatus, Go, Mine, peopleVars, schemaVars
<1>33. ASSUME NEW w \in Workers, CrashWorker(w) PROVE Goal
  BY <1>33 DEF CrashWorker, Go, Busy, peopleVars, schemaVars
<1>34. ASSUME BeginRecovery PROVE Goal
  BY <1>34 DEF BeginRecovery, Stale, Sweep, peopleVars, schemaVars, workerVars
<1>35. ASSUME RecoveryDrops PROVE Goal
  BY <1>35 DEF RecoveryDrops, At, GoTo, peopleVars, workerVars
<1>36. ASSUME RecoveryRenames PROVE Goal
  BY <1>36
     DEF RecoveryRenames, CanReinstate, Reinstate, At, Row, GoTo, peopleVars, workerVars
<1>37. ASSUME RecoveryReleases PROVE Goal
  BY <1>37 DEF RecoveryReleases, OpenGate, At, GoTo, peopleVars, schemaVars, workerVars
<1>38. ASSUME RecoveryFails PROVE Goal
  BY <1>38
     DEF RecoveryFails, SaveStatus, At, Row, NextRow, peopleVars, schemaVars,
         workerVars, Sweep, Idle
<1>39. ASSUME RecoveryRaises PROVE Goal
  BY <1>39
     DEF RecoveryRaises, SaveStatus, CanReinstate, At, Row, NextRow, peopleVars,
         schemaVars, workerVars, Whole, Sweep, Idle
<1>40. ASSUME CrashMaintenance PROVE Goal
  BY <1>40 DEF CrashMaintenance, Idle, At, peopleVars, schemaVars, workerVars, Sweep
<1>41. ASSUME UNCHANGED vars PROVE Goal
  BY <1>41 DEF vars
<1> QED
  BY <1>1, <1>2, <1>3, <1>4, <1>5, <1>6, <1>7, <1>8, <1>9, <1>10, <1>11, <1>12, <1>13,
     <1>14, <1>15, <1>16, <1>17, <1>18, <1>19, <1>20, <1>21, <1>22, <1>23, <1>24, <1>25,
     <1>26, <1>27, <1>28, <1>29, <1>30, <1>31, <1>32, <1>33, <1>34, <1>35, <1>36, <1>37,
     <1>38, <1>39, <1>40, <1>41
     DEF Next, PeopleStep, BackupStep, WorkerStep, RecoveryStep

(* A restore is reported COMPLETED only when its archive is live. *)
THEOREM CompletedMeansLive == ASSUME Orderly PROVE Spec => CompletedIsLive
<1>1. SafeInv /\ [Next]_vars =>
        [\A r \in Requests :
           request[r] # "completed" /\ request'[r] = "completed" => live = r]_vars
  BY CompletedStep
<1> QED
  BY <1>1, SafeCorrect, PTL DEF Spec, CompletedIsLive
=============================================================================
