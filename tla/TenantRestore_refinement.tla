--------------------- MODULE TenantRestore_refinement ---------------------
(***************************************************************************)
(* The restore implements RestoredWorkspace, for any number of requests    *)
(* and workers, in the orderly environment of TenantRestore_proofs: the    *)
(* tenant's data is replaced in one step although workers and maintenance  *)
(* may die between any two statements.                                     *)
(***************************************************************************)
EXTENDS TenantRestore_proofs

(* What the workspace holds: the one rollback schema, or what is live.     *)
StoredInv ==
  /\ \A r \in Requests : rollback[r] # "missing" => Stored = rollback[r]
  /\ (\A r \in Requests : rollback[r] = "missing") => Stored = live

(* There is at most one rollback schema, that of the active request.       *)
LEMMA StoredIs == SafeInv => StoredInv
<1> SUFFICES ASSUME SafeInv PROVE StoredInv
  OBVIOUS
<1>1. ASSUME NEW r \in Requests, rollback[r] # "missing"
      PROVE  Stored = rollback[r]
  <2>1. \A q \in Requests : rollback[q] # "missing" => q = r
    BY <1>1 DEF SafeInv, AloneInv, DataInv, Active, ActiveRestores
  <2>2. Kept = {rollback[r]}
    BY <1>1, <2>1 DEF Kept
  <2> QED
    BY <2>2 DEF Stored
<1>2. ASSUME \A r \in Requests : rollback[r] = "missing"
      PROVE  Stored = live
  <2>1. Kept = {}
    BY <1>2 DEF Kept
  <2> QED
    BY <2>1 DEF Stored
<1> QED
  BY <1>1, <1>2 DEF StoredInv

(* The same after a step.                                                  *)
LEMMA StoredIsNext == SafeInv' => StoredInv'
  BY StoredIs, PTL

(* The mapping takes the initial state to the abstract one.                *)
LEMMA WorkspaceInit == Init => Workspace!Init
<1> SUFFICES ASSUME Init PROVE Workspace!Init
  OBVIOUS
<1>1. Kept = {}
  BY DEF Init, Kept
<1> QED
  BY <1>1 DEF Init, Workspace!Init, Stored, Seen, WorkspaceOpen

(* Every step of the restore is a step of the abstract workspace or none:  *)
(* Close, Open, Approve and Replace are taken where the code closes and    *)
(* opens the gate, approves, and drops the rollback schema.                *)
LEMMA WorkspaceStep ==
  ASSUME Orderly
  PROVE  SafeInv /\ SafeInv' /\ OnlyApprovedRestored /\ [Next]_vars =>
           [Workspace!Next]_<<Stored, Seen, approved>>
<1> DEFINE Goal == [Workspace!Next]_<<Stored, Seen, approved>>
<1> SUFFICES ASSUME SafeInv, SafeInv', OnlyApprovedRestored, [Next]_vars PROVE Goal
  OBVIOUS
<1>a. StoredInv /\ StoredInv'
  BY StoredIs, StoredIsNext
<1> USE NoneAssumption
    DEF Orderly, SafeInv, TypeOK, WorkerInv, SweepInv, AloneInv, DataInv, PlaceInv, Busy
<1>b. ASSUME UNCHANGED <<live, rollback, gate, approved>> PROVE Goal
  BY <1>b DEF Stored, Kept, Seen, WorkspaceOpen
<1>c. ASSUME UNCHANGED <<live, rollback, approved>>, gate' \in Requests PROVE Goal
  BY <1>c DEF Workspace!Next, Workspace!Close, Stored, Kept, Seen, WorkspaceOpen
<1>d. ASSUME UNCHANGED <<live, rollback, approved>>, gate' = None PROVE Goal
  <2>1. Stored' = live' /\ Stored' = Stored
    BY <1>a, <1>d DEF StoredInv, Stored, Kept
  <2> QED
    BY <1>d, <2>1 DEF Workspace!Next, Workspace!Open, Seen, WorkspaceOpen
<1>e. ASSUME UNCHANGED <<gate, approved>>, gate # None, Stored' = Stored PROVE Goal
  BY <1>e DEF Seen, WorkspaceOpen
<1> HIDE DEF Goal
<1>1. ASSUME NEW r \in Requests, RequestRestore(r) PROVE Goal
  BY <1>b, <1>1
     DEF RequestRestore, SaveStatus, WorkspaceOpen, Active, schemaVars, workerVars,
         ActiveRestores
<1>2. ASSUME NEW r \in Requests, Refresh(r) PROVE Goal
  BY <1>b, <1>2 DEF Refresh, SaveStatus, peopleVars, schemaVars, workerVars
<1>3. ASSUME NEW r \in Requests, LoadForRefresh(r) PROVE Goal
  BY <1>b, <1>3 DEF LoadForRefresh, peopleVars, schemaVars, workerVars
<1>4. ASSUME NEW r \in Requests, SaveLoaded(r) PROVE Goal
  BY <1>b, <1>4 DEF SaveLoaded, SaveStatus, peopleVars, schemaVars, workerVars
<1>5. ASSUME NEW r \in Requests, Approve(r) PROVE Goal
  BY <1>5
     DEF Goal, Workspace!Next, Workspace!Approve, Stored, Kept, Seen, WorkspaceOpen,
         Approve, SaveStatus, Prerequisites, schemaVars, workerVars
<1>6. ASSUME NEW r \in Requests, Reject(r) PROVE Goal
  BY <1>b, <1>6 DEF Reject, SaveStatus, peopleVars, schemaVars, workerVars
<1>7. ASSUME NEW r \in Requests, Execute(r) PROVE Goal
  BY <1>c, <1>7
     DEF Execute, SaveStatus, WorkspaceOpen, Prerequisites, CloseGate, peopleVars,
         schemaVars, workerVars
<1>8. ASSUME NEW r \in Requests, Retry(r) PROVE Goal
  BY <1>c, <1>8
     DEF Retry, SaveStatus, Active, Prerequisites, CloseGate, peopleVars,
         schemaVars, workerVars, ActiveRestores
<1>9. ASSUME NEW r \in Requests, DeleteRestore(r) PROVE Goal
  BY <1>b, <1>9
     DEF DeleteRestore, SaveStatus, Terminal, peopleVars, schemaVars, workerVars
<1>10. ASSUME NEW r \in Requests, LoadForDelete(r) PROVE Goal
  BY <1>b, <1>10 DEF LoadForDelete, Terminal, peopleVars, schemaVars, workerVars
<1>11. ASSUME NEW r \in Requests, DeleteLoaded(r) PROVE Goal
  BY <1>b, <1>11 DEF DeleteLoaded, SaveStatus, peopleVars, schemaVars, workerVars
<1>12. ASSUME NEW r \in Requests, SafetyFinishes(r) PROVE Goal
  BY <1>b, <1>12 DEF SafetyFinishes, schemaVars, workerVars
<1>13. ASSUME NEW r \in Requests, BackupLost(r) PROVE Goal
  BY <1>b, <1>13 DEF BackupLost, Active, schemaVars, workerVars, ActiveRestores
<1>14. ASSUME NEW r \in Requests, Inspect(r) PROVE Goal
  BY <1>b, <1>14 DEF Inspect, Sweep, At, peopleVars, schemaVars, workerVars
<1>15. ASSUME NEW w \in Workers, NEW r \in Requests, Claim(w, r) PROVE Goal
  BY <1>b, <1>15 DEF Claim, SaveStatus, peopleVars, schemaVars
<1>16. ASSUME NEW w \in Workers, Prepare(w) PROVE Goal
  BY <1>b, <1>16 DEF Prepare, Prerequisites, Go, Mine, peopleVars, schemaVars
<1>17. ASSUME NEW w \in Workers, FailEarly(w) PROVE Goal
  BY <1>b, <1>17 DEF FailEarly, SaveStatus, Go, Mine, peopleVars, schemaVars
<1>18. ASSUME NEW w \in Workers, LockTenant(w) PROVE Goal
  BY <1>b, <1>c, <1>18 DEF LockTenant, CloseGate, Go, Mine, peopleVars, schemaVars
<1>19. ASSUME NEW w \in Workers, AcquireLock(w) PROVE Goal
  BY <1>b, <1>19 DEF AcquireLock, Go, peopleVars, schemaVars, Locked
<1>20. ASSUME NEW w \in Workers, AcquireLockRaises(w) PROVE Goal
  BY <1>b, <1>20 DEF AcquireLockRaises, Go, peopleVars, schemaVars
<1>21. ASSUME NEW w \in Workers, RenameAway(w) PROVE Goal
  <2>1. UNCHANGED <<gate, approved>>
    BY <1>21 DEF RenameAway, Go, Mine, RenamePossible, peopleVars
  <2>2. gate # None
    BY <1>21 DEF RenameAway, Go, Mine, RenamePossible, peopleVars
  <2>3. Stored' = Stored
    BY <1>a, <1>21 DEF StoredInv, RenameAway, Go, Mine, RenamePossible, peopleVars
  <2> QED
    BY <1>e, <2>1, <2>2, <2>3
<1>22. ASSUME NEW w \in Workers, RenameAwayRaises(w) PROVE Goal
  BY <1>b, <1>22 DEF RenameAwayRaises, Go, RenamePossible, peopleVars, schemaVars, Mine
<1>23. ASSUME NEW w \in Workers, StartLoad(w) PROVE Goal
  <2>1. UNCHANGED <<gate, approved>>
    BY <1>23 DEF StartLoad, Go, peopleVars
  <2>2. gate # None
    BY <1>23 DEF StartLoad, Go, peopleVars
  <2>3. Stored' = Stored
    BY <1>a, <1>23 DEF StoredInv, StartLoad, Go, peopleVars
  <2> QED
    BY <1>e, <2>1, <2>2, <2>3
<1>24. ASSUME NEW w \in Workers, FinishLoad(w) PROVE Goal
  <2>1. UNCHANGED <<gate, approved>>
    BY <1>24 DEF FinishLoad, Go, Mine, peopleVars
  <2>2. gate # None
    BY <1>24 DEF FinishLoad, Go, Mine, peopleVars
  <2>3. Stored' = Stored
    BY <1>a, <1>24 DEF StoredInv, FinishLoad, Go, Mine, peopleVars
  <2> QED
    BY <1>e, <2>1, <2>2, <2>3
<1>25. ASSUME NEW w \in Workers, LoadFails(w) PROVE Goal
  BY <1>b, <1>25 DEF LoadFails, Go, peopleVars, schemaVars
<1>26. ASSUME NEW w \in Workers, DropRollback(w) PROVE Goal
  <2>1. rollback[req[w]] # "missing" /\ live = req[w] /\ gate # None
    BY <1>26 DEF DropRollback, Go, Mine, peopleVars
  <2>2. Stored' = live
    BY <1>a, <1>26, <2>1 DEF StoredInv, DropRollback, Go, Mine, peopleVars
  <2>3. req[w] \in approved
    BY <1>26, <2>1 DEF OnlyApprovedRestored, DropRollback, Go, Mine, peopleVars
  <2> QED
    BY <1>26, <2>1, <2>2, <2>3
       DEF Goal, Workspace!Next, Workspace!Replace, Seen, WorkspaceOpen,
              DropRollback, Go, Mine, peopleVars
<1>27. ASSUME NEW w \in Workers, UnlockTenant(w) PROVE Goal
  BY <1>b, <1>d, <1>27 DEF UnlockTenant, Go, OpenGate, peopleVars, schemaVars
<1>28. ASSUME NEW w \in Workers, Complete(w) PROVE Goal
  BY <1>b, <1>28 DEF Complete, SaveStatus, Go, Mine, peopleVars, schemaVars
<1>29. ASSUME NEW w \in Workers, DropLive(w) PROVE Goal
  <2>1. UNCHANGED <<gate, approved>>
    BY <1>29 DEF DropLive, Go, peopleVars
  <2>2. gate # None
    BY <1>29 DEF DropLive, Go, peopleVars
  <2>3. Stored' = Stored
    BY <1>a, <1>29 DEF StoredInv, DropLive, Go, peopleVars
  <2> QED
    BY <1>e, <2>1, <2>2, <2>3
<1>30. ASSUME NEW w \in Workers, RenameBack(w) PROVE Goal
  <2>1. UNCHANGED <<gate, approved>>
    BY <1>30 DEF RenameBack, Go, Mine, CanReinstate, Reinstate, peopleVars, schemaVars
  <2>2. gate # None
    BY <1>30 DEF RenameBack, Go, Mine, CanReinstate, Reinstate, peopleVars, schemaVars
  <2>3. Stored' = Stored
    BY <1>a, <1>30
       DEF StoredInv, RenameBack, Go, Mine, CanReinstate, Reinstate, peopleVars,
           schemaVars
  <2> QED
    BY <1>e, <2>1, <2>2, <2>3
<1>31. ASSUME NEW w \in Workers, UnlockAfterFailure(w) PROVE Goal
  BY <1>b, <1>d, <1>31 DEF UnlockAfterFailure, Go, OpenGate, peopleVars, schemaVars
<1>32. ASSUME NEW w \in Workers, FailRestore(w) PROVE Goal
  BY <1>b, <1>32 DEF FailRestore, SaveStatus, Go, Mine, peopleVars, schemaVars
<1>33. ASSUME NEW w \in Workers, CrashWorker(w) PROVE Goal
  BY <1>b, <1>33 DEF CrashWorker, Go, Busy, peopleVars, schemaVars
<1>34. ASSUME BeginRecovery PROVE Goal
  BY <1>b, <1>34 DEF BeginRecovery, Stale, Sweep, peopleVars, schemaVars, workerVars
<1>35. ASSUME RecoveryDrops PROVE Goal
  <2>0. sweep.row \in Requests /\ rollback[sweep.row] # "missing"
    BY <1>35 DEF PhaseInv, RecoveryDrops, At
  <2>1. UNCHANGED <<gate, approved>>
    BY <1>35 DEF RecoveryDrops, At, GoTo, peopleVars, workerVars
  <2>2. gate # None
    BY <1>35, <2>0
  <2>3. Stored' = Stored
    BY <1>a, <1>35, <2>0 DEF StoredInv, RecoveryDrops, At, GoTo, peopleVars, workerVars
  <2> QED
    BY <1>e, <2>1, <2>2, <2>3
<1>36. ASSUME RecoveryRenames PROVE Goal
  <2>1. UNCHANGED <<gate, approved>>
    BY <1>36
       DEF RecoveryRenames, CanReinstate, Reinstate, At, Row, GoTo, peopleVars,
           workerVars
  <2>2. gate # None
    BY <1>36
       DEF RecoveryRenames, CanReinstate, Reinstate, At, Row, GoTo, peopleVars,
           workerVars
  <2>3. Stored' = Stored
    BY <1>a, <1>36
       DEF StoredInv, RecoveryRenames, CanReinstate, Reinstate, At, Row, GoTo,
           peopleVars, workerVars
  <2> QED
    BY <1>e, <2>1, <2>2, <2>3
<1>37. ASSUME RecoveryReleases PROVE Goal
  BY <1>b, <1>d, <1>37
     DEF RecoveryReleases, OpenGate, At, GoTo, peopleVars, schemaVars, workerVars
<1>38. ASSUME RecoveryFails PROVE Goal
  BY <1>b, <1>38
     DEF RecoveryFails, SaveStatus, At, Row, NextRow, peopleVars, schemaVars,
         workerVars, Sweep, Idle
<1>39. ASSUME RecoveryRaises PROVE Goal
  BY <1>b, <1>39
     DEF RecoveryRaises, SaveStatus, CanReinstate, At, Row, NextRow, peopleVars,
         schemaVars, workerVars, Whole, Sweep, Idle
<1>40. ASSUME CrashMaintenance PROVE Goal
  BY <1>b, <1>40
     DEF CrashMaintenance, Idle, At, peopleVars, schemaVars, workerVars, Sweep
<1>41. ASSUME UNCHANGED vars PROVE Goal
  BY <1>b, <1>41 DEF vars
<1> QED
  BY <1>1, <1>2, <1>3, <1>4, <1>5, <1>6, <1>7, <1>8, <1>9, <1>10, <1>11, <1>12, <1>13,
     <1>14, <1>15, <1>16, <1>17, <1>18, <1>19, <1>20, <1>21, <1>22, <1>23, <1>24, <1>25,
     <1>26, <1>27, <1>28, <1>29, <1>30, <1>31, <1>32, <1>33, <1>34, <1>35, <1>36, <1>37,
     <1>38, <1>39, <1>40, <1>41
     DEF Next, PeopleStep, BackupStep, WorkerStep, RecoveryStep

(* The whole refinement: what the users of a workspace can tell apart is a
   single replacement of their data behind the gate. *)
THEOREM RestoreIsAtomic == ASSUME Orderly PROVE Spec => ReplacesAtomically
<1>1. Spec => []SafeInv
  BY SafeCorrect
<1>2. Spec => []OnlyApprovedRestored
  BY ApprovedOnly
<1>3. SafeInv /\ SafeInv' /\ OnlyApprovedRestored /\ [Next]_vars =>
        [Workspace!Next]_<<Stored, Seen, approved>>
  BY WorkspaceStep
<1> QED
  BY <1>1, <1>2, <1>3, WorkspaceInit, PTL DEF Spec, ReplacesAtomically, Workspace!Spec
=============================================================================
