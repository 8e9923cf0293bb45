------------------------ MODULE TenantBackups_proofs ------------------------
(***************************************************************************)
(* Proofs about TenantBackups, for any number of rows and workers.  What   *)
(* each result assumes of the environment is stated in its ASSUME.         *)
(***************************************************************************)
EXTENDS TenantBackups, TLAPS

(* A worker has a row exactly while it is busy; the row it claimed can     *)
(* never be claimed again.                                                 *)
JobInv ==
  \A w \in Workers :
    /\ Busy(w) <=> job[w] \in Backups
    /\ Busy(w) => status[job[w]] \notin {"absent", "queued"}

(* A row that was never published is in nobody's hands but its worker's.   *)
Unpublished(b) ==
  /\ status[b] \notin {"available", "deleting", "deleted"}
  /\ b \notin erasing
  /\ ~InRetention(b)

Early == {"claimed", "dumping", "uploading", "uploaded", "verifying", "verified"}

PublishInv ==
  /\ \A w \in Workers : stage[w] \in Early => Unpublished(job[w])
  /\ \A b \in Backups : status[b] \in {"absent", "queued"} => Unpublished(b)
  /\ \A b \in Backups : object[b] = "corrupt" =>
       /\ Unpublished(b)
       /\ \A w \in Workers : job[w] = b => stage[w] \notin {"verified", "marking"}

(* While no live worker is taken for dead, a row's status is the one its   *)
(* worker wrote last.                                                      *)
StatusOf == [claimed   |-> "preparing",  dumping  |-> "backing_up",
             uploading |-> "uploading",  uploaded |-> "uploading",
             verifying |-> "verifying",  verified |-> "verifying"]

LiveInv ==
  /\ \A w \in Workers : stage[w] \in Early => status[job[w]] = StatusOf[stage[w]]
  /\ sweep.phase = "stale" =>
       \A b \in sweep.todo : /\ status[b] \notin {"absent", "queued"}
                             /\ \A w \in Workers : job[w] # b

(* While retention and the API keep out of each other's way, a row that is *)
(* needed or gone is in nobody's hands.  A request that was reopened blind *)
(* is not counted: its backups may be going.                               *)
Needed(b) == \E s \in open \ blind : b \in {s, source[s]}

HandsInv ==
  /\ sweep.phase \in {"mark", "erase"} => sweep.row \notin sweep.todo
  /\ \A b \in erasing : ~InRetention(b) /\ status[b] \in {"deleting", "failed"}
  /\ \A b \in Backups : Needed(b) =>
       /\ status[b] \notin {"deleting", "deleted"}
       /\ b \notin erasing
       /\ ~(sweep.phase \in {"mark", "erase"} /\ sweep.row = b)
  /\ \A b \in Backups : status[b] = "deleted" => ~InRetention(b)

RowInv == sweep.phase \in {"mark", "erase"} <=> sweep.row # None

(* The retention phase lists rows that are AVAILABLE or DELETING.           *)
LEMMA RetentionRows ==
  ASSUME TypeOK, BeginRetention
  PROVE  \E rows \in SUBSET Backups :
           /\ sweep' = Sweep("check", rows, None)
           /\ \A b \in rows : status[b] \in {"available", "deleting"}
<1>1. \A s \in Surplus : /\ s \subseteq Backups
                        /\ \A b \in s : status[b] = "available"
  BY DEF TypeOK, Surplus
<1>2. PICK surplus \in Surplus :
        sweep' = Sweep("check",
                       surplus \cup {b \in expired : status[b] \in {"available", "deleting"}},
                       None)
  BY DEF BeginRetention, BeginRetentionOf
<1>3. surplus \cup {b \in expired : status[b] \in {"available", "deleting"}}
        \in SUBSET Backups
  BY <1>1 DEF TypeOK
<1> QED
  BY <1>1, <1>2, <1>3

(* The initial rows are typed and no worker is busy. *)
LEMMA TypeInit == Init => TypeOK /\ JobInv
<1> SUFFICES ASSUME Init PROVE TypeOK /\ JobInv
  OBVIOUS
<1>1. /\ status \in [Backups -> Statuses]
      /\ object \in [Backups -> Objects]
      /\ stage \in [Workers -> Stages]
  BY DEF Init, Statuses, Objects, Stages
<1>2. sweep \in [phase : Phases, todo : SUBSET Backups, row : Backups \cup {None}]
  BY DEF Init, Phases, Sweep, Idle
<1>3. JobInv
  BY NoneAssumption DEF Init, JobInv, Busy
<1> QED
  BY <1>1, <1>2, <1>3 DEF Init, TypeOK

(* Saves write statuses of the model only, workers save rows they hold. *)
LEMMA TypeStep == TypeOK /\ JobInv /\ [Next]_vars => TypeOK'
<1> SUFFICES ASSUME TypeOK, JobInv, [Next]_vars PROVE TypeOK'
  OBVIOUS
<1> USE DEF requestVars, TypeOK
<1>1. ASSUME NEW b \in Backups, RequestManualBackup(b) PROVE TypeOK'
  BY <1>1
     DEF RequestManualBackup, CreateRow, SetStatus, Active, Statuses, ActiveStatuses,
         RunningStatuses
<1>2. ASSUME NEW b \in Backups, BeginReopen(b) PROVE TypeOK'
  BY <1>2 DEF BeginReopen, rowVars, workerVars
<1>33. ASSUME NEW b \in Backups, FinishReopen(b) PROVE TypeOK'
  BY <1>33 DEF FinishReopen, Restorable, rowVars, workerVars
<1>34. ASSUME NEW b \in Backups, AbortReopen(b) PROVE TypeOK'
  BY <1>34 DEF AbortReopen, rowVars, workerVars
<1>3. ASSUME NEW b \in Backups, CloseRestore(b) PROVE TypeOK'
  BY <1>3 DEF CloseRestore, rowVars, workerVars
<1>4. ASSUME NEW b \in Backups, DeleteBackup(b) PROVE TypeOK'
  BY <1>4
     DEF DeleteBackup, SetStatus, workerVars, Statuses, ActiveStatuses, RunningStatuses
<1>5. ASSUME NEW b \in Backups, FinishDelete(b) PROVE TypeOK'
  BY <1>5
     DEF FinishDelete, SetStatus, EraseSucceeds, workerVars, Statuses, ActiveStatuses,
         RunningStatuses, Objects
<1>6. ASSUME NEW b \in Backups, DeleteRaises(b) PROVE TypeOK'
  BY <1>6
     DEF DeleteRaises, SetStatus, EraseRaises, workerVars, Statuses, ActiveStatuses,
         RunningStatuses, Objects
<1>7. ASSUME NEW b \in Backups, CrashDelete(b) PROVE TypeOK'
  BY <1>7 DEF CrashDelete, rowVars, workerVars
<1>8. ASSUME NEW b \in Backups, RecoverStale(b) PROVE TypeOK'
  BY <1>8
     DEF RecoverStale, SetStatus, Continue, Sweep, Idle, workerVars, Statuses,
         ActiveStatuses, RunningStatuses, Phases
<1>9. ASSUME NEW b \in Backups, QueueScheduled(b) PROVE TypeOK'
  BY <1>9
     DEF QueueScheduled, CreateRow, SetStatus, Active, workerVars, Statuses,
         ActiveStatuses, RunningStatuses
<1>10. ASSUME NEW b \in Backups, Expire(b) PROVE TypeOK'
  BY <1>10 DEF Expire, workerVars
<1>11. ASSUME NEW b \in Backups, SkipRequired(b) PROVE TypeOK'
  BY <1>11 DEF SkipRequired, Continue, Sweep, Idle, rowVars, workerVars, Phases
<1>12. ASSUME NEW b \in Backups, CheckCandidate(b) PROVE TypeOK'
  BY <1>12 DEF CheckCandidate, Sweep, rowVars, workerVars, Phases
<1>13. ASSUME NEW b \in Backups, NEW s \in Backups, RequestRestore(b, s) PROVE TypeOK'
  BY <1>13
     DEF RequestRestore, workerVars, CreateRow, SetStatus, Active, Restorable, Statuses,
         ActiveStatuses, RunningStatuses
<1>14. ASSUME NEW w \in Workers, NEW b \in Backups, Claim(w, b) PROVE TypeOK'
  BY <1>14 DEF Claim, SetStatus, Statuses, ActiveStatuses, RunningStatuses, Stages
<1>15. ASSUME NEW w \in Workers, StartDump(w) PROVE TypeOK'
  BY <1>15
     DEF StartDump, Step, SetStatus, Statuses, ActiveStatuses, RunningStatuses, Stages
<1>16. ASSUME NEW w \in Workers, FinishDump(w) PROVE TypeOK'
  BY <1>16
     DEF FinishDump, Step, SetStatus, Statuses, ActiveStatuses, RunningStatuses, Stages
<1>17. ASSUME NEW w \in Workers, Upload(w) PROVE TypeOK'
  <2>1. PICK copy \in {"corrupt", "good"} : object' = [object EXCEPT ![job[w]] = copy]
    BY <1>17 DEF Upload
  <2> QED
    BY <1>17, <2>1 DEF Upload, Step, Objects, Stages
<1>18. ASSUME NEW w \in Workers, RecordKey(w) PROVE TypeOK'
  <2>1. job[w] \in Backups
    BY <1>18 DEF RecordKey, Step, JobInv, Busy
  <2> QED
    BY <1>18, <2>1
       DEF RecordKey, Step, SetStatus, Statuses, ActiveStatuses, RunningStatuses, Stages
<1>19. ASSUME NEW w \in Workers, Verify(w) PROVE TypeOK'
  BY <1>19 DEF Verify, Step, rowVars, Stages
<1>20. ASSUME NEW w \in Workers, RejectUpload(w) PROVE TypeOK'
  BY <1>20
     DEF RejectUpload, Step, SetStatus, Statuses, ActiveStatuses, RunningStatuses,
         Objects, Stages
<1>21. ASSUME NEW w \in Workers, Publish(w) PROVE TypeOK'
  <2>1. job[w] \in Backups
    BY <1>21 DEF Publish, Step, JobInv, Busy
  <2> QED
    BY <1>21, <2>1
       DEF Publish, Step, SetStatus, Statuses, ActiveStatuses, RunningStatuses, Stages
<1>22. ASSUME NEW w \in Workers, MarkScheduledCompleted(w) PROVE TypeOK'
  BY <1>22 DEF MarkScheduledCompleted, Step, rowVars, Stages
<1>23. ASSUME NEW w \in Workers, FailBackup(w) PROVE TypeOK'
  BY <1>23
     DEF FailBackup, Step, SetStatus, Busy, Statuses, ActiveStatuses, RunningStatuses,
         Stages
<1>24. ASSUME NEW w \in Workers, CrashWorker(w) PROVE TypeOK'
  BY <1>24 DEF CrashWorker, Step, Busy, rowVars, Stages
<1>25. ASSUME BeginStaleRecovery PROVE TypeOK'
  BY <1>25 DEF BeginStaleRecovery, Stale, Sweep, rowVars, workerVars, Phases
<1>26. ASSUME BeginRetention PROVE TypeOK'
  <2>1. PICK rows \in SUBSET Backups :
          /\ sweep' = Sweep("check", rows, None)
          /\ \A b \in rows : status[b] \in {"available", "deleting"}
    BY <1>26, RetentionRows
  <2>2. sweep.phase = "idle" /\ ("overlap" \in Faults \/ erasing = {})
    BY <1>26 DEF BeginRetention, BeginRetentionOf
  <2>3. UNCHANGED <<status, scheduled, keyed, expired, object, source, open, retrying, blind, due,
                    stage, job, erasing>>
    BY <1>26 DEF BeginRetention, BeginRetentionOf, rowVars, workerVars
  <2> QED
    BY <2>1, <2>2, <2>3 DEF Sweep, Phases
<1>27. ASSUME MarkDeleting PROVE TypeOK'
  BY <1>27
     DEF MarkDeleting, SetStatus, workerVars, Statuses, ActiveStatuses, RunningStatuses,
         Phases
<1>28. ASSUME FinishPurge PROVE TypeOK'
  BY <1>28
     DEF FinishPurge, SetStatus, EraseSucceeds, Continue, Sweep, Idle, workerVars,
         Statuses, ActiveStatuses, RunningStatuses, Objects, Phases
<1>29. ASSUME PurgeRaises PROVE TypeOK'
  BY <1>29
     DEF PurgeRaises, SetStatus, EraseRaises, Continue, Sweep, Idle, workerVars,
         Statuses, ActiveStatuses, RunningStatuses, Objects, Phases
<1>30. ASSUME CrashMaintenance PROVE TypeOK'
  BY <1>30 DEF CrashMaintenance, Idle, Sweep, rowVars, workerVars, Phases
<1>31. ASSUME ScheduleChanges PROVE TypeOK'
  BY <1>31 DEF ScheduleChanges, rowVars, workerVars
<1>32. ASSUME UNCHANGED vars PROVE TypeOK'
  BY <1>32 DEF vars
<1> QED
  BY <1>1, <1>2, <1>3, <1>4, <1>5, <1>6, <1>7, <1>8, <1>9, <1>10, <1>11, <1>12, <1>13,
     <1>14, <1>15, <1>16, <1>17, <1>18, <1>19, <1>20, <1>21, <1>22, <1>23, <1>24, <1>25,
     <1>26, <1>27, <1>28, <1>29, <1>30, <1>31, <1>32,
     <1>33, <1>34
     DEF Next, WorkerStep, RetentionStep

(* A worker has a row exactly while it is busy; the row it claimed never   *)
(* becomes claimable again.                                                *)
LEMMA JobStep == TypeOK /\ JobInv /\ [Next]_vars => JobInv'
<1> SUFFICES ASSUME TypeOK, JobInv, [Next]_vars PROVE JobInv'
  OBVIOUS
<1> USE NoneAssumption DEF requestVars, TypeOK, JobInv, Busy
<1>1. ASSUME NEW b \in Backups, RequestManualBackup(b) PROVE JobInv'
  BY <1>1 DEF RequestManualBackup, CreateRow, SetStatus, Active
<1>2. ASSUME NEW b \in Backups, BeginReopen(b) PROVE JobInv'
  BY <1>2 DEF BeginReopen, rowVars, workerVars
<1>33. ASSUME NEW b \in Backups, FinishReopen(b) PROVE JobInv'
  BY <1>33 DEF FinishReopen, Restorable, rowVars, workerVars
<1>34. ASSUME NEW b \in Backups, AbortReopen(b) PROVE JobInv'
  BY <1>34 DEF AbortReopen, rowVars, workerVars
<1>3. ASSUME NEW b \in Backups, CloseRestore(b) PROVE JobInv'
  BY <1>3 DEF CloseRestore, rowVars, workerVars
<1>4. ASSUME NEW b \in Backups, DeleteBackup(b) PROVE JobInv'
  BY <1>4 DEF DeleteBackup, SetStatus, workerVars
<1>5. ASSUME NEW b \in Backups, FinishDelete(b) PROVE JobInv'
  BY <1>5 DEF FinishDelete, SetStatus, EraseSucceeds, workerVars
<1>6. ASSUME NEW b \in Backups, DeleteRaises(b) PROVE JobInv'
  BY <1>6 DEF DeleteRaises, SetStatus, EraseRaises, workerVars
<1>7. ASSUME NEW b \in Backups, CrashDelete(b) PROVE JobInv'
  BY <1>7 DEF CrashDelete, rowVars, workerVars
<1>8. ASSUME NEW b \in Backups, RecoverStale(b) PROVE JobInv'
  BY <1>8 DEF RecoverStale, SetStatus, Continue, Sweep, Idle, workerVars
<1>9. ASSUME NEW b \in Backups, QueueScheduled(b) PROVE JobInv'
  BY <1>9 DEF QueueScheduled, CreateRow, SetStatus, Active, workerVars
<1>10. ASSUME NEW b \in Backups, Expire(b) PROVE JobInv'
  BY <1>10 DEF Expire, workerVars
<1>11. ASSUME NEW b \in Backups, SkipRequired(b) PROVE JobInv'
  BY <1>11 DEF SkipRequired, Continue, Sweep, Idle, rowVars, workerVars
<1>12. ASSUME NEW b \in Backups, CheckCandidate(b) PROVE JobInv'
  BY <1>12 DEF CheckCandidate, Sweep, rowVars, workerVars
<1>13. ASSUME NEW b \in Backups, NEW s \in Backups, RequestRestore(b, s) PROVE JobInv'
  BY <1>13 DEF RequestRestore, workerVars, CreateRow, SetStatus, Active, Restorable
<1>14. ASSUME NEW w \in Workers, NEW b \in Backups, Claim(w, b) PROVE JobInv'
  BY <1>14 DEF Claim, SetStatus
<1>15. ASSUME NEW w \in Workers, StartDump(w) PROVE JobInv'
  BY <1>15 DEF StartDump, Step, SetStatus
<1>16. ASSUME NEW w \in Workers, FinishDump(w) PROVE JobInv'
  BY <1>16 DEF FinishDump, Step, SetStatus
<1>17. ASSUME NEW w \in Workers, Upload(w) PROVE JobInv'
  BY <1>17 DEF Upload, Step
<1>18. ASSUME NEW w \in Workers, RecordKey(w) PROVE JobInv'
  BY <1>18 DEF RecordKey, Step, SetStatus
<1>19. ASSUME NEW w \in Workers, Verify(w) PROVE JobInv'
  BY <1>19 DEF Verify, Step, rowVars
<1>20. ASSUME NEW w \in Workers, RejectUpload(w) PROVE JobInv'
  BY <1>20 DEF RejectUpload, Step, SetStatus
<1>21. ASSUME NEW w \in Workers, Publish(w) PROVE JobInv'
  BY <1>21 DEF Publish, Step, SetStatus
<1>22. ASSUME NEW w \in Workers, MarkScheduledCompleted(w) PROVE JobInv'
  BY <1>22 DEF MarkScheduledCompleted, Step, rowVars
<1>23. ASSUME NEW w \in Workers, FailBackup(w) PROVE JobInv'
  BY <1>23 DEF FailBackup, Step, SetStatus, Busy
<1>24. ASSUME NEW w \in Workers, CrashWorker(w) PROVE JobInv'
  BY <1>24 DEF CrashWorker, Step, Busy, rowVars
<1>25. ASSUME BeginStaleRecovery PROVE JobInv'
  BY <1>25 DEF BeginStaleRecovery, Stale, Sweep, rowVars, workerVars
<1>26. ASSUME BeginRetention PROVE JobInv'
  <2>1. PICK rows \in SUBSET Backups :
          /\ sweep' = Sweep("check", rows, None)
          /\ \A b \in rows : status[b] \in {"available", "deleting"}
    BY <1>26, RetentionRows
  <2>2. sweep.phase = "idle" /\ ("overlap" \in Faults \/ erasing = {})
    BY <1>26 DEF BeginRetention, BeginRetentionOf
  <2>3. UNCHANGED <<status, scheduled, keyed, expired, object, source, open, retrying, blind, due,
                    stage, job, erasing>>
    BY <1>26 DEF BeginRetention, BeginRetentionOf, rowVars, workerVars
  <2> QED
    BY <2>1, <2>2, <2>3 DEF Sweep
<1>27. ASSUME MarkDeleting PROVE JobInv'
  BY <1>27 DEF MarkDeleting, SetStatus, workerVars
<1>28. ASSUME FinishPurge PROVE JobInv'
  BY <1>28 DEF FinishPurge, SetStatus, EraseSucceeds, Continue, Sweep, Idle, workerVars
<1>29. ASSUME PurgeRaises PROVE JobInv'
  BY <1>29 DEF PurgeRaises, SetStatus, EraseRaises, Continue, Sweep, Idle, workerVars
<1>30. ASSUME CrashMaintenance PROVE JobInv'
  BY <1>30 DEF CrashMaintenance, Idle, Sweep, rowVars, workerVars
<1>31. ASSUME ScheduleChanges PROVE JobInv'
  BY <1>31 DEF ScheduleChanges, rowVars, workerVars
<1>32. ASSUME UNCHANGED vars PROVE JobInv'
  BY <1>32 DEF vars
<1> QED
  BY <1>1, <1>2, <1>3, <1>4, <1>5, <1>6, <1>7, <1>8, <1>9, <1>10, <1>11, <1>12, <1>13,
     <1>14, <1>15, <1>16, <1>17, <1>18, <1>19, <1>20, <1>21, <1>22, <1>23, <1>24, <1>25,
     <1>26, <1>27, <1>28, <1>29, <1>30, <1>31, <1>32,
     <1>33, <1>34
     DEF Next, WorkerStep, RetentionStep

(* No two workers have the same row. *)
LEMMA ClaimStep == TypeOK /\ JobInv /\ ClaimedOnce /\ [Next]_vars => ClaimedOnce'
<1> SUFFICES ASSUME TypeOK, JobInv, ClaimedOnce, [Next]_vars PROVE ClaimedOnce'
  OBVIOUS
<1> USE NoneAssumption DEF requestVars, TypeOK, JobInv, ClaimedOnce, Busy
<1>1. ASSUME NEW b \in Backups, RequestManualBackup(b) PROVE ClaimedOnce'
  BY <1>1 DEF RequestManualBackup, CreateRow, SetStatus, Active
<1>2. ASSUME NEW b \in Backups, BeginReopen(b) PROVE ClaimedOnce'
  BY <1>2 DEF BeginReopen, rowVars, workerVars
<1>33. ASSUME NEW b \in Backups, FinishReopen(b) PROVE ClaimedOnce'
  BY <1>33 DEF FinishReopen, Restorable, rowVars, workerVars
<1>34. ASSUME NEW b \in Backups, AbortReopen(b) PROVE ClaimedOnce'
  BY <1>34 DEF AbortReopen, rowVars, workerVars
<1>3. ASSUME NEW b \in Backups, CloseRestore(b) PROVE ClaimedOnce'
  BY <1>3 DEF CloseRestore, rowVars, workerVars
<1>4. ASSUME NEW b \in Backups, DeleteBackup(b) PROVE ClaimedOnce'
  BY <1>4 DEF DeleteBackup, SetStatus, workerVars
<1>5. ASSUME NEW b \in Backups, FinishDelete(b) PROVE ClaimedOnce'
  BY <1>5 DEF FinishDelete, SetStatus, EraseSucceeds, workerVars
<1>6. ASSUME NEW b \in Backups, DeleteRaises(b) PROVE ClaimedOnce'
  BY <1>6 DEF DeleteRaises, SetStatus, EraseRaises, workerVars
<1>7. ASSUME NEW b \in Backups, CrashDelete(b) PROVE ClaimedOnce'
  BY <1>7 DEF CrashDelete, rowVars, workerVars
<1>8. ASSUME NEW b \in Backups, RecoverStale(b) PROVE ClaimedOnce'
  BY <1>8 DEF RecoverStale, SetStatus, Continue, Sweep, Idle, workerVars
<1>9. ASSUME NEW b \in Backups, QueueScheduled(b) PROVE ClaimedOnce'
  BY <1>9 DEF QueueScheduled, CreateRow, SetStatus, Active, workerVars
<1>10. ASSUME NEW b \in Backups, Expire(b) PROVE ClaimedOnce'
  BY <1>10 DEF Expire, workerVars
<1>11. ASSUME NEW b \in Backups, SkipRequired(b) PROVE ClaimedOnce'
  BY <1>11 DEF SkipRequired, Continue, Sweep, Idle, rowVars, workerVars
<1>12. ASSUME NEW b \in Backups, CheckCandidate(b) PROVE ClaimedOnce'
  BY <1>12 DEF CheckCandidate, Sweep, rowVars, workerVars
<1>13. ASSUME NEW b \in Backups, NEW s \in Backups, RequestRestore(b, s) PROVE ClaimedOnce'
  BY <1>13 DEF RequestRestore, workerVars, CreateRow, SetStatus, Active, Restorable
<1>14. ASSUME NEW w \in Workers, NEW b \in Backups, Claim(w, b) PROVE ClaimedOnce'
  BY <1>14 DEF Claim, SetStatus
<1>15. ASSUME NEW w \in Workers, StartDump(w) PROVE ClaimedOnce'
  BY <1>15 DEF StartDump, Step, SetStatus
<1>16. ASSUME NEW w \in Workers, FinishDump(w) PROVE ClaimedOnce'
  BY <1>16 DEF FinishDump, Step, SetStatus
<1>17. ASSUME NEW w \in Workers, Upload(w) PROVE ClaimedOnce'
  BY <1>17 DEF Upload, Step
<1>18. ASSUME NEW w \in Workers, RecordKey(w) PROVE ClaimedOnce'
  BY <1>18 DEF RecordKey, Step, SetStatus
<1>19. ASSUME NEW w \in Workers, Verify(w) PROVE ClaimedOnce'
  BY <1>19 DEF Verify, Step, rowVars
<1>20. ASSUME NEW w \in Workers, RejectUpload(w) PROVE ClaimedOnce'
  BY <1>20 DEF RejectUpload, Step, SetStatus
<1>21. ASSUME NEW w \in Workers, Publish(w) PROVE ClaimedOnce'
  BY <1>21 DEF Publish, Step, SetStatus
<1>22. ASSUME NEW w \in Workers, MarkScheduledCompleted(w) PROVE ClaimedOnce'
  BY <1>22 DEF MarkScheduledCompleted, Step, rowVars
<1>23. ASSUME NEW w \in Workers, FailBackup(w) PROVE ClaimedOnce'
  BY <1>23 DEF FailBackup, Step, SetStatus, Busy
<1>24. ASSUME NEW w \in Workers, CrashWorker(w) PROVE ClaimedOnce'
  BY <1>24 DEF CrashWorker, Step, Busy, rowVars
<1>25. ASSUME BeginStaleRecovery PROVE ClaimedOnce'
  BY <1>25 DEF BeginStaleRecovery, Stale, Sweep, rowVars, workerVars
<1>26. ASSUME BeginRetention PROVE ClaimedOnce'
  <2>1. PICK rows \in SUBSET Backups :
          /\ sweep' = Sweep("check", rows, None)
          /\ \A b \in rows : status[b] \in {"available", "deleting"}
    BY <1>26, RetentionRows
  <2>2. sweep.phase = "idle" /\ ("overlap" \in Faults \/ erasing = {})
    BY <1>26 DEF BeginRetention, BeginRetentionOf
  <2>3. UNCHANGED <<status, scheduled, keyed, expired, object, source, open, retrying, blind, due,
                    stage, job, erasing>>
    BY <1>26 DEF BeginRetention, BeginRetentionOf, rowVars, workerVars
  <2> QED
    BY <2>1, <2>2, <2>3 DEF Sweep
<1>27. ASSUME MarkDeleting PROVE ClaimedOnce'
  BY <1>27 DEF MarkDeleting, SetStatus, workerVars
<1>28. ASSUME FinishPurge PROVE ClaimedOnce'
  BY <1>28 DEF FinishPurge, SetStatus, EraseSucceeds, Continue, Sweep, Idle, workerVars
<1>29. ASSUME PurgeRaises PROVE ClaimedOnce'
  BY <1>29 DEF PurgeRaises, SetStatus, EraseRaises, Continue, Sweep, Idle, workerVars
<1>30. ASSUME CrashMaintenance PROVE ClaimedOnce'
  BY <1>30 DEF CrashMaintenance, Idle, Sweep, rowVars, workerVars
<1>31. ASSUME ScheduleChanges PROVE ClaimedOnce'
  BY <1>31 DEF ScheduleChanges, rowVars, workerVars
<1>32. ASSUME UNCHANGED vars PROVE ClaimedOnce'
  BY <1>32 DEF vars
<1> QED
  BY <1>1, <1>2, <1>3, <1>4, <1>5, <1>6, <1>7, <1>8, <1>9, <1>10, <1>11, <1>12, <1>13,
     <1>14, <1>15, <1>16, <1>17, <1>18, <1>19, <1>20, <1>21, <1>22, <1>23, <1>24, <1>25,
     <1>26, <1>27, <1>28, <1>29, <1>30, <1>31, <1>32,
     <1>33, <1>34
     DEF Next, WorkerStep, RetentionStep

(* The three parts of PublishInv hold each other up: a row that no worker has
   published cannot be listed for deletion or deleted. *)
LEMMA PublishStep ==
  TypeOK /\ JobInv /\ ClaimedOnce /\ PublishInv /\ [Next]_vars => PublishInv'
<1> SUFFICES ASSUME TypeOK, JobInv, ClaimedOnce, PublishInv, [Next]_vars
             PROVE  PublishInv'
  OBVIOUS
<1> USE NoneAssumption DEF requestVars, TypeOK, JobInv, ClaimedOnce, PublishInv, Unpublished,
                            InRetention, Early, Busy
<1>1. ASSUME NEW b \in Backups, RequestManualBackup(b) PROVE PublishInv'
  BY <1>1 DEF RequestManualBackup, CreateRow, SetStatus, Active
<1>2. ASSUME NEW b \in Backups, BeginReopen(b) PROVE PublishInv'
  BY <1>2 DEF BeginReopen, rowVars, workerVars
<1>33. ASSUME NEW b \in Backups, FinishReopen(b) PROVE PublishInv'
  BY <1>33 DEF FinishReopen, Restorable, rowVars, workerVars
<1>34. ASSUME NEW b \in Backups, AbortReopen(b) PROVE PublishInv'
  BY <1>34 DEF AbortReopen, rowVars, workerVars
<1>3. ASSUME NEW b \in Backups, CloseRestore(b) PROVE PublishInv'
  BY <1>3 DEF CloseRestore, rowVars, workerVars
<1>4. ASSUME NEW b \in Backups, DeleteBackup(b) PROVE PublishInv'
  BY <1>4 DEF DeleteBackup, SetStatus, workerVars
<1>5. ASSUME NEW b \in Backups, FinishDelete(b) PROVE PublishInv'
  BY <1>5 DEF FinishDelete, SetStatus, EraseSucceeds, workerVars
<1>6. ASSUME NEW b \in Backups, DeleteRaises(b) PROVE PublishInv'
  BY <1>6 DEF DeleteRaises, SetStatus, EraseRaises, workerVars
<1>7. ASSUME NEW b \in Backups, CrashDelete(b) PROVE PublishInv'
  BY <1>7 DEF CrashDelete, rowVars, workerVars
<1>8. ASSUME NEW b \in Backups, RecoverStale(b) PROVE PublishInv'
  BY <1>8 DEF RecoverStale, SetStatus, Continue, Sweep, Idle, workerVars
<1>9. ASSUME NEW b \in Backups, QueueScheduled(b) PROVE PublishInv'
  BY <1>9 DEF QueueScheduled, CreateRow, SetStatus, Active, workerVars
<1>10. ASSUME NEW b \in Backups, Expire(b) PROVE PublishInv'
  BY <1>10 DEF Expire, workerVars
<1>11. ASSUME NEW b \in Backups, SkipRequired(b) PROVE PublishInv'
  BY <1>11 DEF SkipRequired, Continue, Sweep, Idle, rowVars, workerVars
<1>12. ASSUME NEW b \in Backups, CheckCandidate(b) PROVE PublishInv'
  BY <1>12 DEF CheckCandidate, Sweep, rowVars, workerVars
<1>13. ASSUME NEW b \in Backups, NEW s \in Backups, RequestRestore(b, s) PROVE PublishInv'
  BY <1>13 DEF RequestRestore, workerVars, CreateRow, SetStatus, Active, Restorable
<1>14. ASSUME NEW w \in Workers, NEW b \in Backups, Claim(w, b) PROVE PublishInv'
  BY <1>14 DEF Claim, SetStatus
<1>15. ASSUME NEW w \in Workers, StartDump(w) PROVE PublishInv'
  BY <1>15 DEF StartDump, Step, SetStatus
<1>16. ASSUME NEW w \in Workers, FinishDump(w) PROVE PublishInv'
  BY <1>16 DEF FinishDump, Step, SetStatus
<1>17. ASSUME NEW w \in Workers, Upload(w) PROVE PublishInv'
  <2>1. PICK copy \in {"corrupt", "good"} : object' = [object EXCEPT ![job[w]] = copy]
    BY <1>17 DEF Upload
  <2> QED
    BY <1>17, <2>1 DEF Upload, Step
<1>18. ASSUME NEW w \in Workers, RecordKey(w) PROVE PublishInv'
  BY <1>18 DEF RecordKey, Step, SetStatus
<1>19. ASSUME NEW w \in Workers, Verify(w) PROVE PublishInv'
  BY <1>19 DEF Verify, Step, rowVars
<1>20. ASSUME NEW w \in Workers, RejectUpload(w) PROVE PublishInv'
  BY <1>20 DEF RejectUpload, Step, SetStatus
<1>21. ASSUME NEW w \in Workers, Publish(w) PROVE PublishInv'
  BY <1>21 DEF Publish, Step, SetStatus
<1>22. ASSUME NEW w \in Workers, MarkScheduledCompleted(w) PROVE PublishInv'
  BY <1>22 DEF MarkScheduledCompleted, Step, rowVars
<1>23. ASSUME NEW w \in Workers, FailBackup(w) PROVE PublishInv'
  BY <1>23 DEF FailBackup, Step, SetStatus, Busy
<1>24. ASSUME NEW w \in Workers, CrashWorker(w) PROVE PublishInv'
  BY <1>24 DEF CrashWorker, Step, Busy, rowVars
<1>25. ASSUME BeginStaleRecovery PROVE PublishInv'
  BY <1>25 DEF BeginStaleRecovery, Stale, Sweep, rowVars, workerVars
<1>26. ASSUME BeginRetention PROVE PublishInv'
  <2>1. PICK rows \in SUBSET Backups :
          /\ sweep' = Sweep("check", rows, None)
          /\ \A b \in rows : status[b] \in {"available", "deleting"}
    BY <1>26, RetentionRows
  <2>2. sweep.phase = "idle" /\ ("overlap" \in Faults \/ erasing = {})
    BY <1>26 DEF BeginRetention, BeginRetentionOf
  <2>3. UNCHANGED <<status, scheduled, keyed, expired, object, source, open, retrying, blind, due,
                    stage, job, erasing>>
    BY <1>26 DEF BeginRetention, BeginRetentionOf, rowVars, workerVars
  <2> QED
    BY <2>1, <2>2, <2>3 DEF Sweep
<1>27. ASSUME MarkDeleting PROVE PublishInv'
  BY <1>27 DEF MarkDeleting, SetStatus, workerVars
<1>28. ASSUME FinishPurge PROVE PublishInv'
  BY <1>28 DEF FinishPurge, SetStatus, EraseSucceeds, Continue, Sweep, Idle, workerVars
<1>29. ASSUME PurgeRaises PROVE PublishInv'
  BY <1>29 DEF PurgeRaises, SetStatus, EraseRaises, Continue, Sweep, Idle, workerVars
<1>30. ASSUME CrashMaintenance PROVE PublishInv'
  BY <1>30 DEF CrashMaintenance, Idle, Sweep, rowVars, workerVars
<1>31. ASSUME ScheduleChanges PROVE PublishInv'
  BY <1>31 DEF ScheduleChanges, rowVars, workerVars
<1>32. ASSUME UNCHANGED vars PROVE PublishInv'
  BY <1>32 DEF vars
<1> QED
  BY <1>1, <1>2, <1>3, <1>4, <1>5, <1>6, <1>7, <1>8, <1>9, <1>10, <1>11, <1>12, <1>13,
     <1>14, <1>15, <1>16, <1>17, <1>18, <1>19, <1>20, <1>21, <1>22, <1>23, <1>24, <1>25,
     <1>26, <1>27, <1>28, <1>29, <1>30, <1>31, <1>32,
     <1>33, <1>34
     DEF Next, WorkerStep, RetentionStep

(* Without "slow", stale recovery only has rows that no worker holds. *)
LEMMA LiveStep ==
  ASSUME "slow" \notin Faults
  PROVE  TypeOK /\ JobInv /\ ClaimedOnce /\ PublishInv /\ LiveInv /\ [Next]_vars
         => LiveInv'
<1> SUFFICES ASSUME TypeOK, JobInv, ClaimedOnce, PublishInv, LiveInv, [Next]_vars
             PROVE  LiveInv'
  OBVIOUS
<1> USE NoneAssumption DEF requestVars, TypeOK, JobInv, ClaimedOnce, PublishInv, Unpublished,
                            InRetention, LiveInv, StatusOf, Early, Busy
<1>1. ASSUME NEW b \in Backups, RequestManualBackup(b) PROVE LiveInv'
  BY <1>1 DEF RequestManualBackup, CreateRow, SetStatus, Active, RunningStatuses
<1>2. ASSUME NEW b \in Backups, BeginReopen(b) PROVE LiveInv'
  BY <1>2 DEF BeginReopen, rowVars, workerVars
<1>33. ASSUME NEW b \in Backups, FinishReopen(b) PROVE LiveInv'
  BY <1>33 DEF FinishReopen, Restorable, rowVars, workerVars
<1>34. ASSUME NEW b \in Backups, AbortReopen(b) PROVE LiveInv'
  BY <1>34 DEF AbortReopen, rowVars, workerVars
<1>3. ASSUME NEW b \in Backups, CloseRestore(b) PROVE LiveInv'
  BY <1>3 DEF CloseRestore, rowVars, workerVars, RunningStatuses
<1>4. ASSUME NEW b \in Backups, DeleteBackup(b) PROVE LiveInv'
  BY <1>4 DEF DeleteBackup, SetStatus, workerVars, RunningStatuses
<1>5. ASSUME NEW b \in Backups, FinishDelete(b) PROVE LiveInv'
  BY <1>5 DEF FinishDelete, SetStatus, EraseSucceeds, workerVars, RunningStatuses
<1>6. ASSUME NEW b \in Backups, DeleteRaises(b) PROVE LiveInv'
  BY <1>6 DEF DeleteRaises, SetStatus, EraseRaises, workerVars, RunningStatuses
<1>7. ASSUME NEW b \in Backups, CrashDelete(b) PROVE LiveInv'
  BY <1>7 DEF CrashDelete, rowVars, workerVars, RunningStatuses
<1>8. ASSUME NEW b \in Backups, RecoverStale(b) PROVE LiveInv'
  BY <1>8
     DEF RecoverStale, SetStatus, Continue, Sweep, Idle, workerVars, RunningStatuses
<1>9. ASSUME NEW b \in Backups, QueueScheduled(b) PROVE LiveInv'
  BY <1>9 DEF QueueScheduled, CreateRow, SetStatus, Active, workerVars, RunningStatuses
<1>10. ASSUME NEW b \in Backups, Expire(b) PROVE LiveInv'
  BY <1>10 DEF Expire, workerVars, RunningStatuses
<1>11. ASSUME NEW b \in Backups, SkipRequired(b) PROVE LiveInv'
  BY <1>11 DEF SkipRequired, Continue, Sweep, Idle, rowVars, workerVars, RunningStatuses
<1>12. ASSUME NEW b \in Backups, CheckCandidate(b) PROVE LiveInv'
  BY <1>12 DEF CheckCandidate, Sweep, rowVars, workerVars, RunningStatuses
<1>13. ASSUME NEW b \in Backups, NEW s \in Backups, RequestRestore(b, s) PROVE LiveInv'
  BY <1>13 DEF RequestRestore, workerVars, CreateRow, SetStatus, Active, Restorable, RunningStatuses
<1>14. ASSUME NEW w \in Workers, NEW b \in Backups, Claim(w, b) PROVE LiveInv'
  BY <1>14 DEF Claim, SetStatus, RunningStatuses
<1>15. ASSUME NEW w \in Workers, StartDump(w) PROVE LiveInv'
  BY <1>15 DEF StartDump, Step, SetStatus, RunningStatuses
<1>16. ASSUME NEW w \in Workers, FinishDump(w) PROVE LiveInv'
  BY <1>16 DEF FinishDump, Step, SetStatus, RunningStatuses
<1>17. ASSUME NEW w \in Workers, Upload(w) PROVE LiveInv'
  BY <1>17 DEF Upload, Step, RunningStatuses
<1>18. ASSUME NEW w \in Workers, RecordKey(w) PROVE LiveInv'
  BY <1>18 DEF RecordKey, Step, SetStatus, RunningStatuses
<1>19. ASSUME NEW w \in Workers, Verify(w) PROVE LiveInv'
  BY <1>19 DEF Verify, Step, rowVars, RunningStatuses
<1>20. ASSUME NEW w \in Workers, RejectUpload(w) PROVE LiveInv'
  BY <1>20 DEF RejectUpload, Step, SetStatus, RunningStatuses
<1>21. ASSUME NEW w \in Workers, Publish(w) PROVE LiveInv'
  BY <1>21 DEF Publish, Step, SetStatus, RunningStatuses
<1>22. ASSUME NEW w \in Workers, MarkScheduledCompleted(w) PROVE LiveInv'
  BY <1>22 DEF MarkScheduledCompleted, Step, rowVars, RunningStatuses
<1>23. ASSUME NEW w \in Workers, FailBackup(w) PROVE LiveInv'
  BY <1>23 DEF FailBackup, Step, SetStatus, Busy, RunningStatuses
<1>24. ASSUME NEW w \in Workers, CrashWorker(w) PROVE LiveInv'
  BY <1>24 DEF CrashWorker, Step, Busy, rowVars, RunningStatuses
<1>25. ASSUME BeginStaleRecovery PROVE LiveInv'
  BY <1>25 DEF BeginStaleRecovery, Stale, Sweep, rowVars, workerVars, RunningStatuses
<1>26. ASSUME BeginRetention PROVE LiveInv'
  <2>1. PICK rows \in SUBSET Backups :
          /\ sweep' = Sweep("check", rows, None)
          /\ \A b \in rows : status[b] \in {"available", "deleting"}
    BY <1>26, RetentionRows
  <2>2. sweep.phase = "idle" /\ ("overlap" \in Faults \/ erasing = {})
    BY <1>26 DEF BeginRetention, BeginRetentionOf
  <2>3. UNCHANGED <<status, scheduled, keyed, expired, object, source, open, retrying, blind, due,
                    stage, job, erasing>>
    BY <1>26 DEF BeginRetention, BeginRetentionOf, rowVars, workerVars
  <2> QED
    BY <2>1, <2>2, <2>3 DEF Sweep
<1>27. ASSUME MarkDeleting PROVE LiveInv'
  BY <1>27 DEF MarkDeleting, SetStatus, workerVars, RunningStatuses
<1>28. ASSUME FinishPurge PROVE LiveInv'
  BY <1>28
     DEF FinishPurge, SetStatus, EraseSucceeds, Continue, Sweep, Idle, workerVars,
         RunningStatuses
<1>29. ASSUME PurgeRaises PROVE LiveInv'
  BY <1>29
     DEF PurgeRaises, SetStatus, EraseRaises, Continue, Sweep, Idle, workerVars,
         RunningStatuses
<1>30. ASSUME CrashMaintenance PROVE LiveInv'
  BY <1>30 DEF CrashMaintenance, Idle, Sweep, rowVars, workerVars, RunningStatuses
<1>31. ASSUME ScheduleChanges PROVE LiveInv'
  BY <1>31 DEF ScheduleChanges, rowVars, workerVars, RunningStatuses
<1>32. ASSUME UNCHANGED vars PROVE LiveInv'
  BY <1>32 DEF vars, RunningStatuses
<1> QED
  BY <1>1, <1>2, <1>3, <1>4, <1>5, <1>6, <1>7, <1>8, <1>9, <1>10, <1>11, <1>12, <1>13,
     <1>14, <1>15, <1>16, <1>17, <1>18, <1>19, <1>20, <1>21, <1>22, <1>23, <1>24, <1>25,
     <1>26, <1>27, <1>28, <1>29, <1>30, <1>31, <1>32,
     <1>33, <1>34
     DEF Next, WorkerStep, RetentionStep

(* A row becomes active only by CreateRow, which finds no other active row;
   a worker that is taken for dead could reactivate its row. *)
LEMMA ActiveStep ==
  ASSUME "slow" \notin Faults
  PROVE  TypeOK /\ JobInv /\ ClaimedOnce /\ PublishInv /\ LiveInv /\ OneActiveBackup
         /\ [Next]_vars => OneActiveBackup'
<1> SUFFICES ASSUME TypeOK, JobInv, ClaimedOnce, PublishInv, LiveInv,
                    OneActiveBackup, [Next]_vars
             PROVE  OneActiveBackup'
  OBVIOUS
<1> USE NoneAssumption DEF requestVars, TypeOK, JobInv, LiveInv, StatusOf, Early, Busy, Active,
                           OneActiveBackup, ActiveStatuses, RunningStatuses
<1>1. ASSUME NEW b \in Backups, RequestManualBackup(b) PROVE OneActiveBackup'
  BY <1>1 DEF RequestManualBackup, CreateRow, SetStatus, Active
<1>2. ASSUME NEW b \in Backups, BeginReopen(b) PROVE OneActiveBackup'
  BY <1>2 DEF BeginReopen, rowVars, workerVars
<1>33. ASSUME NEW b \in Backups, FinishReopen(b) PROVE OneActiveBackup'
  BY <1>33 DEF FinishReopen, Restorable, rowVars, workerVars
<1>34. ASSUME NEW b \in Backups, AbortReopen(b) PROVE OneActiveBackup'
  BY <1>34 DEF AbortReopen, rowVars, workerVars
<1>3. ASSUME NEW b \in Backups, CloseRestore(b) PROVE OneActiveBackup'
  BY <1>3 DEF CloseRestore, rowVars, workerVars
<1>4. ASSUME NEW b \in Backups, DeleteBackup(b) PROVE OneActiveBackup'
  BY <1>4 DEF DeleteBackup, SetStatus, workerVars
<1>5. ASSUME NEW b \in Backups, FinishDelete(b) PROVE OneActiveBackup'
  BY <1>5 DEF FinishDelete, SetStatus, EraseSucceeds, workerVars
<1>6. ASSUME NEW b \in Backups, DeleteRaises(b) PROVE OneActiveBackup'
  BY <1>6 DEF DeleteRaises, SetStatus, EraseRaises, workerVars
<1>7. ASSUME NEW b \in Backups, CrashDelete(b) PROVE OneActiveBackup'
  BY <1>7 DEF CrashDelete, rowVars, workerVars
<1>8. ASSUME NEW b \in Backups, RecoverStale(b) PROVE OneActiveBackup'
  BY <1>8 DEF RecoverStale, SetStatus, Continue, Sweep, Idle, workerVars
<1>9. ASSUME NEW b \in Backups, QueueScheduled(b) PROVE OneActiveBackup'
  BY <1>9 DEF QueueScheduled, CreateRow, SetStatus, Active, workerVars
<1>10. ASSUME NEW b \in Backups, Expire(b) PROVE OneActiveBackup'
  BY <1>10 DEF Expire, workerVars
<1>11. ASSUME NEW b \in Backups, SkipRequired(b) PROVE OneActiveBackup'
  BY <1>11 DEF SkipRequired, Continue, Sweep, Idle, rowVars, workerVars
<1>12. ASSUME NEW b \in Backups, CheckCandidate(b) PROVE OneActiveBackup'
  BY <1>12 DEF CheckCandidate, Sweep, rowVars, workerVars
<1>13. ASSUME NEW b \in Backups, NEW s \in Backups, RequestRestore(b, s) PROVE OneActiveBackup'
  BY <1>13 DEF RequestRestore, workerVars, CreateRow, SetStatus, Active, Restorable
<1>14. ASSUME NEW w \in Workers, NEW b \in Backups, Claim(w, b) PROVE OneActiveBackup'
  BY <1>14 DEF Claim, SetStatus
<1>15. ASSUME NEW w \in Workers, StartDump(w) PROVE OneActiveBackup'
  BY <1>15 DEF StartDump, Step, SetStatus
<1>16. ASSUME NEW w \in Workers, FinishDump(w) PROVE OneActiveBackup'
  BY <1>16 DEF FinishDump, Step, SetStatus
<1>17. ASSUME NEW w \in Workers, Upload(w) PROVE OneActiveBackup'
  BY <1>17 DEF Upload, Step
<1>18. ASSUME NEW w \in Workers, RecordKey(w) PROVE OneActiveBackup'
  BY <1>18 DEF RecordKey, Step, SetStatus
<1>19. ASSUME NEW w \in Workers, Verify(w) PROVE OneActiveBackup'
  BY <1>19 DEF Verify, Step, rowVars
<1>20. ASSUME NEW w \in Workers, RejectUpload(w) PROVE OneActiveBackup'
  BY <1>20 DEF RejectUpload, Step, SetStatus
<1>21. ASSUME NEW w \in Workers, Publish(w) PROVE OneActiveBackup'
  BY <1>21 DEF Publish, Step, SetStatus
<1>22. ASSUME NEW w \in Workers, MarkScheduledCompleted(w) PROVE OneActiveBackup'
  BY <1>22 DEF MarkScheduledCompleted, Step, rowVars
<1>23. ASSUME NEW w \in Workers, FailBackup(w) PROVE OneActiveBackup'
  BY <1>23 DEF FailBackup, Step, SetStatus, Busy
<1>24. ASSUME NEW w \in Workers, CrashWorker(w) PROVE OneActiveBackup'
  BY <1>24 DEF CrashWorker, Step, Busy, rowVars
<1>25. ASSUME BeginStaleRecovery PROVE OneActiveBackup'
  BY <1>25 DEF BeginStaleRecovery, Stale, Sweep, rowVars, workerVars
<1>26. ASSUME BeginRetention PROVE OneActiveBackup'
  <2>1. PICK rows \in SUBSET Backups :
          /\ sweep' = Sweep("check", rows, None)
          /\ \A b \in rows : status[b] \in {"available", "deleting"}
    BY <1>26, RetentionRows
  <2>2. sweep.phase = "idle" /\ ("overlap" \in Faults \/ erasing = {})
    BY <1>26 DEF BeginRetention, BeginRetentionOf
  <2>3. UNCHANGED <<status, scheduled, keyed, expired, object, source, open, retrying, blind, due,
                    stage, job, erasing>>
    BY <1>26 DEF BeginRetention, BeginRetentionOf, rowVars, workerVars
  <2> QED
    BY <2>1, <2>2, <2>3 DEF Sweep
<1>27. ASSUME MarkDeleting PROVE OneActiveBackup'
  BY <1>27 DEF MarkDeleting, SetStatus, workerVars
<1>28. ASSUME FinishPurge PROVE OneActiveBackup'
  BY <1>28 DEF FinishPurge, SetStatus, EraseSucceeds, Continue, Sweep, Idle, workerVars
<1>29. ASSUME PurgeRaises PROVE OneActiveBackup'
  BY <1>29 DEF PurgeRaises, SetStatus, EraseRaises, Continue, Sweep, Idle, workerVars
<1>30. ASSUME CrashMaintenance PROVE OneActiveBackup'
  BY <1>30 DEF CrashMaintenance, Idle, Sweep, rowVars, workerVars
<1>31. ASSUME ScheduleChanges PROVE OneActiveBackup'
  BY <1>31 DEF ScheduleChanges, rowVars, workerVars
<1>32. ASSUME UNCHANGED vars PROVE OneActiveBackup'
  BY <1>32 DEF vars
<1> QED
  BY <1>1, <1>2, <1>3, <1>4, <1>5, <1>6, <1>7, <1>8, <1>9, <1>10, <1>11, <1>12, <1>13,
     <1>14, <1>15, <1>16, <1>17, <1>18, <1>19, <1>20, <1>21, <1>22, <1>23, <1>24, <1>25,
     <1>26, <1>27, <1>28, <1>29, <1>30, <1>31, <1>32,
     <1>33, <1>34
     DEF Next, WorkerStep, RetentionStep

(* Without "overlap", nobody turns to a row that another has in hand. *)
LEMMA HandsStep ==
  ASSUME "overlap" \notin Faults
  PROVE  TypeOK /\ JobInv /\ ClaimedOnce /\ PublishInv /\ RowInv /\ HandsInv /\ [Next]_vars
         => (RowInv /\ HandsInv)'
<1> SUFFICES ASSUME TypeOK, JobInv, ClaimedOnce, PublishInv, RowInv, HandsInv, [Next]_vars
             PROVE  (RowInv /\ HandsInv)'
  OBVIOUS
<1> USE NoneAssumption DEF requestVars, TypeOK, JobInv, ClaimedOnce, PublishInv, Unpublished,
                           InRetention, HandsInv, RowInv, Required, Needed, Early, Busy
<1>1. ASSUME NEW b \in Backups, RequestManualBackup(b) PROVE (RowInv /\ HandsInv)'
  BY <1>1 DEF RequestManualBackup, CreateRow, SetStatus, Active
<1>2. ASSUME NEW b \in Backups, BeginReopen(b) PROVE (RowInv /\ HandsInv)'
  BY <1>2 DEF BeginReopen, rowVars, workerVars
<1>33. ASSUME NEW b \in Backups, FinishReopen(b) PROVE (RowInv /\ HandsInv)'
  BY <1>33 DEF FinishReopen, Restorable, rowVars, workerVars
<1>34. ASSUME NEW b \in Backups, AbortReopen(b) PROVE (RowInv /\ HandsInv)'
  BY <1>34 DEF AbortReopen, rowVars, workerVars
<1>3. ASSUME NEW b \in Backups, CloseRestore(b) PROVE (RowInv /\ HandsInv)'
  BY <1>3 DEF CloseRestore, rowVars, workerVars
<1>4. ASSUME NEW b \in Backups, DeleteBackup(b) PROVE (RowInv /\ HandsInv)'
  BY <1>4 DEF DeleteBackup, SetStatus, workerVars
<1>5. ASSUME NEW b \in Backups, FinishDelete(b) PROVE (RowInv /\ HandsInv)'
  BY <1>5 DEF FinishDelete, SetStatus, EraseSucceeds, workerVars
<1>6. ASSUME NEW b \in Backups, DeleteRaises(b) PROVE (RowInv /\ HandsInv)'
  BY <1>6 DEF DeleteRaises, SetStatus, EraseRaises, workerVars
<1>7. ASSUME NEW b \in Backups, CrashDelete(b) PROVE (RowInv /\ HandsInv)'
  BY <1>7 DEF CrashDelete, rowVars, workerVars
<1>8. ASSUME NEW b \in Backups, RecoverStale(b) PROVE (RowInv /\ HandsInv)'
  BY <1>8 DEF RecoverStale, SetStatus, Continue, Sweep, Idle, workerVars
<1>9. ASSUME NEW b \in Backups, QueueScheduled(b) PROVE (RowInv /\ HandsInv)'
  BY <1>9 DEF QueueScheduled, CreateRow, SetStatus, Active, workerVars
<1>10. ASSUME NEW b \in Backups, Expire(b) PROVE (RowInv /\ HandsInv)'
  BY <1>10 DEF Expire, workerVars
<1>11. ASSUME NEW b \in Backups, SkipRequired(b) PROVE (RowInv /\ HandsInv)'
  BY <1>11 DEF SkipRequired, Continue, Sweep, Idle, rowVars, workerVars
<1>12. ASSUME NEW b \in Backups, CheckCandidate(b) PROVE (RowInv /\ HandsInv)'
  BY <1>12 DEF CheckCandidate, Sweep, rowVars, workerVars
<1>13. ASSUME NEW b \in Backups, NEW s \in Backups, RequestRestore(b, s) PROVE (RowInv /\ HandsInv)'
  BY <1>13 DEF RequestRestore, workerVars, CreateRow, SetStatus, Active, Restorable
<1>14. ASSUME NEW w \in Workers, NEW b \in Backups, Claim(w, b) PROVE (RowInv /\ HandsInv)'
  BY <1>14 DEF Claim, SetStatus
<1>15. ASSUME NEW w \in Workers, StartDump(w) PROVE (RowInv /\ HandsInv)'
  BY <1>15 DEF StartDump, Step, SetStatus
<1>16. ASSUME NEW w \in Workers, FinishDump(w) PROVE (RowInv /\ HandsInv)'
  BY <1>16 DEF FinishDump, Step, SetStatus
<1>17. ASSUME NEW w \in Workers, Upload(w) PROVE (RowInv /\ HandsInv)'
  <2>1. PICK copy \in {"corrupt", "good"} : object' = [object EXCEPT ![job[w]] = copy]
    BY <1>17 DEF Upload
  <2> QED
    BY <1>17, <2>1 DEF Upload, Step
<1>18. ASSUME NEW w \in Workers, RecordKey(w) PROVE (RowInv /\ HandsInv)'
  BY <1>18 DEF RecordKey, Step, SetStatus
<1>19. ASSUME NEW w \in Workers, Verify(w) PROVE (RowInv /\ HandsInv)'
  BY <1>19 DEF Verify, Step, rowVars
<1>20. ASSUME NEW w \in Workers, RejectUpload(w) PROVE (RowInv /\ HandsInv)'
  BY <1>20 DEF RejectUpload, Step, SetStatus
<1>21. ASSUME NEW w \in Workers, Publish(w) PROVE (RowInv /\ HandsInv)'
  BY <1>21 DEF Publish, Step, SetStatus
<1>22. ASSUME NEW w \in Workers, MarkScheduledCompleted(w) PROVE (RowInv /\ HandsInv)'
  BY <1>22 DEF MarkScheduledCompleted, Step, rowVars
<1>23. ASSUME NEW w \in Workers, FailBackup(w) PROVE (RowInv /\ HandsInv)'
  BY <1>23 DEF FailBackup, Step, SetStatus, Busy
<1>24. ASSUME NEW w \in Workers, CrashWorker(w) PROVE (RowInv /\ HandsInv)'
  BY <1>24 DEF CrashWorker, Step, Busy, rowVars
<1>25. ASSUME BeginStaleRecovery PROVE (RowInv /\ HandsInv)'
  BY <1>25 DEF BeginStaleRecovery, Stale, Sweep, rowVars, workerVars
<1>26. ASSUME BeginRetention PROVE (RowInv /\ HandsInv)'
  <2>1. PICK rows \in SUBSET Backups :
          /\ sweep' = Sweep("check", rows, None)
          /\ \A b \in rows : status[b] \in {"available", "deleting"}
    BY <1>26, RetentionRows
  <2>2. sweep.phase = "idle" /\ ("overlap" \in Faults \/ erasing = {})
    BY <1>26 DEF BeginRetention, BeginRetentionOf
  <2>3. UNCHANGED <<status, scheduled, keyed, expired, object, source, open, retrying, blind, due,
                    stage, job, erasing>>
    BY <1>26 DEF BeginRetention, BeginRetentionOf, rowVars, workerVars
  <2> QED
    BY <2>1, <2>2, <2>3 DEF Sweep
<1>27. ASSUME MarkDeleting PROVE (RowInv /\ HandsInv)'
  BY <1>27 DEF MarkDeleting, SetStatus, workerVars
<1>28. ASSUME FinishPurge PROVE (RowInv /\ HandsInv)'
  BY <1>28 DEF FinishPurge, SetStatus, EraseSucceeds, Continue, Sweep, Idle, workerVars
<1>29. ASSUME PurgeRaises PROVE (RowInv /\ HandsInv)'
  BY <1>29 DEF PurgeRaises, SetStatus, EraseRaises, Continue, Sweep, Idle, workerVars
<1>30. ASSUME CrashMaintenance PROVE (RowInv /\ HandsInv)'
  BY <1>30 DEF CrashMaintenance, Idle, Sweep, rowVars, workerVars
<1>31. ASSUME ScheduleChanges PROVE (RowInv /\ HandsInv)'
  BY <1>31 DEF ScheduleChanges, rowVars, workerVars
<1>32. ASSUME UNCHANGED vars PROVE (RowInv /\ HandsInv)'
  BY <1>32 DEF vars
<1> QED
  BY <1>1, <1>2, <1>3, <1>4, <1>5, <1>6, <1>7, <1>8, <1>9, <1>10, <1>11, <1>12, <1>13,
     <1>14, <1>15, <1>16, <1>17, <1>18, <1>19, <1>20, <1>21, <1>22, <1>23, <1>24, <1>25,
     <1>26, <1>27, <1>28, <1>29, <1>30, <1>31, <1>32,
     <1>33, <1>34
     DEF Next, WorkerStep, RetentionStep

(* All the parts hold in the beginning. *)
LEMMA RestInit ==
  Init => /\ ClaimedOnce /\ PublishInv /\ LiveInv /\ OneActiveBackup
          /\ RowInv /\ HandsInv
<1> SUFFICES ASSUME Init
             PROVE  /\ ClaimedOnce /\ PublishInv /\ LiveInv /\ OneActiveBackup
                    /\ RowInv /\ HandsInv
  OBVIOUS
<1> QED
  BY NoneAssumption
     DEF Init, ClaimedOnce, Busy, PublishInv, Unpublished, InRetention, Early,
         LiveInv, OneActiveBackup, Active, ActiveStatuses, RunningStatuses,
         RowInv, HandsInv, Needed, Sweep, Idle

-----------------------------------------------------------------------------
(* Every variable keeps its type, whatever the environment does: the rows a
   worker or the maintenance command works on are rows of the tenant.       *)
THEOREM TypeCorrect == Spec => []TypeOK
<1>1. TypeOK /\ JobInv /\ [Next]_vars => (TypeOK /\ JobInv)'
  BY TypeStep, JobStep
<1> QED
  BY <1>1, TypeInit, PTL DEF Spec

(* However many workers poll, whatever maintenance, deletions, crashes and
   retries do to the rows: run_backup's claim gives a row to one worker only. *)
THEOREM ClaimIsExclusive == Spec => []ClaimedOnce
<1>1. TypeOK /\ JobInv /\ ClaimedOnce /\ [Next]_vars
      => (TypeOK /\ JobInv /\ ClaimedOnce)'
  BY TypeStep, JobStep, ClaimStep
<1>2. Init => ClaimedOnce
  BY RestInit
<1> QED
  BY <1>1, <1>2, TypeInit, PTL DEF Spec

Base == TypeOK /\ JobInv /\ ClaimedOnce /\ PublishInv

(* What every later result rests on. *)
LEMMA BaseCorrect == Spec => []Base
<1>1. Init => Base
  BY TypeInit, RestInit DEF Base
<1>2. Base /\ [Next]_vars => Base'
  BY TypeStep, JobStep, ClaimStep, PublishStep DEF Base
<1> QED
  BY <1>1, <1>2, PTL DEF Spec

(* No backup is AVAILABLE on top of an object that differs from its dump,
   under every fault: run_backup's verification cannot be overtaken by a late
   save of maintenance, of a purge that raised or of another worker.        *)
THEOREM OfferedIsVerified == Spec => []OnlyVerifiedOffered
<1>1. Base => OnlyVerifiedOffered
  BY DEF Base, PublishInv, Unpublished, OnlyVerifiedOffered
<1> QED
  BY <1>1, BaseCorrect, PTL

(* request_backup's "already in progress" holds for the workers too: as long
   as maintenance never takes a live worker for dead, a tenant has at most
   one backup in progress.                                                  *)
THEOREM OneActive ==
  ASSUME "slow" \notin Faults
  PROVE  Spec => []OneActiveBackup
<1> DEFINE Inv == Base /\ LiveInv /\ OneActiveBackup
<1>1. Init => Inv
  BY TypeInit, RestInit DEF Base
<1>2. Inv /\ [Next]_vars => Inv'
  BY TypeStep, JobStep, ClaimStep, PublishStep, LiveStep, ActiveStep DEF Base
<1>3. Inv => OneActiveBackup
  OBVIOUS
<1> HIDE DEF Inv
<1> QED
  BY <1>1, <1>2, <1>3, PTL DEF Spec

(* A row's hands are known as long as retention and the API keep apart. *)
LEMMA HandsCorrect ==
  ASSUME "overlap" \notin Faults
  PROVE  Spec => [](Base /\ RowInv /\ HandsInv)
<1> DEFINE Inv == Base /\ RowInv /\ HandsInv
<1>1. Init => Inv
  BY TypeInit, RestInit DEF Base
<1>2. Inv /\ [Next]_vars => Inv'
  BY TypeStep, JobStep, ClaimStep, PublishStep, HandsStep DEF Base
<1> HIDE DEF Inv
<1>3. Spec => []Inv
  BY <1>1, <1>2, PTL DEF Spec
<1> QED
  BY <1>3 DEF Inv

(* A backup that an active restore request needs is neither deleted nor being
   deleted, through crashes, slow workers and purges that raise, as long as
   no request is committed while retention has the row in hand.             *)
THEOREM RequiredKept ==
  ASSUME "overlap" \notin Faults
  PROVE  Spec => []RequiredBackupsKept
<1>1. Base /\ RowInv /\ HandsInv => RequiredBackupsKept
  BY DEF HandsInv, Needed, RequiredBackupsKept
<1> QED
  BY <1>1, HandsCorrect, PTL

(* The status of a deleted row is overwritten by nobody but a worker that
   fails after it published the row.                                        *)
LEMMA DeletedStep ==
  Base /\ RowInv /\ HandsInv /\ [Next]_vars =>
    \A b \in Backups : status[b] = "deleted" => status'[b] \in {"deleted", "failed"}
<1> DEFINE Goal == \A b \in Backups :
                     status[b] = "deleted" => status'[b] \in {"deleted", "failed"}
<1> SUFFICES ASSUME Base, RowInv, HandsInv, [Next]_vars PROVE Goal
  OBVIOUS
<1> USE NoneAssumption
    DEF requestVars, Base, TypeOK, JobInv, PublishInv, Unpublished, InRetention, HandsInv, RowInv,
        Early, Busy
<1>1. ASSUME NEW b \in Backups, RequestManualBackup(b) PROVE Goal
  BY <1>1 DEF RequestManualBackup, CreateRow, SetStatus, Active
<1>2. ASSUME NEW b \in Backups, BeginReopen(b) PROVE Goal
  BY <1>2 DEF BeginReopen, rowVars, workerVars
<1>33. ASSUME NEW b \in Backups, FinishReopen(b) PROVE Goal
  BY <1>33 DEF FinishReopen, Restorable, rowVars, workerVars
<1>34. ASSUME NEW b \in Backups, AbortReopen(b) PROVE Goal
  BY <1>34 DEF AbortReopen, rowVars, workerVars
<1>3. ASSUME NEW b \in Backups, CloseRestore(b) PROVE Goal
  BY <1>3 DEF CloseRestore, rowVars, workerVars
<1>4. ASSUME NEW b \in Backups, DeleteBackup(b) PROVE Goal
  BY <1>4 DEF DeleteBackup, SetStatus, workerVars
<1>5. ASSUME NEW b \in Backups, FinishDelete(b) PROVE Goal
  BY <1>5 DEF FinishDelete, SetStatus, EraseSucceeds, workerVars
<1>6. ASSUME NEW b \in Backups, DeleteRaises(b) PROVE Goal
  BY <1>6 DEF DeleteRaises, SetStatus, EraseRaises, workerVars
<1>7. ASSUME NEW b \in Backups, CrashDelete(b) PROVE Goal
  BY <1>7 DEF CrashDelete, rowVars, workerVars
<1>8. ASSUME NEW b \in Backups, RecoverStale(b) PROVE Goal
  BY <1>8 DEF RecoverStale, SetStatus, Continue, Sweep, Idle, workerVars
<1>9. ASSUME NEW b \in Backups, QueueScheduled(b) PROVE Goal
  BY <1>9 DEF QueueScheduled, CreateRow, SetStatus, Active, workerVars
<1>10. ASSUME NEW b \in Backups, Expire(b) PROVE Goal
  BY <1>10 DEF Expire, workerVars
<1>11. ASSUME NEW b \in Backups, SkipRequired(b) PROVE Goal
  BY <1>11 DEF SkipRequired, Continue, Sweep, Idle, rowVars, workerVars
<1>12. ASSUME NEW b \in Backups, CheckCandidate(b) PROVE Goal
  BY <1>12 DEF CheckCandidate, Sweep, rowVars, workerVars
<1>13. ASSUME NEW b \in Backups, NEW s \in Backups, RequestRestore(b, s) PROVE Goal
  BY <1>13 DEF RequestRestore, workerVars, CreateRow, SetStatus, Active, Restorable
<1>14. ASSUME NEW w \in Workers, NEW b \in Backups, Claim(w, b) PROVE Goal
  BY <1>14 DEF Claim, SetStatus
<1>15. ASSUME NEW w \in Workers, StartDump(w) PROVE Goal
  BY <1>15 DEF StartDump, Step, SetStatus
<1>16. ASSUME NEW w \in Workers, FinishDump(w) PROVE Goal
  BY <1>16 DEF FinishDump, Step, SetStatus
<1>17. ASSUME NEW w \in Workers, Upload(w) PROVE Goal
  <2>1. PICK copy \in {"corrupt", "good"} : object' = [object EXCEPT ![job[w]] = copy]
    BY <1>17 DEF Upload
  <2> QED
    BY <1>17, <2>1 DEF Upload, Step
<1>18. ASSUME NEW w \in Workers, RecordKey(w) PROVE Goal
  BY <1>18 DEF RecordKey, Step, SetStatus
<1>19. ASSUME NEW w \in Workers, Verify(w) PROVE Goal
  BY <1>19 DEF Verify, Step, rowVars
<1>20. ASSUME NEW w \in Workers, RejectUpload(w) PROVE Goal
  BY <1>20 DEF RejectUpload, Step, SetStatus
<1>21. ASSUME NEW w \in Workers, Publish(w) PROVE Goal
  BY <1>21 DEF Publish, Step, SetStatus
<1>22. ASSUME NEW w \in Workers, MarkScheduledCompleted(w) PROVE Goal
  BY <1>22 DEF MarkScheduledCompleted, Step, rowVars
<1>23. ASSUME NEW w \in Workers, FailBackup(w) PROVE Goal
  BY <1>23 DEF FailBackup, Step, SetStatus, Busy
<1>24. ASSUME NEW w \in Workers, CrashWorker(w) PROVE Goal
  BY <1>24 DEF CrashWorker, Step, Busy, rowVars
<1>25. ASSUME BeginStaleRecovery PROVE Goal
  BY <1>25 DEF BeginStaleRecovery, Stale, Sweep, rowVars, workerVars
<1>26. ASSUME BeginRetention PROVE Goal
  <2>1. PICK rows \in SUBSET Backups :
          /\ sweep' = Sweep("check", rows, None)
          /\ \A b \in rows : status[b] \in {"available", "deleting"}
    BY <1>26, RetentionRows
  <2>2. sweep.phase = "idle" /\ ("overlap" \in Faults \/ erasing = {})
    BY <1>26 DEF BeginRetention, BeginRetentionOf
  <2>3. UNCHANGED <<status, scheduled, keyed, expired, object, source, open, retrying, blind, due,
                    stage, job, erasing>>
    BY <1>26 DEF BeginRetention, BeginRetentionOf, rowVars, workerVars
  <2> QED
    BY <2>1, <2>2, <2>3 DEF Sweep
<1>27. ASSUME MarkDeleting PROVE Goal
  BY <1>27 DEF MarkDeleting, SetStatus, workerVars
<1>28. ASSUME FinishPurge PROVE Goal
  BY <1>28 DEF FinishPurge, SetStatus, EraseSucceeds, Continue, Sweep, Idle, workerVars
<1>29. ASSUME PurgeRaises PROVE Goal
  BY <1>29 DEF PurgeRaises, SetStatus, EraseRaises, Continue, Sweep, Idle, workerVars
<1>30. ASSUME CrashMaintenance PROVE Goal
  BY <1>30 DEF CrashMaintenance, Idle, Sweep, rowVars, workerVars
<1>31. ASSUME ScheduleChanges PROVE Goal
  BY <1>31 DEF ScheduleChanges, rowVars, workerVars
<1>32. ASSUME UNCHANGED vars PROVE Goal
  BY <1>32 DEF vars
<1> QED
  BY <1>1, <1>2, <1>3, <1>4, <1>5, <1>6, <1>7, <1>8, <1>9, <1>10, <1>11, <1>12, <1>13,
     <1>14, <1>15, <1>16, <1>17, <1>18, <1>19, <1>20, <1>21, <1>22, <1>23, <1>24, <1>25,
     <1>26, <1>27, <1>28, <1>29, <1>30, <1>31, <1>32,
     <1>33, <1>34
     DEF Next, WorkerStep, RetentionStep

(* A deleted backup is never offered again. *)
THEOREM DeletedStaysDeleted ==
  ASSUME "overlap" \notin Faults
  PROVE  Spec => DeletedNeverReturns
<1>1. Base /\ RowInv /\ HandsInv /\ [Next]_vars =>
        [\A b \in Backups : status[b] = "deleted" => status'[b] \in {"deleted", "failed"}]_status
  BY DeletedStep
<1> QED
  BY <1>1, HandsCorrect, PTL DEF Spec, DeletedNeverReturns
=============================================================================
