--------------------------- MODULE TenantBackups ---------------------------
(***************************************************************************)
(* Backup rows of ONE tenant (backups/services.py): requested through the  *)
(* API, queued by the schedule, run by the always-on backup workers,       *)
(* deleted by a user, failed or purged by the hourly maintenance command.  *)
(* Rows of different tenants meet only in the workers' queue, so one       *)
(* tenant with all of its actors shows every interleaving of its rows.     *)
(*                                                                         *)
(* Every database statement that another actor can see is a step of its    *)
(* own.  Saves are unconditional, as in the code: a Django save() of an    *)
(* object loaded earlier writes its status over whatever the row holds.    *)
(*                                                                         *)
(* A restore request is known here only by the safety backup it created    *)
(* (request_restore creates exactly one); TenantRestore models the rest    *)
(* of it.                                                                  *)
(***************************************************************************)
EXTENDS Naturals, FiniteSets

CONSTANTS
  Backups,        \* TenantBackup rows the tenant may ever get (the bound)
  Workers,        \* backup-worker processes
  MaxScheduled,   \* maximum_retained_scheduled_backups; 0 keeps them all
  Faults,         \* what the environment may do, see BackupFaults
  None

(***************************************************************************)
(* "crash"      a worker or the API process dies between two statements.   *)
(* "cron_crash" the hourly maintenance job dies between two statements.    *)
(* "slow"       a live worker's row is older than                          *)
(*              TENANT_BACKUP_STALE_MINUTES (90): maintenance takes the    *)
(*              worker for dead.                                           *)
(* "lost_ack"   storage.delete removes the object and still raises.        *)
(* "overlap"    while retention has a row in hand, the API deletes it or   *)
(*              commits a restore request that needs it.                   *)
(***************************************************************************)
BackupFaults == {"crash", "cron_crash", "slow", "lost_ack", "overlap"}

ASSUME FaultsAssumption == Faults \subseteq BackupFaults
ASSUME NoneAssumption == None \notin Backups /\ None \notin Workers
ASSUME MaxScheduledAssumption == MaxScheduled \in Nat

VARIABLES
  status,     \* TenantBackup.status, "absent" before the row is created
  scheduled,  \* rows of type SCHEDULED
  keyed,      \* rows whose storage_key is not ""
  expired,    \* rows with expires_at <= now
  object,     \* the artifact in storage: "missing", "corrupt" or "good"
  source,     \* source[s]: the backup restored by the request that created s
  open,       \* safety backups whose restore request is active
  retrying,   \* ... whose failed request a retry has read, not yet committed
  blind,      \* history: open requests whose retry committed when one of
              \* the backups it had found available no longer was
  due,        \* the tenant's next_run_at has passed
  stage,      \* stage[w]: how far run_backup has come in worker w
  job,        \* job[w]: the row w claimed
  erasing,    \* delete_backup calls past their commit, storage not yet done
  sweep       \* the maintenance command: phase, rows still to visit, row at hand

rowVars    == <<status, scheduled, keyed, expired, object>>
workerVars == <<stage, job>>
requestVars == <<source, open, retrying, blind>>
vars == <<status, scheduled, keyed, expired, object, source, open, retrying,
          blind, due, stage, job, erasing, sweep>>

RunningStatuses == {"preparing", "backing_up", "uploading", "verifying"}
ActiveStatuses  == RunningStatuses \cup {"queued"}
Statuses == ActiveStatuses \cup
            {"absent", "available", "failed", "deleting", "deleted"}
Objects  == {"missing", "corrupt", "good"}
Stages   == {"idle", "claimed", "dumping", "uploading", "uploaded",
             "verifying", "verified", "marking"}

Sweep(p, todo, b) == [phase |-> p, todo |-> todo, row |-> b]
Idle == Sweep("idle", {}, None)
Phases == {"idle", "stale", "check", "mark", "erase"}

\* b is on the list, or in the hands, of the running retention phase.
InRetention(b) == sweep.phase \in {"check", "mark", "erase"} /\
                  (b \in sweep.todo \/ b = sweep.row)

Active(b)  == status[b] \in ActiveStatuses
Busy(w)    == stage[w] # "idle"
SetStatus(b, s) == status' = [status EXCEPT ![b] = s]

\* _backup_required_by_active_restore: as source or as safety backup.
Required(b) == b \in open \/ \E s \in open : source[s] = b

\* _validate_tenant_and_backup: AVAILABLE with its storage metadata.
Restorable(b) == status[b] = "available" /\ b \in keyed

Init ==
  /\ status = [b \in Backups |-> "absent"]
  /\ scheduled = {}
  /\ keyed = {}
  /\ expired = {}
  /\ object = [b \in Backups |-> "missing"]
  /\ source = [b \in Backups |-> None]
  /\ open = {}
  /\ retrying = {}
  /\ blind = {}
  /\ due = FALSE
  /\ stage = [w \in Workers |-> "idle"]
  /\ job = [w \in Workers |-> None]
  /\ erasing = {}
  /\ sweep = Idle

-----------------------------------------------------------------------------
(* Requests                                                                *)

\* Mutant: no look at the rows in progress.
CreateRowUnchecked(b) ==
  /\ status[b] = "absent"
  /\ SetStatus(b, "queued")

\* request_backup, under the tenant's row lock.
CreateRow(b) ==
  /\ status[b] = "absent"
  /\ \A c \in Backups : ~Active(c)
  /\ SetStatus(b, "queued")

RequestManualBackup(b) ==
  /\ CreateRow(b)
  /\ UNCHANGED <<scheduled, keyed, expired, object, requestVars, due,
                 stage, job, erasing, sweep>>

\* request_restore(b) with the safety backup s it queues.
RequestRestore(b, s) ==
  /\ Restorable(b)
  /\ open = {}
  /\ "overlap" \in Faults \/ sweep.row # b
  /\ CreateRow(s)
  /\ source' = [source EXCEPT ![s] = b]
  /\ open' = {s}
  /\ UNCHANGED <<scheduled, keyed, expired, object, retrying, blind, due,
                 workerVars, erasing, sweep>>

\* retry_restore of a failed request: both backups must still be available.
\* It locks the row of the request only, not those of the backups, so that a
\* deletion may come between the look and the commit.  (A deletion whose own
\* check and commit enclose that of the retry is one that came in between.)
\* Nothing checks that no other request is active.
BeginReopen(s) ==
  /\ s \notin open \cup retrying
  /\ source[s] # None
  /\ Restorable(s) /\ Restorable(source[s])
  /\ retrying' = retrying \cup {s}
  /\ UNCHANGED <<rowVars, source, open, blind, due, workerVars, erasing, sweep>>

FinishReopen(s) ==
  /\ s \in retrying
  /\ "overlap" \in Faults \/ sweep.row \notin {s, source[s]}
  /\ retrying' = retrying \ {s}
  /\ open' = open \cup {s}
  /\ blind' = IF Restorable(s) /\ Restorable(source[s]) THEN blind
              ELSE blind \cup {s}
  /\ UNCHANGED <<rowVars, source, due, workerVars, erasing, sweep>>

\* The transaction of the retry is rolled back, or its process dies.
AbortReopen(s) ==
  /\ s \in retrying
  /\ retrying' = retrying \ {s}
  /\ UNCHANGED <<rowVars, source, open, blind, due, workerVars, erasing, sweep>>

\* The request completes, fails, is rejected or is found without a usable
\* safety backup.
CloseRestore(s) ==
  /\ s \in open
  /\ open' = open \ {s}
  /\ blind' = blind \ {s}
  /\ UNCHANGED <<rowVars, source, retrying, due, workerVars, erasing, sweep>>

-----------------------------------------------------------------------------
(* run_backup in worker w                                                  *)

Step(w, from, to) ==
  /\ stage[w] = from
  /\ stage' = [stage EXCEPT ![w] = to]
  /\ job' = IF to = "idle" THEN [job EXCEPT ![w] = None] ELSE job

\* Mutant: the claim does not ask whether the row is still QUEUED.
ClaimPolled(w, b) ==
  /\ stage[w] = "idle"
  /\ status[b] \in {"queued", "preparing"}
  /\ SetStatus(b, "preparing")
  /\ stage' = [stage EXCEPT ![w] = "claimed"]
  /\ job' = [job EXCEPT ![w] = b]
  /\ UNCHANGED <<scheduled, keyed, expired, object, requestVars, due,
                 erasing, sweep>>

\* The conditional UPDATE that moves QUEUED to PREPARING for one worker only.
Claim(w, b) ==
  /\ stage[w] = "idle"
  /\ status[b] = "queued"
  /\ SetStatus(b, "preparing")
  /\ stage' = [stage EXCEPT ![w] = "claimed"]
  /\ job' = [job EXCEPT ![w] = b]
  /\ UNCHANGED <<scheduled, keyed, expired, object, requestVars, due,
                 erasing, sweep>>

\* Mutant: a status that the model field does not know.
StartDumpMisnamed(w) ==
  /\ Step(w, "claimed", "dumping")
  /\ SetStatus(job[w], "dumping")
  /\ UNCHANGED <<scheduled, keyed, expired, object, requestVars, due,
                 erasing, sweep>>

StartDump(w) ==
  /\ Step(w, "claimed", "dumping")
  /\ SetStatus(job[w], "backing_up")
  /\ UNCHANGED <<scheduled, keyed, expired, object, requestVars, due,
                 erasing, sweep>>

FinishDump(w) ==
  /\ Step(w, "dumping", "uploading")
  /\ SetStatus(job[w], "uploading")
  /\ UNCHANGED <<scheduled, keyed, expired, object, requestVars, due,
                 erasing, sweep>>

\* storage.save: the object in storage may differ from the local dump.
Upload(w) ==
  /\ Step(w, "uploading", "uploaded")
  /\ \E copy \in {"corrupt", "good"} :
       object' = [object EXCEPT ![job[w]] = copy]
  /\ UNCHANGED <<status, scheduled, keyed, expired, requestVars, due,
                 erasing, sweep>>

RecordKey(w) ==
  /\ Step(w, "uploaded", "verifying")
  /\ SetStatus(job[w], "verifying")
  /\ keyed' = keyed \cup {job[w]}
  /\ UNCHANGED <<scheduled, expired, object, requestVars, due, erasing, sweep>>

\* Mutant: only the size is compared.
VerifySize(w) ==
  /\ Step(w, "verifying", "verified")
  /\ UNCHANGED <<rowVars, requestVars, due, erasing, sweep>>

\* Size and SHA-256 of the stored object equal those of the dump.
Verify(w) ==
  /\ Step(w, "verifying", "verified")
  /\ object[job[w]] = "good"
  /\ UNCHANGED <<rowVars, requestVars, due, erasing, sweep>>

\* A mismatch deletes the object (the deletion may fail as well), then _fail.
RejectUpload(w) ==
  /\ Step(w, "verifying", "idle")
  /\ object[job[w]] = "corrupt"
  /\ object' \in {object, [object EXCEPT ![job[w]] = "missing"]}
  /\ SetStatus(job[w], "failed")
  /\ UNCHANGED <<scheduled, keyed, expired, requestVars, due, erasing, sweep>>

Publish(w) ==
  /\ Step(w, "verified", IF job[w] \in scheduled THEN "marking" ELSE "idle")
  /\ SetStatus(job[w], "available")
  /\ keyed' = keyed \cup {job[w]}
  /\ UNCHANGED <<scheduled, expired, object, requestVars, due, erasing, sweep>>

\* mark_scheduled_backup_completed: next_run_at moves past completed_at.
MarkScheduledCompleted(w) ==
  /\ Step(w, "marking", "idle")
  /\ due' = FALSE
  /\ UNCHANGED <<rowVars, requestVars, erasing, sweep>>

\* Any exception, also one of mark_scheduled_backup_completed after the row
\* is AVAILABLE: _fail saves FAILED over the row.
FailBackup(w) ==
  /\ Busy(w)
  /\ Step(w, stage[w], "idle")
  /\ SetStatus(job[w], "failed")
  /\ UNCHANGED <<scheduled, keyed, expired, object, requestVars, due,
                 erasing, sweep>>

CrashWorker(w) ==
  /\ "crash" \in Faults
  /\ Busy(w)
  /\ Step(w, stage[w], "idle")
  /\ UNCHANGED <<rowVars, requestVars, due, erasing, sweep>>

-----------------------------------------------------------------------------
(* delete_backup                                                           *)

\* What storage.exists / storage.delete can leave behind when they raise.
EraseRaises(b) ==
  \/ UNCHANGED object
  \/ "lost_ack" \in Faults /\ object' = [object EXCEPT ![b] = "missing"]

\* With a storage_key the object is removed; without one nothing is touched.
EraseSucceeds(b) ==
  object' = IF b \in keyed THEN [object EXCEPT ![b] = "missing"] ELSE object

\* Mutant: the deletion does not ask for active restores.
DeleteUnchecked(b) ==
  /\ status[b] = "available"
  /\ "overlap" \in Faults \/ ~InRetention(b)
  /\ SetStatus(b, "deleting")
  /\ erasing' = erasing \cup {b}
  /\ UNCHANGED <<scheduled, keyed, expired, object, requestVars, due,
                 workerVars, sweep>>

DeleteBackup(b) ==
  /\ status[b] = "available"
  /\ ~Required(b)
  /\ "overlap" \in Faults \/ ~InRetention(b)
  /\ SetStatus(b, "deleting")
  /\ erasing' = erasing \cup {b}
  /\ UNCHANGED <<scheduled, keyed, expired, object, requestVars, due,
                 workerVars, sweep>>

FinishDelete(b) ==
  /\ b \in erasing
  /\ EraseSucceeds(b)
  /\ SetStatus(b, "deleted")
  /\ keyed' = keyed \ {b}
  /\ erasing' = erasing \ {b}
  /\ UNCHANGED <<scheduled, expired, requestVars, due, workerVars, sweep>>

DeleteRaises(b) ==
  /\ b \in erasing
  /\ EraseRaises(b)
  /\ SetStatus(b, "available")
  /\ erasing' = erasing \ {b}
  /\ UNCHANGED <<scheduled, keyed, expired, requestVars, due, workerVars, sweep>>

CrashDelete(b) ==
  /\ "crash" \in Faults
  /\ b \in erasing
  /\ erasing' = erasing \ {b}
  /\ UNCHANGED <<rowVars, requestVars, due, workerVars, sweep>>

-----------------------------------------------------------------------------
(* The maintenance command.  Its flags run each phase on its own, so a     *)
(* phase starts from idle.                                                 *)

\* Mutant: rows under verification are not recovered.
StaleBeforeUpload(b) ==
  /\ status[b] \in RunningStatuses \ {"verifying"}
  /\ "slow" \in Faults \/ \A w \in Workers : job[w] # b

\* recover_stale_backups: the list is evaluated once ...
Stale(b) ==
  /\ status[b] \in RunningStatuses
  /\ "slow" \in Faults \/ \A w \in Workers : job[w] # b

BeginStaleRecovery ==
  /\ sweep.phase = "idle"
  /\ \E b \in Backups : Stale(b)
  /\ \E aged \in SUBSET {b \in Backups : Stale(b)} :
       /\ aged # {}
       /\ sweep' = Sweep("stale", aged, None)
  /\ UNCHANGED <<rowVars, requestVars, due, workerVars, erasing>>

\* Phase p goes on with the rows left, or is over.
Continue(p, left) == IF left = {} THEN Idle ELSE Sweep(p, left, None)

\* ... and each row on it is failed, whatever became of it meanwhile.
RecoverStale(b) ==
  /\ sweep.phase = "stale"
  /\ b \in sweep.todo
  /\ SetStatus(b, "failed")
  /\ sweep' = Continue("stale", sweep.todo \ {b})
  /\ UNCHANGED <<scheduled, keyed, expired, object, requestVars, due,
                 workerVars, erasing>>

\* queue_due_scheduled_backups.  A crash between the commit of the row and
\* the save of next_run_at leaves the schedule due.
QueueScheduled(b) ==
  /\ sweep.phase = "idle"
  /\ due
  /\ CreateRow(b)
  /\ scheduled' = scheduled \cup {b}
  /\ due' = FALSE \/ ("cron_crash" \in Faults /\ due' = due)
  /\ UNCHANGED <<keyed, expired, object, requestVars, workerVars, erasing, sweep>>

\* Scheduled rows beyond the maximum.  Which are kept (the latest completed)
\* is left open.
Surplus ==
  LET kept == {b \in scheduled : status[b] = "available"}
  IN  IF MaxScheduled = 0 THEN {{}}
      ELSE {s \in SUBSET kept :
              Cardinality(kept) = Cardinality(s) +
                IF Cardinality(kept) < MaxScheduled THEN Cardinality(kept)
                                                    ELSE MaxScheduled}

\* The retention phase begins with the surplus and the expired rows in one
\* of these statuses.
BeginRetentionOf(statuses) ==
  /\ sweep.phase = "idle"
  /\ "overlap" \in Faults \/ erasing = {}
  /\ \E surplus \in Surplus :
       LET rows == surplus \cup {b \in expired : status[b] \in statuses}
       IN  rows # {} /\ sweep' = Sweep("check", rows, None)
  /\ UNCHANGED <<rowVars, requestVars, due, workerVars, erasing>>

\* Mutants: any expired row; no row that an earlier purge began to delete.
BeginRetentionOfAny == BeginRetentionOf({"available", "deleting", "deleted"})
BeginRetentionOnce == BeginRetentionOf({"available"})

\* _retention_candidates, evaluated once.
BeginRetention == BeginRetentionOf({"available", "deleting"})

SkipRequired(b) ==
  /\ sweep.phase = "check"
  /\ b \in sweep.todo
  /\ Required(b)
  /\ sweep' = Continue("check", sweep.todo \ {b})
  /\ UNCHANGED <<rowVars, requestVars, due, workerVars, erasing>>

CheckCandidate(b) ==
  /\ sweep.phase = "check"
  /\ b \in sweep.todo
  /\ ~Required(b)
  /\ sweep' = Sweep("mark", sweep.todo \ {b}, b)
  /\ UNCHANGED <<rowVars, requestVars, due, workerVars, erasing>>

\* Neither a lock nor a second look protects the check.
MarkDeleting ==
  /\ sweep.phase = "mark"
  /\ SetStatus(sweep.row, "deleting")
  /\ sweep' = [sweep EXCEPT !.phase = "erase"]
  /\ UNCHANGED <<scheduled, keyed, expired, object, requestVars, due,
                 workerVars, erasing>>

FinishPurge ==
  /\ sweep.phase = "erase"
  /\ EraseSucceeds(sweep.row)
  /\ SetStatus(sweep.row, "deleted")
  /\ keyed' = keyed \ {sweep.row}
  /\ sweep' = Continue("check", sweep.todo)
  /\ UNCHANGED <<scheduled, expired, requestVars, due, workerVars, erasing>>

PurgeRaises ==
  /\ sweep.phase = "erase"
  /\ EraseRaises(sweep.row)
  /\ SetStatus(sweep.row, "available")
  /\ sweep' = Continue("check", sweep.todo)
  /\ UNCHANGED <<scheduled, keyed, expired, requestVars, due, workerVars, erasing>>

CrashMaintenance ==
  /\ "cron_crash" \in Faults
  /\ sweep.phase # "idle"
  /\ sweep' = Idle
  /\ UNCHANGED <<rowVars, requestVars, due, workerVars, erasing>>

-----------------------------------------------------------------------------
(* Time                                                                    *)

Expire(b) ==
  /\ status[b] # "absent"
  /\ b \notin expired
  /\ expired' = expired \cup {b}
  /\ UNCHANGED <<status, scheduled, keyed, object, requestVars, due,
                 workerVars, erasing, sweep>>

\* The clock passes next_run_at, or a policy edit recalculates or clears it.
ScheduleChanges ==
  /\ due' = ~due
  /\ UNCHANGED <<rowVars, requestVars, workerVars, erasing, sweep>>

-----------------------------------------------------------------------------
WorkerStep(w) ==
  \/ StartDump(w) \/ FinishDump(w) \/ Upload(w) \/ RecordKey(w)
  \/ Verify(w) \/ RejectUpload(w) \/ Publish(w)
  \/ MarkScheduledCompleted(w) \/ FailBackup(w)

RetentionStep ==
  \/ \E b \in Backups : SkipRequired(b) \/ CheckCandidate(b)
  \/ MarkDeleting \/ FinishPurge \/ PurgeRaises

Next ==
  \/ \E b \in Backups :
       \/ RequestManualBackup(b)
       \/ \E s \in Backups : RequestRestore(b, s)
       \/ BeginReopen(b) \/ FinishReopen(b) \/ AbortReopen(b)
       \/ CloseRestore(b)
       \/ DeleteBackup(b) \/ FinishDelete(b) \/ DeleteRaises(b) \/ CrashDelete(b)
       \/ RecoverStale(b)
       \/ QueueScheduled(b)
       \/ Expire(b)
  \/ \E w \in Workers :
       \/ \E b \in Backups : Claim(w, b)
       \/ WorkerStep(w)
       \/ CrashWorker(w)
  \/ BeginStaleRecovery \/ BeginRetention \/ RetentionStep \/ CrashMaintenance
  \/ ScheduleChanges

Spec == Init /\ [][Next]_vars

(***************************************************************************)
(* The workers are "Always running" services and are restarted when they   *)
(* die; the maintenance cron runs every hour, all of its phases.  Phases   *)
(* that begin from idle compete, hence strong fairness for the beginnings. *)
(* Nothing is assumed of users, of requests or of storage succeeding, nor  *)
(* of the clock: with retention_days = 0 a row has no expires_at.          *)
(***************************************************************************)
Fairness ==
  /\ \A w \in Workers : WF_vars(\E b \in Backups : Claim(w, b))
                      /\ WF_vars(WorkerStep(w))
  /\ WF_vars(\E b \in Backups : RecoverStale(b))
  /\ WF_vars(RetentionStep)
  /\ SF_vars(BeginStaleRecovery)
  /\ SF_vars(BeginRetention)
  /\ \A b \in Backups : WF_vars(FinishDelete(b) \/ DeleteRaises(b))

FairSpec == Spec /\ Fairness

-----------------------------------------------------------------------------
TypeOK ==
  /\ status \in [Backups -> Statuses]
  /\ scheduled \in SUBSET Backups
  /\ keyed \in SUBSET Backups
  /\ expired \in SUBSET Backups
  /\ object \in [Backups -> Objects]
  /\ source \in [Backups -> Backups \cup {None}]
  /\ open \in SUBSET Backups
  /\ retrying \in SUBSET Backups
  /\ blind \in SUBSET Backups
  /\ due \in BOOLEAN
  /\ stage \in [Workers -> Stages]
  /\ job \in [Workers -> Backups \cup {None}]
  /\ erasing \in SUBSET Backups
  /\ sweep \in [phase : Phases, todo : SUBSET Backups, row : Backups \cup {None}]

\* However many workers poll the queue and whatever maintenance does to the
\* row, no two workers ever run the same backup (run_backup's conditional
\* claim: a row never returns to QUEUED).
ClaimedOnce ==
  \A w, v \in Workers : Busy(w) /\ job[w] = job[v] => w = v

\* request_backup's promise, "A backup is already in progress for this
\* tenant": a tenant never has two backups in progress.  Needs that
\* maintenance never takes a live worker for dead.
OneActiveBackup ==
  \A b, c \in Backups : Active(b) /\ Active(c) => b = c

\* No backup is ever offered for restore on top of an object that differs
\* from the dump, through failures, retries of the purge and late workers.
OnlyVerifiedOffered ==
  \A b \in Backups : status[b] = "available" => object[b] # "corrupt"

\* A backup that an active restore request needs, as source or as safety
\* backup, is neither deleted nor being deleted (delete_backup's refusal,
\* purge_expired_backups's skip, the checks of request_restore and
\* retry_restore).  Not promised to a request whose retry and a deletion have
\* looked past each other (blind): nothing in the code keeps them apart.
RequiredBackupsKept ==
  \A s \in open \ blind, b \in Backups :
    b \in {s, source[s]} => status[b] \notin {"deleting", "deleted"}

\* A deleted backup is never offered again: no late save of the maintenance
\* job, of a deletion that raised or of a worker brings the row back.  (It can
\* turn FAILED, by a worker whose mark_scheduled_backup_completed raises after
\* the row was published and already deleted.)
DeletedNeverReturns ==
  [][\A b \in Backups : status[b] = "deleted" => status'[b] \in {"deleted", "failed"}]_status

\* Every queued backup leaves the active statuses, also when the worker that
\* claimed it dies: stale recovery fails it, and the tenant can back up again.
QueuedSettles ==
  \A b \in Backups : status[b] = "queued" ~> ~Active(b)

\* The process that was deleting b died, and no retention phase will list b
\* for its age.
Orphaned(b) ==
  status[b] = "deleting" /\ b \notin expired \cup erasing /\ sweep.row # b

\* A deletion that was begun is finished or undone, also when the process
\* that began it died, unless an active restore request now needs the row or
\* the row does not expire: _retention_candidates takes up expired rows only.
DeletingResolves ==
  \A b \in Backups :
    status[b] = "deleting" ~> status[b] # "deleting" \/ Required(b) \/ Orphaned(b)
=============================================================================
