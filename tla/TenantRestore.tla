--------------------------- MODULE TenantRestore ---------------------------
(***************************************************************************)
(* Restoring ONE tenant's schema from a backup (backups/restore_services): *)
(* requests decided by people, executed by always-on restore workers that  *)
(* rename, load and drop PostgreSQL schemas, and recovered by the hourly   *)
(* maintenance command when a worker dies.  While a restore runs, a gate on *)
(* the tenant row keeps every user of the workspace out.                   *)
(*                                                                         *)
(* A schema is abstracted to whose data it holds: the tenant's data before *)
(* any restore, the whole archive of a request, or a part of one.  The two *)
(* backups of a request appear as what the restore code asks of them;      *)
(* TenantBackups models how they come to be so.                            *)
(***************************************************************************)
EXTENDS Naturals, FiniteSets

CONSTANTS
  Requests,   \* restore requests the tenant may ever make (the bound)
  Workers,    \* restore-worker processes
  Faults,     \* what the environment may do, see RestoreFaults
  None

(***************************************************************************)
(* "crash"        a restore worker dies between two statements.            *)
(* "cron_crash"   the maintenance job dies between two statements.         *)
(* "slow"         maintenance recovers a request whose worker is alive: a   *)
(*                restore outlasts TENANT_RESTORE_STALE_MINUTES (60; a      *)
(*                running one never touches updated_at), or one pending for *)
(*                so long is claimed after maintenance listed it.          *)
(* "rename_error" the first ALTER SCHEMA of a restore raises (a lock or     *)
(*                statement timeout) although it could have been done.     *)
(* "db_error"     any other statement of a restore or a recovery raises.   *)
(* "overlap"      a failed request is retried while another one is active. *)
(* "stale_view"   a web view saves or deletes a row it loaded before        *)
(*                another transaction changed it.                          *)
(* "backup_lost"  a backup that an active request needs becomes unusable.  *)
(***************************************************************************)
RestoreFaults == {"crash", "cron_crash", "slow", "rename_error", "db_error",
                  "overlap", "stale_view", "backup_lost"}

ASSUME FaultsAssumption == Faults \subseteq RestoreFaults
ASSUME NoneAssumption == None \notin Requests /\ None \notin Workers
ASSUME ContentAssumption ==
  Requests \cap {"missing", "original", "partial"} = {}

VARIABLES
  request,    \* TenantRestoreRequest.status; "absent" / "removed": no row
  approved,   \* requests with approved_at set
  safety,     \* status of the request's safety backup
  intact,     \* requests whose source backup is restorable
  gate,       \* the request in tenant.restoration_request_id; None: gate open
  live,       \* what the tenant's schema holds
  rollback,   \* what the request's rollback schema holds
  at,         \* at[w]: how far run_restore has come in worker w
  req,        \* req[w]: the request w claimed
  already,    \* workers that found the gate closed for their own request
  sweep,      \* recover_stale_restores: phase, rows to visit, row at hand
  views       \* rows loaded by a view that is about to save or delete them

peopleVars == <<approved, safety, intact>>
schemaVars == <<live, rollback>>
workerVars == <<at, req, already>>
vars == <<request, approved, safety, intact, gate, live, rollback, at, req,
          already, sweep, views>>

ActiveRestores == {"safety_backup_pending", "ready_for_approval", "approved",
                   "execution_pending", "restoring"}
Terminal == {"failed", "rejected"}
RequestStatuses == ActiveRestores \cup Terminal \cup
                   {"absent", "completed", "removed"}
SafetyStatuses == {"none", "pending", "available", "failed", "gone"}

Whole   == {"original"} \cup Requests
Content == {"missing", "partial"} \cup Whole

(* run_restore holds the advisory lock of the schema in these places.      *)
Locked == {"holding", "moved", "loading", "loaded", "dropped", "unlocked",
           "undo1", "redo1", "undo2", "redo2", "undone", "failing"}
Places == {"idle", "claimed", "prepared", "waiting", "unheld", "quitting"} \cup Locked

Sweep(p, todo, r) == [phase |-> p, todo |-> todo, row |-> r]
Idle == Sweep("idle", {}, None)
SweepPhases == {"idle", "next", "drop", "rename", "release", "fail"}

Active(r) == request[r] \in ActiveRestores
Busy(w)   == at[w] # "idle"

\* save(update_fields=...) of a row that was deleted meanwhile raises.
SaveStatus(r, s) ==
  request' = IF request[r] = "removed" THEN request
             ELSE [request EXCEPT ![r] = s]

\* _enforce_tenant_runtime_controls: the workspace API answers 423 while the
\* gate is closed; only the platform's own routes remain.
WorkspaceOpen == gate = None

\* _validate_execution_prerequisites
Prerequisites(r) == r \in intact /\ safety[r] = "available"

Init ==
  /\ request = [r \in Requests |-> "absent"]
  /\ approved = {}
  /\ safety = [r \in Requests |-> "none"]
  /\ intact = {}
  /\ gate = None
  /\ live = "original"
  /\ rollback = [r \in Requests |-> "missing"]
  /\ at = [w \in Workers |-> "idle"]
  /\ req = [w \in Workers |-> None]
  /\ already = {}
  /\ sweep = Idle
  /\ views = {}

-----------------------------------------------------------------------------
(* People                                                                  *)

RequestRestore(r) ==
  /\ WorkspaceOpen
  /\ request[r] = "absent"
  /\ \A q \in Requests : ~Active(q)
  /\ SaveStatus(r, "safety_backup_pending")
  /\ safety' = [safety EXCEPT ![r] = "pending"]
  /\ intact' = intact \cup {r}
  /\ UNCHANGED <<approved, gate, schemaVars, workerVars, sweep, views>>

\* refresh_restore_readiness, run by every list and retrieve.
Refresh(r) ==
  /\ request[r] = "safety_backup_pending"
  /\ \/ safety[r] = "available" /\ SaveStatus(r, "ready_for_approval")
     \/ safety[r] = "failed" /\ SaveStatus(r, "failed")
  /\ UNCHANGED <<peopleVars, gate, schemaVars, workerVars, sweep, views>>

\* Its read and its save are not one transaction.
LoadForRefresh(r) ==
  /\ "stale_view" \in Faults
  /\ request[r] = "safety_backup_pending"
  /\ safety[r] = "available"
  /\ views' = views \cup {<<r, "refresh">>}
  /\ UNCHANGED <<request, peopleVars, gate, schemaVars, workerVars, sweep>>

SaveLoaded(r) ==
  /\ <<r, "refresh">> \in views
  /\ views' = views \ {<<r, "refresh">>}
  /\ SaveStatus(r, "ready_for_approval")
  /\ UNCHANGED <<peopleVars, gate, schemaVars, workerVars, sweep>>

\* approve_restore refreshes first, under the row lock; a refusal rolls the
\* refresh back.
Approve(r) ==
  /\ \/ request[r] = "ready_for_approval"
     \/ request[r] = "safety_backup_pending" /\ safety[r] = "available"
  /\ Prerequisites(r)
  /\ SaveStatus(r, "approved")
  /\ approved' = approved \cup {r}
  /\ UNCHANGED <<safety, intact, gate, schemaVars, workerVars, sweep, views>>

Reject(r) ==
  /\ request[r] \in {"ready_for_approval", "approved"}
  /\ SaveStatus(r, "rejected")
  /\ UNCHANGED <<peopleVars, gate, schemaVars, workerVars, sweep, views>>

\* _lock_tenant_runtime
CloseGate(r) == gate' = r

\* Mutant: an approval is not waited for.
ExecuteReady(r) ==
  /\ WorkspaceOpen
  /\ request[r] \in {"ready_for_approval", "approved"}
  /\ Prerequisites(r)
  /\ SaveStatus(r, "execution_pending")
  /\ CloseGate(r)
  /\ UNCHANGED <<peopleVars, schemaVars, workerVars, sweep, views>>

Execute(r) ==
  /\ WorkspaceOpen
  /\ request[r] = "approved"
  /\ Prerequisites(r)
  /\ SaveStatus(r, "execution_pending")
  /\ CloseGate(r)
  /\ UNCHANGED <<peopleVars, schemaVars, workerVars, sweep, views>>

\* retry_restore, also from the platform; it does not look for other active
\* requests.
Retry(r) ==
  /\ request[r] = "failed"
  /\ r \in approved
  /\ Prerequisites(r)
  /\ "overlap" \in Faults \/ \A q \in Requests : ~Active(q)
  /\ SaveStatus(r, "execution_pending")
  /\ CloseGate(r)
  /\ UNCHANGED <<peopleVars, schemaVars, workerVars, sweep, views>>

DeleteRestore(r) ==
  /\ request[r] \in Terminal
  /\ SaveStatus(r, "removed")
  /\ UNCHANGED <<peopleVars, gate, schemaVars, workerVars, sweep, views>>

\* delete_restore trusts the status of the object the view loaded.
LoadForDelete(r) ==
  /\ "stale_view" \in Faults
  /\ request[r] \in Terminal
  /\ views' = views \cup {<<r, "delete">>}
  /\ UNCHANGED <<request, peopleVars, gate, schemaVars, workerVars, sweep>>

DeleteLoaded(r) ==
  /\ <<r, "delete">> \in views
  /\ views' = views \ {<<r, "delete">>}
  /\ SaveStatus(r, "removed")
  /\ UNCHANGED <<peopleVars, gate, schemaVars, workerVars, sweep>>

-----------------------------------------------------------------------------
(* The backups of a request, as TenantBackups lets them change             *)

SafetyFinishes(r) ==
  /\ safety[r] = "pending"
  /\ \E s \in {"available", "failed"} : safety' = [safety EXCEPT ![r] = s]
  /\ UNCHANGED <<request, approved, intact, gate, schemaVars, workerVars,
                 sweep, views>>

BackupLost(r) ==
  /\ "backup_lost" \in Faults \/ ~Active(r)
  /\ \/ /\ safety[r] = "available"
        /\ safety' = [safety EXCEPT ![r] = "gone"]
        /\ UNCHANGED intact
     \/ /\ r \in intact
        /\ intact' = intact \ {r}
        /\ UNCHANGED safety
  /\ UNCHANGED <<request, approved, gate, schemaVars, workerVars, sweep, views>>

-----------------------------------------------------------------------------
(* run_restore in worker w                                                 *)

Go(w, from, to) ==
  /\ at[w] = from
  /\ at' = [at EXCEPT ![w] = to]
  /\ IF to = "idle"
     THEN req' = [req EXCEPT ![w] = None] /\ already' = already \ {w}
     ELSE UNCHANGED <<req, already>>

Mine(w) == req[w]

\* The conditional UPDATE, then the load of the request with its tenant.
Claim(w, r) ==
  /\ at[w] = "idle"
  /\ request[r] = "execution_pending"
  /\ "slow" \in Faults \/ (r \notin sweep.todo /\ r # sweep.row)
  /\ SaveStatus(r, "restoring")
  /\ at' = [at EXCEPT ![w] = "claimed"]
  /\ req' = [req EXCEPT ![w] = r]
  /\ already' = IF gate = r THEN already \cup {w} ELSE already
  /\ UNCHANGED <<peopleVars, gate, schemaVars, sweep, views>>

\* Prerequisites, download, checksum and archive contents are in order.
Prepare(w) ==
  /\ Go(w, "claimed", "prepared")
  /\ Prerequisites(Mine(w))
  /\ UNCHANGED <<request, peopleVars, gate, schemaVars, sweep, views>>

\* One of them is not, the tenant is in maintenance, or the gate cannot be
\* saved.  tenant_locked is still False: a gate that is closed stays closed.
FailEarly(w) ==
  /\ \/ Go(w, "claimed", "idle")
     \/ "db_error" \in Faults /\ Go(w, "prepared", "idle")
  /\ SaveStatus(Mine(w), "failed")
  /\ UNCHANGED <<peopleVars, gate, schemaVars, sweep, views>>

LockTenant(w) ==
  /\ Go(w, "prepared", "waiting")
  /\ IF w \in already THEN UNCHANGED gate ELSE CloseGate(Mine(w))
  /\ UNCHANGED <<request, peopleVars, schemaVars, sweep, views>>

\* pg_advisory_lock blocks until the session that holds it is done.
AcquireLock(w) ==
  /\ \A v \in Workers : at[v] \notin Locked
  /\ Go(w, "waiting", "holding")
  /\ UNCHANGED <<request, peopleVars, gate, schemaVars, sweep, views>>

AcquireLockRaises(w) ==
  /\ "db_error" \in Faults
  /\ Go(w, "waiting", "unheld")
  /\ UNCHANGED <<request, peopleVars, gate, schemaVars, sweep, views>>

RenamePossible(w) == live # "missing" /\ rollback[Mine(w)] = "missing"

RenameAway(w) ==
  /\ Go(w, "holding", "moved")
  /\ RenamePossible(w)
  /\ rollback' = [rollback EXCEPT ![Mine(w)] = live]
  /\ live' = "missing"
  /\ UNCHANGED <<request, peopleVars, gate, sweep, views>>

\* rollback_schema is assigned before the rename, so the outer handler
\* believes there is a rollback schema to reinstate.
RenameAwayRaises(w) ==
  /\ Go(w, "holding", "undo2")
  /\ RenamePossible(w) => "rename_error" \in Faults
  /\ UNCHANGED <<request, peopleVars, gate, schemaVars, sweep, views>>

\* pg_restore --exit-on-error creates the schema, then fills it.
StartLoad(w) ==
  /\ Go(w, "moved", "loading")
  /\ live = "missing"
  /\ live' = "partial"
  /\ UNCHANGED <<request, peopleVars, gate, rollback, sweep, views>>

FinishLoad(w) ==
  /\ Go(w, "loading", "loaded")
  /\ live = "partial"
  /\ live' = Mine(w)
  /\ UNCHANGED <<request, peopleVars, gate, rollback, sweep, views>>

LoadFails(w) ==
  /\ Go(w, "moved", "undo1") \/ Go(w, "loading", "undo1")
  /\ UNCHANGED <<request, peopleVars, gate, schemaVars, sweep, views>>

DropRollback(w) ==
  /\ \/ /\ Go(w, "loaded", "dropped")
        /\ rollback' = [rollback EXCEPT ![Mine(w)] = "missing"]
     \/ /\ "db_error" \in Faults
        /\ Go(w, "loaded", "undo2")
        /\ UNCHANGED rollback
  /\ UNCHANGED <<request, peopleVars, gate, live, sweep, views>>

\* _restore_tenant_runtime opens the gate whoever closed it.
OpenGate == gate' = None

UnlockTenant(w) ==
  /\ \/ Go(w, "dropped", "unlocked") /\ OpenGate
     \/ "db_error" \in Faults /\ Go(w, "dropped", "undone") /\ UNCHANGED gate
  /\ UNCHANGED <<request, peopleVars, schemaVars, sweep, views>>

Complete(w) ==
  /\ Go(w, "unlocked", "idle")
  /\ \/ SaveStatus(Mine(w), "completed")
     \/ "db_error" \in Faults /\ SaveStatus(Mine(w), "failed")
  /\ UNCHANGED <<peopleVars, gate, schemaVars, sweep, views>>

\* Mutant: the handlers drop the rollback schema instead of the live one.
DropWrongSchema(w) ==
  /\ Go(w, "undo1", "redo1") \/ Go(w, "undo2", "redo2")
  /\ rollback' = [rollback EXCEPT ![Mine(w)] = "missing"]
  /\ UNCHANGED <<request, peopleVars, gate, live, sweep, views>>

\* The handler of pg_restore ("1"), then the outer one ("2"): drop what is
\* live, rename the rollback schema back.  When the outer one fails too, the
\* gate stays closed.
DropLive(w) ==
  /\ \/ /\ Go(w, "undo1", "redo1") \/ Go(w, "undo2", "redo2")
        /\ live' = "missing"
     \/ /\ "db_error" \in Faults
        /\ Go(w, "undo1", "undo2") \/ Go(w, "undo2", "failing")
        /\ UNCHANGED live
  /\ UNCHANGED <<request, peopleVars, gate, rollback, sweep, views>>

CanReinstate(r) == live = "missing" /\ rollback[r] # "missing"

Reinstate(r) ==
  /\ live' = rollback[r]
  /\ rollback' = [rollback EXCEPT ![r] = "missing"]

\* Mutant: the handler of pg_restore does not re-raise.
RenameBackSwallows(w) ==
  /\ Go(w, "redo1", "dropped") \/ Go(w, "redo2", "undone")
  /\ CanReinstate(Mine(w))
  /\ Reinstate(Mine(w))
  /\ UNCHANGED <<request, peopleVars, gate, sweep, views>>

RenameBack(w) ==
  /\ \/ /\ Go(w, "redo1", "undone") \/ Go(w, "redo2", "undone")
        /\ CanReinstate(Mine(w))
        /\ Reinstate(Mine(w))
     \/ /\ Go(w, "redo1", "undo2") \/ Go(w, "redo2", "failing")
        /\ CanReinstate(Mine(w)) => "db_error" \in Faults
        /\ UNCHANGED schemaVars
  /\ UNCHANGED <<request, peopleVars, gate, sweep, views>>

\* tenant_locked and safe to unlock; an error here is swallowed.
UnlockAfterFailure(w) ==
  /\ Go(w, "undone", "failing") \/ Go(w, "unheld", "quitting")
  /\ OpenGate \/ ("db_error" \in Faults /\ UNCHANGED gate)
  /\ UNCHANGED <<request, peopleVars, schemaVars, sweep, views>>

\* Mutant: a status that the model field does not know.
FailMisnamed(w) ==
  /\ Go(w, "failing", "idle") \/ Go(w, "quitting", "idle")
  /\ SaveStatus(Mine(w), "error")
  /\ UNCHANGED <<peopleVars, gate, schemaVars, sweep, views>>

FailRestore(w) ==
  /\ Go(w, "failing", "idle") \/ Go(w, "quitting", "idle")
  /\ SaveStatus(Mine(w), "failed")
  /\ UNCHANGED <<peopleVars, gate, schemaVars, sweep, views>>

CrashWorker(w) ==
  /\ "crash" \in Faults
  /\ Busy(w)
  /\ Go(w, at[w], "idle")
  /\ UNCHANGED <<request, peopleVars, gate, schemaVars, sweep, views>>

-----------------------------------------------------------------------------
(* recover_stale_restores                                                  *)

\* Mutant: only requests that no worker took up.
StalePending(r) ==
  /\ request[r] = "execution_pending"
  /\ "slow" \in Faults \/ \A w \in Workers : req[w] # r

Stale(r) ==
  /\ request[r] \in {"execution_pending", "restoring"}
  /\ "slow" \in Faults \/ \A w \in Workers : req[w] # r

BeginRecovery ==
  /\ sweep.phase = "idle"
  /\ \E aged \in SUBSET {r \in Requests : Stale(r)} :
       aged # {} /\ sweep' = Sweep("next", aged, None)
  /\ UNCHANGED <<request, peopleVars, gate, schemaVars, workerVars, views>>

At(p) == sweep.phase = p
Row == sweep.row
GoTo(p) == sweep' = [sweep EXCEPT !.phase = p]
NextRow == sweep' = IF sweep.todo = {} THEN Idle ELSE Sweep("next", sweep.todo, None)

\* Mutants: a live schema wins; a missing live schema is given up.
InspectLiveFirst(r) ==
  /\ At("next")
  /\ r \in sweep.todo
  /\ sweep' = Sweep(IF live # "missing" THEN "release" ELSE "rename",
                    sweep.todo \ {r}, r)
  /\ UNCHANGED <<request, peopleVars, gate, schemaVars, workerVars, views>>

InspectGivesUp(r) ==
  /\ At("next")
  /\ r \in sweep.todo
  /\ sweep' = Sweep(IF live = "missing" THEN "fail"
                    ELSE IF rollback[r] # "missing" THEN "drop" ELSE "release",
                    sweep.todo \ {r}, r)
  /\ UNCHANGED <<request, peopleVars, gate, schemaVars, workerVars, views>>

\* The rollback schema wins; without one a live schema is kept.  Without
\* either the request fails and the gate stays closed.
Inspect(r) ==
  /\ At("next")
  /\ r \in sweep.todo
  /\ \E p \in SweepPhases :
       /\ sweep' = Sweep(p, sweep.todo \ {r}, r)
       /\ \/ p = "drop"    /\ rollback[r] # "missing" /\ live # "missing"
          \/ p = "rename"  /\ rollback[r] # "missing" /\ live = "missing"
          \/ p = "release" /\ rollback[r] = "missing" /\ live # "missing"
          \/ p = "fail"    /\ rollback[r] = "missing" /\ live = "missing"
          \/ p = "fail"    /\ "db_error" \in Faults
  /\ UNCHANGED <<request, peopleVars, gate, schemaVars, workerVars, views>>

RecoveryDrops ==
  /\ At("drop")
  /\ live' = "missing"
  /\ GoTo("rename")
  /\ UNCHANGED <<request, peopleVars, gate, rollback, workerVars, views>>

RecoveryRenames ==
  /\ At("rename")
  /\ CanReinstate(Row)
  /\ Reinstate(Row)
  /\ GoTo("release")
  /\ UNCHANGED <<request, peopleVars, gate, workerVars, views>>

\* Validation only counts tables, so a partial schema may pass it.
RecoveryReleases ==
  /\ At("release")
  /\ live # "missing"
  /\ OpenGate
  /\ GoTo("fail")
  /\ UNCHANGED <<request, peopleVars, schemaVars, workerVars, views>>

RecoveryFails ==
  /\ At("fail")
  /\ SaveStatus(Row, "failed")
  /\ NextRow
  /\ UNCHANGED <<peopleVars, gate, schemaVars, workerVars, views>>

\* A statement raises or the schema fails validation: the request fails, the
\* gate stays closed.
RecoveryRaises ==
  /\ \/ At("drop") /\ "db_error" \in Faults
     \/ At("rename") /\ (CanReinstate(Row) => "db_error" \in Faults)
     \/ At("release") /\ (live \in Whole => "db_error" \in Faults)
  /\ SaveStatus(Row, "failed")
  /\ NextRow
  /\ UNCHANGED <<peopleVars, gate, schemaVars, workerVars, views>>

CrashMaintenance ==
  /\ "cron_crash" \in Faults
  /\ ~At("idle")
  /\ sweep' = Idle
  /\ UNCHANGED <<request, peopleVars, gate, schemaVars, workerVars, views>>

-----------------------------------------------------------------------------
WorkerStep(w) ==
  \/ Prepare(w) \/ FailEarly(w) \/ LockTenant(w) \/ AcquireLock(w) \/ AcquireLockRaises(w)
  \/ RenameAway(w) \/ RenameAwayRaises(w)
  \/ StartLoad(w) \/ FinishLoad(w) \/ LoadFails(w)
  \/ DropRollback(w) \/ UnlockTenant(w) \/ Complete(w)
  \/ DropLive(w) \/ RenameBack(w) \/ UnlockAfterFailure(w) \/ FailRestore(w)

RecoveryStep ==
  \/ \E r \in Requests : Inspect(r)
  \/ RecoveryDrops \/ RecoveryRenames \/ RecoveryReleases
  \/ RecoveryFails \/ RecoveryRaises

PeopleStep(r) ==
  \/ RequestRestore(r) \/ Refresh(r) \/ Approve(r) \/ Reject(r)
  \/ Execute(r) \/ Retry(r) \/ DeleteRestore(r)
  \/ LoadForRefresh(r) \/ SaveLoaded(r) \/ LoadForDelete(r) \/ DeleteLoaded(r)

BackupStep(r) == SafetyFinishes(r) \/ BackupLost(r)

Next ==
  \/ \E r \in Requests : PeopleStep(r) \/ BackupStep(r)
  \/ \E w \in Workers :
       (\E r \in Requests : Claim(w, r)) \/ WorkerStep(w) \/ CrashWorker(w)
  \/ BeginRecovery \/ RecoveryStep \/ CrashMaintenance

Spec == Init /\ [][Next]_vars

(***************************************************************************)
(* Restore workers are "Always running"; the maintenance cron comes back   *)
(* every hour and is the only process that runs the recovery.  Nobody has  *)
(* to approve, execute, retry or delete anything.                          *)
(***************************************************************************)
Fairness ==
  /\ \A w \in Workers : WF_vars(\E r \in Requests : Claim(w, r))
                      /\ WF_vars(WorkerStep(w))
  /\ WF_vars(BeginRecovery)
  /\ WF_vars(RecoveryStep)

FairSpec == Spec /\ Fairness

-----------------------------------------------------------------------------
TypeOK ==
  /\ request \in [Requests -> RequestStatuses]
  /\ approved \in SUBSET Requests
  /\ safety \in [Requests -> SafetyStatuses]
  /\ intact \in SUBSET Requests
  /\ gate \in Requests \cup {None}
  /\ live \in Content
  /\ rollback \in [Requests -> Content]
  /\ at \in [Workers -> Places]
  /\ req \in [Workers -> Requests \cup {None}]
  /\ already \in SUBSET Workers
  /\ sweep \in [phase : SweepPhases, todo : SUBSET Requests,
                row : Requests \cup {None}]
  /\ views \in SUBSET (Requests \X {"refresh", "delete"})

\* The tenant's data is never lost: at every moment, in particular between
\* any two statements of a restore that fails or dies there, the live schema
\* or some rollback schema holds a whole copy.
DataSurvives ==
  live \in Whole \/ \E r \in Requests : rollback[r] \in Whole

\* Users are let in only to whole data: whenever the gate is open, the live
\* schema is neither missing nor half restored.
UsersSeeWholeData == WorkspaceOpen => live \in Whole

\* Restored data comes from an approved request, whatever views, retries and
\* recoveries do to the rows.
OnlyApprovedRestored ==
  /\ \A r \in Requests : live = r => r \in approved
  /\ \A w \in Workers : Busy(w) => req[w] \in approved

\* A request that is reported COMPLETED has its archive live at that moment.
CompletedIsLive ==
  [][\A r \in Requests :
       request[r] # "completed" /\ request'[r] = "completed" => live = r]_vars

\* The model field's promise, "Hard tenant-wide gate while a schema
\* restoration is running": a closed gate belongs to a restore in progress,
\* or to a schema an operator has to repair.
GateOnlyWhileRestoring ==
  gate # None =>
    request[gate] \in {"execution_pending", "restoring"} \/ live \notin Whole

\* The refinement.  What the workspace holds is the rollback schema while there
\* is one: every way out of run_restore, and the recovery after a crash, puts it
\* back until the moment it is dropped.
Kept == {rollback[r] : r \in Requests} \ {"missing"}
Stored == IF Kept = {} THEN live ELSE CHOOSE c \in Kept : TRUE
Seen == IF WorkspaceOpen THEN live ELSE "nothing"

Workspace == INSTANCE RestoredWorkspace
             WITH Archives <- Requests, data <- Stored, seen <- Seen

\* A restore is atomic although it is a series of statements on two schemas,
\* each of which may be the last of its process: to the workspace's users the
\* data is replaced in one step, behind the gate, by an approved archive, or
\* nothing happens at all.
ReplacesAtomically == Workspace!Spec

\* A restore that was queued comes to an end, also when its worker dies.
RestoreSettles ==
  \A r \in Requests : request[r] = "execution_pending" ~>
                      request[r] \notin {"execution_pending", "restoring"}

\* A workspace whose schema was moved away or half restored gets whole data
\* back.
DataComesBack == live \notin Whole ~> live \in Whole
=============================================================================
