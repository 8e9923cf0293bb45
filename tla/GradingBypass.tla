--------------------------- MODULE GradingBypass ---------------------------
(***************************************************************************)
(* The exceptional closure of an academic year by a super admin, beside    *)
(* the ordinary requests of EnrollmentLifecycle: a request creates an      *)
(* operation; a thread, or the worker command, claims it, prepares, closes *)
(* all open enrollments and deletes the year's grading in one transaction, *)
(* and then reports.  The status view gives up on an operation that has    *)
(* been "Starting" for too long, if a page asks for its status.            *)
(*                                                                         *)
(* Time is not modelled: five minutes may always have passed since the     *)
(* operation was created.  Overpaid bills and the preview are left out.    *)
(***************************************************************************)
EXTENDS EnrollmentLifecycle

CONSTANTS
  Ops,        \* operations that can be created (the bound)
  Workers,    \* threads and commands that execute operations
  Payload     \* Payload[o]: the outcomes its request supplies

\* Outcomes of some enrollments and of all the others, and chosen next grades.
ASSUME PayloadAssumption ==
  \A o \in Ops :
    LET p == Payload[o]
    IN  /\ DOMAIN p.outcomes \subseteq Students
        /\ \A s \in DOMAIN p.outcomes : p.outcomes[s] \in Outcomes
        /\ p.default \in Outcomes \cup {None}
        /\ DOMAIN p.wanted \subseteq Students
        /\ \A s \in DOMAIN p.wanted : p.wanted[s] \in Grades

ASSUME OpsAreNew == None \notin Ops

VARIABLES
  op,       \* op[o]: the GradingBypassOperation
  at,       \* at[w]: where worker w is
  task,     \* task[w]: the operation it executes
  giveUp,   \* operations a status view has read and will fail
  done      \* history: operations whose data transaction has committed:
            \* the open enrollments are closed, the year's grading is deleted

lifecycle == <<seat, student, held, job>>
bypass == <<op, at, task, giveUp, done>>
vars == <<lifecycle, bypass, suffered>>

OpStatuses == {"absent", "wanted", "pending", "in_progress", "completed", "failed"}
Stages == {"idle", "starting", "preparing", "locked", "committed"}
NoOp == [status |-> "absent", starting |-> FALSE]

Become(o, status) == op' = [op EXCEPT ![o] = [status |-> status, starting |-> FALSE]]

\* Mutant: a completed operation does not count as one.
Unfinished(o) == op[o].status \in {"pending", "in_progress"}

\* Not absent and not FAILED.
Active(o) == op[o].status \in {"pending", "in_progress", "completed"}

Working(o) == \E w \in Workers : task[w] = o

-----------------------------------------------------------------------------
(* create_bypass_job: the look for an operation and its insertion          *)

\* Only rows that exist are locked by the look.
Look(o) ==
  /\ op[o].status = "absent"
  /\ \A q \in Ops : ~Active(q)
  /\ Become(o, "wanted")
  /\ UNCHANGED <<lifecycle, at, task, giveUp, done, suffered>>

Insert(o) ==
  /\ op[o].status = "wanted"
  /\ Become(o, "pending")
  /\ Suffer(IF \E q \in Ops : Active(q) THEN {"overlap"} ELSE {})
  /\ UNCHANGED <<lifecycle, at, task, giveUp, done>>

-----------------------------------------------------------------------------
(* grading_bypass_status                                                   *)

GiveUp(o) ==
  /\ op[o].status = "in_progress" /\ op[o].starting
  /\ giveUp' = giveUp \cup {o}
  /\ UNCHANGED <<lifecycle, op, at, task, done, suffered>>

\* The copy that was read is saved, whatever happened since.
SaveGiveUp(o) ==
  /\ o \in giveUp
  /\ Become(o, "failed")
  /\ giveUp' = giveUp \ {o}
  /\ Suffer(IF Working(o) \/ ~op[o].starting THEN {"hasty"} ELSE {})
  /\ UNCHANGED <<lifecycle, at, task, done>>

-----------------------------------------------------------------------------
(* run_bypass_job and execute_bypass                                       *)

\* Mutant: an operation in progress is claimed to go on with it.
ClaimAgain(w, o) ==
  /\ at[w] = "idle"
  /\ op[o].status \in {"pending", "in_progress"}
  /\ op' = [op EXCEPT ![o] = [status |-> "in_progress", starting |-> TRUE]]
  /\ at' = [at EXCEPT ![w] = "starting"]
  /\ task' = [task EXCEPT ![w] = o]
  /\ UNCHANGED <<lifecycle, giveUp, done, suffered>>

\* Mutant: nothing is claimed while another operation is in progress.
ClaimAlone(w, o) ==
  /\ at[w] = "idle"
  /\ op[o].status = "pending"
  /\ \A q \in Ops : op[q].status # "in_progress"
  /\ op' = [op EXCEPT ![o] = [status |-> "in_progress", starting |-> TRUE]]
  /\ at' = [at EXCEPT ![w] = "starting"]
  /\ task' = [task EXCEPT ![w] = o]
  /\ UNCHANGED <<lifecycle, giveUp, done, suffered>>

\* By the thread of the request or of the status view, or by the command.
Claim(w, o) ==
  /\ at[w] = "idle"
  /\ op[o].status = "pending"
  /\ op' = [op EXCEPT ![o] = [status |-> "in_progress", starting |-> TRUE]]
  /\ at' = [at EXCEPT ![w] = "starting"]
  /\ task' = [task EXCEPT ![w] = o]
  /\ UNCHANGED <<lifecycle, giveUp, done, suffered>>

\* build_preview succeeded; the save overwrites any status.
Prepare(w) ==
  /\ at[w] = "starting"
  /\ Become(task[w], "in_progress")
  /\ at' = [at EXCEPT ![w] = "preparing"]
  /\ UNCHANGED <<lifecycle, task, giveUp, done, suffered>>

\* select_for_update on the enrollments of the year and their students.
Lock(w) ==
  /\ at[w] = "preparing"
  /\ \A v \in Workers : at[v] # "locked"
  /\ at' = [at EXCEPT ![w] = "locked"]
  /\ held' = {s \in Students : seat[s] # NoSeat}
  /\ UNCHANGED <<records, job, op, task, giveUp, done, suffered>>

\* _validate_outcomes and _resolve_year_end_placement, for the enrollments
\* that are open among those read: the placement of s.
Chosen(p, s) == IF s \in DOMAIN p.outcomes THEN p.outcomes[s] ELSE p.default
Wanted(p, s) == IF s \in DOMAIN p.wanted THEN p.wanted[s] ELSE None
Placed(p, s) == Placements(seat[s].grade, Chosen(p, s), Wanted(p, s))

Acceptable(p) ==
  /\ DOMAIN p.outcomes \subseteq Open \cap held
  /\ \A s \in Open \cap held : Placed(p, s) # {}

Result(p, s) == CHOOSE r \in Placed(p, s) : TRUE

\* Mutant: closes the enrollments that the request names, not all.
CommitSupplied(w) ==
  LET p == Payload[task[w]]
      S == Open \cap held \cap DOMAIN p.outcomes
  IN  /\ at[w] = "locked"
      /\ Acceptable(p)
      /\ seat' = [s \in Students |->
                    IF s \in S
                    THEN [seat[s] EXCEPT !.status = "completed",
                                         !.outcome = Result(p, s).outcome,
                                         !.next = Result(p, s).next]
                    ELSE seat[s]]
      /\ student' = [s \in Students |->
                       IF s \in S /\ Result(p, s).outcome = "graduated"
                       THEN "graduated" ELSE student[s]]
      /\ held' = {}
      /\ at' = [at EXCEPT ![w] = "committed"]
      /\ done' = done \cup {task[w]}
      /\ Suffer(IF Open \subseteq held THEN {} ELSE {"late"})
      /\ job' = Outdated(job, S)
      /\ UNCHANGED <<op, task, giveUp>>

Commit(w) ==
  LET p == Payload[task[w]]
      S == Open \cap held
  IN  /\ at[w] = "locked"
      /\ Acceptable(p)
      /\ seat' = [s \in Students |->
                    IF s \in S
                    THEN [seat[s] EXCEPT !.status = "completed",
                                         !.outcome = Result(p, s).outcome,
                                         !.next = Result(p, s).next]
                    ELSE seat[s]]
      /\ student' = [s \in Students |->
                       IF s \in S /\ Result(p, s).outcome = "graduated"
                       THEN "graduated" ELSE student[s]]
      /\ held' = {}
      /\ at' = [at EXCEPT ![w] = "committed"]
      /\ done' = done \cup {task[w]}
      /\ Suffer(IF Open \subseteq held THEN {} ELSE {"late"})
      /\ job' = Outdated(job, S)
      /\ UNCHANGED <<op, task, giveUp>>

Stop(w) ==
  /\ at' = [at EXCEPT ![w] = "idle"]
  /\ task' = [task EXCEPT ![w] = None]
  /\ held' = IF at[w] = "locked" THEN {} ELSE held
  /\ UNCHANGED <<records, job, giveUp, done>>

\* Mutant: reports before the data transaction commits.
CompleteEarly(w) ==
  /\ at[w] \in {"locked", "committed"}
  /\ Become(task[w], "completed")
  /\ Stop(w)
  /\ UNCHANGED suffered

Complete(w) ==
  /\ at[w] = "committed"
  /\ Become(task[w], "completed")
  /\ Stop(w)
  /\ UNCHANGED suffered

\* An exception before the commit, also of _validate_outcomes: both handlers
\* save FAILED.  A status save that raises after it ends there as well.
Fail(w) ==
  /\ at[w] # "idle"
  /\ Become(task[w], "failed")
  /\ Stop(w)
  /\ Suffer(IF at[w] = "committed" THEN {"save"} ELSE {})

\* The process ends, or the handlers cannot save.  Before the first save of
\* execute_bypass the status view can still give up on the operation.
Crash(w) ==
  /\ at[w] # "idle"
  /\ Stop(w)
  /\ Suffer(IF at[w] = "starting" THEN {} ELSE {"crash"})
  /\ UNCHANGED op

-----------------------------------------------------------------------------
Init ==
  /\ LifecycleInit
  /\ op = [o \in Ops |-> NoOp]
  /\ at = [w \in Workers |-> "idle"]
  /\ task = [w \in Workers |-> None]
  /\ giveUp = {}
  /\ done = {}

LifecycleStep ==
  /\ Lifecycle
  /\ UNCHANGED bypass

Execution(w) == Prepare(w) \/ Lock(w) \/ Commit(w) \/ Complete(w) \/ Fail(w)

Next ==
  \/ LifecycleStep
  \/ \E o \in Ops : Look(o) \/ Insert(o) \/ GiveUp(o) \/ SaveGiveUp(o)
  \/ \E w \in Workers, o \in Ops : Claim(w, o)
  \/ \E w \in Workers : Execution(w) \/ Crash(w)

(***************************************************************************)
(* The worker command claims pending operations for ever (Procfile), and a *)
(* worker goes on until it ends or dies.  Nothing makes anybody ask for    *)
(* the status of an operation.                                             *)
(***************************************************************************)
Fairness ==
  /\ \A o \in Ops : WF_vars(\E w \in Workers : Claim(w, o))
  /\ \A w \in Workers : WF_vars(Execution(w))

Spec == Init /\ [][Next]_vars
FairSpec == Spec /\ Fairness

-----------------------------------------------------------------------------
BypassTypeOK ==
  /\ op \in [Ops -> [status : OpStatuses, starting : BOOLEAN]]
  /\ at \in [Workers -> Stages]
  /\ task \in [Workers -> Ops \cup {None}]
  /\ giveUp \subseteq Ops
  /\ done \subseteq Ops

TypeOK == LifecycleTypeOK /\ BypassTypeOK

(***************************************************************************)
(* run_bypass_job: "Claim and execute a persisted bypass job exactly once  *)
(* per operation".  Threads of the request and of any number of status     *)
(* views, and the command, may all try; whoever dies or is given up on,    *)
(* nobody executes the operation beside another or again.                  *)
(***************************************************************************)
ExecutedOnce ==
  \A w \in Workers : at[w] \in {"starting", "preparing", "locked"} =>
    /\ task[w] \notin done
    /\ \A v \in Workers \ {w} : task[v] # task[w]

(***************************************************************************)
(* An operation that reads as completed has closed the year and deleted    *)
(* its grading; one that reads as failed has changed nothing, so that      *)
(* create_bypass_job may let another one begin, unless the status view     *)
(* gave up on a living worker or the last status save failed.              *)
(***************************************************************************)
ReportedTruthfully ==
  \A o \in Ops :
    /\ op[o].status = "completed" => o \in done
    /\ op[o].status = "failed" /\ suffered \cap {"hasty", "save"} = {} =>
         o \notin done

(***************************************************************************)
(* The year is closed, and its grading deleted, by one operation at most,  *)
(* through failures, crashes and new attempts: grades entered or           *)
(* gradebooks set up by the wizard after it are not deleted again.         *)
(***************************************************************************)
ClosedOnce ==
  suffered \cap {"overlap", "hasty", "save"} = {} => Cardinality(done) <= 1

(***************************************************************************)
(* The grading of the year is deleted only in a step that leaves nobody    *)
(* enrolled in it, whatever the other requests do between the reading of   *)
(* the enrollments and the commit, unless a new one was inserted there.    *)
(***************************************************************************)
ClosesEveryone ==
  [][done' # done /\ "late" \notin suffered' =>
       \A s \in Students : seat'[s].status # "enrolled"]_vars

(***************************************************************************)
(* An operation does not stay pending, nor in progress in the hands of a   *)
(* worker, for ever: it is claimed, and completed or failed, unless its    *)
(* worker died.  One that a dead worker left behind, still in progress, is *)
(* nobody's, and no other operation waits for it.                          *)
(***************************************************************************)
Abandoned(o) == op[o].status = "in_progress" /\ ~Working(o)

Settles ==
  \A o \in Ops :
    <>[](op[o].status \notin {"pending", "in_progress"} \/ Abandoned(o))
=============================================================================
