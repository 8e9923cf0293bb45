----------------------- MODULE GradingBypass_proofs -----------------------
(***************************************************************************)
(* Theorems about GradingBypass, for any number of students, requests,     *)
(* operations and workers, any requested outcomes and any faults.          *)
(***************************************************************************)
EXTENDS GradingBypass, FiniteSetTheorems, TLAPS

-----------------------------------------------------------------------------
(* The operations                                                          *)

(* A worker has a task, and no two have the same.                          *)
TaskInv ==
  /\ \A w \in Workers : at[w] = "idle" <=> task[w] = None
  /\ \A v, w \in Workers : task[v] # None /\ task[v] = task[w] => v = w

(* Nobody has begun to execute an operation that is not yet claimed.       *)
FreshInv ==
  \A o \in Ops : op[o].status \in {"absent", "wanted", "pending"} =>
    /\ o \notin done /\ o \notin giveUp /\ ~op[o].starting
    /\ \A w \in Workers : task[w] # o

(* Stages of the workers and what has been done.                           *)
StageInv ==
  /\ \A w \in Workers : at[w] \in {"starting", "preparing", "locked"} =>
       task[w] \notin done
  /\ \A w \in Workers : at[w] = "committed" => task[w] \in done
  /\ \A o \in Ops : op[o].starting =>
       /\ op[o].status = "in_progress"
       /\ o \notin done
       /\ \A w \in Workers : task[w] = o => at[w] = "starting"

(* What the row says, where nobody was given up on and every save worked.  *)
ReportInv ==
  /\ \A o \in Ops : op[o].status = "completed" => o \in done
  /\ suffered \cap {"hasty", "save"} = {} =>
       \A o \in Ops :
         /\ op[o].status = "failed" => o \notin done
         /\ (\E w \in Workers : task[w] = o) => op[o].status = "in_progress"

(* Only one operation is not failed, where also no two were inserted.      *)
AloneInv ==
  suffered \cap {"overlap", "hasty", "save"} = {} =>
    \A o, q \in Ops : Active(o) /\ Active(q) => o = q

IInv == BypassTypeOK /\ TaskInv /\ FreshInv /\ StageInv /\ ReportInv /\ AloneInv

LEMMA InitIInv == Init => IInv
  BY OpsAreNew
  DEF Init, IInv, BypassTypeOK, TaskInv, FreshInv, StageInv, ReportInv, AloneInv,
      NoOp, Active, OpStatuses, Stages

(* Faults are never forgotten.                                             *)
LEMMA FaultsStay == [Next]_vars => suffered \subseteq suffered'
  BY DEF Next, LifecycleStep, Lifecycle, CompleteYear, GraduateStudent, Transfer,
         MidYearPromote, UndoPromotion, WizardClose, WithdrawStudent,
         ReinstateStudent, Begin, SaveBoth, SaveSeat, SaveStudent, Die,
         SaveStatus, FindSeat, Enroll, Remove, EditSeat, EditStudent, Suffer, Look, Insert, GiveUp,
         SaveGiveUp, Claim, Execution, Prepare, Lock, Commit, Complete, Fail,
         Crash, vars

(* Requests on enrollments leave the operations alone.                     *)
LEMMA LifecycleKeeps == IInv /\ suffered \subseteq suffered' /\ UNCHANGED bypass => IInv'
  BY DEF IInv, BypassTypeOK, TaskInv, FreshInv, StageInv, ReportInv, AloneInv,
         Active, bypass

LEMMA LookKeeps == ASSUME NEW o \in Ops PROVE IInv /\ Look(o) => IInv'
<1> SUFFICES ASSUME IInv, Look(o) PROVE IInv'
  OBVIOUS
<1>1. /\ op[o].status = "absent"
      /\ op' = [op EXCEPT ![o] = [status |-> "wanted", starting |-> FALSE]]
      /\ UNCHANGED <<at, task, giveUp, done>>
  BY DEF Look, Become
<1>2. suffered \subseteq suffered'
  BY DEF Look
<1>3. BypassTypeOK'
  BY <1>1 DEF IInv, BypassTypeOK, OpStatuses
<1>4. TaskInv' /\ FreshInv' /\ StageInv'
  BY <1>1, OpsAreNew DEF IInv, BypassTypeOK, TaskInv, FreshInv, StageInv
<1>5. ReportInv'
  BY <1>1, <1>2 DEF IInv, BypassTypeOK, FreshInv, ReportInv
<1>6. AloneInv'
  BY <1>1, <1>2 DEF IInv, BypassTypeOK, AloneInv, Active
<1> QED
  BY <1>3, <1>4, <1>5, <1>6 DEF IInv

LEMMA InsertKeeps == ASSUME NEW o \in Ops PROVE IInv /\ Insert(o) => IInv'
<1> SUFFICES ASSUME IInv, Insert(o) PROVE IInv'
  OBVIOUS
<1>1. /\ op[o].status = "wanted"
      /\ op' = [op EXCEPT ![o] = [status |-> "pending", starting |-> FALSE]]
      /\ UNCHANGED <<at, task, giveUp, done>>
  BY DEF Insert, Become
<1>2. suffered \subseteq suffered'
  BY DEF Insert, Suffer
<1>3. BypassTypeOK'
  BY <1>1 DEF IInv, BypassTypeOK, OpStatuses
<1>4. TaskInv' /\ FreshInv' /\ StageInv'
  BY <1>1, OpsAreNew DEF IInv, BypassTypeOK, TaskInv, FreshInv, StageInv
<1>5. ReportInv'
  BY <1>1, <1>2 DEF IInv, BypassTypeOK, FreshInv, ReportInv
<1>6. AloneInv'
  BY <1>1, <1>2 DEF IInv, BypassTypeOK, AloneInv, Active, Insert, Suffer
<1> QED
  BY <1>3, <1>4, <1>5, <1>6 DEF IInv

LEMMA GiveUpKeeps == ASSUME NEW o \in Ops PROVE IInv /\ GiveUp(o) => IInv'
<1> SUFFICES ASSUME IInv, GiveUp(o) PROVE IInv'
  OBVIOUS
<1>1. BypassTypeOK' /\ FreshInv'
  BY DEF GiveUp, IInv, BypassTypeOK, FreshInv
<1>2. TaskInv' /\ StageInv' /\ ReportInv' /\ AloneInv'
  BY DEF GiveUp, IInv, TaskInv, StageInv, ReportInv, AloneInv, Active
<1> QED
  BY <1>1, <1>2 DEF IInv

LEMMA SaveGiveUpKeeps == ASSUME NEW o \in Ops PROVE IInv /\ SaveGiveUp(o) => IInv'
<1> SUFFICES ASSUME IInv, SaveGiveUp(o) PROVE IInv'
  OBVIOUS
<1>1. /\ o \in giveUp /\ giveUp' = giveUp \ {o}
      /\ op' = [op EXCEPT ![o] = [status |-> "failed", starting |-> FALSE]]
      /\ UNCHANGED <<at, task, done>>
      /\ suffered \subseteq suffered'
  BY DEF SaveGiveUp, Become, Suffer
<1>2. "hasty" \notin suffered' => ~Working(o) /\ op[o].starting
  BY DEF SaveGiveUp, Suffer
<1>3. BypassTypeOK'
  BY <1>1 DEF IInv, BypassTypeOK, OpStatuses
<1>4. TaskInv' /\ FreshInv' /\ StageInv'
  BY <1>1 DEF IInv, BypassTypeOK, TaskInv, FreshInv, StageInv
<1>5. ReportInv'
  BY <1>1, <1>2 DEF IInv, BypassTypeOK, StageInv, ReportInv, Working
<1>6. AloneInv'
  BY <1>1 DEF IInv, BypassTypeOK, AloneInv, Active
<1> QED
  BY <1>3, <1>4, <1>5, <1>6 DEF IInv

LEMMA ClaimKeeps ==
  ASSUME NEW w \in Workers, NEW o \in Ops PROVE IInv /\ Claim(w, o) => IInv'
<1> SUFFICES ASSUME IInv, Claim(w, o) PROVE IInv'
  OBVIOUS
<1>1. /\ at[w] = "idle" /\ op[o].status = "pending"
      /\ op' = [op EXCEPT ![o] = [status |-> "in_progress", starting |-> TRUE]]
      /\ at' = [at EXCEPT ![w] = "starting"]
      /\ task' = [task EXCEPT ![w] = o]
      /\ UNCHANGED <<giveUp, done, suffered>>
  BY DEF Claim
<1>2. o \notin done /\ (\A v \in Workers : task[v] # o) /\ o # None
  BY <1>1, OpsAreNew DEF IInv, FreshInv
<1>3. BypassTypeOK'
  BY <1>1 DEF IInv, BypassTypeOK, OpStatuses, Stages
<1>4. TaskInv'
  BY <1>1, <1>2 DEF IInv, BypassTypeOK, TaskInv
<1>5. FreshInv'
  BY <1>1, <1>2 DEF IInv, BypassTypeOK, FreshInv
<1>6. StageInv'
  BY <1>1, <1>2 DEF IInv, BypassTypeOK, TaskInv, StageInv
<1>7. ReportInv'
  BY <1>1, <1>2 DEF IInv, BypassTypeOK, ReportInv
<1>8. AloneInv'
  BY <1>1 DEF IInv, BypassTypeOK, AloneInv, Active
<1> QED
  BY <1>3, <1>4, <1>5, <1>6, <1>7, <1>8 DEF IInv

LEMMA PrepareKeeps == ASSUME NEW w \in Workers PROVE IInv /\ Prepare(w) => IInv'
<1> SUFFICES ASSUME IInv, Prepare(w) PROVE IInv'
  OBVIOUS
<1> DEFINE o == task[w]
<1>1. /\ at[w] = "starting" /\ at' = [at EXCEPT ![w] = "preparing"]
      /\ op' = [op EXCEPT ![o] = [status |-> "in_progress", starting |-> FALSE]]
      /\ UNCHANGED <<task, giveUp, done, suffered>>
  BY DEF Prepare, Become
<1>2. o \in Ops /\ o \notin done
  BY <1>1, OpsAreNew DEF IInv, BypassTypeOK, TaskInv, StageInv
<1>3. BypassTypeOK'
  BY <1>1 DEF IInv, BypassTypeOK, OpStatuses, Stages
<1>4. TaskInv'
  BY <1>1 DEF IInv, BypassTypeOK, TaskInv
<1>5. FreshInv' /\ StageInv'
  BY <1>1, <1>2 DEF IInv, BypassTypeOK, TaskInv, FreshInv, StageInv
<1>6. ReportInv'
  BY <1>1, <1>2 DEF IInv, BypassTypeOK, ReportInv
<1>7. AloneInv'
  BY <1>1, <1>2 DEF IInv, BypassTypeOK, FreshInv, ReportInv, AloneInv, Active
<1> QED
  BY <1>3, <1>4, <1>5, <1>6, <1>7 DEF IInv

LEMMA LockKeeps == ASSUME NEW w \in Workers PROVE IInv /\ Lock(w) => IInv'
  BY OpsAreNew
  DEF Lock, IInv, BypassTypeOK, TaskInv, FreshInv, StageInv, ReportInv, AloneInv,
      Active, OpStatuses, Stages

LEMMA CommitKeeps == ASSUME NEW w \in Workers PROVE IInv /\ Commit(w) => IInv'
<1> SUFFICES ASSUME IInv, Commit(w) PROVE IInv'
  OBVIOUS
<1>1. /\ at[w] = "locked" /\ at' = [at EXCEPT ![w] = "committed"]
      /\ done' = done \cup {task[w]}
      /\ UNCHANGED <<op, task, giveUp>>
      /\ suffered \subseteq suffered'
  BY DEF Commit, Suffer
<1>2. task[w] \in Ops
  BY <1>1 DEF IInv, BypassTypeOK, TaskInv
<1>3. BypassTypeOK' /\ TaskInv'
  BY <1>1, <1>2 DEF IInv, BypassTypeOK, TaskInv, Stages
<1>4. FreshInv' /\ StageInv'
  BY <1>1, <1>2 DEF IInv, BypassTypeOK, TaskInv, FreshInv, StageInv
<1>5. ReportInv' /\ AloneInv'
  BY <1>1, <1>2 DEF IInv, BypassTypeOK, TaskInv, ReportInv, AloneInv, Active
<1> QED
  BY <1>3, <1>4, <1>5 DEF IInv

LEMMA CompleteKeeps == ASSUME NEW w \in Workers PROVE IInv /\ Complete(w) => IInv'
  BY OpsAreNew
  DEF Complete, Become, Stop, IInv, BypassTypeOK, TaskInv, FreshInv, StageInv,
      ReportInv, AloneInv, Active, OpStatuses, Stages

LEMMA FailKeeps == ASSUME NEW w \in Workers PROVE IInv /\ Fail(w) => IInv'
  BY OpsAreNew
  DEF Fail, Become, Stop, Suffer, IInv, BypassTypeOK, TaskInv, FreshInv, StageInv,
      ReportInv, AloneInv, Active, OpStatuses, Stages

LEMMA CrashKeeps == ASSUME NEW w \in Workers PROVE IInv /\ Crash(w) => IInv'
  BY OpsAreNew
  DEF Crash, Stop, Suffer, IInv, BypassTypeOK, TaskInv, FreshInv, StageInv,
      ReportInv, AloneInv, Active, OpStatuses, Stages

LEMMA NextIInv == IInv /\ [Next]_vars => IInv'
<1> SUFFICES ASSUME IInv, [Next]_vars PROVE IInv'
  OBVIOUS
<1>1. CASE LifecycleStep \/ UNCHANGED vars
  <2>1. UNCHANGED bypass
    BY <1>1 DEF LifecycleStep, vars, bypass
  <2> QED
    BY <2>1, FaultsStay, LifecycleKeeps
<1>2. CASE \E o \in Ops : Look(o) \/ Insert(o) \/ GiveUp(o) \/ SaveGiveUp(o)
  BY <1>2, LookKeeps, InsertKeeps, GiveUpKeeps, SaveGiveUpKeeps
<1>3. CASE \E w \in Workers, o \in Ops : Claim(w, o)
  BY <1>3, ClaimKeeps
<1>4. CASE \E w \in Workers : Execution(w) \/ Crash(w)
  BY <1>4, PrepareKeeps, LockKeeps, CommitKeeps, CompleteKeeps, FailKeeps,
     CrashKeeps DEF Execution
<1> QED
  BY <1>1, <1>2, <1>3, <1>4 DEF Next

LEMMA Inductive == Spec => []IInv
<1>1. Init => IInv
  BY InitIInv
<1>2. IInv /\ [Next]_vars => IInv'
  BY NextIInv
<1> QED
  BY <1>1, <1>2, PTL DEF Spec

(***************************************************************************)
(* run_bypass_job executes a persisted operation once: no two workers, and *)
(* never again, whoever crashes, is given up on or cannot save.            *)
(***************************************************************************)
THEOREM OperationExecutedOnce == Spec => []ExecutedOnce
<1>1. IInv => ExecutedOnce
  BY OpsAreNew DEF IInv, BypassTypeOK, TaskInv, StageInv, ExecutedOnce, Stages
<1> QED
  BY <1>1, Inductive, PTL

(***************************************************************************)
(* Completed operations have closed the year; failed ones have changed     *)
(* nothing unless a living worker was given up on or a save raised.        *)
(***************************************************************************)
THEOREM StatusIsTruthful == Spec => []ReportedTruthfully
<1>1. IInv => ReportedTruthfully
  BY DEF IInv, ReportInv, ReportedTruthfully
<1> QED
  BY <1>1, Inductive, PTL

(***************************************************************************)
(* At most one operation closes the year and deletes its grading, unless   *)
(* two were inserted, a worker was given up on, or a save raised.          *)
(***************************************************************************)
THEOREM YearClosedOnce == Spec => []ClosedOnce
<1>1. IInv => ClosedOnce
  <2> SUFFICES ASSUME IInv, suffered \cap {"overlap", "hasty", "save"} = {}
               PROVE  Cardinality(done) <= 1
    BY DEF ClosedOnce
  <2>1. done \subseteq Ops
    BY DEF IInv, BypassTypeOK
  <2>2. \A o \in done : Active(o)
    BY <2>1 DEF IInv, BypassTypeOK, FreshInv, ReportInv, Active, OpStatuses
  <2>3. \A o, q \in done : o = q
    BY <2>1, <2>2 DEF IInv, AloneInv
  <2>4. done = {} \/ \E o \in done : done = {o}
    BY <2>3
  <2>5. CASE done = {}
    BY <2>5, FS_EmptySet
  <2>6. CASE \E o \in done : done = {o}
    <3>1. PICK o \in done : done = {o}
      BY <2>6
    <3>2. Cardinality({o}) = 1
      BY FS_Singleton
    <3> QED
      BY <3>1, <3>2
  <2> QED
    BY <2>4, <2>5, <2>6
<1> QED
  BY <1>1, Inductive, PTL
=============================================================================
