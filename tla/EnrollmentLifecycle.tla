------------------------ MODULE EnrollmentLifecycle ------------------------
(***************************************************************************)
(* The enrollments of ONE academic year, the current one, of ONE tenant    *)
(* and the requests that move them: completing the year, graduation,       *)
(* transfer, mid-year promotion, their undoing, withdrawal, reinstatement, *)
(* enrollment, edits of either row and the year-end wizard.                *)
(*                                                                         *)
(* A request loads the enrollment and the student without a lock, checks   *)
(* them, and later saves named fields of both.  The requests on one        *)
(* student do so in one transaction; the bulk ones, a withdrawal and a     *)
(* reinstatement in two, one after the other.  The bypass of GradingBypass *)
(* holds row locks, so a save waits while its student is in held.          *)
(*                                                                         *)
(* Grades are the active grade levels in their order, 1 the lowest.  The   *)
(* section, the dates, the averages a promotion asks for and the           *)
(* gradebooks are abstracted.  The deletion of a student, imports and the  *)
(* command that repairs the status of closed enrollments are left out.     *)
(***************************************************************************)
EXTENDS Integers, FiniteSets

CONSTANTS
  Students,   \* students of the tenant
  TopGrade,   \* the number of active grade levels
  Requests,   \* web requests on enrollments that run at the same time
  Edits,      \* what users may write into an enrollment: status and outcome
  StatusEdits, \* what users may write into a student's status
  Faults,     \* the faults that may happen, see AllFaults
  MaxFaults,  \* how many of them one behaviour may have
  Mixed,      \* may requests run beside an edit or a fault?
  None

Grades == 1..TopGrade

Outcomes == {"promoted", "double_promoted", "repeated", "graduated",
             "withdrawn", "transferred"}

\* YearEndOutcome.close_year_outcomes
CloseOutcomes == {"promoted", "double_promoted", "repeated", "withdrawn"}

\* "pending" also stands for a canceled row: both are rows that are not open.
SeatStatuses == {"pending", "enrolled", "completed", "withdrawn"}

Seats == [status  : SeatStatuses \cup {"absent"},
          outcome : Outcomes \cup {None},
          grade   : Grades \cup {None},
          next    : Grades \cup {None}]

\* "active" also stands for enrolled, inactive, suspended and not returned.
Statuses == {"active", "graduated", "withdrawn", "transferred", "deleted"}

(***************************************************************************)
(* "stale"    a request saves what it decided on an enrollment that        *)
(*            another has changed since                                    *)
(* "half"     a process dies between the two saves of a request            *)
(* "reinstated"  a reinstatement makes a student active whose year ended   *)
(*            in graduation                                                *)
(* "edited"   a user writes a status or an outcome into one of the rows    *)
(* and in GradingBypass:                                                   *)
(* "overlap"  two operations are inserted by requests that found none      *)
(* "hasty"    the status view gives up on a worker that is alive           *)
(* "crash"    a worker dies after it has left "Starting"                   *)
(* "save"     the status save after the commit raises                      *)
(* "late"     an enrollment is inserted while the bypass holds its locks   *)
(***************************************************************************)
BypassFaults == {"overlap", "hasty", "crash", "save", "late"}
AllFaults == {"stale", "half", "reinstated", "edited"} \cup BypassFaults

ASSUME FaultsAssumption ==
  Faults \subseteq AllFaults /\ MaxFaults \in Nat /\ Mixed \in BOOLEAN
ASSUME TopGradeAssumption == TopGrade \in Nat \ {0}
ASSUME EditsAssumption ==
  /\ Edits \subseteq [status : SeatStatuses, outcome : Outcomes \cup {None}]
  /\ StatusEdits \subseteq Statuses
ASSUME NoneIsNew ==
  /\ None \notin Students /\ None \notin Grades
  /\ None \notin Outcomes \cup Statuses \cup {"enrolled", "completed"}

VARIABLES
  seat,      \* seat[s]: the Enrollment of student s in the year
  student,   \* student[s]: Student.status
  held,      \* students whose rows another transaction has locked
  job,       \* job[u]: what request u is doing
  suffered   \* the faults that have happened so far

records == <<seat, student>>

NoSeat == [status |-> "absent", outcome |-> None, grade |-> None, next |-> None]
Seated(g, status) ==
  [status |-> status, outcome |-> None, grade |-> g, next |-> None]

\* The faults F happen in this step, if any.
Suffer(F) ==
  /\ F \subseteq Faults
  /\ suffered' = suffered \cup F
  /\ Cardinality(suffered') <= MaxFaults
  /\ \/ F \cap (BypassFaults \cup {"edited"}) = {} \/ Mixed
     \/ \A u \in Requests : job[u].at = "idle"

Enrolled(s) == seat[s].status = "enrolled"
Graduated(s) == seat[s].status = "completed" /\ seat[s].outcome = "graduated"
Open == {s \in Students : Enrolled(s)}

-----------------------------------------------------------------------------
(* Placement, enrollment_lifecycle.py                                      *)

\* Mutant: candidates[steps - 1] with no test of how many there are.
AboveUnchecked(g, n) == g + n

\* The n-th configured grade above g.
Above(g, n) == IF g + n \in Grades THEN g + n ELSE None

\* resolve_year_end_placement: the outcome and next grade that are recorded,
\* none when it raises.  A promotion from the highest grade is a graduation.
Placements(g, outcome, wanted) ==
  {p \in [outcome : Outcomes, next : Grades \cup {None}] :
     \/ /\ outcome = "repeated" /\ wanted \in {None, g}
        /\ p.outcome = outcome /\ p.next = g
     \/ /\ outcome = "promoted" /\ wanted # None /\ wanted > g
        /\ p.outcome = outcome /\ p.next = wanted
     \/ /\ outcome = "promoted" /\ wanted = None
        /\ p.next = Above(g, 1)
        /\ p.outcome = IF p.next = None THEN "graduated" ELSE outcome
     \/ /\ outcome = "double_promoted" /\ Above(g, 2) # None
        /\ wanted \in {None, Above(g, 2)}
        /\ p.outcome = outcome /\ p.next = Above(g, 2)
     \/ /\ outcome = "graduated" /\ Above(g, 1) = None
        /\ p.outcome = outcome /\ p.next = None
     \/ /\ outcome \in {"withdrawn", "transferred"}
        /\ p.outcome = outcome /\ p.next = None}

-----------------------------------------------------------------------------
(* What a request on student s, whose rows it has loaded, will save        *)

(***************************************************************************)
(* at      which row is saved next, seat2 and student2 if it is the last,  *)
(*         status if the enrollment is looked for after it; find: it is    *)
(*         looked for now                                                  *)
(* new     the fields to save on the enrollment, see Saved                 *)
(* fresh   history: nobody has changed the enrollment since it was loaded  *)
(* status  the status to save on the student, None if it saves none        *)
(* bulk    one transaction per save                                        *)
(***************************************************************************)
NoSave == [status |-> None, outcome |-> None, grade |-> None, next |-> None]

Idle == [at |-> "idle", student |-> None, new |-> NoSave, fresh |-> TRUE,
         status |-> None, bulk |-> FALSE]

Load(s, new, status, bulk, first) ==
  [at |-> first, student |-> s, new |-> new, fresh |-> TRUE,
   status |-> status, bulk |-> bulk]

Closing(status, outcome, next) ==
  [status |-> status, outcome |-> outcome, grade |-> None, next |-> next]

Moving(g) ==
  [status |-> None, outcome |-> None, grade |-> g, next |-> Above(g, 1)]

\* A student who had left comes back; others keep their status.
Returns(s) == IF student[s] \in {"withdrawn", "transferred"} THEN "active" ELSE None

\* Mutant: looks at the outcome that was asked for, not the one resolved.
CloseAsAsked(s, outcome, bulk) ==
  {Load(s,
        Closing(IF outcome = "withdrawn" THEN "withdrawn" ELSE "completed",
                p.outcome, p.next),
        IF outcome \in {"graduated", "withdrawn"} THEN outcome ELSE Returns(s),
        bulk, "seat") :
     p \in Placements(seat[s].grade, outcome, None)}

\* close_enrollment_year
Close(s, outcome, bulk) ==
  {Load(s,
        Closing(IF outcome = "withdrawn" THEN "withdrawn" ELSE "completed",
                p.outcome, p.next),
        IF p.outcome \in {"graduated", "withdrawn"} THEN p.outcome ELSE Returns(s),
        bulk, "seat") :
     p \in Placements(seat[s].grade, outcome, None)}

\* graduate_student
Graduate(s, bulk) ==
  Load(s, Closing("completed", "graduated", None), "graduated", bulk, "seat")

\* transfer_out_student saves the student first, and the enrollment only if
\* it is enrolled.
TransferOut(s, bulk) ==
  Load(s, IF Enrolled(s) THEN Closing("withdrawn", "transferred", None) ELSE NoSave,
       "transferred", bulk, "student")

\* mid_year_promote_student and undo_mid_year_promotion
MoveTo(s, g, status) ==
  Load(s, Moving(g), status, TRUE, "seat")

\* undo_year_end_promotion
Reopen(s) == Load(s, Closing("enrolled", None, None), Returns(s), TRUE, "seat")

Begin(u, j) ==
  /\ job[u] = Idle
  /\ Mixed \/ suffered = {}
  /\ job' = [job EXCEPT ![u] = j]
  /\ UNCHANGED <<records, held, suffered>>

CompleteYear(u, s) ==
  /\ Enrolled(s)
  /\ \E outcome \in CloseOutcomes, bulk \in BOOLEAN :
       \E j \in Close(s, outcome, bulk) : Begin(u, j)

GraduateStudent(u, s) ==
  /\ Enrolled(s)
  /\ \E bulk \in BOOLEAN : Begin(u, Graduate(s, bulk))

Transfer(u, s) ==
  \E bulk \in BOOLEAN :
    /\ bulk => Enrolled(s)
    /\ Begin(u, TransferOut(s, bulk))

\* Mutant: without _require_enrolled_enrollment.
MidYearPromoteClosed(u, s) ==
  /\ seat[s] # NoSeat
  /\ Above(seat[s].grade, 1) # None
  /\ Begin(u, MoveTo(s, Above(seat[s].grade, 1), Returns(s)))

MidYearPromote(u, s) ==
  /\ Enrolled(s)
  /\ Above(seat[s].grade, 1) # None
  /\ Begin(u, MoveTo(s, Above(seat[s].grade, 1), Returns(s)))

UndoPromotion(u, s) ==
  \/ /\ seat[s].status = "completed"
     /\ seat[s].outcome \in CloseOutcomes
     /\ Begin(u, Reopen(s))
  \/ /\ Enrolled(s)
     /\ seat[s].grade > 1
     /\ Begin(u, MoveTo(s, seat[s].grade - 1, None))

-----------------------------------------------------------------------------
(* The saves                                                               *)

\* The row with the fields of new saved over it.
Saved(row, new) ==
  IF new = NoSave THEN row
  ELSE IF new.grade # None
  THEN [row EXCEPT !.grade = new.grade, !.next = new.next]
  ELSE [row EXCEPT !.status = new.status, !.outcome = new.outcome,
                   !.next = new.next]

SavedStudent(j) == IF j.status = None THEN student[j.student] ELSE j.status

\* A save of what was decided on an enrollment that is not there any more.
Stale(j) == IF j.fresh \/ j.new = NoSave THEN {} ELSE {"stale"}

\* The jobs after somebody else has changed the enrollments of S.
Outdated(jobs, S) ==
  [u \in Requests |-> IF jobs[u].student \in S
                      THEN [jobs[u] EXCEPT !.fresh = FALSE] ELSE jobs[u]]

\* The views on one student: both rows in one transaction.
SaveBoth(u) ==
  LET j == job[u]
  IN  /\ j.at # "idle" /\ ~j.bulk
      /\ j.student \notin held
      /\ seat' = [seat EXCEPT ![j.student] = Saved(@, j.new)]
      /\ student' = [student EXCEPT ![j.student] = SavedStudent(j)]
      /\ Suffer(Stale(j))
      /\ job' = [Outdated(job, {j.student}) EXCEPT ![u] = Idle]
      /\ UNCHANGED held

\* apply_bulk and undo_promotions: each row in its own transaction.
SaveSeat(u) ==
  LET j == job[u]
  IN  /\ j.at \in {"seat", "seat2"} /\ j.bulk
      /\ j.student \notin held
      /\ seat' = [seat EXCEPT ![j.student] = Saved(@, j.new)]
      /\ Suffer(Stale(j))
      /\ job' = [Outdated(job, {j.student}) EXCEPT ![u] =
                   IF j.at = "seat" /\ j.status # None
                   THEN [j EXCEPT !.at = "student2"] ELSE Idle]
      /\ UNCHANGED <<student, held>>

SaveStudent(u) ==
  LET j == job[u]
  IN  /\ j.at \in {"student", "student2"} /\ j.bulk
      /\ j.student \notin held
      /\ student' = [student EXCEPT ![j.student] = SavedStudent(j)]
      /\ Suffer(Stale(j))
      /\ job' = [job EXCEPT ![u] =
                   IF j.at = "student" THEN [j EXCEPT !.at = "seat2"] ELSE Idle]
      /\ UNCHANGED <<seat, held>>

\* The process dies, or the transaction is rolled back: between the saves of
\* two transactions only one is made.
Die(u) ==
  /\ job[u] # Idle
  /\ Suffer(IF job[u].at \in {"find", "seat2", "student2"} THEN {"half"} ELSE {})
  /\ job' = [job EXCEPT ![u] = Idle]
  /\ UNCHANGED <<records, held>>

-----------------------------------------------------------------------------
(* StudentWithdrawView and StudentReinstateView: each statement commits    *)

WithdrawStudent(u, s) == Begin(u, Load(s, NoSave, "withdrawn", TRUE, "status"))

ReinstateStudent(u, s) ==
  /\ student[s] \in {"withdrawn", "transferred"}
  /\ Begin(u, Load(s, NoSave, "active", TRUE, "status"))

SaveStatus(u) ==
  LET j == job[u]
  IN  /\ j.at = "status"
      /\ j.student \notin held
      /\ student' = [student EXCEPT ![j.student] = j.status]
      /\ job' = [job EXCEPT ![u] = [j EXCEPT !.at = "find"]]
      /\ UNCHANGED <<seat, held, suffered>>

\* A withdrawal closes whatever enrollment there is, a reinstatement opens
\* one that was withdrawn.
Found(j) ==
  IF j.status = "withdrawn" THEN seat[j.student].status # "absent"
  ELSE seat[j.student].status = "withdrawn"

SeatChange(j) ==
  IF j.status = "withdrawn" THEN Closing("withdrawn", "withdrawn", None)
  ELSE Closing("enrolled", None, None)

FindSeat(u) ==
  LET j == job[u]
  IN  /\ j.at = "find"
      /\ Suffer(IF j.status = "active" /\ Graduated(j.student)
                THEN {"reinstated"} ELSE {})
      /\ job' = [job EXCEPT ![u] =
                   IF Found(j)
                   THEN [j EXCEPT !.at = "seat2", !.new = SeatChange(j),
                                  !.fresh = TRUE]
                   ELSE Idle]
      /\ UNCHANGED <<records, held>>

-----------------------------------------------------------------------------
(* Requests of one transaction                                             *)

\* A request whose row was deleted fails when it saves it.
Forget(s) ==
  job' = [u \in Requests |->
            IF job[u].student = s /\ job[u].at \in {"seat", "student", "seat2"}
            THEN Idle ELSE Outdated(job, {s})[u]]

\* EnrollmentListView.post: a new row with the status the request names, or
\* with re_enroll an enrolled one in place of the old.
Enroll(s, g, status) ==
  /\ student[s] \notin {"graduated", "transferred", "deleted"}
  /\ s \notin held
  /\ seat[s] = NoSeat \/ status = "enrolled"
  /\ seat' = [seat EXCEPT ![s] = Seated(g, status)]
  /\ student' = [student EXCEPT ![s] = "active"]
  /\ Forget(s)
  /\ UNCHANGED <<held, suffered>>

\* EnrollmentDetailView.put: the status, the outcome or both.  A request that
\* completes the year must have an outcome, one that only clears it need not.
EditSeat(s) ==
  /\ seat[s].status # "absent"
  /\ s \notin held
  /\ Mixed \/ suffered = {}
  /\ \E e \in Edits :
       /\ e.status = "completed" => e.outcome # None \/ seat[s].status = e.status
       /\ seat' = [seat EXCEPT ![s].status = e.status, ![s].outcome = e.outcome]
  /\ Suffer({"edited"})
  /\ job' = Outdated(job, {s})
  /\ UNCHANGED <<student, held>>

\* StudentDetailView.put
EditStudent(s) ==
  /\ s \notin held
  /\ Mixed \/ suffered = {}
  /\ \E status \in StatusEdits : student' = [student EXCEPT ![s] = status]
  /\ Suffer({"edited"})
  /\ UNCHANGED <<seat, held, job>>

\* EnrollmentDetailView.delete
Remove(s) ==
  /\ seat[s] # NoSeat
  /\ s \notin held
  /\ seat' = [seat EXCEPT ![s] = NoSeat]
  /\ Forget(s)
  /\ UNCHANGED <<student, held, suffered>>

\* get_year_end_outcome_options
Options(g) ==
  {o \in CloseOutcomes \cup {"graduated"} :
     \E p \in Placements(g, o, None) : p.outcome = o}

\* apply_year_end_wizard, for one open enrollment of a section: its outcome
\* is one for the grade it had when it was validated, before the transaction
\* reads it again.  Die is the rollback.
WizardClose(u, s) ==
  /\ Enrolled(s)
  /\ \E g \in Grades : \E o \in Options(g) :
       \E j \in (IF o = "graduated" THEN {Graduate(s, FALSE)}
                 ELSE Close(s, o, FALSE)) :
         Begin(u, j)

-----------------------------------------------------------------------------
News == [status  : {"enrolled", "completed", "withdrawn"} \cup {None},
         outcome : Outcomes \cup {None},
         grade   : Grades \cup {None},
         next    : Grades \cup {None}]

Jobs == [at : {"idle", "seat", "student", "seat2", "student2", "status", "find"},
         student : Students \cup {None}, new : News, fresh : BOOLEAN,
         status : Statuses \cup {None}, bulk : BOOLEAN]

LifecycleTypeOK ==
  /\ seat \in [Students -> Seats]
  /\ student \in [Students -> Statuses]
  /\ held \subseteq Students
  /\ suffered \subseteq Faults
  /\ job \in [Requests -> Jobs]

LifecycleInit ==
  /\ seat \in [Students -> {NoSeat} \cup {Seated(g, "enrolled") : g \in Grades}]
  /\ student = [s \in Students |-> "active"]
  /\ held = {}
  /\ job = [u \in Requests |-> Idle]
  /\ suffered = {}

Lifecycle ==
  \/ \E u \in Requests, s \in Students :
       \/ CompleteYear(u, s) \/ GraduateStudent(u, s) \/ Transfer(u, s)
       \/ MidYearPromote(u, s) \/ UndoPromotion(u, s) \/ WizardClose(u, s)
       \/ WithdrawStudent(u, s) \/ ReinstateStudent(u, s)
  \/ \E u \in Requests :
       \/ SaveBoth(u) \/ SaveSeat(u) \/ SaveStudent(u) \/ Die(u)
       \/ SaveStatus(u) \/ FindSeat(u)
  \/ \E s \in Students, g \in Grades, status \in SeatStatuses : Enroll(s, g, status)
  \/ \E s \in Students : Remove(s) \/ EditSeat(s) \/ EditStudent(s)

-----------------------------------------------------------------------------
(***************************************************************************)
(* The next grade of a completed enrollment is the one its outcome asks    *)
(* for, and there is none without an outcome, whatever was moved, closed   *)
(* and undone before, unless a request saved over a row it had loaded      *)
(* before a change, or a user edited a row.                                *)
(***************************************************************************)
FitsOutcome(e) ==
  /\ e.outcome = None => e.next = None
  /\ e.outcome = "promoted" => e.next # None /\ e.next > e.grade
  /\ e.outcome = "double_promoted" => e.next = e.grade + 2
  /\ e.outcome = "repeated" => e.next = e.grade
  /\ e.outcome \in {"graduated", "withdrawn", "transferred"} => e.next = None

PlacementFollowsOutcome ==
  suffered \cap {"stale", "edited"} = {} =>
    \A s \in Students : seat[s].status = "completed" => FitsOutcome(seat[s])

(***************************************************************************)
(* A student whose year ended in graduation has left the school: the two   *)
(* rows agree except while a request is between its two saves, and unless  *)
(* one died there or saved over a changed row, a user edited a row, or the *)
(* student was transferred after the graduation and then reinstated.       *)
(***************************************************************************)
GraduatesLeave ==
  suffered \cap {"stale", "half", "reinstated", "edited"} = {} =>
    \A s \in Students :
      Graduated(s) /\ (\A u \in Requests : job[u].student # s) =>
        student[s] \in {"graduated", "transferred"}
=============================================================================
