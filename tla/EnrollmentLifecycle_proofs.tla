-------------------- MODULE EnrollmentLifecycle_proofs --------------------
(***************************************************************************)
(* What GradingBypass and the requests on enrollments do to the rows of    *)
(* the year, for any number of students, grades, requests and workers, any *)
(* requested outcomes and any faults.                                      *)
(***************************************************************************)
EXTENDS GradingBypass_proofs

(* A request that has still to save the enrollment.                        *)
Saving(j) == j.at \in {"seat", "student", "seat2"} /\ j.new # NoSave

(* An enrollment has a grade.                                              *)
GradedInv == \A s \in Students : seat[s].status # "absent" => seat[s].grade \in Grades

(* A request has a student, and what it saves is there and is either a     *)
(* move or a closing.                                                      *)
JobOn(rows, j) ==
  /\ j.at # "idle" => j.student \in Students
  /\ j.at \in {"seat2", "student2", "status", "find"} => j.bulk
  /\ j.at \in {"status", "find"} =>
       j.new = NoSave /\ j.status \in {"withdrawn", "active"}
  /\ Saving(j) => rows[j.student].status # "absent"
  /\ j.new # NoSave => (j.new.grade = None <=> j.new.status # None)
  /\ j.new.grade # None => j.bulk /\ j.at \in {"seat", "student2"}

JobOK(j) == JobOn(seat, j)

JobInv == \A u \in Requests : JobOK(job[u])

(* What a request that read the current row saves keeps the placement.     *)
Promised(j) ==
  Saving(j) /\ j.fresh =>
    IF j.new.grade # None
    THEN seat[j.student].status = "enrolled"
    ELSE j.new.status = "completed" =>
           FitsOutcome([status |-> "completed", outcome |-> j.new.outcome,
                        grade |-> seat[j.student].grade, next |-> j.new.next])

(* No request saved over a changed row, and no user edited one.            *)
Unharmed == suffered \cap {"stale", "edited"} = {}

FitInv ==
  Unharmed =>
    /\ \A s \in Students : seat[s].status = "completed" => FitsOutcome(seat[s])
    /\ \A u \in Requests : Promised(job[u])

LInv == LifecycleTypeOK /\ GradedInv /\ JobInv /\ FitInv

-----------------------------------------------------------------------------
(* The operators                                                           *)

LEMMA AboveType ==
  ASSUME NEW g \in Grades, NEW n \in Nat
  PROVE  /\ Above(g, n) \in Grades \cup {None}
         /\ Above(g, n) # None => Above(g, n) = g + n
  BY DEF Above

(* resolve_year_end_placement records an outcome its next grade fits.      *)
LEMMA PlacementFits ==
  ASSUME NEW g \in Grades, NEW outcome, NEW wanted,
         NEW r \in Placements(g, outcome, wanted), NEW x
  PROVE  /\ r.outcome \in Outcomes /\ r.next \in Grades \cup {None}
         /\ FitsOutcome([status |-> x, outcome |-> r.outcome, grade |-> g,
                         next |-> r.next])
<1>1. /\ r.outcome \in Outcomes /\ r.next \in Grades \cup {None}
      /\ g \in Int /\ None \notin Outcomes /\ None \notin Grades
  BY NoneIsNew DEF Placements, Grades
<1>2. r.outcome = "promoted" => r.next # None /\ r.next > g
  BY <1>1, AboveType, NoneIsNew DEF Placements, Grades
<1>3. r.outcome = "double_promoted" => r.next = g + 2
  BY <1>1, AboveType, NoneIsNew DEF Placements, Grades
<1>4. r.outcome = "repeated" => r.next = g
  BY <1>1 DEF Placements
<1>5. r.outcome \in {"graduated", "withdrawn", "transferred"} => r.next = None
  BY <1>1 DEF Placements
<1> QED
  BY <1>1, <1>2, <1>3, <1>4, <1>5 DEF FitsOutcome

(* What is saved over a row.                                               *)
LEMMA SavedRow ==
  ASSUME NEW e \in Seats, NEW n \in News,
         n # NoSave => (n.grade = None <=> n.status # None)
  PROVE  /\ Saved(e, n) \in Seats
         /\ n = NoSave => Saved(e, n) = e
         /\ n # NoSave /\ n.grade # None =>
              Saved(e, n) = [status |-> e.status, outcome |-> e.outcome,
                             grade |-> n.grade, next |-> n.next]
         /\ n # NoSave /\ n.grade = None =>
              Saved(e, n) = [status |-> n.status, outcome |-> n.outcome,
                             grade |-> e.grade, next |-> n.next]
<1>1. CASE n = NoSave
  BY <1>1 DEF Saved
<1>2. CASE n # NoSave /\ n.grade # None
  BY <1>2 DEF Saved, Seats, News
<1>3. CASE n # NoSave /\ n.grade = None
  BY <1>3 DEF Saved, Seats, SeatStatuses, News
<1> QED
  BY <1>1, <1>2, <1>3

LEMMA Constants ==
  /\ NoSeat \in Seats /\ NoSeat.status = "absent"
  /\ NoSave \in News /\ Idle \in Jobs /\ Idle.at = "idle" /\ Idle.new = NoSave
  /\ \A g \in Grades, st \in SeatStatuses :
       /\ Seated(g, st) \in Seats /\ Seated(g, st).status = st
       /\ Seated(g, st).grade = g /\ Seated(g, st).outcome = None
       /\ Seated(g, st).next = None
  BY DEF NoSeat, Seats, SeatStatuses, NoSave, News, Idle, Jobs, Seated

LEMMA ClosingIs ==
  ASSUME NEW st \in {"enrolled", "completed", "withdrawn"},
         NEW o \in Outcomes \cup {None}, NEW n \in Grades \cup {None}
  PROVE  /\ Closing(st, o, n) \in News /\ Closing(st, o, n) # NoSave
         /\ Closing(st, o, n).status = st /\ Closing(st, o, n).outcome = o
         /\ Closing(st, o, n).next = n /\ Closing(st, o, n).grade = None
         /\ st # None
  BY NoneIsNew DEF Closing, NoSave, News, Statuses

LEMMA MovingIs ==
  ASSUME NEW g \in Grades
  PROVE  /\ Moving(g) \in News /\ Moving(g) # NoSave
         /\ Moving(g).grade = g /\ Moving(g).status = None /\ g # None
  BY AboveType, NoneIsNew DEF Moving, News, NoSave

-----------------------------------------------------------------------------
(* A request begins                                                        *)

(* What the five operations decide is right for the rows they have read.   *)
Decided(s, j) ==
  /\ j \in Jobs /\ j.student = s /\ j.at # "idle" /\ JobOK(j) /\ Promised(j)

LEMMA BeginKeeps ==
  ASSUME NEW u \in Requests, NEW s \in Students, NEW j,
         LInv, Begin(u, j), Decided(s, j)
  PROVE  LInv'
<1>1. /\ job \in [Requests -> Jobs] /\ job' = [job EXCEPT ![u] = j]
      /\ UNCHANGED <<seat, student, held, suffered>>
  BY DEF Begin, LInv, LifecycleTypeOK, records
<1>2. LifecycleTypeOK' /\ GradedInv'
  BY <1>1 DEF LInv, LifecycleTypeOK, GradedInv, Decided
<1>3. \A v \in Requests : job'[v] = IF v = u THEN j ELSE job[v]
  BY <1>1
<1>4. JobInv'
  BY <1>1, <1>3 DEF LInv, JobInv, JobOK, JobOn, Saving, Decided
<1>5. FitInv'
  BY <1>1, <1>3 DEF LInv, FitInv, Unharmed, Promised, Saving, Decided
<1> QED
  BY <1>2, <1>4, <1>5 DEF LInv

LEMMA LoadIs ==
  ASSUME NEW s \in Students, NEW n \in News, NEW st \in Statuses \cup {None},
         NEW b \in BOOLEAN, NEW first \in {"seat", "student", "status"}
  PROVE  LET j == Load(s, n, st, b, first)
         IN  /\ j \in Jobs /\ j.student = s /\ j.at = first /\ j.new = n
             /\ j.fresh /\ j.bulk = b /\ j.status = st
  BY DEF Load, Jobs

LEMMA ReturnsType == \A s \in Students : Returns(s) \in Statuses \cup {None}
  BY DEF Returns, Statuses

LEMMA ClosingDecided ==
  ASSUME NEW s \in Students, LInv, seat[s].status # "absent",
         NEW st \in {"enrolled", "completed", "withdrawn"},
         NEW o \in Outcomes \cup {None}, NEW n \in Grades \cup {None},
         st = "completed" =>
           FitsOutcome([status |-> "completed", outcome |-> o,
                        grade |-> seat[s].grade, next |-> n]),
         NEW status \in Statuses \cup {None}, NEW b \in BOOLEAN,
         NEW first \in {"seat", "student"}
  PROVE  Decided(s, Load(s, Closing(st, o, n), status, b, first))
<1> DEFINE new == Closing(st, o, n)
           j == Load(s, new, status, b, first)
<1>1. /\ new \in News /\ new # NoSave /\ new.status = st /\ new.outcome = o
      /\ new.next = n /\ new.grade = None /\ st # None
  BY ClosingIs
<1> HIDE DEF new
<1>2. j \in Jobs /\ j.student = s /\ j.at = first /\ j.new = new
  BY <1>1, LoadIs
<1> HIDE DEF j
<1>3. JobOK(j) /\ Promised(j)
  BY <1>1, <1>2 DEF JobOK, JobOn, Saving, Promised
<1> QED
  BY <1>2, <1>3 DEF Decided, j, new

LEMMA CloseDecided ==
  ASSUME NEW s \in Students, LInv, Enrolled(s), NEW outcome \in CloseOutcomes,
         NEW b \in BOOLEAN, NEW j \in Close(s, outcome, b)
  PROVE  Decided(s, j)
<1>1. seat[s].grade \in Grades
  BY DEF LInv, GradedInv, Enrolled
<1>2. PICK p \in Placements(seat[s].grade, outcome, None) :
        j = Load(s,
              Closing(IF outcome = "withdrawn" THEN "withdrawn" ELSE "completed",
                      p.outcome, p.next),
              IF p.outcome \in {"graduated", "withdrawn"} THEN p.outcome
              ELSE Returns(s),
              b, "seat")
  BY DEF Close
<1>3. /\ p.outcome \in Outcomes /\ p.next \in Grades \cup {None}
      /\ FitsOutcome([status |-> "completed", outcome |-> p.outcome,
                      grade |-> seat[s].grade, next |-> p.next])
  BY <1>1, PlacementFits
<1>4. (IF p.outcome \in {"graduated", "withdrawn"} THEN p.outcome ELSE Returns(s))
        \in Statuses \cup {None}
  BY ReturnsType DEF Statuses
<1> QED
  BY <1>2, <1>3, <1>4, ClosingDecided DEF Enrolled

LEMMA GraduateDecided ==
  ASSUME NEW s \in Students, LInv, seat[s].status # "absent", NEW b \in BOOLEAN
  PROVE  Decided(s, Graduate(s, b))
<1>1. FitsOutcome([status |-> "completed", outcome |-> "graduated",
                   grade |-> seat[s].grade, next |-> None])
  BY NoneIsNew DEF FitsOutcome, Outcomes
<1>2. "graduated" \in Outcomes /\ "graduated" \in Statuses
  BY DEF Outcomes, Statuses
<1> QED
  BY <1>1, <1>2, ClosingDecided DEF Graduate

LEMMA TransferDecided ==
  ASSUME NEW s \in Students, LInv, NEW b \in BOOLEAN
  PROVE  Decided(s, TransferOut(s, b))
<1>1. "transferred" \in Outcomes /\ "transferred" \in Statuses
  BY DEF Outcomes, Statuses
<1>2. CASE Enrolled(s)
  <2>1. seat[s].status # "absent"
    BY <1>2 DEF Enrolled
  <2> QED
    BY <1>1, <1>2, <2>1, ClosingDecided DEF TransferOut
<1>3. CASE ~Enrolled(s)
  <2>1. TransferOut(s, b) = Load(s, NoSave, "transferred", b, "student")
    BY <1>3 DEF TransferOut
  <2>2. NoSave.grade = None
    BY DEF NoSave
  <2> QED
    BY <1>1, <2>1, <2>2, LoadIs, Constants DEF Decided, JobOK, JobOn, Saving, Promised
<1> QED
  BY <1>2, <1>3

LEMMA MoveDecided ==
  ASSUME NEW s \in Students, LInv, Enrolled(s), NEW g \in Grades,
         NEW status \in Statuses \cup {None}
  PROVE  Decided(s, MoveTo(s, g, status))
<1>1. MoveTo(s, g, status) = Load(s, Moving(g), status, TRUE, "seat")
  BY DEF MoveTo
<1> DEFINE j == MoveTo(s, g, status)
<1>2. /\ Moving(g) \in News /\ Moving(g) # NoSave
      /\ Moving(g).grade = g /\ Moving(g).status = None /\ g # None
  BY MovingIs
<1>3. /\ j \in Jobs /\ j.student = s /\ j.at = "seat" /\ j.new = Moving(g)
      /\ j.fresh /\ j.bulk
  <2> HIDE DEF j
  <2>1. j = Load(s, Moving(g), status, TRUE, "seat")
    BY <1>1 DEF j
  <2>2. TRUE \in BOOLEAN /\ "seat" \in {"seat", "student", "status"}
    OBVIOUS
  <2>3. j \in Jobs
    BY <1>2, <2>1, <2>2 DEF Load, Jobs
  <2> QED
    BY <2>1, <2>3 DEF Load
<1>4. JobOK(j) /\ Promised(j)
  BY <1>2, <1>3 DEF JobOK, JobOn, Saving, Promised, Enrolled
<1> QED
  BY <1>3, <1>4 DEF Decided

LEMMA ReopenDecided ==
  ASSUME NEW s \in Students, LInv, seat[s].status = "completed"
  PROVE  Decided(s, Reopen(s))
  BY ReturnsType, ClosingDecided DEF Reopen

(* A withdrawal or a reinstatement has read nothing it will save.          *)
LEMMA StatusDecided ==
  ASSUME NEW s \in Students, LInv, NEW status \in {"withdrawn", "active"}
  PROVE  Decided(s, Load(s, NoSave, status, TRUE, "status"))
<1> DEFINE j == Load(s, NoSave, status, TRUE, "status")
<1>1. /\ j \in Jobs /\ j.student = s /\ j.at = "status" /\ j.new = NoSave
      /\ j.bulk /\ j.status = status
  BY Constants DEF Load, Jobs, Statuses
<1>2. NoSave.grade = None
  BY DEF NoSave
<1> HIDE DEF j
<1> QED
  BY <1>1, <1>2 DEF Decided, JobOK, JobOn, Saving, Promised, j

-----------------------------------------------------------------------------
(* A request saves                                                         *)

(* A fault-free save is one of a request that read the current row.        *)
LEMMA NotStale ==
  ASSUME NEW u \in Requests, Suffer(Stale(job[u])), Unharmed'
  PROVE  Unharmed /\ (job[u].fresh \/ job[u].new = NoSave)
  BY DEF Suffer, Stale, Unharmed

LEMMA OutdatedIs ==
  ASSUME job \in [Requests -> Jobs], NEW S
  PROVE  /\ Outdated(job, S) \in [Requests -> Jobs]
         /\ \A u \in Requests :
              LET j == Outdated(job, S)[u]
              IN  /\ j.at = job[u].at /\ j.student = job[u].student
                  /\ j.new = job[u].new /\ j.bulk = job[u].bulk
                  /\ j.status = job[u].status
                  /\ j.fresh = (job[u].fresh /\ job[u].student \notin S)
  BY DEF Outdated, Jobs

(* The enrollment after a save of one that is there.                       *)
LEMMA SavedFits ==
  ASSUME LInv, NEW j \in Jobs, JobOK(j), Saving(j),
         NEW e, e = Saved(seat[j.student], j.new)
  PROVE  /\ e \in Seats /\ e.status # "absent" /\ e.grade \in Grades
         /\ Promised(j) /\ j.fresh /\ e.status = "completed" => FitsOutcome(e)
<1> DEFINE s == j.student
<1>1. /\ s \in Students /\ seat[s] \in Seats
      /\ seat[s].status # "absent" /\ seat[s].grade \in Grades
      /\ j.new \in News /\ j.new # NoSave
      /\ (j.new.grade = None <=> j.new.status # None)
  BY DEF LInv, LifecycleTypeOK, JobOK, JobOn, GradedInv, Saving, Jobs
<1>2. CASE j.new.grade # None
  <2>1. e = [status |-> seat[s].status, outcome |-> seat[s].outcome,
             grade |-> j.new.grade, next |-> j.new.next]
    BY <1>1, <1>2, SavedRow
  <2>2. j.new.grade \in Grades
    BY <1>1, <1>2 DEF News
  <2>3. Promised(j) /\ j.fresh => seat[s].status = "enrolled"
    BY <1>2 DEF Promised
  <2>4. e \in Seats
    BY <1>1, SavedRow
  <2>5. e.status = seat[s].status /\ e.grade = j.new.grade
    BY <2>1
  <2> QED
    BY <1>1, <2>2, <2>3, <2>4, <2>5
<1>3. CASE j.new.grade = None
  <2>1. e = [status |-> j.new.status, outcome |-> j.new.outcome,
             grade |-> seat[s].grade, next |-> j.new.next]
    BY <1>1, <1>3, SavedRow
  <2>2. j.new.status \in {"enrolled", "completed", "withdrawn"}
    BY <1>1, <1>3 DEF News
  <2>3. Promised(j) /\ j.fresh /\ j.new.status = "completed" =>
          FitsOutcome([status |-> "completed", outcome |-> j.new.outcome,
                       grade |-> seat[s].grade, next |-> j.new.next])
    BY <1>3 DEF Promised
  <2>4. e \in Seats
    BY <1>1, SavedRow
  <2>5. e.status = j.new.status /\ e.grade = seat[s].grade
    BY <2>1
  <2>6. e.status = "completed" =>
          e = [status |-> "completed", outcome |-> j.new.outcome,
               grade |-> seat[s].grade, next |-> j.new.next]
    BY <2>1, <2>5
  <2>7. ASSUME Promised(j) /\ j.fresh /\ e.status = "completed"
        PROVE  FitsOutcome(e)
    BY <2>3, <2>5, <2>6, <2>7
  <2>8. "absent" \notin {"enrolled", "completed", "withdrawn"}
    OBVIOUS
  <2> QED
    BY <1>1, <2>2, <2>4, <2>5, <2>7, <2>8
<1> QED
  BY <1>2, <1>3

(* Saving over the enrollment of s and outdating the other requests on it. *)
LEMMA SaveSeatOf ==
  ASSUME LInv, NEW u \in Requests, NEW s \in Students, s = job[u].student,
         job[u].at \in {"seat", "student", "seat2"},
         seat' = [seat EXCEPT ![s] = Saved(@, job[u].new)],
         student' \in [Students -> Statuses],
         Suffer(Stale(job[u])), held' = held,
         NEW j \in Jobs, JobOn(seat', j), ~Saving(j),
         job' = [Outdated(job, {s}) EXCEPT ![u] = j]
  PROVE  LInv'
<1>1. /\ job \in [Requests -> Jobs] /\ seat \in [Students -> Seats]
      /\ held \subseteq Students /\ suffered \subseteq Faults
      /\ job[u] \in Jobs /\ job[u].new \in News /\ seat[s] \in Seats
  BY DEF LInv, LifecycleTypeOK, Jobs
<1>2. /\ \A q \in Students \ {s} : seat'[q] = seat[q]
      /\ seat'[s] = Saved(seat[s], job[u].new)
  BY <1>1
<1>3. seat'[s] \in Seats /\ (seat[s].status # "absent" => seat'[s].status # "absent")
      /\ (seat'[s].status # "absent" => seat'[s].grade \in Grades)
  <2>1. CASE job[u].new = NoSave
    BY <1>1, <1>2, <2>1 DEF Saved, LInv, GradedInv
  <2>2. CASE job[u].new # NoSave
    BY <1>1, <1>2, <2>2, SavedFits DEF Saving, LInv, JobInv
  <2> QED
    BY <2>1, <2>2
<1>4. seat' \in [Students -> Seats] /\ GradedInv'
  BY <1>1, <1>2, <1>3 DEF LInv, GradedInv
<1>5. /\ job' \in [Requests -> Jobs]
      /\ job'[u] = j
      /\ \A v \in Requests \ {u} : job'[v] = Outdated(job, {s})[v]
  BY <1>1, OutdatedIs
<1>6. LifecycleTypeOK'
  BY <1>1, <1>4, <1>5 DEF LifecycleTypeOK, Suffer
<1>7. ASSUME NEW v \in Requests, v # u
      PROVE  JobOK(job[v])' /\ (Saving(job'[v]) /\ job'[v].fresh =>
               Saving(job[v]) /\ job[v].fresh /\ job[v].student \in Students \ {s}
               /\ job'[v].new = job[v].new /\ job'[v].student = job[v].student)
  <2>1. /\ job'[v].at = job[v].at /\ job'[v].student = job[v].student
        /\ job'[v].new = job[v].new /\ job'[v].bulk = job[v].bulk
        /\ job'[v].status = job[v].status
        /\ job'[v].fresh = (job[v].fresh /\ job[v].student \notin {s})
    BY <1>1, <1>5, <1>7, OutdatedIs
  <2>2. JobOK(job[v])
    BY DEF LInv, JobInv
  <2>3. JobOK(job[v])'
    BY <1>2, <1>3, <2>1, <2>2 DEF JobOK, JobOn, Saving
  <2> QED
    BY <2>1, <2>2, <2>3 DEF JobOK, JobOn, Saving
<1>8. JobInv'
  BY <1>5, <1>7 DEF JobInv, JobOK
<1>9. FitInv'
  <2> SUFFICES ASSUME Unharmed'
               PROVE  /\ \A q \in Students : seat'[q].status = "completed" =>
                           FitsOutcome(seat'[q])
                      /\ \A v \in Requests : Promised(job[v])'
    BY DEF FitInv
  <2>1. Unharmed /\ (job[u].fresh \/ job[u].new = NoSave)
    BY NotStale
  <2>2. seat'[s].status = "completed" => FitsOutcome(seat'[s])
    <3>1. CASE job[u].new = NoSave
      BY <1>1, <1>2, <2>1, <3>1 DEF Saved, LInv, FitInv
    <3>2. CASE job[u].new # NoSave
      <4>1. JobOK(job[u]) /\ Promised(job[u]) /\ Saving(job[u]) /\ job[u].fresh
        BY <2>1, <3>2 DEF LInv, JobInv, FitInv, Saving
      <4> QED
        BY <1>1, <1>2, <4>1, SavedFits
    <3> QED
      BY <3>1, <3>2
  <2>3. ASSUME NEW v \in Requests PROVE Promised(job[v])'
    <3>1. CASE v = u
      BY <1>5, <3>1 DEF Promised, Saving
    <3>2. CASE v # u
      <4>1. Promised(job[v])
        BY <2>1 DEF LInv, FitInv
      <4>2. SUFFICES ASSUME Saving(job[v])', job'[v].fresh
                     PROVE  Promised(job[v])'
        BY DEF Promised
      <4>3. /\ Saving(job[v]) /\ job[v].fresh
            /\ job'[v].new = job[v].new /\ job'[v].student = job[v].student
            /\ seat'[job[v].student] = seat[job[v].student]
        BY <1>2, <1>7, <3>2, <4>2 DEF Saving
      <4> QED
        BY <4>1, <4>3 DEF Promised
    <3> QED
      BY <3>1, <3>2
  <2> QED
    BY <1>2, <2>1, <2>2, <2>3 DEF LInv, FitInv
<1> QED
  BY <1>4, <1>6, <1>8, <1>9 DEF LInv

LEMMA IdleOK == JobOK(Idle) /\ ~Saving(Idle) /\ JobOn(seat', Idle)
  BY Constants DEF JobOK, JobOn, Saving, Idle, NoSave

LEMMA SavedStudentType ==
  ASSUME LInv, NEW j \in Jobs, j.student \in Students
  PROVE  /\ SavedStudent(j) \in Statuses
         /\ [student EXCEPT ![j.student] = SavedStudent(j)] \in [Students -> Statuses]
  BY DEF LInv, LifecycleTypeOK, SavedStudent, Jobs

LEMMA SaveBothKeeps == ASSUME NEW u \in Requests, LInv, SaveBoth(u) PROVE LInv'
<1> DEFINE j == job[u]
           s == j.student
<1>1. /\ j \in Jobs /\ j.at # "idle" /\ s \in Students
      /\ j.at \in {"seat", "student", "seat2"}
  BY DEF SaveBoth, LInv, LifecycleTypeOK, JobInv, JobOK, JobOn, Jobs
<1>2. /\ seat' = [seat EXCEPT ![s] = Saved(@, j.new)]
      /\ student' = [student EXCEPT ![s] = SavedStudent(j)]
      /\ Suffer(Stale(j)) /\ held' = held
      /\ job' = [Outdated(job, {s}) EXCEPT ![u] = Idle]
  BY DEF SaveBoth
<1>3. student' \in [Students -> Statuses]
  BY <1>1, <1>2, SavedStudentType
<1> QED
  BY <1>1, <1>2, <1>3, IdleOK, Constants, SaveSeatOf

LEMMA SaveSeatKeeps == ASSUME NEW u \in Requests, LInv, SaveSeat(u) PROVE LInv'
<1> DEFINE j == job[u]
           s == j.student
           k == IF j.at = "seat" /\ j.status # None
                THEN [j EXCEPT !.at = "student2"] ELSE Idle
<1>1. j \in Jobs /\ JobOK(j) /\ j.at \in {"seat", "seat2"} /\ s \in Students /\ j.bulk
  BY DEF SaveSeat, LInv, LifecycleTypeOK, JobInv, JobOK, JobOn
<1>2. /\ seat' = [seat EXCEPT ![s] = Saved(@, j.new)]
      /\ student' = student /\ Suffer(Stale(j)) /\ held' = held
      /\ job' = [Outdated(job, {s}) EXCEPT ![u] = k]
  BY DEF SaveSeat
<1>3. student' \in [Students -> Statuses]
  BY <1>2 DEF LInv, LifecycleTypeOK
<1>4. k \in Jobs /\ ~Saving(k) /\ JobOn(seat', k)
  <2>1. CASE j.at = "seat" /\ j.status # None
    <3>1. /\ k \in Jobs /\ k.at = "student2" /\ k.student = s /\ k.new = j.new
          /\ k.bulk = j.bulk
      BY <1>1, <2>1 DEF Jobs
    <3> QED
      BY <1>1, <3>1 DEF Saving, JobOK, JobOn
  <2>2. CASE ~(j.at = "seat" /\ j.status # None)
    BY <2>2, IdleOK, Constants
  <2> QED
    BY <2>1, <2>2
<1> HIDE DEF k
<1> QED
  BY <1>1, <1>2, <1>3, <1>4, SaveSeatOf

(* Another stage of a request: what it still saves it had to save before,  *)
(* or is what it decides now.                                              *)
LEMMA StageOf ==
  ASSUME LInv, NEW u \in Requests, NEW j \in Jobs, JobOK(j),
         \/ Saving(j) => Saving(job[u]) /\ j.new = job[u].new
                           /\ j.student = job[u].student /\ j.fresh = job[u].fresh
         \/ Promised(j),
         job' = [job EXCEPT ![u] = j], seat' = seat, held' = held,
         student' \in [Students -> Statuses], NEW F, Suffer(F) \/ suffered' = suffered
  PROVE  LInv'
<1>1. /\ job \in [Requests -> Jobs] /\ job' \in [Requests -> Jobs]
      /\ \A v \in Requests : job'[v] = IF v = u THEN j ELSE job[v]
  BY DEF LInv, LifecycleTypeOK
<1>2. LifecycleTypeOK' /\ GradedInv'
  BY <1>1 DEF LInv, LifecycleTypeOK, GradedInv, Suffer
<1>3. JobInv'
  <2> SUFFICES ASSUME NEW v \in Requests PROVE JobOK(job[v])'
    BY DEF JobInv
  <2>1. JobOK(job[v])
    BY DEF LInv, JobInv
  <2> QED
    BY <1>1, <2>1 DEF JobOK, JobOn, Saving
<1>4. FitInv'
  <2> SUFFICES ASSUME Unharmed'
               PROVE  /\ \A q \in Students : seat'[q].status = "completed" =>
                           FitsOutcome(seat'[q])
                      /\ \A v \in Requests : Promised(job[v])'
    BY DEF FitInv
  <2>1. Unharmed
    BY DEF Suffer, Unharmed
  <2>2. ASSUME NEW v \in Requests PROVE Promised(job[v])'
    <3>1. Promised(job[v]) /\ Promised(job[u])
      BY <2>1 DEF LInv, FitInv
    <3> QED
      BY <1>1, <3>1 DEF Promised, Saving
  <2> QED
    BY <2>1, <2>2 DEF LInv, FitInv
<1> QED
  BY <1>2, <1>3, <1>4 DEF LInv

LEMMA SaveStudentKeeps == ASSUME NEW u \in Requests, LInv, SaveStudent(u) PROVE LInv'
<1> DEFINE j == job[u]
           k == IF j.at = "student" THEN [j EXCEPT !.at = "seat2"] ELSE Idle
<1>1. /\ j \in Jobs /\ JobOK(j) /\ j.at \in {"student", "student2"}
      /\ j.student \in Students /\ j.bulk
  BY DEF SaveStudent, LInv, LifecycleTypeOK, JobInv, JobOK, JobOn
<1>2. /\ student' = [student EXCEPT ![j.student] = SavedStudent(j)]
      /\ seat' = seat /\ Suffer(Stale(j)) /\ held' = held
      /\ job' = [job EXCEPT ![u] = k]
  BY DEF SaveStudent
<1>3. student' \in [Students -> Statuses]
  BY <1>1, <1>2, SavedStudentType
<1>4. /\ k \in Jobs /\ JobOK(k)
      /\ Saving(k) => Saving(j) /\ k.new = j.new
                        /\ k.student = j.student /\ k.fresh = j.fresh
  <2>1. CASE j.at = "student"
    <3>1. /\ k \in Jobs /\ k.at = "seat2" /\ k.student = j.student
          /\ k.new = j.new /\ k.bulk = j.bulk /\ k.fresh = j.fresh
      BY <1>1, <2>1 DEF Jobs
    <3> QED
      BY <1>1, <2>1, <3>1 DEF Saving, JobOK, JobOn
  <2>2. CASE j.at # "student"
    BY <2>2, IdleOK, Constants
  <2> QED
    BY <2>1, <2>2
<1> HIDE DEF k
<1> QED
  BY <1>2, <1>3, <1>4, StageOf

LEMMA SaveStatusKeeps == ASSUME NEW u \in Requests, LInv, SaveStatus(u) PROVE LInv'
<1> DEFINE j == job[u]
           k == [j EXCEPT !.at = "find"]
<1>1. /\ j \in Jobs /\ JobOK(j) /\ j.at = "status" /\ j.student \in Students
      /\ j.status \in Statuses /\ student \in [Students -> Statuses]
  BY DEF SaveStatus, LInv, LifecycleTypeOK, JobInv, JobOK, JobOn, Statuses
<1>2. /\ student' = [student EXCEPT ![j.student] = j.status]
      /\ seat' = seat /\ held' = held /\ suffered' = suffered
      /\ job' = [job EXCEPT ![u] = k]
  BY DEF SaveStatus
<1>3. student' \in [Students -> Statuses]
  BY <1>1, <1>2
<1>4. k \in Jobs /\ JobOK(k) /\ ~Saving(k)
  BY <1>1 DEF Jobs, JobOK, JobOn, Saving
<1> HIDE DEF k
<1> QED
  BY <1>2, <1>3, <1>4, StageOf

(* What a withdrawal or a reinstatement decides on the row it has found.   *)
LEMMA FoundDecided ==
  ASSUME LInv, NEW j \in Jobs, JobOK(j), j.at = "find", Found(j),
         NEW k, k = [j EXCEPT !.at = "seat2", !.new = SeatChange(j), !.fresh = TRUE]
  PROVE  k \in Jobs /\ JobOK(k) /\ Promised(k)
<1>1. /\ SeatChange(j) \in News /\ SeatChange(j) # NoSave
      /\ SeatChange(j).grade = None /\ SeatChange(j).status # None
      /\ SeatChange(j).status # "completed"
  BY ClosingIs DEF SeatChange, Outcomes
<1>2. /\ k \in Jobs /\ k.at = "seat2" /\ k.student = j.student
      /\ k.new = SeatChange(j) /\ k.bulk = j.bulk
  BY <1>1 DEF Jobs
<1>3. seat[j.student].status # "absent" /\ j.student \in Students /\ j.bulk
  BY DEF Found, JobOK, JobOn
<1> QED
  BY <1>1, <1>2, <1>3 DEF JobOK, JobOn, Saving, Promised

LEMMA FindSeatKeeps == ASSUME NEW u \in Requests, LInv, FindSeat(u) PROVE LInv'
<1> DEFINE j == job[u]
           k == IF Found(j)
                THEN [j EXCEPT !.at = "seat2", !.new = SeatChange(j), !.fresh = TRUE]
                ELSE Idle
<1>1. j \in Jobs /\ JobOK(j) /\ j.at = "find"
  BY DEF FindSeat, LInv, LifecycleTypeOK, JobInv
<1>2. /\ job' = [job EXCEPT ![u] = k] /\ seat' = seat /\ held' = held
      /\ student' \in [Students -> Statuses] /\ \E F : Suffer(F)
  BY DEF FindSeat, records, LInv, LifecycleTypeOK
<1>3. k \in Jobs /\ JobOK(k) /\ Promised(k)
  <2>1. CASE Found(j)
    BY <1>1, <2>1, FoundDecided
  <2>2. CASE ~Found(j)
    BY <2>2, IdleOK, Constants DEF Promised
  <2> QED
    BY <2>1, <2>2
<1> HIDE DEF k
<1> QED
  BY <1>2, <1>3, StageOf

LEMMA DieKeeps == ASSUME NEW u \in Requests, LInv, Die(u) PROVE LInv'
<1>1. /\ job' = [job EXCEPT ![u] = Idle] /\ seat' = seat /\ held' = held
      /\ student' \in [Students -> Statuses]
      /\ \E F : Suffer(F)
  BY DEF Die, records, LInv, LifecycleTypeOK
<1> QED
  BY <1>1, IdleOK, Constants, StageOf

-----------------------------------------------------------------------------
(* Requests of one transaction                                             *)

LEMMA ForgetKeeps ==
  ASSUME LInv, NEW s \in Students, NEW e \in Seats,
         e.status # "absent" => e.grade \in Grades,
         e.status = "completed" => FitsOutcome(e),
         seat' = [seat EXCEPT ![s] = e], student' \in [Students -> Statuses],
         Forget(s), UNCHANGED <<held, suffered>>
  PROVE  LInv'
<1>1. /\ job \in [Requests -> Jobs] /\ seat \in [Students -> Seats]
      /\ seat' \in [Students -> Seats] /\ seat'[s] = e
      /\ \A q \in Students \ {s} : seat'[q] = seat[q]
  BY DEF LInv, LifecycleTypeOK
<1>2. GradedInv'
  BY <1>1 DEF LInv, GradedInv
<1>3. ASSUME NEW v \in Requests
      PROVE  /\ job'[v] \in Jobs
             /\ Saving(job'[v]) => job[v].student # s
             /\ job'[v] = Idle \/
                  /\ job'[v].at = job[v].at /\ job'[v].student = job[v].student
                  /\ job'[v].new = job[v].new /\ job'[v].bulk = job[v].bulk
                  /\ job'[v].status = job[v].status
                  /\ job'[v].fresh => job[v].fresh
  <2> DEFINE gone == job[v].student = s /\ job[v].at \in {"seat", "student", "seat2"}
  <2>1. job'[v] = IF gone THEN Idle ELSE Outdated(job, {s})[v]
    BY DEF Forget
  <2>2. CASE gone
    BY <2>1, <2>2, Constants DEF Saving
  <2>3. CASE ~gone
    <3>1. job'[v] = Outdated(job, {s})[v]
      BY <2>1, <2>3
    <3>2. /\ job'[v] \in Jobs
          /\ job'[v].at = job[v].at /\ job'[v].student = job[v].student
          /\ job'[v].new = job[v].new /\ job'[v].bulk = job[v].bulk
          /\ job'[v].status = job[v].status
          /\ job'[v].fresh = (job[v].fresh /\ job[v].student \notin {s})
      BY <1>1, <3>1, OutdatedIs
    <3> QED
      BY <2>3, <3>2 DEF Saving
  <2> QED
    BY <2>2, <2>3
<1>4. LifecycleTypeOK'
  <2>1. job' = [v \in Requests |-> job'[v]]
    BY DEF Forget
  <2> QED
    BY <1>1, <1>3, <2>1 DEF LInv, LifecycleTypeOK
<1>5. JobInv'
  <2> SUFFICES ASSUME NEW v \in Requests PROVE JobOn(seat', job'[v])
    BY DEF JobInv, JobOK
  <2>1. JobOn(seat, job[v])
    BY DEF LInv, JobInv, JobOK
  <2>2. CASE job'[v] = Idle
    BY <2>2, IdleOK
  <2>3. CASE job'[v] # Idle
    BY <1>1, <1>3, <2>1, <2>3 DEF JobOn, Saving
  <2> QED
    BY <2>2, <2>3
<1>6. FitInv'
  <2> SUFFICES ASSUME Unharmed'
               PROVE  /\ \A q \in Students : seat'[q].status = "completed" =>
                           FitsOutcome(seat'[q])
                      /\ \A v \in Requests : Promised(job[v])'
    BY DEF FitInv
  <2>1. \A q \in Students : seat'[q].status = "completed" => FitsOutcome(seat'[q])
    BY <1>1 DEF LInv, FitInv, Unharmed
  <2>2. ASSUME NEW v \in Requests PROVE Promised(job[v])'
    <3>1. Promised(job[v]) /\ JobOK(job[v])
      BY DEF LInv, FitInv, JobInv, Unharmed
    <3>2. SUFFICES ASSUME Saving(job'[v]), job'[v].fresh
                   PROVE  Promised(job[v])'
      BY DEF Promised
    <3>3. /\ job'[v].new = job[v].new /\ job'[v].student = job[v].student
          /\ Saving(job[v]) /\ job[v].fresh /\ job[v].student \in Students \ {s}
      BY <1>3, <3>1, <3>2, IdleOK DEF Saving, JobOK, JobOn
    <3>4. seat'[job[v].student] = seat[job[v].student]
      BY <1>1, <3>3
    <3> QED
      BY <3>1, <3>3, <3>4 DEF Promised
  <2> QED
    BY <2>1, <2>2
<1> QED
  BY <1>2, <1>4, <1>5, <1>6 DEF LInv

LEMMA EnrollKeeps ==
  ASSUME NEW s \in Students, NEW g \in Grades, NEW st \in SeatStatuses,
         LInv, Enroll(s, g, st)
  PROVE  LInv'
<1>1. student' \in [Students -> Statuses]
  BY DEF Enroll, LInv, LifecycleTypeOK, Statuses
<1> DEFINE e == Seated(g, st)
<1>2. /\ e \in Seats /\ e.status = st /\ e.grade = g
      /\ e.outcome = None /\ e.next = None
  BY Constants
<1> HIDE DEF e
<1>3. FitsOutcome(e)
  BY <1>2, NoneIsNew DEF FitsOutcome, Outcomes
<1>4. /\ seat' = [seat EXCEPT ![s] = e] /\ Forget(s)
      /\ UNCHANGED <<held, suffered>>
  BY DEF Enroll, e
<1> QED
  BY <1>1, <1>2, <1>3, <1>4, ForgetKeeps

LEMMA RemoveKeeps == ASSUME NEW s \in Students, LInv, Remove(s) PROVE LInv'
<1>1. student' \in [Students -> Statuses]
  BY DEF Remove, LInv, LifecycleTypeOK
<1> QED
  BY <1>1, Constants, ForgetKeeps DEF Remove

(* Saving over the enrollments of S and outdating the requests on them.    *)
LEMMA SaveManyKeeps ==
  ASSUME LInv, NEW S \in SUBSET Students,
         seat' \in [Students -> Seats],
         \A q \in Students \ S : seat'[q] = seat[q],
         \A q \in S : seat'[q].status # "absent" /\ seat'[q].grade \in Grades,
         Unharmed' =>
           \A q \in S : seat'[q].status = "completed" => FitsOutcome(seat'[q]),
         student' \in [Students -> Statuses], held' \subseteq Students,
         NEW F, Suffer(F) \/ suffered' = suffered,
         job' = Outdated(job, S)
  PROVE  LInv'
<1>1. job \in [Requests -> Jobs] /\ suffered \subseteq suffered'
  BY DEF LInv, LifecycleTypeOK, Suffer
<1>2. LifecycleTypeOK'
  BY <1>1, OutdatedIs DEF LInv, LifecycleTypeOK, Suffer
<1>3. GradedInv'
  BY DEF LInv, GradedInv
<1>4. ASSUME NEW v \in Requests
      PROVE  /\ job'[v].at = job[v].at /\ job'[v].student = job[v].student
             /\ job'[v].new = job[v].new /\ job'[v].bulk = job[v].bulk
             /\ job'[v].status = job[v].status
             /\ job'[v].fresh = (job[v].fresh /\ job[v].student \notin S)
  BY <1>1, OutdatedIs
<1>5. JobInv'
  <2> SUFFICES ASSUME NEW v \in Requests PROVE JobOn(seat', job'[v])
    BY DEF JobInv, JobOK
  <2>1. JobOn(seat, job[v])
    BY DEF LInv, JobInv, JobOK
  <2>2. Saving(job'[v]) => seat'[job[v].student].status # "absent"
    <3>1. Saving(job'[v]) => job[v].student \in Students
                               /\ seat[job[v].student].status # "absent"
      BY <1>4, <2>1 DEF JobOn, Saving
    <3> QED
      BY <3>1
  <2> QED
    BY <1>4, <2>1, <2>2 DEF JobOn, Saving
<1>6. FitInv'
  <2> SUFFICES ASSUME Unharmed'
               PROVE  /\ \A q \in Students : seat'[q].status = "completed" =>
                           FitsOutcome(seat'[q])
                      /\ \A v \in Requests : Promised(job[v])'
    BY DEF FitInv
  <2>1. \A q \in Students : seat'[q].status = "completed" => FitsOutcome(seat'[q])
    BY <1>1 DEF LInv, FitInv, Unharmed
  <2>2. ASSUME NEW v \in Requests PROVE Promised(job[v])'
    <3>1. Promised(job[v]) /\ JobOK(job[v])
      BY <1>1 DEF LInv, FitInv, JobInv, Unharmed
    <3>2. SUFFICES ASSUME Saving(job'[v]), job'[v].fresh
                   PROVE  Promised(job[v])'
      BY DEF Promised
    <3>3. /\ job'[v].new = job[v].new /\ job'[v].student = job[v].student
          /\ Saving(job[v]) /\ job[v].fresh /\ job[v].student \in Students \ S
      BY <1>4, <3>1, <3>2 DEF Saving, JobOK, JobOn
    <3>4. seat'[job[v].student] = seat[job[v].student]
      BY <3>3
    <3> QED
      BY <3>1, <3>3, <3>4 DEF Promised
  <2> QED
    BY <2>1, <2>2
<1> QED
  BY <1>2, <1>3, <1>5, <1>6 DEF LInv

LEMMA EditSeatKeeps == ASSUME NEW s \in Students, LInv, EditSeat(s) PROVE LInv'
<1>1. PICK e \in Edits :
        seat' = [seat EXCEPT ![s].status = e.status, ![s].outcome = e.outcome]
  BY DEF EditSeat
<1>2. /\ e.status \in SeatStatuses /\ e.outcome \in Outcomes \cup {None}
      /\ seat \in [Students -> Seats] /\ seat[s] \in Seats
  BY EditsAssumption DEF LInv, LifecycleTypeOK
<1>3. /\ seat'[s] = [status |-> e.status, outcome |-> e.outcome,
                     grade |-> seat[s].grade, next |-> seat[s].next]
      /\ \A q \in Students \ {s} : seat'[q] = seat[q]
  BY <1>1, <1>2 DEF Seats
<1>4. seat[s].status # "absent"
  BY DEF EditSeat
<1>5. seat'[s].status # "absent" /\ seat'[s].grade \in Grades /\ seat'[s] \in Seats
  BY <1>2, <1>3, <1>4 DEF LInv, GradedInv, Seats, SeatStatuses
<1>6. seat' \in [Students -> Seats]
  BY <1>1, <1>2, <1>3, <1>5
<1>7. /\ Suffer({"edited"}) /\ ~Unharmed' /\ job' = Outdated(job, {s})
      /\ student' \in [Students -> Statuses] /\ held' \subseteq Students
  BY DEF EditSeat, Suffer, Unharmed, LInv, LifecycleTypeOK
<1> DEFINE S == {s}
<1>8. S \in SUBSET Students /\ \A q : q \in S <=> q = s
  OBVIOUS
<1>9. job' = Outdated(job, S)
  BY <1>7
<1> HIDE DEF S
<1> QED
  BY <1>3, <1>5, <1>6, <1>7, <1>8, <1>9, SaveManyKeeps

LEMMA EditStudentKeeps == ASSUME NEW s \in Students, LInv, EditStudent(s) PROVE LInv'
<1>1. student' \in [Students -> Statuses]
  BY EditsAssumption DEF EditStudent, LInv, LifecycleTypeOK
<1>2. /\ UNCHANGED <<seat, held, job>> /\ Suffer({"edited"}) /\ ~Unharmed'
  BY DEF EditStudent, Suffer, Unharmed
<1>3. LifecycleTypeOK' /\ GradedInv' /\ JobInv' /\ FitInv'
  BY <1>1, <1>2 DEF LInv, LifecycleTypeOK, GradedInv, JobInv, JobOK, FitInv, Suffer
<1> QED
  BY <1>3 DEF LInv

-----------------------------------------------------------------------------
(* The bypass                                                              *)

LEMMA CommitClosing ==
  ASSUME NEW w \in Workers, LInv, Commit(w), NEW s \in Open \cap held
  PROVE  /\ seat'[s].status = "completed" /\ seat'[s] \in Seats
         /\ seat'[s].grade \in Grades /\ FitsOutcome(seat'[s])
<1> DEFINE p == Payload[task[w]]
           r == Result(p, s)
<1>1. s \in Students /\ seat[s] \in Seats /\ seat[s].grade \in Grades
  BY DEF Open, Enrolled, LInv, LifecycleTypeOK, GradedInv
<1>2. r \in Placements(seat[s].grade, Chosen(p, s), Wanted(p, s))
  BY DEF Commit, Acceptable, Result, Placed
<1>3. seat'[s] = [seat[s] EXCEPT !.status = "completed", !.outcome = r.outcome,
                                 !.next = r.next]
  BY <1>1 DEF Commit
<1> HIDE DEF r
<1>4. seat'[s] = [status |-> "completed", outcome |-> r.outcome,
                  grade |-> seat[s].grade, next |-> r.next]
  BY <1>1, <1>3 DEF Seats
<1>5. r.outcome \in Outcomes /\ r.next \in Grades \cup {None}
  BY <1>2 DEF Placements
<1>6. FitsOutcome([status |-> "completed", outcome |-> r.outcome,
                   grade |-> seat[s].grade, next |-> r.next])
  BY <1>1, <1>2, PlacementFits
<1> QED
  BY <1>1, <1>4, <1>5, <1>6 DEF Seats, SeatStatuses

LEMMA CommitSaves == ASSUME NEW w \in Workers, LInv, Commit(w) PROVE LInv'
<1> DEFINE S == Open \cap held
<1>1. /\ \A s \in Students \ S : seat'[s] = seat[s]
      /\ held' = {} /\ Suffer(IF Open \subseteq held THEN {} ELSE {"late"})
      /\ job' = Outdated(job, S) /\ S \in SUBSET Students
  BY DEF Commit, Open
<1>2. seat' \in [Students -> Seats]
  <2>1. \A s \in Students : seat'[s] \in Seats
    BY <1>1, CommitClosing DEF LInv, LifecycleTypeOK
  <2> QED
    BY <2>1 DEF Commit
<1>3. student' \in [Students -> Statuses]
  BY DEF Commit, LInv, LifecycleTypeOK, Statuses
<1>4. \A s \in S : /\ seat'[s].status # "absent" /\ seat'[s].grade \in Grades
                   /\ FitsOutcome(seat'[s])
  BY CommitClosing
<1> HIDE DEF S
<1> QED
  BY <1>1, <1>2, <1>3, <1>4, SaveManyKeeps

LEMMA RowsStay ==
  ASSUME LInv, UNCHANGED <<seat, student, job>>, held' \subseteq Students,
         NEW F, Suffer(F) \/ suffered' = suffered
  PROVE  LInv'
<1>1. suffered \subseteq suffered' /\ LifecycleTypeOK'
  BY DEF LInv, LifecycleTypeOK, Suffer
<1>2. GradedInv' /\ JobInv'
  BY DEF LInv, GradedInv, JobInv, JobOK, JobOn
<1>3. FitInv'
  BY <1>1 DEF LInv, FitInv, Unharmed, Promised
<1> QED
  BY <1>1, <1>2, <1>3 DEF LInv

-----------------------------------------------------------------------------
LEMMA InitLInv == Init => LInv
<1> SUFFICES ASSUME Init PROVE LInv
  OBVIOUS
<1>1. \A s \in Students : /\ seat[s] \in Seats /\ seat[s].status # "completed"
                          /\ seat[s].status # "absent" => seat[s].grade \in Grades
  BY Constants DEF Init, LifecycleInit, SeatStatuses
<1>2. LifecycleTypeOK
  BY <1>1, Constants DEF Init, LifecycleInit, LifecycleTypeOK, Statuses
<1>3. GradedInv /\ JobInv
  BY <1>1, IdleOK DEF Init, LifecycleInit, GradedInv, JobInv
<1>4. FitInv
  BY <1>1, IdleOK DEF Init, LifecycleInit, FitInv, Promised
<1> QED
  BY <1>2, <1>3, <1>4 DEF LInv

LEMMA BeginsKeep ==
  ASSUME NEW u \in Requests, NEW s \in Students, LInv,
         \/ CompleteYear(u, s) \/ GraduateStudent(u, s) \/ Transfer(u, s)
         \/ MidYearPromote(u, s) \/ UndoPromotion(u, s) \/ WizardClose(u, s)
         \/ WithdrawStudent(u, s) \/ ReinstateStudent(u, s)
  PROVE  LInv'
<1> USE DEF Enrolled
<1>1. CASE CompleteYear(u, s)
  BY <1>1, CloseDecided, BeginKeeps DEF CompleteYear
<1>2. CASE GraduateStudent(u, s)
  BY <1>2, GraduateDecided, BeginKeeps DEF GraduateStudent
<1>3. CASE Transfer(u, s)
  BY <1>3, TransferDecided, BeginKeeps DEF Transfer
<1>4. CASE MidYearPromote(u, s)
  <2>1. seat[s].grade \in Grades
    BY <1>4 DEF MidYearPromote, LInv, GradedInv
  <2>2. Above(seat[s].grade, 1) \in Grades
    BY <1>4, <2>1, AboveType DEF MidYearPromote
  <2> QED
    BY <1>4, <2>2, ReturnsType, MoveDecided, BeginKeeps DEF MidYearPromote
<1>5. CASE UndoPromotion(u, s)
  <2>1. CASE seat[s].status = "completed" /\ Begin(u, Reopen(s))
    BY <2>1, ReopenDecided, BeginKeeps
  <2>2. CASE /\ Enrolled(s) /\ seat[s].grade > 1
             /\ Begin(u, MoveTo(s, seat[s].grade - 1, None))
    <3>1. seat[s].grade \in Grades
      BY <2>2 DEF LInv, GradedInv
    <3>2. seat[s].grade - 1 \in Grades
      BY <2>2, <3>1, TopGradeAssumption DEF Grades
    <3> QED
      BY <2>2, <3>2, MoveDecided, BeginKeeps
  <2> QED
    BY <1>5, <2>1, <2>2 DEF UndoPromotion
<1>6. CASE WizardClose(u, s)
  <2>1. PICK o : \/ o = "graduated" /\ Begin(u, Graduate(s, FALSE))
                 \/ /\ o \in CloseOutcomes
                    /\ \E j \in Close(s, o, FALSE) : Begin(u, j)
    BY <1>6 DEF WizardClose, Options
  <2> QED
    BY <1>6, <2>1, CloseDecided, GraduateDecided, BeginKeeps DEF WizardClose
<1>7. CASE WithdrawStudent(u, s) \/ ReinstateStudent(u, s)
  BY <1>7, StatusDecided, BeginKeeps DEF WithdrawStudent, ReinstateStudent
<1> QED
  BY <1>1, <1>2, <1>3, <1>4, <1>5, <1>6, <1>7

LEMMA NextLInv == LInv /\ [Next]_vars => LInv'
<1> SUFFICES ASSUME LInv, [Next]_vars PROVE LInv'
  OBVIOUS
<1>1. CASE UNCHANGED vars
  <2>1. UNCHANGED <<seat, student, job>> /\ held' = held /\ suffered' = suffered
    BY <1>1 DEF vars, lifecycle
  <2> QED
    BY <2>1, RowsStay DEF LInv, LifecycleTypeOK
<1>2. CASE LifecycleStep
  <2>1. ASSUME NEW u \in Requests, NEW s \in Students,
               \/ CompleteYear(u, s) \/ GraduateStudent(u, s) \/ Transfer(u, s)
               \/ MidYearPromote(u, s) \/ UndoPromotion(u, s) \/ WizardClose(u, s)
               \/ WithdrawStudent(u, s) \/ ReinstateStudent(u, s)
        PROVE  LInv'
    BY <2>1, BeginsKeep
  <2>2. ASSUME NEW u \in Requests,
               \/ SaveBoth(u) \/ SaveSeat(u) \/ SaveStudent(u) \/ Die(u)
               \/ SaveStatus(u) \/ FindSeat(u)
        PROVE  LInv'
    BY <2>2, SaveBothKeeps, SaveSeatKeeps, SaveStudentKeeps, DieKeeps,
       SaveStatusKeeps, FindSeatKeeps
  <2>3. ASSUME NEW s \in Students, NEW g \in Grades, NEW st \in SeatStatuses,
               Enroll(s, g, st)
        PROVE  LInv'
    BY <2>3, EnrollKeeps
  <2>4. ASSUME NEW s \in Students, Remove(s) \/ EditSeat(s) \/ EditStudent(s)
        PROVE  LInv'
    BY <2>4, RemoveKeeps, EditSeatKeeps, EditStudentKeeps
  <2> QED
    BY <1>2, <2>1, <2>2, <2>3, <2>4 DEF LifecycleStep, Lifecycle
<1>3. ASSUME NEW o \in Ops, Look(o) \/ Insert(o) \/ GiveUp(o) \/ SaveGiveUp(o)
      PROVE  LInv'
  <2>1. UNCHANGED <<seat, student, job, held>>
    BY <1>3 DEF Look, Insert, GiveUp, SaveGiveUp, lifecycle
  <2>2. \E F : Suffer(F) \/ suffered' = suffered
    BY <1>3 DEF Look, Insert, GiveUp, SaveGiveUp
  <2> QED
    BY <2>1, <2>2, RowsStay DEF LInv, LifecycleTypeOK
<1>4. ASSUME NEW w \in Workers, NEW o \in Ops, Claim(w, o) PROVE LInv'
  <2>1. UNCHANGED <<seat, student, job, held, suffered>>
    BY <1>4 DEF Claim, lifecycle
  <2> QED
    BY <2>1, RowsStay DEF LInv, LifecycleTypeOK
<1>5. ASSUME NEW w \in Workers, Execution(w) \/ Crash(w) PROVE LInv'
  <2>1. CASE Commit(w)
    BY <2>1, CommitSaves
  <2>2. CASE Prepare(w) \/ Lock(w) \/ Complete(w) \/ Fail(w) \/ Crash(w)
    <3>1. UNCHANGED <<seat, student, job>> /\ held' \subseteq Students
      BY <2>2 DEF Prepare, Lock, Complete, Fail, Crash, Stop, lifecycle, records,
                  LInv, LifecycleTypeOK
    <3>2. \E F : Suffer(F) \/ suffered' = suffered
      BY <2>2 DEF Prepare, Lock, Complete, Fail, Crash
    <3> QED
      BY <3>1, <3>2, RowsStay
  <2> QED
    BY <1>5, <2>1, <2>2 DEF Execution
<1> QED
  BY <1>1, <1>2, <1>3, <1>4, <1>5 DEF Next

LEMMA InductiveRows == Spec => []LInv
<1>1. Init => LInv
  BY InitLInv
<1>2. LInv /\ [Next]_vars => LInv'
  BY NextLInv
<1> QED
  BY <1>1, <1>2, PTL DEF Spec

(***************************************************************************)
(* The state has its type: what SQL holds in the rows of enrollments and   *)
(* operations, and what the requests and workers carry.                    *)
(***************************************************************************)
THEOREM TypeCorrect == Spec => []TypeOK
<1>1. LInv /\ IInv => TypeOK
  BY DEF LInv, IInv, TypeOK
<1> QED
  BY <1>1, Inductive, InductiveRows, PTL

(***************************************************************************)
(* A completed enrollment has the next grade its outcome asks for, where   *)
(* no request saved over a changed row and no user edited one: the promise *)
(* a loaded request makes for the row it has read is kept until another    *)
(* changes that row.                                                       *)
(***************************************************************************)
THEOREM PlacementIsRight == Spec => []PlacementFollowsOutcome
<1>1. LInv => PlacementFollowsOutcome
  BY DEF LInv, FitInv, Unharmed, PlacementFollowsOutcome
<1> QED
  BY <1>1, InductiveRows, PTL

(***************************************************************************)
(* A year's grading is deleted only by a step that leaves nobody enrolled  *)
(* in it, unless an enrollment was inserted beside the locks.              *)
(***************************************************************************)
THEOREM DeletionClosesEveryone == Spec => ClosesEveryone
<1> DEFINE P == done' # done /\ "late" \notin suffered' =>
                  \A s \in Students : seat'[s].status # "enrolled"
<1>1. LInv /\ [Next]_vars => [P]_vars
  <2> SUFFICES ASSUME LInv, Next, done' # done, "late" \notin suffered'
               PROVE  \A s \in Students : seat'[s].status # "enrolled"
    OBVIOUS
  <2>1. PICK w \in Workers : Commit(w)
    BY DEF Next, LifecycleStep, bypass, Look, Insert, GiveUp, SaveGiveUp, Claim,
           Execution, Prepare, Lock, Complete, Fail, Crash, Stop
  <2>2. Open \subseteq held
    BY <2>1 DEF Commit, Suffer
  <2>3. \A s \in Open : seat'[s].status = "completed"
    BY <2>1, <2>2, CommitClosing
  <2>4. \A s \in Students \ Open : seat'[s] = seat[s]
    BY <2>1 DEF Commit
  <2> QED
    BY <2>3, <2>4 DEF Open, Enrolled
<1> QED
  BY <1>1, InductiveRows, PTL DEF Spec, ClosesEveryone

-----------------------------------------------------------------------------
(* Graduation: the two rows of a student                                   *)

Graduation(e) == e.status = "completed" /\ e.outcome = "graduated"

Gone == {"graduated", "transferred"}

(* Nothing was saved over a changed row, no request died half way, no user *)
(* edited a row and no graduate was reinstated.                            *)
Calm == suffered \cap {"stale", "half", "reinstated", "edited"} = {}

(* Whoever saves a graduation goes on to save that the student graduated,  *)
(* and the student whose row is saved first is transferred.  A withdrawal  *)
(* goes on to save the enrollment it has found.                            *)
Meant(j) ==
  /\ j.at = "seat" => j.new # NoSave /\ (Graduation(j.new) => j.status = "graduated")
  /\ j.at \in {"student", "seat2"} => ~Graduation(j.new)
  /\ j.at = "student" => j.status = "transferred"
  /\ j.at = "student2" => j.new # NoSave
  /\ j.at = "seat2" /\ j.status = "withdrawn" => j.new # NoSave

(* A request that has saved the row as it still is knows if it graduated.  *)
Sees(rows, j) ==
  j.at = "student2" /\ j.fresh /\ Graduation(rows[j.student]) => j.status = "graduated"

(* The request that will save that s graduated, or look at the enrollment  *)
(* of s, or close it as withdrawn.                                         *)
Waits(j, s) ==
  /\ j.student = s
  /\ \/ j.at = "student2" /\ j.status = "graduated"
     \/ j.at = "find"
     \/ j.at = "seat2" /\ j.status = "withdrawn"

LeaveInv ==
  /\ \A u \in Requests : Meant(job[u])
  /\ Calm => \A u \in Requests : Sees(seat, job[u])
  /\ Calm => \A s \in Students : Graduation(seat[s]) =>
       student[s] \in Gone \/ \E u \in Requests : Waits(job[u], s)

(* The job v may have been outdated, and is as it was otherwise.           *)
Aged(v) ==
  /\ job'[v].at = job[v].at /\ job'[v].student = job[v].student
  /\ job'[v].new = job[v].new /\ job'[v].status = job[v].status
  /\ job'[v].fresh =>
       /\ job[v].fresh
       /\ job[v].student \in Students => seat'[job[v].student] = seat[job[v].student]

(* A step of the requests of U: the graduations there are afterwards are   *)
(* of students who have left, or whom a request of U waits for, or were    *)
(* there before.                                                           *)
LEMMA LeaveStep ==
  ASSUME LInv, LeaveInv, NEW U \in SUBSET Requests, suffered \subseteq suffered',
         \A v \in Requests \ U : Aged(v),
         \A v \in U : Meant(job'[v]),
         Calm' => \A v \in U : Sees(seat', job'[v]),
         Calm' => \A s \in Students : Graduation(seat'[s]) =>
           \/ student'[s] \in Gone
           \/ \E v \in U : Waits(job'[v], s)
           \/ /\ Graduation(seat[s]) /\ \A v \in U : ~Waits(job[v], s)
              /\ student[s] \in Gone => student'[s] \in Gone
  PROVE  LeaveInv'
<1>1. Calm' => Calm
  BY DEF Calm
<1>2. ASSUME NEW v \in Requests PROVE Meant(job'[v])
  BY DEF LeaveInv, Meant, Aged
<1>3. ASSUME Calm', NEW v \in Requests PROVE Sees(seat', job'[v])
  <2>1. CASE v \in U
    BY <1>3, <2>1
  <2>2. CASE v \notin U
    <3>1. SUFFICES ASSUME job'[v].at = "student2", job'[v].fresh,
                          Graduation(seat'[job'[v].student])
                   PROVE  job'[v].status = "graduated"
      BY DEF Sees
    <3>2. Sees(seat, job[v]) /\ JobOK(job[v]) /\ Aged(v)
      BY <1>1, <1>3, <2>2 DEF LeaveInv, LInv, JobInv
    <3>3. job[v].student \in Students
      BY <3>1, <3>2 DEF Aged, JobOK, JobOn
    <3> QED
      BY <3>1, <3>2, <3>3 DEF Aged, Sees
  <2> QED
    BY <2>1, <2>2
<1>4. ASSUME Calm', NEW s \in Students, Graduation(seat'[s]), student'[s] \notin Gone
      PROVE  \E v \in Requests : Waits(job'[v], s)
  <2>1. CASE \E v \in U : Waits(job'[v], s)
    BY <2>1
  <2>2. CASE /\ Graduation(seat[s]) /\ \A v \in U : ~Waits(job[v], s)
             /\ student[s] \in Gone => student'[s] \in Gone
    <3>1. PICK v \in Requests : Waits(job[v], s)
      BY <1>1, <1>4, <2>2 DEF LeaveInv
    <3>2. v \notin U
      BY <2>2, <3>1
    <3>3. Waits(job'[v], s)
      BY <3>1, <3>2 DEF Waits, Aged
    <3> QED
      BY <3>3
  <2> QED
    BY <1>4, <2>1, <2>2
<1> QED
  BY <1>2, <1>3, <1>4 DEF LeaveInv

(* The same for a step of one request.                                     *)
LEMMA LeaveStepOf ==
  ASSUME LInv, LeaveInv, NEW u \in Requests, suffered \subseteq suffered',
         \A v \in Requests \ {u} : Aged(v),
         Meant(job'[u]),
         Calm' => Sees(seat', job'[u]),
         Calm' => \A s \in Students : Graduation(seat'[s]) =>
           \/ student'[s] \in Gone
           \/ Waits(job'[u], s)
           \/ /\ Graduation(seat[s]) /\ ~Waits(job[u], s)
              /\ student[s] \in Gone => student'[s] \in Gone
  PROVE  LeaveInv'
<1> DEFINE U == {u}
<1>1. U \in SUBSET Requests /\ \A v : v \in U <=> v = u
  OBVIOUS
<1>2. \A v \in Requests \ U : Aged(v)
  BY <1>1
<1> HIDE DEF U
<1>3. /\ \A v \in U : Meant(job'[v])
      /\ Calm' => \A v \in U : Sees(seat', job'[v])
  BY <1>1
<1>4. Calm' => \A s \in Students : Graduation(seat'[s]) =>
        \/ student'[s] \in Gone
        \/ \E v \in U : Waits(job'[v], s)
        \/ /\ Graduation(seat[s]) /\ \A v \in U : ~Waits(job[v], s)
           /\ student[s] \in Gone => student'[s] \in Gone
  BY <1>1
<1> QED
  BY <1>1, <1>2, <1>3, <1>4, LeaveStep

-----------------------------------------------------------------------------
(* What the operations decide                                              *)

LEMMA GraduationOf ==
  ASSUME NEW st \in {"enrolled", "completed", "withdrawn"},
         NEW o \in Outcomes \cup {None}, NEW n \in Grades \cup {None}
  PROVE  Graduation(Closing(st, o, n)) <=> st = "completed" /\ o = "graduated"
  BY ClosingIs DEF Graduation

LEMMA CloseMeant ==
  ASSUME NEW s \in Students, LInv, Enrolled(s), NEW outcome \in CloseOutcomes,
         NEW b \in BOOLEAN, NEW j \in Close(s, outcome, b)
  PROVE  Meant(j) /\ j.at = "seat"
<1>1. seat[s].grade \in Grades
  BY DEF LInv, GradedInv, Enrolled
<1>2. PICK p \in Placements(seat[s].grade, outcome, None) :
        j = Load(s,
              Closing(IF outcome = "withdrawn" THEN "withdrawn" ELSE "completed",
                      p.outcome, p.next),
              IF p.outcome \in {"graduated", "withdrawn"} THEN p.outcome
              ELSE Returns(s),
              b, "seat")
  BY DEF Close
<1>3. p.outcome \in Outcomes /\ p.next \in Grades \cup {None}
  BY <1>1, PlacementFits
<1> DEFINE st == IF outcome = "withdrawn" THEN "withdrawn" ELSE "completed"
           new == Closing(st, p.outcome, p.next)
<1>4. st \in {"enrolled", "completed", "withdrawn"}
  OBVIOUS
<1> HIDE DEF st
<1>5. new # NoSave /\ (Graduation(new) => p.outcome = "graduated")
  BY <1>3, <1>4, ClosingIs, GraduationOf
<1>6. /\ j.at = "seat" /\ j.new = new
      /\ p.outcome = "graduated" => j.status = "graduated"
  BY <1>2 DEF Load, st
<1> HIDE DEF new
<1> QED
  BY <1>5, <1>6 DEF Meant

LEMMA GraduateMeant ==
  ASSUME NEW s \in Students, NEW b \in BOOLEAN
  PROVE  Meant(Graduate(s, b)) /\ Graduate(s, b).at = "seat"
<1> DEFINE new == Closing("completed", "graduated", None)
<1>1. new # NoSave
  BY ClosingIs DEF Outcomes
<1>2. /\ Graduate(s, b).at = "seat" /\ Graduate(s, b).new = new
      /\ Graduate(s, b).status = "graduated"
  BY DEF Graduate, Load
<1> HIDE DEF new
<1> QED
  BY <1>1, <1>2 DEF Meant

LEMMA TransferMeant ==
  ASSUME NEW s \in Students, NEW b \in BOOLEAN
  PROVE  Meant(TransferOut(s, b)) /\ TransferOut(s, b).at = "student"
<1> DEFINE new == IF Enrolled(s) THEN Closing("withdrawn", "transferred", None)
                  ELSE NoSave
<1>1. ~Graduation(new)
  <2>1. ~Graduation(Closing("withdrawn", "transferred", None))
    BY GraduationOf DEF Outcomes
  <2>2. ~Graduation(NoSave)
    BY NoneIsNew DEF Graduation, NoSave
  <2> QED
    BY <2>1, <2>2
<1>2. /\ TransferOut(s, b).at = "student" /\ TransferOut(s, b).new = new
      /\ TransferOut(s, b).status = "transferred"
  BY DEF TransferOut, Load
<1> HIDE DEF new
<1> QED
  BY <1>1, <1>2 DEF Meant

LEMMA MoveMeant ==
  ASSUME NEW s \in Students, NEW g \in Grades, NEW status
  PROVE  Meant(MoveTo(s, g, status)) /\ MoveTo(s, g, status).at = "seat"
<1>1. Moving(g) # NoSave /\ ~Graduation(Moving(g))
  BY MovingIs, NoneIsNew DEF Graduation
<1>2. /\ MoveTo(s, g, status).at = "seat" /\ MoveTo(s, g, status).new = Moving(g)
  BY DEF MoveTo, Load
<1> QED
  BY <1>1, <1>2 DEF Meant

LEMMA ReopenMeant ==
  ASSUME NEW s \in Students PROVE Meant(Reopen(s)) /\ Reopen(s).at = "seat"
<1> DEFINE new == Closing("enrolled", None, None)
<1>1. new # NoSave /\ ~Graduation(new)
  BY ClosingIs DEF Graduation
<1>2. Reopen(s).at = "seat" /\ Reopen(s).new = new
  BY DEF Reopen, Load
<1> HIDE DEF new
<1> QED
  BY <1>1, <1>2 DEF Meant

-----------------------------------------------------------------------------
(* The steps                                                               *)

LEMMA BeginLeaves ==
  ASSUME NEW u \in Requests, NEW j, LInv, LeaveInv, Begin(u, j),
         Meant(j), j.at \in {"seat", "student", "status"}
  PROVE  LeaveInv'
<1>1. /\ job \in [Requests -> Jobs] /\ job[u] = Idle
      /\ job' = [job EXCEPT ![u] = j] /\ UNCHANGED <<seat, student, suffered>>
  BY DEF Begin, LInv, LifecycleTypeOK, records
<1>2. job'[u] = j /\ \A v \in Requests \ {u} : job'[v] = job[v]
  BY <1>1
<1>3. \A v \in Requests \ {u} : Aged(v)
  BY <1>1, <1>2 DEF Aged
<1>4. /\ \A s \in Students : ~Waits(job[u], s)
      /\ Sees(seat', job'[u])
  BY <1>1, <1>2, Constants DEF Waits, Sees
<1> QED
  BY <1>1, <1>2, <1>3, <1>4, LeaveStepOf

LEMMA BeginsLeave ==
  ASSUME NEW u \in Requests, NEW s \in Students, LInv, LeaveInv,
         \/ CompleteYear(u, s) \/ GraduateStudent(u, s) \/ Transfer(u, s)
         \/ MidYearPromote(u, s) \/ UndoPromotion(u, s) \/ WizardClose(u, s)
         \/ WithdrawStudent(u, s) \/ ReinstateStudent(u, s)
  PROVE  LeaveInv'
<1>1. CASE CompleteYear(u, s)
  BY <1>1, CloseMeant, BeginLeaves DEF CompleteYear
<1>2. CASE GraduateStudent(u, s)
  BY <1>2, GraduateMeant, BeginLeaves DEF GraduateStudent
<1>3. CASE Transfer(u, s)
  BY <1>3, TransferMeant, BeginLeaves DEF Transfer
<1>4. CASE MidYearPromote(u, s)
  <2>1. Above(seat[s].grade, 1) \in Grades
    BY <1>4, AboveType DEF MidYearPromote, Enrolled, LInv, GradedInv
  <2> QED
    BY <1>4, <2>1, MoveMeant, BeginLeaves DEF MidYearPromote
<1>5. CASE UndoPromotion(u, s)
  <2>1. CASE Begin(u, Reopen(s))
    BY <2>1, ReopenMeant, BeginLeaves
  <2>2. CASE /\ Enrolled(s) /\ seat[s].grade > 1
             /\ Begin(u, MoveTo(s, seat[s].grade - 1, None))
    <3>1. seat[s].grade - 1 \in Grades
      BY <2>2, TopGradeAssumption DEF LInv, GradedInv, Enrolled, Grades
    <3> QED
      BY <2>2, <3>1, MoveMeant, BeginLeaves
  <2> QED
    BY <1>5, <2>1, <2>2 DEF UndoPromotion
<1>6. CASE WizardClose(u, s)
  <2>1. PICK o : \/ o = "graduated" /\ Begin(u, Graduate(s, FALSE))
                 \/ /\ o \in CloseOutcomes
                    /\ \E j \in Close(s, o, FALSE) : Begin(u, j)
    BY <1>6 DEF WizardClose, Options
  <2> QED
    BY <1>6, <2>1, CloseMeant, GraduateMeant, BeginLeaves DEF WizardClose
<1>7. CASE WithdrawStudent(u, s) \/ ReinstateStudent(u, s)
  <2>1. \A status : LET j == Load(s, NoSave, status, TRUE, "status")
                    IN  Meant(j) /\ j.at = "status"
    BY DEF Load, Meant
  <2> QED
    BY <1>7, <2>1, BeginLeaves DEF WithdrawStudent, ReinstateStudent
<1> QED
  BY <1>1, <1>2, <1>3, <1>4, <1>5, <1>6, <1>7

(* Requests other than u when u saves over the enrollment of s.            *)
LEMMA OthersAge ==
  ASSUME LInv, NEW u \in Requests, NEW s \in Students, NEW j,
         job' = [Outdated(job, {s}) EXCEPT ![u] = j],
         \A q \in Students \ {s} : seat'[q] = seat[q]
  PROVE  job'[u] = j /\ \A v \in Requests \ {u} : Aged(v)
<1>1. job \in [Requests -> Jobs]
  BY DEF LInv, LifecycleTypeOK
<1>2. job'[u] = j /\ \A v \in Requests \ {u} : job'[v] = Outdated(job, {s})[v]
  BY DEF Outdated
<1>3. ASSUME NEW v \in Requests \ {u} PROVE Aged(v)
  <2>1. /\ job'[v].at = job[v].at /\ job'[v].student = job[v].student
        /\ job'[v].new = job[v].new
        /\ job'[v].fresh = (job[v].fresh /\ job[v].student \notin {s})
    BY <1>1, <1>2, OutdatedIs
  <2>2. job'[v].status = job[v].status
    BY <1>1, <1>2 DEF Outdated, Jobs
  <2> QED
    BY <2>1, <2>2 DEF Aged
<1> QED
  BY <1>2, <1>3

(* A closing that graduates is saved as one; a move over an open           *)
(* enrollment is none.                                                     *)
LEMMA SavedGraduation ==
  ASSUME NEW e \in Seats, NEW n \in News, n # NoSave,
         n.grade = None <=> n.status # None,
         n.grade # None => e.status = "enrolled",
         Graduation(Saved(e, n))
  PROVE  Graduation(n)
<1>1. CASE n.grade # None
  BY <1>1, SavedRow DEF Graduation
<1>2. CASE n.grade = None
  BY <1>2, SavedRow DEF Graduation
<1> QED
  BY <1>1, <1>2

LEMMA SavesGraduation ==
  ASSUME LInv, NEW u \in Requests, Suffer(Stale(job[u])), Calm',
         Saving(job[u]), Graduation(Saved(seat[job[u].student], job[u].new))
  PROVE  Graduation(job[u].new)
<1> DEFINE j == job[u]
           s == j.student
<1>1. JobOK(j) /\ j \in Jobs
  BY DEF LInv, JobInv, LifecycleTypeOK
<1>2. /\ s \in Students /\ seat[s] \in Seats /\ j.new \in News /\ j.new # NoSave
      /\ (j.new.grade = None <=> j.new.status # None)
  BY <1>1 DEF LInv, LifecycleTypeOK, JobOK, JobOn, Saving, Jobs
<1>3. Promised(j) /\ j.fresh
  <2>1. Unharmed'
    BY DEF Calm, Unharmed
  <2> QED
    BY <1>2, <2>1, NotStale DEF LInv, FitInv
<1>4. j.new.grade # None => seat[s].status = "enrolled"
  BY <1>3 DEF Promised
<1> HIDE DEF j, s
<1> QED
  BY <1>2, <1>4, SavedGraduation DEF j, s

LEMMA SaveBothLeaves ==
  ASSUME NEW u \in Requests, LInv, LeaveInv, SaveBoth(u) PROVE LeaveInv'
<1> DEFINE j == job[u]
           s == j.student
<1>1. /\ j \in Jobs /\ JobOK(j) /\ Meant(j) /\ s \in Students
      /\ j.at \in {"seat", "student"}
      /\ seat \in [Students -> Seats] /\ student \in [Students -> Statuses]
  BY DEF SaveBoth, LInv, LifecycleTypeOK, JobInv, JobOK, JobOn, Jobs, LeaveInv
<1>2. /\ seat' = [seat EXCEPT ![s] = Saved(@, j.new)]
      /\ student' = [student EXCEPT ![s] = SavedStudent(j)]
      /\ Suffer(Stale(j))
      /\ job' = [Outdated(job, {s}) EXCEPT ![u] = Idle]
  BY DEF SaveBoth
<1>3. /\ seat'[s] = Saved(seat[s], j.new) /\ student'[s] = SavedStudent(j)
      /\ \A q \in Students \ {s} : seat'[q] = seat[q] /\ student'[q] = student[q]
  BY <1>1, <1>2
<1>4. job'[u] = Idle /\ \A v \in Requests \ {u} : Aged(v)
  BY <1>1, <1>2, <1>3, OthersAge
<1>5. Meant(Idle) /\ Sees(seat', Idle) /\ \A q \in Students : ~Waits(j, q)
  BY <1>1, Constants DEF Meant, Sees, Waits
<1>6. ASSUME Calm', Graduation(seat'[s]) PROVE student'[s] \in Gone
  <2>1. CASE j.at = "student"
    <3>1. j.status = "transferred" /\ "transferred" # None
      BY <1>1, <2>1, NoneIsNew DEF Meant, Statuses
    <3> QED
      BY <1>3, <3>1 DEF SavedStudent, Gone
  <2>2. CASE j.at = "seat"
    <3>1. Saving(j)
      BY <1>1, <2>2 DEF Meant, Saving
    <3>2. Graduation(j.new)
      BY <1>2, <1>3, <1>6, <3>1, SavesGraduation
    <3>3. j.status = "graduated" /\ "graduated" # None
      BY <1>1, <2>2, <3>2, NoneIsNew DEF Meant, Statuses
    <3> QED
      BY <1>3, <3>3 DEF SavedStudent, Gone
  <2> QED
    BY <1>1, <2>1, <2>2
<1>7. suffered \subseteq suffered'
  BY <1>2 DEF Suffer
<1> HIDE DEF j, s
<1>8. Calm' => \A q \in Students : Graduation(seat'[q]) =>
        \/ student'[q] \in Gone
        \/ Graduation(seat[q]) /\ student'[q] = student[q]
  BY <1>3, <1>6
<1> QED
  BY <1>4, <1>5, <1>7, <1>8, LeaveStepOf DEF j

LEMMA SaveSeatLeaves ==
  ASSUME NEW u \in Requests, LInv, LeaveInv, SaveSeat(u) PROVE LeaveInv'
<1> DEFINE j == job[u]
           s == j.student
           k == IF j.at = "seat" /\ j.status # None
                THEN [j EXCEPT !.at = "student2"] ELSE Idle
<1>1. /\ j \in Jobs /\ JobOK(j) /\ Meant(j) /\ s \in Students
      /\ j.at \in {"seat", "seat2"}
      /\ seat \in [Students -> Seats] /\ student \in [Students -> Statuses]
  BY DEF SaveSeat, LInv, LifecycleTypeOK, JobInv, JobOK, JobOn, LeaveInv
<1>2. /\ seat' = [seat EXCEPT ![s] = Saved(@, j.new)]
      /\ student' = student
      /\ Suffer(Stale(j))
      /\ job' = [Outdated(job, {s}) EXCEPT ![u] = k]
  BY DEF SaveSeat
<1>3. /\ seat'[s] = Saved(seat[s], j.new)
      /\ \A q \in Students \ {s} : seat'[q] = seat[q]
  BY <1>1, <1>2
<1>4. /\ k.at = "student2" => /\ j.at = "seat" /\ k.student = s
                              /\ k.new = j.new /\ k.status = j.status
      /\ k.at \in {"idle", "student2"}
      /\ j.at = "seat" /\ j.status = "graduated" => k.at = "student2"
  <2>1. CASE j.at = "seat" /\ j.status # None
    BY <1>1, <2>1 DEF Jobs
  <2>2. CASE ~(j.at = "seat" /\ j.status # None)
    BY <2>2, Constants, NoneIsNew DEF Statuses
  <2> QED
    BY <2>1, <2>2
<1> HIDE DEF k
<1>5. job'[u] = k /\ \A v \in Requests \ {u} : Aged(v)
  BY <1>1, <1>2, <1>3, OthersAge
<1>6. ASSUME Calm', Graduation(seat'[s])
      PROVE  \/ j.at = "seat" /\ j.status = "graduated"
             \/ j.at = "seat2" /\ j.new = NoSave /\ seat'[s] = seat[s]
  <2>1. CASE j.new = NoSave
    BY <1>1, <1>3, <2>1 DEF Meant, Saved
  <2>2. CASE j.new # NoSave
    <3>1. Saving(j)
      BY <1>1, <2>2 DEF Saving
    <3>2. Graduation(j.new)
      BY <1>2, <1>3, <1>6, <3>1, SavesGraduation
    <3> QED
      BY <1>1, <3>2 DEF Meant
  <2> QED
    BY <2>1, <2>2
<1>7. Meant(k)
  BY <1>1, <1>4 DEF Meant
<1>8. Calm' => Sees(seat', k)
  BY <1>4, <1>6 DEF Sees
<1>9. suffered \subseteq suffered'
  BY <1>2 DEF Suffer
<1>10. \A q \in Students : Waits(j, q) => q = s /\ j.at = "seat2" /\ j.new # NoSave
  BY <1>1 DEF Waits, Meant
<1>11. ASSUME Calm', NEW q \in Students, Graduation(seat'[q])
       PROVE  \/ Waits(k, q)
              \/ Graduation(seat[q]) /\ ~Waits(j, q) /\ student'[q] = student[q]
  <2>1. CASE q # s
    BY <1>2, <1>3, <1>10, <1>11, <2>1
  <2>2. CASE q = s
    BY <1>2, <1>4, <1>6, <1>10, <1>11, <2>2 DEF Waits
  <2> QED
    BY <2>1, <2>2
<1> HIDE DEF j, s
<1> QED
  BY <1>5, <1>7, <1>8, <1>9, <1>11, LeaveStepOf DEF j

LEMMA SaveStudentLeaves ==
  ASSUME NEW u \in Requests, LInv, LeaveInv, SaveStudent(u) PROVE LeaveInv'
<1> DEFINE j == job[u]
           s == j.student
           k == IF j.at = "student" THEN [j EXCEPT !.at = "seat2"] ELSE Idle
<1>1. /\ j \in Jobs /\ JobOK(j) /\ Meant(j) /\ s \in Students
      /\ j.at \in {"student", "student2"}
      /\ job \in [Requests -> Jobs] /\ student \in [Students -> Statuses]
  BY DEF SaveStudent, LInv, LifecycleTypeOK, JobInv, JobOK, JobOn, LeaveInv
<1>2. /\ student' = [student EXCEPT ![s] = SavedStudent(j)]
      /\ seat' = seat /\ Suffer(Stale(j)) /\ job' = [job EXCEPT ![u] = k]
  BY DEF SaveStudent
<1>3. /\ student'[s] = SavedStudent(j)
      /\ \A q \in Students \ {s} : student'[q] = student[q]
  BY <1>1, <1>2
<1>4. /\ k.at \in {"idle", "seat2"}
      /\ k.at = "seat2" => j.at = "student" /\ k.new = j.new /\ k.status = j.status
  <2>1. CASE j.at = "student"
    BY <1>1, <2>1 DEF Jobs
  <2>2. CASE j.at # "student"
    BY <2>2, Constants
  <2> QED
    BY <2>1, <2>2
<1> HIDE DEF k
<1>5. job'[u] = k /\ \A v \in Requests \ {u} : Aged(v)
  BY <1>1, <1>2 DEF Aged
<1>6. Meant(k) /\ Sees(seat', k)
  BY <1>1, <1>4 DEF Meant, Sees
<1>7. suffered \subseteq suffered'
  BY <1>2 DEF Suffer
<1>8. ASSUME Calm', Graduation(seat'[s]) PROVE student'[s] \in Gone
  <2>1. "transferred" # None /\ "graduated" # None
    BY NoneIsNew DEF Statuses
  <2>2. CASE j.at = "student"
    BY <1>1, <1>3, <2>1, <2>2 DEF Meant, SavedStudent, Gone
  <2>3. CASE j.at = "student2"
    <3>1. Calm /\ j.fresh
      BY <1>1, <1>2, <1>7, <1>8, <2>3 DEF Calm, Suffer, Stale, Meant
    <3>2. Sees(seat, j)
      BY <3>1 DEF LeaveInv
    <3>3. j.status = "graduated"
      BY <1>2, <1>8, <2>3, <3>1, <3>2 DEF Sees
    <3> QED
      BY <1>3, <2>1, <3>3 DEF SavedStudent, Gone
  <2> QED
    BY <1>1, <2>2, <2>3
<1>9. ASSUME Calm', NEW q \in Students, Graduation(seat'[q])
      PROVE  \/ student'[q] \in Gone
             \/ /\ Graduation(seat[q]) /\ ~Waits(j, q)
                /\ student'[q] = student[q]
  <2>1. CASE q = s
    BY <1>8, <1>9, <2>1
  <2>2. CASE q # s
    BY <1>2, <1>3, <1>9, <2>2 DEF Waits
  <2> QED
    BY <2>1, <2>2
<1> HIDE DEF j, s
<1> QED
  BY <1>5, <1>6, <1>7, <1>9, LeaveStepOf DEF j

LEMMA SaveStatusLeaves ==
  ASSUME NEW u \in Requests, LInv, LeaveInv, SaveStatus(u) PROVE LeaveInv'
<1> DEFINE j == job[u]
           s == j.student
           k == [j EXCEPT !.at = "find"]
<1>1. /\ j \in Jobs /\ j.at = "status" /\ s \in Students
      /\ job \in [Requests -> Jobs] /\ student \in [Students -> Statuses]
  BY DEF SaveStatus, LInv, LifecycleTypeOK, JobInv, JobOK, JobOn
<1>2. /\ student' = [student EXCEPT ![s] = j.status]
      /\ seat' = seat /\ suffered' = suffered /\ job' = [job EXCEPT ![u] = k]
  BY DEF SaveStatus
<1>3. k.at = "find" /\ k.student = s
  BY <1>1 DEF Jobs
<1> HIDE DEF k
<1>4. job'[u] = k /\ \A v \in Requests \ {u} : Aged(v)
  BY <1>1, <1>2 DEF Aged
<1>5. Meant(k) /\ Sees(seat', k) /\ Waits(k, s) /\ \A q \in Students : ~Waits(j, q)
  BY <1>1, <1>3 DEF Meant, Sees, Waits
<1>6. \A q \in Students \ {s} : student'[q] = student[q]
  BY <1>2
<1>7. \A q \in Students : Graduation(seat'[q]) =>
        \/ Waits(k, q)
        \/ Graduation(seat[q]) /\ student'[q] = student[q]
  BY <1>2, <1>5, <1>6
<1> HIDE DEF j, s
<1> QED
  BY <1>2, <1>4, <1>5, <1>7, LeaveStepOf DEF j

LEMMA FindSeatLeaves ==
  ASSUME NEW u \in Requests, LInv, LeaveInv, FindSeat(u) PROVE LeaveInv'
<1> DEFINE j == job[u]
           s == j.student
           k == IF Found(j)
                THEN [j EXCEPT !.at = "seat2", !.new = SeatChange(j), !.fresh = TRUE]
                ELSE Idle
<1>1. /\ j \in Jobs /\ JobOK(j) /\ j.at = "find" /\ s \in Students
      /\ job \in [Requests -> Jobs]
  BY DEF FindSeat, LInv, LifecycleTypeOK, JobInv, JobOK, JobOn
<1>2. /\ seat' = seat /\ student' = student /\ job' = [job EXCEPT ![u] = k]
      /\ suffered \subseteq suffered'
  BY DEF FindSeat, records, Suffer
<1>3. Calm' => ~(j.status = "active" /\ Graduation(seat[s]))
  BY DEF FindSeat, Suffer, Calm, Graduated, Graduation
<1>4. j.status \in {"withdrawn", "active"}
  BY <1>1 DEF JobOK, JobOn
<1>5. SeatChange(j) # NoSave /\ ~Graduation(SeatChange(j))
  BY ClosingIs, GraduationOf DEF SeatChange, Outcomes
<1>6. CASE Found(j)
  <2>1. /\ k.at = "seat2" /\ k.student = s /\ k.new = SeatChange(j)
        /\ k.status = j.status
    BY <1>1, <1>6 DEF Jobs
  <2> HIDE DEF k
  <2>2. job'[u] = k /\ \A v \in Requests \ {u} : Aged(v)
    BY <1>1, <1>2 DEF Aged
  <2>3. Meant(k) /\ Sees(seat', k) /\ (j.status = "withdrawn" => Waits(k, s))
    BY <1>5, <2>1 DEF Meant, Sees, Waits
  <2>4. Calm' => \A q \in Students : Graduation(seat'[q]) =>
          \/ Waits(k, q)
          \/ Graduation(seat[q]) /\ ~Waits(j, q) /\ student'[q] = student[q]
    BY <1>1, <1>2, <1>3, <1>4, <2>3 DEF Waits
  <2> HIDE DEF j, s
  <2> QED
    BY <1>2, <2>2, <2>3, <2>4, LeaveStepOf DEF j
<1>7. CASE ~Found(j)
  <2>1. job'[u] = Idle /\ \A v \in Requests \ {u} : Aged(v)
    BY <1>1, <1>2, <1>7 DEF Aged
  <2>2. Meant(Idle) /\ Sees(seat', Idle)
    BY Constants DEF Meant, Sees
  <2>3. j.status = "withdrawn" => ~Graduation(seat[s])
    BY <1>7 DEF Found, Graduation
  <2>4. Calm' => \A q \in Students : Graduation(seat'[q]) =>
          Graduation(seat[q]) /\ ~Waits(j, q) /\ student'[q] = student[q]
    BY <1>1, <1>2, <1>3, <1>4, <2>3 DEF Waits
  <2> HIDE DEF j, s
  <2> QED
    BY <1>2, <2>1, <2>2, <2>4, LeaveStepOf DEF j
<1> QED
  BY <1>6, <1>7

LEMMA DieLeaves ==
  ASSUME NEW u \in Requests, LInv, LeaveInv, Die(u) PROVE LeaveInv'
<1>1. /\ job \in [Requests -> Jobs] /\ job' = [job EXCEPT ![u] = Idle]
      /\ seat' = seat /\ student' = student
      /\ Suffer(IF job[u].at \in {"find", "seat2", "student2"} THEN {"half"} ELSE {})
  BY DEF Die, records, LInv, LifecycleTypeOK
<1>2. job'[u] = Idle /\ \A v \in Requests \ {u} : Aged(v)
  BY <1>1 DEF Aged
<1>3. Meant(Idle) /\ Sees(seat', Idle)
  BY Constants DEF Meant, Sees
<1>4. /\ suffered \subseteq suffered'
      /\ Calm' => \A s \in Students : ~Waits(job[u], s)
  BY <1>1 DEF Suffer, Calm, Waits
<1> QED
  BY <1>1, <1>2, <1>3, <1>4, LeaveStepOf

(* A new enrollment in place of the old one, or none.                      *)
LEMMA ForgetLeaves ==
  ASSUME LInv, LeaveInv, NEW s \in Students, NEW e, ~Graduation(e),
         seat' = [seat EXCEPT ![s] = e], Forget(s), suffered' = suffered,
         \A q \in Students \ {s} : student'[q] = student[q]
  PROVE  LeaveInv'
<1> DEFINE U == {v \in Requests : job[v].student = s
                                  /\ job[v].at \in {"seat", "student", "seat2"}}
<1>1. /\ job \in [Requests -> Jobs] /\ seat \in [Students -> Seats]
      /\ seat'[s] = e /\ \A q \in Students \ {s} : seat'[q] = seat[q]
  BY DEF LInv, LifecycleTypeOK
<1>2. ASSUME NEW v \in U
      PROVE  job'[v] = Idle /\ \A q \in Students \ {s} : ~Waits(job[v], q)
  BY DEF Forget, Waits
<1>3. ASSUME NEW v \in Requests \ U PROVE Aged(v)
  <2>1. job'[v] = Outdated(job, {s})[v]
    BY DEF Forget
  <2>2. /\ job'[v].at = job[v].at /\ job'[v].student = job[v].student
        /\ job'[v].new = job[v].new
        /\ job'[v].fresh = (job[v].fresh /\ job[v].student \notin {s})
    BY <1>1, <2>1, OutdatedIs
  <2>3. job'[v].status = job[v].status
    BY <1>1, <2>1 DEF Outdated, Jobs
  <2> QED
    BY <1>1, <2>2, <2>3 DEF Aged
<1>4. Meant(Idle) /\ Sees(seat', Idle)
  BY Constants DEF Meant, Sees
<1>5. \A q \in Students : Graduation(seat'[q]) =>
        q # s /\ Graduation(seat[q]) /\ student'[q] = student[q]
  BY <1>1
<1>6. U \in SUBSET Requests
  OBVIOUS
<1> HIDE DEF U
<1> QED
  BY <1>2, <1>3, <1>4, <1>5, <1>6, LeaveStep

(* The enrollments of S are closed at once, and so are the graduates       *)
(* among their students.                                                   *)
LEMMA ManyLeave ==
  ASSUME LInv, LeaveInv, NEW S \in SUBSET Students, suffered \subseteq suffered',
         job' = Outdated(job, S),
         \A q \in Students \ S : seat'[q] = seat[q] /\ student'[q] = student[q],
         \A q \in S : Graduation(seat'[q]) => student'[q] \in Gone
  PROVE  LeaveInv'
<1>1. job \in [Requests -> Jobs]
  BY DEF LInv, LifecycleTypeOK
<1>2. ASSUME NEW v \in Requests PROVE Aged(v)
  <2>1. /\ job'[v].at = job[v].at /\ job'[v].student = job[v].student
        /\ job'[v].new = job[v].new
        /\ job'[v].fresh = (job[v].fresh /\ job[v].student \notin S)
    BY <1>1, OutdatedIs
  <2>2. job'[v].status = job[v].status
    BY <1>1 DEF Outdated, Jobs
  <2> QED
    BY <2>1, <2>2 DEF Aged
<1>3. \A q \in Students : Graduation(seat'[q]) =>
        \/ student'[q] \in Gone
        \/ Graduation(seat[q]) /\ student'[q] = student[q]
  OBVIOUS
<1> DEFINE U == {v \in Requests : FALSE}
<1>4. U \in SUBSET Requests /\ \A v : v \notin U
  OBVIOUS
<1> HIDE DEF U
<1> QED
  BY <1>2, <1>3, <1>4, LeaveStep

(* After an edit nothing is promised about the two rows.                   *)
LEMMA EditLeaves ==
  ASSUME NEW s \in Students, LInv, LeaveInv, EditSeat(s) \/ EditStudent(s)
  PROVE  LeaveInv'
<1>1. suffered \subseteq suffered' /\ ~Calm'
  BY DEF EditSeat, EditStudent, Suffer, Calm
<1>2. job \in [Requests -> Jobs] /\ seat \in [Students -> Seats]
  BY DEF LInv, LifecycleTypeOK
<1>3. ASSUME NEW v \in Requests PROVE Aged(v)
  <2>1. CASE EditSeat(s)
    <3>1. /\ job' = Outdated(job, {s})
          /\ \A q \in Students \ {s} : seat'[q] = seat[q]
      BY <1>2, <2>1 DEF EditSeat
    <3>2. /\ job'[v].at = job[v].at /\ job'[v].student = job[v].student
          /\ job'[v].new = job[v].new
          /\ job'[v].fresh = (job[v].fresh /\ job[v].student \notin {s})
      BY <1>2, <3>1, OutdatedIs
    <3>3. job'[v].status = job[v].status
      BY <1>2, <3>1 DEF Outdated, Jobs
    <3> QED
      BY <3>1, <3>2, <3>3 DEF Aged
  <2>2. CASE EditStudent(s)
    BY <2>2 DEF EditStudent, Aged
  <2> QED
    BY <2>1, <2>2
<1> DEFINE U == {v \in Requests : FALSE}
<1>4. U \in SUBSET Requests /\ \A v : v \notin U
  OBVIOUS
<1> HIDE DEF U
<1> QED
  BY <1>1, <1>3, <1>4, LeaveStep

LEMMA CommitLeaves ==
  ASSUME NEW w \in Workers, LInv, LeaveInv, Commit(w) PROVE LeaveInv'
<1> DEFINE S == Open \cap held
           p == Payload[task[w]]
<1>1. /\ S \in SUBSET Students /\ seat \in [Students -> Seats]
      /\ job' = Outdated(job, S) /\ suffered \subseteq suffered'
  BY DEF Commit, Suffer, Open, LInv, LifecycleTypeOK
<1>2. \A q \in Students \ S : seat'[q] = seat[q] /\ student'[q] = student[q]
  BY DEF Commit
<1>3. ASSUME NEW s \in S, Graduation(seat'[s]) PROVE student'[s] \in Gone
  <2>1. /\ s \in Students /\ seat[s] \in Seats
        /\ seat'[s] = [seat[s] EXCEPT !.status = "completed",
                                       !.outcome = Result(p, s).outcome,
                                       !.next = Result(p, s).next]
        /\ student'[s] = IF Result(p, s).outcome = "graduated"
                         THEN "graduated" ELSE student[s]
    BY <1>1, <1>3 DEF Commit
  <2>2. seat'[s].outcome = Result(p, s).outcome
    BY <2>1 DEF Seats
  <2> QED
    BY <1>3, <2>1, <2>2 DEF Graduation, Gone
<1> HIDE DEF S
<1> QED
  BY <1>1, <1>2, <1>3, ManyLeave

LEMMA LeaveStays ==
  ASSUME LInv, LeaveInv, UNCHANGED <<seat, student, job>>, suffered \subseteq suffered'
  PROVE  LeaveInv'
  BY DEF LeaveInv, Calm, Meant, Sees, Waits

LEMMA InitLeave == Init => LeaveInv
<1> SUFFICES ASSUME Init PROVE LeaveInv
  OBVIOUS
<1>1. \A s \in Students : ~Graduation(seat[s])
  BY Constants DEF Init, LifecycleInit, SeatStatuses, Graduation
<1> QED
  BY <1>1, Constants DEF Init, LifecycleInit, LeaveInv, Meant, Sees

LEMMA NextLeave == LInv /\ LeaveInv /\ [Next]_vars => LeaveInv'
<1> SUFFICES ASSUME LInv, LeaveInv, [Next]_vars PROVE LeaveInv'
  OBVIOUS
<1>1. suffered \subseteq suffered'
  BY FaultsStay
<1>2. CASE UNCHANGED vars
  BY <1>1, <1>2, LeaveStays DEF vars, lifecycle
<1>3. CASE LifecycleStep
  <2>1. ASSUME NEW u \in Requests, NEW s \in Students,
               \/ CompleteYear(u, s) \/ GraduateStudent(u, s) \/ Transfer(u, s)
               \/ MidYearPromote(u, s) \/ UndoPromotion(u, s) \/ WizardClose(u, s)
               \/ WithdrawStudent(u, s) \/ ReinstateStudent(u, s)
        PROVE  LeaveInv'
    BY <2>1, BeginsLeave
  <2>2. ASSUME NEW u \in Requests,
               \/ SaveBoth(u) \/ SaveSeat(u) \/ SaveStudent(u) \/ Die(u)
               \/ SaveStatus(u) \/ FindSeat(u)
        PROVE  LeaveInv'
    BY <2>2, SaveBothLeaves, SaveSeatLeaves, SaveStudentLeaves, DieLeaves,
       SaveStatusLeaves, FindSeatLeaves
  <2>3. ASSUME NEW s \in Students, NEW g \in Grades, NEW st \in SeatStatuses,
               Enroll(s, g, st)
        PROVE  LeaveInv'
    <3>1. ~Graduation(Seated(g, st))
      BY Constants, NoneIsNew DEF Graduation, Outcomes
    <3>2. \A q \in Students \ {s} : student'[q] = student[q]
      BY <2>3 DEF Enroll, LInv, LifecycleTypeOK
    <3> QED
      BY <2>3, <3>1, <3>2, ForgetLeaves DEF Enroll
  <2>4. ASSUME NEW s \in Students, Remove(s) PROVE LeaveInv'
    <3>1. ~Graduation(NoSeat)
      BY Constants DEF Graduation
    <3> QED
      BY <2>4, <3>1, ForgetLeaves DEF Remove
  <2> QED
    BY <1>3, <2>1, <2>2, <2>3, <2>4, EditLeaves DEF LifecycleStep, Lifecycle
<1>4. ASSUME NEW o \in Ops, Look(o) \/ Insert(o) \/ GiveUp(o) \/ SaveGiveUp(o)
      PROVE  LeaveInv'
  BY <1>1, <1>4, LeaveStays DEF Look, Insert, GiveUp, SaveGiveUp, lifecycle
<1>5. ASSUME NEW w \in Workers, NEW o \in Ops, Claim(w, o) PROVE LeaveInv'
  BY <1>1, <1>5, LeaveStays DEF Claim, lifecycle
<1>6. ASSUME NEW w \in Workers, Execution(w) \/ Crash(w) PROVE LeaveInv'
  <2>1. CASE Commit(w)
    BY <2>1, CommitLeaves
  <2>2. CASE Prepare(w) \/ Lock(w) \/ Complete(w) \/ Fail(w) \/ Crash(w)
    <3>1. UNCHANGED <<seat, student, job>>
      BY <2>2 DEF Prepare, Lock, Complete, Fail, Crash, Stop, lifecycle, records
    <3> QED
      BY <1>1, <3>1, LeaveStays
  <2> QED
    BY <1>6, <2>1, <2>2 DEF Execution
<1> QED
  BY <1>2, <1>3, <1>4, <1>5, <1>6 DEF Next

(***************************************************************************)
(* A student whose enrollment of the year ended in graduation, and on whom *)
(* no request is at work, has left the school, unless a request saved over *)
(* a changed row or died between its two saves, a user edited a row, or a  *)
(* transferred graduate was reinstated: until the second save, the request *)
(* that is to make it is there and knows what it has to save.              *)
(***************************************************************************)
THEOREM GraduationsLeave == Spec => []GraduatesLeave
<1>1. LeaveInv => GraduatesLeave
  BY DEF LeaveInv, GraduatesLeave, Calm, Graduated, Graduation, Gone, Waits
<1>2. Init => LeaveInv
  BY InitLeave
<1>3. LInv /\ LInv' /\ LeaveInv /\ [Next]_vars => LeaveInv'
  BY NextLeave
<1> QED
  BY <1>1, <1>2, <1>3, InductiveRows, PTL DEF Spec
=============================================================================
