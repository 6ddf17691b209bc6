-------------------------- MODULE AttendanceFigures --------------------------
(***************************************************************************)
(* What the screens say of attendance: the register a lecturer downloads,  *)
(* the eligibility list of the administration, the student's and the       *)
(* lecturer's dashboards, the reports and the pages of the head of         *)
(* department.  They are written by different queries of utils.py,         *)
(* analytics.py, dashboard_today.py, api/ and blueprints/ that must show   *)
(* the same student the same figure.                                       *)
(*                                                                         *)
(* A percentage is kept in tenths of a point, rounded as the code rounds.  *)
(***************************************************************************)
EXTENDS ClassRecord

CONSTANTS
  Threshold,      \* EXAM_ELIGIBILITY_THRESHOLD, the dashboards' 75
  MinSessions     \* analytics.MIN_SESSIONS

ASSUME FiguresAssumption == Threshold \in 1..100 /\ MinSessions \in Nat \ {0}

\* round(part / whole * 100, 1), 0 of nothing.
Tenths(part, whole) == IF whole = 0 THEN 0 ELSE (2000 * part + whole) \div (2 * whole)

\* round(part / whole * 100)
Points(part, whole) == (200 * part + whole) \div (2 * whole)

-----------------------------------------------------------------------------
(* The attendance rule: a class counts once it has finished; a student who *)
(* was present or late attended it.                                        *)

\* held_sessions before October 2026: a running class counted.
HeldOrRunning(c) == {i \in Ids : sessions[i].course = c}

\* held_sessions
Held(c) == {i \in Ids : sessions[i].course = c /\ ~sessions[i].running}

\* ATTENDED_STATUSES, attended_by_session
Attendees(i) == {s \in Students : attendance[i][s] \in {"present", "late"}}

\* attended_by_student
Attended(s, c) == Cardinality({i \in Held(c) : s \in Attendees(i)})

\* attended_by_course: everybody, also who has since dropped the course.
AttendedByAll(c) == Cardinality({p \in Held(c) \X Students : p[2] \in Attendees(p[1])})

Class(c) == {s \in Students : <<s, c>> \in enrolled}

\* course_attendance: the course's average on every staff page.
CourseFigure(c) ==
  [enrolled |-> Cardinality(Class(c)), held |-> Cardinality(Held(c)), attended |-> AttendedByAll(c),
   pct |-> Tenths(AttendedByAll(c), Cardinality(Held(c)) * Cardinality(Class(c)))]

-----------------------------------------------------------------------------
(* The lecturer's pages *)

\* build_course_register_csv: a letter per finished class.
Letter(s, i) == IF attendance[i][s] = "none" THEN "absent" ELSE attendance[i][s]

Columns(c) == {i \in Ids : sessions[i].course = c /\ ~sessions[i].running}

RegisterRow(s, c) ==
  LET attended == Cardinality({i \in Columns(c) : Letter(s, i) \in {"present", "late"}})
      total == Cardinality(Columns(c))
      pct == Tenths(attended, total)
  IN  [attended |-> attended, total |-> total, pct |-> pct,
       eligible |-> total # 0 /\ pct >= 10 * Threshold]

\* get_course_analytics: the points of the trend and their mean.
Trend(c) == [i \in Held(c) |-> Tenths(Cardinality(Attendees(i)), Cardinality(Class(c)))]
TrendMean(c) == (2 * MapThenSumSet(LAMBDA i : Trend(c)[i], Held(c)) + Cardinality(Held(c)))
                  \div (2 * Cardinality(Held(c)))
AnalyticsRow(s, c) == [attended |-> Attended(s, c), total |-> Cardinality(Held(c)),
                       pct |-> Tenths(Attended(s, c), Cardinality(Held(c)))]

\* students_not_checked_in, among those whose status is active
NotCheckedIn(i, active) == {s \in Class(sessions[i].course) \cap active : ~Recorded(s, i)}

-----------------------------------------------------------------------------
(* The student's pages *)

MyCourses(s) == {c \in Courses : <<s, c>> \in enrolled /\ InSemester(c, semester)}

\* student_course_attendance
MyRow(s, c) == [attended |-> Attended(s, c), total |-> Cardinality(Held(c)),
                pct |-> Tenths(Attended(s, c), Cardinality(Held(c)))]

\* get_student_dashboard, the portal's dashboard
OverallRate(s) == Tenths(MapThenSumSet(LAMBDA c : MyRow(s, c).attended, MyCourses(s)),
                         MapThenSumSet(LAMBDA c : MyRow(s, c).total, MyCourses(s)))
AtRisk(s) == Cardinality({c \in MyCourses(s) : MyRow(s, c).pct < 10 * Threshold})

\* get_course_attendance_history
History(s, c) == [i \in Held(c) |-> IF Recorded(s, i) THEN attendance[i][s] ELSE "absent"]

-----------------------------------------------------------------------------
(* The administration and the heads of department *)

\* analytics.eligibility; the active semester's list leaves out those who left.
InScope(m, active) ==
  {p \in enrolled : /\ SemesterOf[p[2]] = m /\ Cardinality(Held(p[2])) >= MinSessions
                    /\ m = semester => p[1] \in active}
AtOrBelow(m, active) == {p \in InScope(m, active) : Tenths(Attended(p[1], p[2]), Cardinality(Held(p[2]))) <= 10 * Threshold}
Below(m, active) == {p \in InScope(m, active) : Tenths(Attended(p[1], p[2]), Cardinality(Held(p[2]))) < 10 * Threshold}

\* _all_course_attendance_reports, _course_attendance_reports
Report(m) == [c \in {d \in Courses : InSemester(d, m)} |-> CourseFigure(c)]

\* department_rates, for the courses of a department in the active semester.
DepartmentRate(courses) ==
  Tenths(MapThenSumSet(LAMBDA c : AttendedByAll(c), courses),
         MapThenSumSet(LAMBDA c : Cardinality(Held(c)) * Cardinality(Class(c)), courses))

\* _department_attendance: courses not held yet are left out, whole points.
HodCourses(s) == {c \in MyCourses(s) : Held(c) # {}}
HodOverall(s) == Points(MapThenSumSet(LAMBDA c : Attended(s, c), HodCourses(s)),
                        MapThenSumSet(LAMBDA c : Cardinality(Held(c)), HodCourses(s)))
HodFlags(s) == HodCourses(s) # {} /\ HodOverall(s) < Threshold

-----------------------------------------------------------------------------
(* Properties *)

\* A student's own dashboard, the history of the course and the lecturer's
\* analytics give the attendance of the register the lecturer downloads
\* (utils.py 241-262: eight places once had three rules).
SameFigureEverywhere ==
  \A p \in enrolled :
    LET row == RegisterRow(p[1], p[2])
        given == [attended |-> row.attended, total |-> row.total, pct |-> row.pct]
        history == History(p[1], p[2])
    IN  /\ AnalyticsRow(p[1], p[2]) = given
        /\ p[2] \in MyCourses(p[1]) => MyRow(p[1], p[2]) = given
        /\ Cardinality(DOMAIN history) = row.total
        /\ Cardinality({i \in DOMAIN history : history[i] # "absent"}) = row.attended

\* The eligibility list of a semester, past or active, names exactly those
\* of the students it looks at whom the register of the course calls not
\* eligible (analytics.py 5-8: the two can never disagree).
FlaggedIffNotEligible ==
  \A m \in Semesters, active \in SUBSET Students :
    Below(m, active) = {p \in InScope(m, active) : ~RegisterRow(p[1], p[2]).eligible}

\* The courses a student's dashboard counts as at risk are those whose
\* register denies the exam, a course without a class held among them.
AtRiskIsTheRegister ==
  \A s \in Students :
    AtRisk(s) = Cardinality({c \in MyCourses(s) : ~RegisterRow(s, c).eligible})

\* The average of a course is that of the rows of its register, and is more
\* than 100 only where one who attended is not registered any more.
AverageIsTheRegisters ==
  \A c \in Courses :
    LET left == (UNION {Attendees(i) : i \in Held(c)}) \ Class(c)
    IN  /\ AttendedByAll(c) = MapThenSumSet(LAMBDA s : RegisterRow(s, c).attended, Class(c) \cup left)
        /\ left = {} => CourseFigure(c).pct <= 1000

\* The mean of a course's trend differs from the average every other page
\* shows by the rounding only.
TrendAgreesWithAverage ==
  \A c \in Courses :
    Held(c) # {} => TrendMean(c) - CourseFigure(c).pct \in -1..1

\* The head of department flags only a student whose own dashboard is below
\* the threshold, and every one more than half a point below it.
HodFlagsTheLow ==
  \A s \in Students :
    /\ HodFlags(s) => OverallRate(s) < 10 * Threshold
    /\ HodCourses(s) # {} /\ OverallRate(s) < 10 * Threshold - 5 => HodFlags(s)

\* A department's rate on the dashboard, whatever courses of the active
\* semester are its own, lies between those of its courses in the report; it
\* is above all of them only if everybody who attended a course dropped it.
RateWithinTheReport ==
  \A courses \in SUBSET {c \in Courses : semester # NoSemester /\ SemesterOf[c] = semester} :
    LET report == Report(semester)
        rated == {c \in courses : report[c].held * report[c].enrolled # 0}
    IN  rated # {} =>
          /\ \E c \in rated : report[c].pct <= DepartmentRate(courses)
          /\ \/ \E c \in rated : report[c].pct >= DepartmentRate(courses)
             \/ \E c \in courses : Class(c) = {} /\ AttendedByAll(c) # 0

\* Whoever counts, and for whatever page, counts as the register does
\* (utils.py 241-262); the records are well typed.
FiguresAgree ==
  /\ RecordTypeOK
  /\ SameFigureEverywhere /\ FlaggedIffNotEligible /\ AtRiskIsTheRegister
  /\ AverageIsTheRegisters /\ TrendAgreesWithAverage
  /\ HodFlagsTheLow /\ RateWithinTheReport

\* A registered student's percentage falls only when a class of the course
\* ends: not while it runs, nor by what happens to others (utils.py 246-249).
FallsOnlyAtTheEnd ==
  [][\A p \in enrolled \cap enrolled' :
       RegisterRow(p[1], p[2]).pct' < RegisterRow(p[1], p[2]).pct
         => \E i \in Ids : sessions[i].course = p[2] /\ sessions[i].running /\ ~sessions'[i].running]_record
=============================================================================
