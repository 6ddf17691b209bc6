--------------------------- MODULE LecturerScreens ---------------------------
(***************************************************************************)
(* The lecturer's pages in the app (api/lecturer.py) and on the web        *)
(* (blueprints/lecturer.py): each shows some of the figures and some of    *)
(* what is on now, and finds the class of a course by a query of its own.  *)
(*                                                                         *)
(* A lecturer is the set of courses they teach (utils.teaches), whatever   *)
(* the set: who teaches what is the subject of StaffRoster.                *)
(***************************************************************************)
EXTENDS AttendanceFigures, TodayBoard

\* courses_taught_by narrowed by current_courses
Current(courses) == {c \in courses : InSemester(c, semester)}

\* get_lecturer_week_schedule
Week(courses) == {k \in ShownSlots : Slots[k].course \in Current(courses)}

\* get_week_schedule of the student's app
StudentWeek(s) == {k \in ShownSlots : Slots[k].course \in ShownCourses(s)}

\* The rows of a class, whatever their status.
Rows(i) == {s \in Students : Recorded(s, i)}

\* filter_by(course_id, is_active).first(): of any day.
ActiveClass(c) == FirstOf({i \in Ids : sessions[i].course = c /\ sessions[i].running})

RunningOf(courses) == {i \in Ids : sessions[i].course \in courses /\ sessions[i].running}

\* get_dashboard_data
Dashboard(courses) ==
  [active |-> Cardinality(RunningOf(courses)),
   cards |-> [c \in Current(courses) |-> [figure |-> CourseFigure(c), class |-> ActiveClass(c)]]]

\* dashboard of the portal: its cards count the classes running too.
PortalDashboard(courses) ==
  [active |-> RunningOf(courses),
   cards |-> [c \in Current(courses) |->
                [enrolled |-> Cardinality(Class(c)), classes |-> Cardinality(HeldOrRunning(c)),
                 live |-> \E i \in RunningOf(courses) : sessions[i].course = c]]]

\* get_course_workspace
Workspace(c) ==
  LET i == ActiveClass(c)
  IN  [figure |-> CourseFigure(c), class |-> i,
       present |-> IF i = NoClass THEN {} ELSE Rows(i),
       room |-> IF i # NoClass THEN ClassRoom(i)
                ELSE IF SlotFor(c) # NoSlot THEN Slots[SlotFor(c)].room ELSE NoRoom]

\* course_workspace and live_attendance of the portal
LiveRows(c) == IF ActiveClass(c) = NoClass THEN {} ELSE Rows(ActiveClass(c))

\* active_sessions
ActivePage(courses) ==
  {[class |-> i, present |-> Cardinality(Rows(i)), enrolled |-> EnrolledIn(sessions[i].course)] :
     i \in RunningOf(courses)}

\* get_session_history: absent = registered - attended, of each ended class.
SessionHistory(c) ==
  [i \in Held(c) |-> [present |-> Cardinality(Attendees(i)),
                      absent |-> EnrolledIn(c) - Cardinality(Attendees(i))]]

\* session_history of the portal: never below 0.
PortalHistory(courses) ==
  [i \in UNION {Held(c) : c \in courses} |->
     [present |-> Cardinality(Attendees(i)),
      absent |-> Max({EnrolledIn(sessions[i].course) - Cardinality(Attendees(i)), 0})]]

\* get_session_detail: all who are registered and not recorded are counted as
\* absent, and those of them whose status is active are offered for a hand mark.
Detail(i, active) ==
  [present |-> Cardinality(Rows(i)), absent |-> EnrolledIn(sessions[i].course) - Cardinality(Rows(i)),
   missing |-> NotCheckedIn(i, active)]

-----------------------------------------------------------------------------
(* Properties *)

\* The class a student's tap is bound to is the one the lecturer's pages show
\* as running, each student's name appearing where the lecturer looks: a
\* class left open yesterday never stands before today's.
WorkspaceShowsTheTapped ==
  \A s \in Students :
    LET i == TapGoesTo(s)
    IN  i # NoClass =>
          /\ Workspace(sessions[i].course).class = i
          /\ Poll(s) = "checked_in" <=> s \in LiveRows(sessions[i].course)

\* The screens that count the rows of a class, those that count who was
\* present or late and the reader at the door give the same number.
SameCountEverywhere ==
  /\ \A i \in Ids : Cardinality(Rows(i)) = Present(i)
  /\ \A c \in Courses, i \in Ids, active \in SUBSET Students :
       i \in Held(c) => /\ Detail(i, active).present = SessionHistory(c)[i].present
                        /\ Detail(i, active).absent = SessionHistory(c)[i].absent
  /\ \A row \in ActivePage(Courses) : row.present = Present(row.class)

\* Present and absent add up to the class, and the absent are those who may
\* still be marked and those who are suspended, expelled or gone, whoever they
\* are, unless someone recorded has dropped the course since; the app may then
\* show fewer absent than the portal, even less than none.
AbsentAreTheMissing ==
  \A c \in Courses, i \in Ids, active \in SUBSET Students :
    i \in Held(c) =>
      \/ /\ Detail(i, active).absent =
              Cardinality(Detail(i, active).missing)
                + Cardinality(Class(c) \ (active \cup Rows(i)))
         /\ PortalHistory(Courses)[i] = SessionHistory(c)[i]
      \/ Rows(i) \ Class(c) # {}

\* A class is started from a slot that the lecturer's week and the week of
\* every student of the course show.
StartedFromTheWeek ==
  \A c \in Current(Courses) :
    SlotFor(c) # NoSlot =>
      /\ SlotFor(c) \in Week({c})
      /\ \A s \in Class(c) : SlotFor(c) \in StudentWeek(s)

\* The number of classes a lecturer has running is that of the cards that
\* say so and of the running classes of courses of another semester.
RunningAreOnTheCards ==
  LET app == Dashboard(Courses)
      portal == PortalDashboard(Courses)
      others == {i \in portal.active : sessions[i].course \notin Current(Courses)}
  IN  /\ app.active = Cardinality({c \in DOMAIN app.cards : app.cards[c].class # NoClass})
                        + Cardinality(others)
      /\ \A c \in DOMAIN portal.cards :
           /\ portal.cards[c].live <=> app.cards[c].class # NoClass
           /\ portal.cards[c].classes - app.cards[c].figure.held = IF portal.cards[c].live THEN 1 ELSE 0

\* A lecturer sees the same class, the same people and the same numbers on
\* every page of the portal and the app, at the door, and in the students'
\* own lists (blueprints/lecturer.py, api/lecturer.py).
LecturerSeesTheClass ==
  /\ WorkspaceShowsTheTapped /\ SameCountEverywhere /\ AbsentAreTheMissing
  /\ StartedFromTheWeek /\ RunningAreOnTheCards
=============================================================================
