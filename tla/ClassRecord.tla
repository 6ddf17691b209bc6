----------------------------- MODULE ClassRecord -----------------------------
(***************************************************************************)
(* The rows every screen about classes is computed from: the classes that  *)
(* lecturers start and end, who attended them, who is registered for what, *)
(* the active semester and the time of day (models.py; the writers are in  *)
(* utils.py and api/student.py).                                           *)
(*                                                                         *)
(* Every screen is one transaction that reads and writes nothing, so it is *)
(* an operator on these rows (AttendanceFigures, TodayBoard); every write  *)
(* is one step here.  Races inside a write are the subject of ClassSession *)
(* and CheckIn.                                                            *)
(*                                                                         *)
(* Abstracted: the clock is in units of LATE_AFTER; only one weekday has   *)
(* classes; the planned end of a class.  Who has left the school is no     *)
(* row here: two screens leave those students out, whoever they are.       *)
(***************************************************************************)
EXTENDS Integers, FiniteSetsExt, SequencesExt

CONSTANTS
  Students, Courses, Semesters, Rooms,
  SemesterOf,     \* courses.semester_id
  Slots,          \* the weekday's timetable rows, in the order of their start
  Grace,          \* LATE_GRACE_MINUTES
  Forms,          \* planned start and room a lecturer may type, or not
  LastHour,       \* bound: the day ends after it
  MaxSessions     \* bound: classes started

NoSemester == "no semester"
NoRoom == "no room"
NoSlot == 0
NoHour == -1
Hours == 0..LastHour

Slot == [course : Courses, semester : Semesters, start : Hours, end : Nat,
         room : Rooms \cup {NoRoom}, published : BOOLEAN]

\* Every way to make a slot refuses one that does not end after it starts
\* (_validate_timetable_slot, _check).
ASSUME RecordAssumption ==
  /\ IsFiniteSet(Students) /\ IsFiniteSet(Courses)
  /\ SemesterOf \in [Courses -> Semesters \cup {NoSemester}]
  /\ Slots \in Seq(Slot)
  /\ \A k \in DOMAIN Slots : Slots[k].start < Slots[k].end
  /\ \A k, l \in DOMAIN Slots : k < l => Slots[k].start <= Slots[l].start
  /\ Forms \subseteq ({NoHour} \cup Hours) \X (Rooms \cup {NoRoom})
  /\ Grace \in Nat /\ LastHour \in Nat /\ MaxSessions \in Nat

VARIABLES
  sessions,       \* class_sessions, the id is the place
  attendance,     \* the status each student has in each class, or none
  enrolled,       \* enrollments
  semester,       \* the active semester
  now             \* campus_now

record == <<sessions, attendance, enrolled, semester, now>>

Ids == DOMAIN sessions

\* Nothing writes an absent row: a student without one was not there
\* (utils.py 219-224).
RecordTypeOK ==
  /\ sessions \in Seq([course : Courses, today : BOOLEAN, running : BOOLEAN,
                       slot : {NoSlot} \cup DOMAIN Slots, start : {NoHour} \cup Hours,
                       room : Rooms \cup {NoRoom}])
  /\ attendance \in [Ids -> [Students -> {"none", "present", "late"}]]
  /\ enrolled \subseteq Students \X Courses
  /\ semester \in Semesters \cup {NoSemester}
  /\ now \in Hours

-----------------------------------------------------------------------------
(* The semester and the timetable *)

\* current_courses, in_current_semester: every course when none is active.
InSemester(c, m) == m = NoSemester \/ SemesterOf[c] \in {NoSemester, m}

\* Today's slots of semester m, in order.
SlotsOf(m) == {k \in DOMAIN Slots : Slots[k].published /\ Slots[k].semester = m}

\* resolve_timetable_slot_for_course: the slot on now, else the next one,
\* else the last.
SlotFor(c) ==
  LET mine == {k \in SlotsOf(semester) : Slots[k].course = c}
      open == {k \in mine : Slots[k].end > now}
  IN  IF mine = {} THEN NoSlot ELSE IF open = {} THEN Max(mine) ELSE Min(open)

Leftover(i) == sessions[i].running /\ ~sessions[i].today
Running(i) == sessions[i].running /\ sessions[i].today

-----------------------------------------------------------------------------
RecordInit ==
  /\ sessions = <<>> /\ attendance = <<>>
  /\ enrolled = Students \X Courses
  /\ semester \in Semesters \cup {NoSemester}
  /\ now = 0

\* Start ends what an earlier day left running of the course.
AllSessions(c) == sessions
WithoutLeftovers(c) ==
  [i \in Ids |-> IF sessions[i].course = c /\ Leftover(i) THEN [sessions[i] EXCEPT !.running = FALSE]
                                                        ELSE sessions[i]]

\* start_class_session, with the planned start and the room typed or not.
StartClass(c, typed, room) ==
  LET k == SlotFor(c)
      new == [course |-> c, today |-> TRUE, running |-> TRUE, slot |-> k,
              start |-> IF typed = NoHour /\ k # NoSlot THEN Slots[k].start ELSE typed,
              room |-> IF room = NoRoom /\ k # NoSlot THEN Slots[k].room ELSE room]
  IN  /\ Len(sessions) < MaxSessions
      /\ InSemester(c, semester)
      /\ ~\E i \in Ids : sessions[i].course = c /\ Running(i)
      /\ sessions' = Append(WithoutLeftovers(c), new)
      /\ attendance' = Append(attendance, [s \in Students |-> "none"])
      /\ UNCHANGED <<enrolled, semester, now>>

\* end_class_session: every running class of the course.
EndClass(c) ==
  /\ \E i \in Ids : sessions[i].course = c /\ sessions[i].running
  /\ sessions' = [i \in Ids |-> IF sessions[i].course = c
                                  THEN [sessions[i] EXCEPT !.running = FALSE]
                                  ELSE sessions[i]]
  /\ UNCHANGED <<attendance, enrolled, semester, now>>

\* close_stale_sessions
Sweep ==
  /\ \E i \in Ids : Leftover(i)
  /\ sessions' = [i \in Ids |-> IF Leftover(i) THEN [sessions[i] EXCEPT !.running = FALSE]
                                              ELSE sessions[i]]
  /\ UNCHANGED <<attendance, enrolled, semester, now>>

\* compute_attendance_status
Late(i) == sessions[i].start # NoHour /\ now > sessions[i].start + Grace
StatusNow(i) == IF Late(i) THEN "late" ELSE "present"

Recorded(s, i) == attendance[i][s] # "none"

Enter(s, i, status) ==
  /\ <<s, sessions[i].course>> \in enrolled /\ ~Recorded(s, i)
  /\ attendance' = [attendance EXCEPT ![i][s] = status]
  /\ UNCHANGED <<sessions, enrolled, semester, now>>

\* submit_checkin_beacon, submit_ble_checkin: a token of a class still on.
CheckIn(s, i) == Running(i) /\ Enter(s, i, StatusNow(i))

\* mark_student_present: in any class, ended ones too.
MarkByHand(s, i) == Enter(s, i, "present")

\* register_course, drop_course: courses of the active semester only.
Open(c) == semester # NoSemester /\ SemesterOf[c] = semester

Register(s, c) ==
  /\ Open(c) /\ enrolled' = enrolled \cup {<<s, c>>}
  /\ UNCHANGED <<sessions, attendance, semester, now>>

Drop(s, c) ==
  /\ Open(c) /\ enrolled' = enrolled \ {<<s, c>>}
  /\ UNCHANGED <<sessions, attendance, semester, now>>

\* courses_page, enroll_student: an admin may, in any course.
EnrollStudent(s, c) ==
  /\ <<s, c>> \notin enrolled /\ enrolled' = enrolled \cup {<<s, c>>}
  /\ UNCHANGED <<sessions, attendance, semester, now>>

\* activate_semester
Activate(m) ==
  /\ semester' = m
  /\ UNCHANGED <<sessions, attendance, enrolled, now>>

Tick ==
  /\ now < LastHour /\ now' = now + 1
  /\ UNCHANGED <<sessions, attendance, enrolled, semester>>

NextDay ==
  /\ now' = 0
  /\ sessions' = [i \in Ids |-> [sessions[i] EXCEPT !.today = FALSE]]
  /\ UNCHANGED <<attendance, enrolled, semester>>

RecordNext ==
  \/ \E c \in Courses, form \in Forms : StartClass(c, form[1], form[2])
  \/ \E c \in Courses : EndClass(c)
  \/ Sweep
  \/ \E s \in Students, i \in Ids : CheckIn(s, i) \/ MarkByHand(s, i)
  \/ \E s \in Students, c \in Courses : Register(s, c) \/ Drop(s, c) \/ EnrollStudent(s, c)
  \/ \E m \in Semesters : Activate(m)
  \/ Tick
  \/ NextDay

RecordSpec == RecordInit /\ [][RecordNext]_record
=============================================================================
