-------------------------- MODULE MCAttendanceViews --------------------------
(* Small instances of the screens for TLC: a course of                       *)
(* the first semester that meets twice on the day, and one of no semester    *)
(* that is on the timetable of the second and still a draft in the first.    *)
EXTENDS LecturerScreens

CONSTANTS c1, c2, m1, m2, r1, r2

SlotAt(c, m, from, to, r, p) ==
  [course |-> c, semester |-> m, start |-> from, end |-> to, room |-> r, published |-> p]
Weekday == << SlotAt(c2, m1, 0, 1, r1, FALSE), SlotAt(c1, m1, 0, 1, r1, TRUE),
              SlotAt(c2, m2, 0, 1, r1, TRUE), SlotAt(c1, m1, 1, 2, NoRoom, TRUE) >>
Given == c1 :> m1 @@ c2 :> NoSemester
Entries == {<<NoHour, NoRoom>>, <<1, r2>>}
\* Students are interchangeable.
Symmetry == Permutations(Students)
=============================================================================
