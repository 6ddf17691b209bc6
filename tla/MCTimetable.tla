----------------------------- MODULE MCTimetable -----------------------------
(* A small instance of Timetable for TLC: two courses with a lecturer each   *)
(* at first; two adjacent hours; one room, or none.  The plans move          *)
(* a class to another hour, give its place to the other course, and issue it *)
(* again without its room.                                                   *)
EXTENDS Timetable

CONSTANTS c1, c2, l1, l2, s1, r1

Early == <<8, 10>>
Late == <<10, 12>>
TwoHours == {Early, Late}
Teach == {c1 :> {l1} @@ c2 :> {l2}}
Attend == c1 :> {s1} @@ c2 :> {}

ClassAt(c, t, r) == [course |-> c, time |-> t, room |-> r]
Taught == {ClassAt(c1, Early, r1)}
SmallForms == {ClassAt(c1, Late, r1), ClassAt(c2, Early, r1)}
SmallPlans == {{ClassAt(c1, Early, NoRoom)}, {ClassAt(c2, Early, r1)},
               {ClassAt(c1, Late, r1), ClassAt(c2, Early, r1)}}
\* Request threads are interchangeable.
Symmetry == Permutations(Requests)
=============================================================================
