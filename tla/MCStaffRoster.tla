--------------------------- MODULE MCStaffRoster ---------------------------
(* Small instances of StaffRoster for TLC: staff, departments, courses and   *)
(* request threads are interchangeable.                                      *)
EXTENDS StaffRoster, TLC

Symmetry == Permutations(Staff) \cup Permutations(Departments)
              \cup Permutations(Courses) \cup Permutations(Requests)
=============================================================================
