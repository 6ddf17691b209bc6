SPECIFICATION Spec
CONSTANTS
  Staff = {p1, p2}
  Departments = {d1, d2}
  Courses = {c1, c2}
  Requests = {r1, r2}
  MaxBegun = 5
SYMMETRY Symmetry
INVARIANTS LoginsAgree CoursesAreTaught
PROPERTIES NobodyLosesAClass CopiesAreTaught
CHECK_DEADLOCK FALSE
