SPECIFICATION SessionSpec
CONSTANTS
  Courses = {c1}
  Lecturers = {l1, l2}
  MaxSessions = 3
  MaxDay = 1
INVARIANTS OneRunningPerCourse
CHECK_DEADLOCK FALSE
