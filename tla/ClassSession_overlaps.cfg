SPECIFICATION SessionSpec
CONSTANTS
  Courses = {c1, c2}
  Lecturers = {l1, l2}
  MaxSessions = 3
  MaxDay = 2
INVARIANTS DuplicatesCrossed
PROPERTIES EndClosesAll EndedForever StaleEventuallyClosed
CHECK_DEADLOCK FALSE
