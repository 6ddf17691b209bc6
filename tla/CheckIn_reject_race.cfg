SPECIFICATION Spec
CONSTANTS
  Students = {s1}
  Courses = {c1}
  OpenCourses = {c1}
  Lecturers = {l1}
  Workers = {w1, w2}
  MaxSessions = 1
  MaxDay = 0
  RoomCheck = "flag"
  Ttl = 1
  MaxLag = 1
  MaxClock = 3
  MaxTokens = 1
INVARIANTS RejectedNotCredited
CHECK_DEADLOCK FALSE
