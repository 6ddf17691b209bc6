SPECIFICATION Spec
CONSTANTS
  Students = {s1}
  Courses = {c1}
  OpenCourses = {c1}
  Lecturers = {l1}
  Workers = {w1, w2}
  MaxSessions = 2
  MaxDay = 0
  RoomCheck = "enforce"
  Ttl = 1
  MaxLag = 0
  MaxClock = 2
  MaxTokens = 1
INVARIANTS ReviewAgreesWithRegister CreditIsEarned
PROPERTIES RefinesRegister SettledStaysSettled
CHECK_DEADLOCK FALSE
