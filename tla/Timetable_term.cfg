SPECIFICATION Spec
CONSTANTS
  c1 = c1  c2 = c2  l1 = l1  l2 = l2  s1 = s1  r1 = r1
  Courses = {c1, c2}
  Rooms = {r1}
  Students = {s1}
  Lecturers = {l1, l2}
  Times <- TwoHours
  Teachings <- Teach
  Registered <- Attend
  LastYear <- Taught
  Plans <- SmallPlans
  Forms <- SmallForms
  Requests = {q1, q2}
  MaxBegun = 3
  MaxStarted = 1
  MaxDay = 1
SYMMETRY Symmetry
INVARIANTS NoDoubleBooking LastWordIsCurrent
PROPERTIES NobodyToldTwice PublishKeepsHistory
CHECK_DEADLOCK FALSE
