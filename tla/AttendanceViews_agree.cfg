SPECIFICATION RecordSpec
CONSTANTS
  c1 = c1  c2 = c2  m1 = m1  m2 = m2  r1 = r1  r2 = r2
  Students = {s1, s2}
  Courses = {c1, c2}
  Semesters = {m1, m2}
  Rooms = {r1, r2}
  SemesterOf <- Given
  Slots <- Weekday
  Grace = 0
  Forms <- Entries
  LateAfter = 1
  LastHour = 1
  MaxSessions = 2
  Threshold = 50
  MinSessions = 2
SYMMETRY Symmetry
INVARIANTS FiguresAgree TapIsWhatIsShown BoardIsTheDay LecturerSeesTheClass
PROPERTIES FallsOnlyAtTheEnd
CHECK_DEADLOCK FALSE
