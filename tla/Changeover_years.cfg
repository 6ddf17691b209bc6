SPECIFICATION Spec
CONSTANTS
  Students = {s1}
  Departments = {d1}
  Semesters = {x1, x2}
  Levels = {4, 5}
  ProgrammeYears = {5}
  OtherStatuses = {"suspended", "graduated"}
  AcademicYears = {"y1", "y2"}
  Forms <- SmallForms
  Requests = {r1, r2}
  MaxRun = 2
  MaxHand = 3
SYMMETRY Symmetry
INVARIANTS LevelAccounts LoginFollowsStatus PromotionIsOnePlan
PROPERTIES AlwaysOneSemester
CHECK_DEADLOCK FALSE
