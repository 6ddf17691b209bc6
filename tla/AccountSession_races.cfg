SPECIFICATION Spec
CONSTANTS
  Accounts = {a1, a2}
  Students = {a1, a2}
  Phones = {p1, p2}
  Threads = {r1, r2}
  MaxToken = 2
  MaxAdmin = 1
  Disturbances = {"lost answer", "server error"}
SYMMETRY Symmetry
INVARIANTS OffMeansRevoked OneAccountPerPhone
PROPERTIES OnlyCurrentTokenRotates MovesOnlyByUnbind OnlyEndedSessionsEnd
CHECK_DEADLOCK FALSE
